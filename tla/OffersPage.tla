----------------------------- MODULE OffersPage -----------------------------
(***************************************************************************)
(* The list of trade offers: reading the offers for display                *)
(* (readTradeOffersForDisplay in background/steam-read-session-provider.ts *)
(* and FETCH_STEAM_TRADE_OFFERS in background/service-worker.ts), marking  *)
(* the page's tiles with them, and the quick accept and decline buttons    *)
(* (content-scripts/steam/trade-offers.ts).                                *)
(*                                                                         *)
(* A tile is the place of an item in a side of an offer.  An item is its   *)
(* kind: two items of a kind have the same class and instance, and only    *)
(* their place tells them apart.  External: Steam.                         *)
(***************************************************************************)
EXTENDS Filtering, FiniteSets

CONSTANTS
  OfferIds,
  MaxItems,    \* bound: items on a side of an offer
  MaxRequests  \* bound: requests in flight per offer

ASSUME OffersAssumption ==
  IsFiniteSet(OfferIds) /\ MaxItems \in Nat /\ MaxRequests \in Nat

Sides == {"your", "their"}
\* "other": an item of another game; "strange": a row that is not even an object.
Kinds == {"skin", "other", "strange"}
Contents == UNION {[1..n -> Kinds] : n \in 0..MaxItems}
Tiles == [offer : OfferIds, side : Sides, at : 1..MaxItems]

VARIABLES
  offers,    \* Steam: the items of every offer; fixed once the page is there
  deal,      \* Steam: what became of every offer
  read,      \* the page: the read of the offers, and of the user's inventory
  priced,    \* the page: the tile of the item every marked tile was marked with
  floats,    \* the same for the float marks
  banner,    \* the page: what it says of every offer
  requests,  \* accept and decline requests on their way to Steam
  answers,   \* Steam's answers on their way to the page
  order      \* the page: the offers from top to bottom

offersVars == <<offers, deal, read, priced, floats, banner, requests, answers, order>>
marks == <<priced, floats>>
deals == <<deal, banner, requests, answers>>

NotLoaded == [o \in OfferIds |-> [s \in Sides |-> <<>>]]

OffersTypeOK ==
  /\ \A o \in OfferIds, s \in Sides : offers[o][s] \in Contents
  /\ deal \in [OfferIds -> {"open", "accepted", "declined"}]
  /\ read \in [offers : {"page", "asked", "done", "failed"},
               floats : {"no", "asked", "done"}]
  /\ DOMAIN priced \subseteq Tiles /\ DOMAIN floats \subseteq Tiles
  /\ banner \in [OfferIds -> {"open", "accepted", "declined"}]
  /\ \A o \in OfferIds, w \in {"accept", "decline"} :
       requests[o][w] \in 0..MaxRequests /\ answers[o][w] \subseteq BOOLEAN
  /\ Len(order) = Cardinality(OfferIds) /\ {order[i] : i \in DOMAIN order} = OfferIds

Unordered ==
  CHOOSE f \in [1..Cardinality(OfferIds) -> OfferIds] : {f[i] : i \in DOMAIN f} = OfferIds

OffersInit ==
  /\ offers = NotLoaded
  /\ deal = [o \in OfferIds |-> "open"]
  /\ read = [offers |-> "page", floats |-> "no"]
  /\ priced = <<>> /\ floats = <<>>
  /\ banner = [o \in OfferIds |-> "open"]
  /\ requests = [o \in OfferIds |-> [w \in {"accept", "decline"} |-> 0]]
  /\ answers = [o \in OfferIds |-> [w \in {"accept", "decline"} |-> {}]]
  /\ order = Unordered

(***************************************************************************)
(* Reading and marking.                                                    *)
(***************************************************************************)
\* init: the page is there, with whatever the offers hold, and asks for them.
PageLoads ==
  /\ read.offers = "page"
  /\ \E found \in [OfferIds -> [Sides -> Contents]] : offers' = found
  /\ read' = [read EXCEPT !.offers = "asked"]
  /\ UNCHANGED <<marks, deals, order>>

\* A row that is not an object fails the whole read.
Readable == \A o \in OfferIds, s \in Sides :
  \A i \in DOMAIN offers[o][s] : offers[o][s][i] # "strange"

RowsOfTheGame(o, s) ==   \* mutant: the rows the portfolio read would keep
  LET kept == SelectSeq([i \in DOMAIN offers[o][s] |-> i],
                        LAMBDA i : offers[o][s][i] = "skin") IN
  {[offer |-> o, side |-> s, kind |-> "skin", position |-> n, row |-> kept[n]] :
     n \in DOMAIN kept}
\* readDisplayItems: every row is kept, at its index in its side of the offer.
RowsOfSide(o, s) ==
  {[offer |-> o, side |-> s, kind |-> offers[o][s][i], position |-> i, row |-> i] :
     i \in DOMAIN offers[o][s]}

\* The flat list the worker answers.
OfferedItems == UNION {RowsOfSide(o, s) : o \in OfferIds, s \in Sides}

\* The tiles of the offers that are still active on the page.
ActiveTiles == {t \in Tiles : t.at \in DOMAIN offers[t.offer][t.side] /\ banner[t.offer] = "open"}

\* findItem: the item of the tile's class and instance at its place in its offer.
Matches(t, item) ==
  /\ item.kind = offers[t.offer][t.side][t.at]
  /\ item.position = t.at /\ item.side = t.side /\ item.offer = t.offer
Found(t) == {item \in OfferedItems : Matches(t, item)}
TileOf(item) == [offer |-> item.offer, side |-> item.side, at |-> item.row]
FirstFound(t) == TileOf(CHOOSE item \in Found(t) : TRUE)

\* Only items of the game have a market name the price list knows.
Priceable(t) == Found(t) # {} /\ offers[t.offer][t.side][t.at] = "skin"

OffersRead ==
  /\ read.offers = "asked" /\ Readable
  /\ read' = [offers |-> "done", floats |-> "asked"]
  /\ priced' = [t \in {u \in ActiveTiles : Priceable(u)} |-> FirstFound(t)]
  /\ UNCHANGED <<offers, floats, deals, order>>

OffersReadFails ==
  /\ read.offers = "asked"
  /\ read' = [read EXCEPT !.offers = "failed"]
  /\ UNCHANGED <<offers, marks, deals, order>>

\* enrichWithFloat: the floats of the user's own items, put on the tile at the item's position.
FloatsRead ==
  /\ read.floats = "asked"
  /\ read' = [read EXCEPT !.floats = "done"]
  /\ \E known \in SUBSET {item \in OfferedItems : item.side = "your" /\ item.kind = "skin"} :
       floats' = [t \in {[offer |-> i.offer, side |-> "your", at |-> i.position] : i \in known} |->
                    TileOf(CHOOSE i \in known : i.offer = t.offer /\ i.position = t.at)]
  /\ UNCHANGED <<offers, priced, deals, order>>

ActiveOffers == {o \in OfferIds : banner[o] = "open"}
ClosedDropped(ranked) == Filtered(ranked, ActiveOffers)   \* mutant
\* sortOffers: the active offers, by what they are worth, go before the first offer left.
SortedOffers(ranked) ==
  Filtered(ranked, ActiveOffers) \o Filtered(order, OfferIds \ ActiveOffers)

SortOffers ==
  /\ read.offers = "done"
  /\ \E ranked \in [DOMAIN order -> OfferIds] :
       /\ {ranked[i] : i \in DOMAIN ranked} = OfferIds
       /\ order' = SortedOffers(ranked)
  /\ UNCHANGED <<offers, read, marks, deals>>

(***************************************************************************)
(* Quick accept and decline: the buttons are there after the read, well or *)
(* badly, and gone with the footer of an offer that was closed here.  They *)
(* can be clicked again while an answer is due.                            *)
(***************************************************************************)
Click(o, what) ==
  /\ read.offers \in {"done", "failed"} /\ banner[o] = "open"
  /\ requests[o][what] < MaxRequests   \* bound
  /\ requests' = [requests EXCEPT ![o][what] = @ + 1]
  /\ UNCHANGED <<offers, deal, read, marks, banner, answers, order>>

\* External: Steam does what still can be done and refuses the rest; its answer may be lost.
Outcome(what) == IF what = "accept" THEN "accepted" ELSE "declined"

SteamDecides(o, what) ==
  LET done == deal[o] = "open" IN
  /\ requests[o][what] > 0
  /\ requests' = [requests EXCEPT ![o][what] = @ - 1]
  /\ deal' = [deal EXCEPT ![o] = IF done THEN Outcome(what) ELSE @]
  /\ \E ok \in {done, FALSE} : answers' = [answers EXCEPT ![o][what] = @ \cup {ok}]
  /\ UNCHANGED <<offers, read, marks, banner, order>>

AnswerIsYes(ok) == ok

\* The first banner stands: it takes the place of the rule it is written into.
Answered(o, what) ==
  \E ok \in answers[o][what] :
    /\ answers' = [answers EXCEPT ![o][what] = @ \ {ok}]
    /\ banner' = [banner EXCEPT ![o] =
                    IF AnswerIsYes(ok) /\ @ = "open" THEN Outcome(what) ELSE @]
    /\ UNCHANGED <<offers, deal, read, marks, requests, order>>

OffersNext ==
  \/ PageLoads \/ OffersRead \/ OffersReadFails \/ FloatsRead \/ SortOffers
  \/ \E o \in OfferIds, what \in {"accept", "decline"} :
       Click(o, what) \/ SteamDecides(o, what) \/ Answered(o, what)

OffersSpec == OffersInit /\ [][OffersNext]_offersVars

(***************************************************************************)
(* Properties                                                              *)
(***************************************************************************)
\* An offer the page shows as accepted was accepted, one shown as declined was declined: with
\* both clicked, in whatever order Steam gets to them and the answers come back.
BannersAreTrue == \A o \in OfferIds : banner[o] # "open" => banner[o] = deal[o]

\* A tile wears the price and the float of its own item, not of one of the same kind or of a
\* neighbour: the provider, the worker and the page agree on how the places are counted.
MarksAreTheirItems ==
  /\ \A t \in DOMAIN priced : priced[t] = t
  /\ \A t \in DOMAIN floats : floats[t] = t

\* What the list says of an offer is so: of what became of it, and of its items.
RowsAreTrue == BannersAreTrue /\ MarksAreTheirItems
=============================================================================
