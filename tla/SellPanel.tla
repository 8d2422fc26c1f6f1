----------------------------- MODULE SellPanel -----------------------------
(***************************************************************************)
(* What the inventory page puts beside Steam's panel of the open item: the *)
(* lookup links of every place an item is shown at and the one panel that  *)
(* sells (content-scripts/steam/inventory.ts, injectLookupLinksNearInspect *)
(* and what calls it; injectSellPanel of sell-ui.ts).                      *)
(*                                                                         *)
(* What the buttons do is MarketSale's.  External: Steam's page, which may *)
(* keep or drop what was put beside a place it shows anew, and its books.  *)
(***************************************************************************)
EXTENDS Integers, FiniteSets

CONSTANTS
  Goods,       \* the items
  TitleOf,     \* the name Steam shows of each
  NoGood,
  NumDelays,   \* the retries of a failed injection: 4 in the code
  MaxShows,    \* bound: renderings of Steam
  MaxLists     \* bound: changes of the extension's list

ASSUME SellPanelAssumption ==
  /\ NoGood \notin Goods /\ DOMAIN TitleOf = Goods
  /\ NumDelays \in Nat \ {0} /\ MaxShows \in Nat /\ MaxLists \in Nat

VARIABLES
  places,      \* the item at each place and what marks it: the game's icon, the inspect link
  blocks,      \* the lookup links beside a place
  itemPanel,   \* the one panel, or none
  listed,      \* inventory.ts's items
  frame,       \* the observer's frame is due
  backoff,     \* the retries that are due, by the delay they wait for
  clickTimers, \* what is due after a click on an item
  shows, lists

sellPanelVars == <<places, blocks, itemPanel, listed, frame, backoff, clickTimers, shows, lists>>

\* Both of the old page's places (iteminfo0 and iteminfo1); the new page has one.
Places == 1..2
Empty == [good |-> NoGood, marks |-> {}]
Views == [good : Goods, marks : SUBSET {"icon", "inspect"}]
NoBlock == [title |-> NoGood, about |-> NoGood]
NoPanel == [at |-> 0, good |-> NoGood, prices |-> "none"]
Delays == 1..NumDelays
Titles == {TitleOf[g] : g \in Goods}

SellPanelTypeOK ==
  /\ places \in [Places -> {Empty} \cup Views]
  /\ blocks \in [Places -> [title : Titles \cup {NoGood}, about : Goods \cup {NoGood}]]
  /\ itemPanel \in {NoPanel} \cup
       [at : Places, good : Goods, prices : {"blocked", "none", "loading", "priced"}]
  /\ listed \subseteq Goods /\ frame \in BOOLEAN /\ backoff \subseteq Delays
  /\ clickTimers \subseteq {"lookup", "details"}
  /\ shows \in 0..MaxShows /\ lists \in 0..MaxLists

\* setupLookupObserver finds nothing yet.
SellPanelInit ==
  /\ places = [p \in Places |-> Empty]
  /\ blocks = [p \in Places |-> NoBlock] /\ itemPanel = NoPanel
  /\ listed = {} /\ frame = FALSE /\ backoff = {1} /\ clickTimers = {}
  /\ shows = 0 /\ lists = 0

(***************************************************************************)
(* Injecting.                                                              *)
(***************************************************************************)
Bearing(mark) == {p \in Places : mark \in places[p].marks}

\* findLookupAnchors: the places with the icon, and only without any those with the link.
Anchors == IF Bearing("icon") # {} THEN Bearing("icon") ELSE Bearing("inspect")

Namesakes(p) == {g \in listed : TitleOf[g] = TitleOf[places[p].good]}

\* The item an anchor is about: the one its inspect link names, else the only one so called.
About(p) ==
  IF "inspect" \in places[p].marks
  THEN IF places[p].good \in listed THEN places[p].good ELSE NoGood
  ELSE IF \E g \in listed : Namesakes(p) = {g} THEN CHOOSE g \in listed : Namesakes(p) = {g}
  ELSE NoGood

BlocksBeside ==
  [p \in Places |-> IF p \in Anchors THEN [title |-> TitleOf[places[p].good], about |-> About(p)]
                    ELSE NoBlock]

KeptPanel == itemPanel   \* mutant: only the stale links are removed
PanelWhenCleared == NoPanel

\* The first anchor whose item is known gets the panel.
SellableAt == {p \in Anchors : About(p) # NoGood}
SellPlace == CHOOSE p \in SellableAt : \A q \in SellableAt : p <= q

\* injectSellPanel: the item or the account may be blocked; a cached book is shown at once, none
\* while Steam limits the requests, and else it is asked for.
PanelsFor(p) ==
  {[at |-> p, good |-> About(p), prices |-> pr] : pr \in {"blocked", "priced", "none", "loading"}}

\* tryInject: whatever is there is removed first; without an anchor nothing is done.
Inject ==
  /\ blocks' = BlocksBeside
  /\ itemPanel' \in IF SellableAt # {} THEN PanelsFor(SellPlace) ELSE {PanelWhenCleared}

\* What is due of the retries: the next, if it failed.
InjectOrRetry(rest, next) ==
  IF Anchors = {} THEN backoff' = rest \cup next /\ UNCHANGED <<blocks, itemPanel>>
  ELSE Inject /\ backoff' = rest

FrameRuns ==
  /\ frame /\ frame' = FALSE
  /\ InjectOrRetry(backoff, {1})
  /\ UNCHANGED <<places, listed, clickTimers, shows, lists>>

Retry(k) ==
  /\ k \in backoff
  /\ InjectOrRetry(backoff \ {k}, {k + 1} \cap Delays)
  /\ UNCHANGED <<places, listed, frame, clickTimers, shows, lists>>

\* A tenth of a second after a click.
LookupTimer ==
  /\ "lookup" \in clickTimers /\ clickTimers' = clickTimers \ {"lookup"}
  /\ InjectOrRetry(backoff, {1})
  /\ UNCHANGED <<places, listed, frame, shows, lists>>

\* addRightSideElements, a little later: in the old page the details go, and with a name in the
\* visible place the links are made anew and then the details.  The observer takes details for
\* Steam's, both those that come and those that go.
DetailsTimer ==
  /\ "details" \in clickTimers /\ clickTimers' = clickTimers \ {"details"}
  /\ \/ UNCHANGED <<blocks, itemPanel, backoff>>
     \/ (\E p \in Places : places[p].good # NoGood) /\ InjectOrRetry(backoff, {1})
  /\ frame' \in {frame, TRUE}
  /\ UNCHANGED <<places, listed, shows, lists>>

\* getOrderBook answers a panel that is still there; to one that is gone it says nothing.
BookAnswer ==
  /\ itemPanel.prices = "loading"
  /\ \E prices \in {"priced", "none"} : itemPanel' = [itemPanel EXCEPT !.prices = prices]
  /\ UNCHANGED <<places, blocks, listed, frame, backoff, clickTimers, shows, lists>>

(***************************************************************************)
(* The user, Steam's page and the list.                                    *)
(***************************************************************************)
ClickItem ==
  /\ clickTimers' = {"lookup", "details"}
  /\ UNCHANGED <<places, blocks, itemPanel, listed, frame, backoff, shows, lists>>

\* External: Steam shows an item at a place, or less or more of it, or nothing any more; it may
\* take along what is beside the place.  The observer sees it.
SteamShows ==
  /\ shows < MaxShows   \* bound
  /\ shows' = shows + 1
  /\ \E p \in Places, view \in {Empty} \cup Views :
       /\ view # places[p]
       /\ places' = [places EXCEPT ![p] = view]
       /\ blocks' \in {blocks, [blocks EXCEPT ![p] = NoBlock]}
       /\ itemPanel' \in {itemPanel} \cup IF itemPanel.at = p THEN {NoPanel} ELSE {}
  /\ frame' = TRUE
  /\ UNCHANGED <<listed, backoff, clickTimers, lists>>

\* The list is read anew, or emptied when another game is chosen; the tags that are then made
\* are seen by the observer.
ListChanges ==
  /\ lists < MaxLists   \* bound
  /\ lists' = lists + 1
  /\ \E goods \in SUBSET Goods : goods # listed /\ listed' = goods
  /\ frame' \in {frame, TRUE}
  /\ UNCHANGED <<places, blocks, itemPanel, backoff, clickTimers, shows>>

SellPanelNext ==
  \/ FrameRuns \/ (\E k \in Delays : Retry(k)) \/ LookupTimer \/ DetailsTimer
  \/ BookAnswer \/ ClickItem \/ SteamShows \/ ListChanges

SellPanelSpec == SellPanelInit /\ [][SellPanelNext]_sellPanelVars

(***************************************************************************)
(* Properties                                                              *)
(***************************************************************************)
\* Once the observer's frame has run, what stands beside an item is about that item: the panel
\* sells it and the links look it up, and where Steam's link names the asset it is that asset,
\* not another of the name and never the item that was open before.
IsOf(g, p) ==
  /\ TitleOf[g] = TitleOf[places[p].good]
  /\ "inspect" \in places[p].marks => g = places[p].good
PanelSellsTheOpenItem ==
  ~frame =>
    /\ itemPanel.at \in Anchors => IsOf(itemPanel.good, itemPanel.at)
    /\ \A p \in Anchors : blocks[p].about # NoGood => IsOf(blocks[p].about, p)
=============================================================================
