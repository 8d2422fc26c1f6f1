---------------------------- MODULE PriceEngine ----------------------------
(***************************************************************************)
(* The price engine of a Steam page (shared/price-engine.ts): its copy of  *)
(* the stored prices, rates and settings, read when the page starts and    *)
(* again with every change of the settings it hears of                     *)
(* (content-scripts/steam/inventory.ts, trade-offer.ts), and the price it  *)
(* gives an item.  A price is the row and the source it is from.           *)
(* External: chrome.storage, which answers in order and tells of a change  *)
(* after the reads before it; what writes it is the popup and the worker   *)
(* (ExtensionSettings, PriceRefresh).                                      *)
(***************************************************************************)
EXTENDS Naturals, Sequences, SequencesExt

CONSTANTS
  Tags,          \* the items of the page
  PriceSources,  \* PHASE_SOURCE_FALLBACK, in its order (buff163_buy, which it lacks, left out)
  MoneyOf,       \* the currencies on offer; "USD" is one
  MaxSwitches    \* bound: changes of the settings

Rows == {"phase", "exact", "base"}   \* base: the name without StatTrak or Souvenir
SourceSet == ToSet(PriceSources)

ASSUME EngineAssumption ==
  /\ "USD" \in MoneyOf /\ PriceSources \in Seq(STRING) /\ PriceSources # <<>>
  /\ MaxSwitches \in Nat

VARIABLES
  book,     \* storage: by row the sources with a price; a row that is not there has none
  rated,    \* storage: the currencies with a rate
  wanted,   \* storage: the currency and the source, where there are any
  switches, \* changes so far
  page,     \* which page, how far it is, and whether it hears of changes
  unheard,  \* changes it has not heard of yet
  copy,   \* its copy, and loaded
  loads,    \* its reads of the storage under way, the oldest first
  items,    \* the prices of the items of the inventories the page has read
  labels,   \* the prices on the items it has drawn
  missed, lostRead   \* a change came before the page listened; a read failed

engineVars ==
  <<book, rated, wanted, switches, page, unheard, copy, loads, items, labels,
    missed, lostRead>>

Selections == [currency : MoneyOf, source : SourceSet]
Unset == [currency |-> "unset", source |-> "unset"]
Prices == Rows \X SourceSet
NoPrice == <<"none", Head(PriceSources)>>
\* A price, the bid of the first source beside it, the sign, and whether the amount is in dollars.
Label == [price : Prices \cup {NoPrice}, bid : Prices \cup {NoPrice}, sign : MoneyOf,
          dollars : BOOLEAN]
NoLabel == [price |-> NoPrice, bid |-> NoPrice, sign |-> "USD", dollars |-> FALSE]
Default == [currency |-> "USD", source |-> Head(PriceSources)]

EngineTypeOK ==
  /\ book \in [Rows -> SUBSET SourceSet] /\ rated \subseteq MoneyOf
  /\ wanted \in Selections \cup {Unset}
  /\ switches \in 0..MaxSwitches /\ unheard \in 0..MaxSwitches
  /\ page \in [kind : {"inventory", "trade offer"}, at : {"starting", "waiting", "listening"}]
  /\ copy \in [settings : Selections, filled : BOOLEAN, loaded : BOOLEAN]
  /\ \A i \in DOMAIN loads :
       loads[i] \in [pc : {"asked", "failed", "read"}, got : Selections \cup {Unset}]
  /\ items \in [Tags -> Label] /\ labels \in [Tags -> Label] /\ {missed, lostRead} \subseteq BOOLEAN

Asked == [pc |-> "asked", got |-> Default]
Bare == [i \in Tags |-> NoLabel]

EngineInit ==
  /\ book \in [Rows -> SUBSET SourceSet]
  /\ rated \in {{}, MoneyOf \ {"USD"}} /\ wanted \in Selections \cup {Unset}
  /\ switches = 0 /\ unheard = 0
  /\ page \in [kind : {"inventory", "trade offer"}, at : {"starting"}]
  /\ copy = [settings |-> Default, filled |-> FALSE, loaded |-> FALSE]
  /\ loads = <<Asked>> /\ items = Bare /\ labels = Bare /\ missed = FALSE /\ lostRead = FALSE

(***************************************************************************)
(* The price of an item, by the engine's copy.                             *)
(***************************************************************************)
Held(e, row) == IF e.filled THEN book[row] ELSE {}

\* The first of a list that is one of these; there is one.
Earliest(seq, these) ==
  seq[CHOOSE k \in DOMAIN seq : seq[k] \in these /\ \A h \in 1..(k - 1) : seq[h] \notin these]

OnlyPreferred(e, row, source) == IF source \in Held(e, row) THEN <<row, source>> ELSE NoPrice
\* pickPhaseCents: the source asked for, or the first one there is.
PickPhase(e, row, source) ==
  IF source \in Held(e, row) \/ Held(e, row) = {} THEN OnlyPreferred(e, row, source)
  ELSE <<row, Earliest(PriceSources, Held(e, row))>>

\* getPrice: of the phase, of the name, of the name without its prefix.
GetPrice(e) ==
  LET source == e.settings.source
  IN IF PickPhase(e, "phase", source) # NoPrice THEN PickPhase(e, "phase", source)
     ELSE IF OnlyPreferred(e, "exact", source) # NoPrice THEN OnlyPreferred(e, "exact", source)
     ELSE OnlyPreferred(e, "base", source)

\* getBuffPrices: of the first row that is there, whether it has one or not.
GetBuffPrices(e) ==
  LET there == {r \in Rows : Held(e, r) # {}}
  IN IF there = {} THEN NoPrice
     ELSE OnlyPreferred(e, Earliest(<<"phase", "exact", "base">>, there), Head(PriceSources))

\* formatPrice: the sign of the currency, and the dollars where it has no rate.
Formatted(e) ==
  [price |-> GetPrice(e), bid |-> GetBuffPrices(e), sign |-> e.settings.currency,
   dollars |-> ~e.filled \/ e.settings.currency \notin rated]

Labelled(i) == labels[i] # NoLabel
\* An item of no inventory the page has read is priced as it is drawn.
LabelFor(i, e, priced) == IF priced[i] # NoLabel THEN priced[i] ELSE Formatted(e)

(***************************************************************************)
(* The reads.                                                              *)
(***************************************************************************)
\* chrome.storage answers the oldest read, or fails it.
StorageAnswers ==
  /\ \E i \in DOMAIN loads :
       /\ loads[i] = Asked /\ \A h \in 1..(i - 1) : loads[h] # Asked
       /\ \E failed \in BOOLEAN :
            /\ loads' = [loads EXCEPT ![i] = [pc |-> IF failed THEN "failed" ELSE "read",
                                              got |-> wanted]]
            /\ lostRead' = (lostRead \/ failed)
  /\ UNCHANGED <<book, rated, wanted, switches, page, unheard, copy, items, labels, missed>>

Picked(stored) == IF stored = Unset THEN Default ELSE stored

AfterRead(read) ==
  IF read.pc = "failed" THEN [copy EXCEPT !.loaded = TRUE]
  ELSE [settings |-> Picked(read.got), filled |-> TRUE, loaded |-> TRUE]

\* _doInit, and what awaits it: the page goes on, or repaints what it has drawn; the inventory
\* page prices its items again before it does.
LoadEnds ==
  /\ loads # <<>> /\ Head(loads) # Asked
  /\ copy' = AfterRead(Head(loads)) /\ loads' = Tail(loads)
  /\ page' = IF page.at # "starting" THEN page
             ELSE [page EXCEPT !.at = IF page.kind = "inventory" THEN "listening" ELSE "waiting"]
  /\ items' = [i \in Tags |-> IF page.kind = "inventory" /\ items[i] # NoLabel
                              THEN Formatted(copy') ELSE items[i]]
  /\ labels' = [i \in Tags |-> IF Labelled(i) THEN LabelFor(i, copy', items') ELSE NoLabel]
  /\ UNCHANGED <<book, rated, wanted, switches, unheard, missed, lostRead>>

\* The page of an offer waits for Steam to change it before it goes on and listens.
Listens ==
  /\ page.at = "waiting" /\ page' = [page EXCEPT !.at = "listening"]
  /\ UNCHANGED <<book, rated, wanted, switches, unheard, copy, loads, items, labels,
                 missed, lostRead>>

\* mutant: reload awaits a read under way
JoinsTheRead == IF loads = <<>> THEN <<Asked>> ELSE loads
Reload == Append(loads, Asked)

\* chrome.storage.onChanged: reload, which reads whatever is under way.
ChangeIsHeard ==
  /\ unheard > 0 /\ unheard' = unheard - 1 /\ page.at # "starting"
  /\ IF page.at = "listening"
     THEN loads' = Reload /\ copy' = [copy EXCEPT !.loaded = FALSE] /\ UNCHANGED missed
     ELSE missed' = TRUE /\ UNCHANGED <<loads, copy>>
  /\ UNCHANGED <<book, rated, wanted, switches, page, items, labels, lostRead>>

(***************************************************************************)
(* The user, and the page.                                                 *)
(***************************************************************************)
SettingsSwitch ==
  /\ switches < MaxSwitches /\ switches' = switches + 1   \* bound
  /\ wanted' \in Selections \ {wanted} /\ unheard' = unheard + 1
  /\ UNCHANGED <<book, rated, page, copy, loads, items, labels,
                 missed, lostRead>>

\* buildInventory, addPricesToInventory.
InventoryRead ==
  /\ page.at = "listening" /\ items = Bare
  /\ \E read \in SUBSET Tags \ {{}} :
       items' = [i \in Tags |-> IF i \in read THEN Formatted(copy) ELSE NoLabel]
  /\ UNCHANGED <<book, rated, wanted, switches, page, unheard, copy, loads, labels, missed,
                 lostRead>>

\* An item comes into view: addPerItemInfo.
LabelDrawn(i) ==
  /\ page.at = "listening" /\ ~Labelled(i) /\ (page.kind = "inventory" => items[i] # NoLabel)
  /\ labels' = [labels EXCEPT ![i] = LabelFor(i, copy, items)]
  /\ UNCHANGED <<book, rated, wanted, switches, page, unheard, copy, loads, items, missed,
                 lostRead>>

EngineNext ==
  \/ StorageAnswers \/ LoadEnds \/ Listens \/ ChangeIsHeard \/ SettingsSwitch \/ InventoryRead
  \/ \E i \in Tags : LabelDrawn(i)

EngineSpec == EngineInit /\ [][EngineNext]_engineVars

Quiet == page.at = "listening" /\ unheard = 0 /\ loads = <<>> /\ ~lostRead

\* Once every change is heard and every read is done, what is drawn shows the currency and the
\* source of the settings, however changes, reads, rows and repaints overlapped: on the inventory
\* page, and on an offer that heard of every change for the items of no inventory.
LabelsFollowSettings ==
  Quiet /\ ~missed => \A i \in Tags :
    Labelled(i) /\ (page.kind = "inventory" \/ items[i] = NoLabel) =>
      labels[i] = Formatted([copy EXCEPT !.settings = Picked(wanted)])

\* price-engine.ts:44: "A phase-correct price from any source beats a phase-blended one from the
\* preferred source": no item whose phase has a price wears that of its name.
PhasesAreNotBlended ==
  \A i \in Tags : labels[i].price # NoPrice /\ book["phase"] # {} => labels[i].price[1] = "phase"

\* A price that is drawn is the one the settings ask for, of the item as it is.
LabelsAreRight == LabelsFollowSettings /\ PhasesAreNotBlended

\* (Violated.) trade-offer.ts:1761 of the repaint: "Clear processed flags so items get re-rendered
\* with new currency".
OffersFollowSettings ==
  Quiet /\ ~missed => \A i \in Tags : Labelled(i) => labels[i].sign = Picked(wanted).currency

\* (Violated.) price-engine.ts:114: "price in user's currency (dollars, not cents)".
SignsAreTrue ==
  \A i \in Tags : labels[i].price # NoPrice /\ labels[i].dollars => labels[i].sign = "USD"
=============================================================================
