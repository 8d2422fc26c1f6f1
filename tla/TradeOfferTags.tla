--------------------------- MODULE TradeOfferTags ---------------------------
(***************************************************************************)
(* What the trade offer page says of the items (content-scripts/steam/     *)
(* trade-offer.ts): prices and floats of the entries read from the page,   *)
(* the floats that come later, the tags on the elements and the totals.    *)
(*                                                                         *)
(* A price is the currency it was worked out in.  A tag shows a price and  *)
(* the float of some item.  External: Steam's page and its answers.        *)
(***************************************************************************)
EXTENDS Integers, FiniteSets

CONSTANTS
  OwnItems, PartnerItems,  \* the items of both inventories
  ClassOf,                 \* the class and instance of every item
  NoItem,
  MaxReads,                \* bound: reads of the inventories
  MaxCurrencies            \* bound: changes of the settings

OfferItems == OwnItems \cup PartnerItems

ASSUME TagsAssumption ==
  /\ MaxReads \in Nat /\ MaxCurrencies \in Nat /\ NoItem \notin OfferItems
  /\ DOMAIN ClassOf = OfferItems

VARIABLES
  present,   \* the items with an element on the page
  entries,   \* combinedInventories: the first entry of every item it has
  labels,    \* the tag of every tagged element
  totals,    \* the totals of the items in the trade: the sign, and the currencies added up
  enrich,    \* enrichWithAssetProperties, and whether it found a float that was new
  engine,    \* the currency the price engine was loaded for
  chosen,    \* the currency of the settings
  reads      \* reads of the inventories so far

tagsVars == <<present, entries, labels, totals, enrich, engine, chosen, reads>>

TagsTypeOK ==
  /\ present \subseteq OfferItems /\ DOMAIN entries \subseteq OfferItems
  /\ \A a \in DOMAIN entries :
       entries[a] \in [currency : 0..MaxCurrencies, float : {"none", "page", "answer"}]
  /\ DOMAIN labels \subseteq present
  /\ \A a \in DOMAIN labels :
       labels[a] \in [currency : 0..MaxCurrencies, floatOf : OfferItems \cup {NoItem}]
  /\ totals.sign \in 0..MaxCurrencies /\ totals.summed \subseteq 0..MaxCurrencies
  /\ enrich \in [at : {"waiting", "own", "partner", "over"}, fresh : BOOLEAN]
  /\ engine \in 0..MaxCurrencies /\ chosen \in 0..MaxCurrencies /\ reads \in 0..MaxReads

TagsInit ==
  /\ present = {} /\ entries = <<>> /\ labels = <<>>
  /\ totals = [sign |-> 0, summed |-> {}]
  /\ enrich = [at |-> "waiting", fresh |-> FALSE]
  /\ engine = 0 /\ chosen = 0 /\ reads = 0

\* External: Steam makes elements, or takes some away.
SteamRenders ==
  /\ \E items \in SUBSET OfferItems : present' = items
  /\ labels' = [a \in DOMAIN labels \cap present' |-> labels[a]]
  /\ UNCHANGED <<entries, totals, enrich, engine, chosen, reads>>

(***************************************************************************)
(* Tags.                                                                   *)
(***************************************************************************)
\* The item an element is looked up as: its own entry, else one of its class
\* (rebuildCombinedLookup), else none but a name (Steam's descriptions).
Lookups(a, known) ==
  IF a \in DOMAIN known THEN {a}
  ELSE {b \in DOMAIN known : ClassOf[b] = ClassOf[a]}

LabelFrom(b, known, currency) ==
  IF b = NoItem THEN [currency |-> currency, floatOf |-> NoItem]
  ELSE [currency |-> known[b].currency, floatOf |-> IF known[b].float = "none" THEN NoItem ELSE b]

\* What the elements without a tag may be looked up as; without an entry only if the name is known.
Untagged(known, old) ==
  {items \in SUBSET (present \ DOMAIN old) :
     \A a \in (present \ DOMAIN old) \ items : Lookups(a, known) = {}}
LookedUp(items, known) ==
  {as \in [items -> OfferItems \cup {NoItem}] :
     \A a \in items : IF Lookups(a, known) # {} THEN as[a] \in Lookups(a, known) ELSE as[a] = NoItem}
TagsAs(as, known, currency, old) ==
  [a \in DOMAIN old \cup DOMAIN as |->
     IF a \in DOMAIN old THEN old[a] ELSE LabelFrom(as[a], known, currency)]

\* addPerItemInfo: they get their tags, priced as of now where there is no entry.
Labelled(known, currency, old) ==
  UNION {{TagsAs(as, known, currency, old) : as \in LookedUp(items, known)} :
           items \in Untagged(known, old)}

\* A sorting, a tab and its timers: whatever is new is tagged.
Reprocess ==
  /\ reads > 0
  /\ labels' \in Labelled(entries, engine, labels)
  /\ UNCHANGED <<present, entries, totals, enrich, engine, chosen, reads>>

\* getItemInfoFromPage, buildInventoryStructure and addPricesToInventory: what is there of
\* both inventories, priced now; an item read before keeps its first entry in the lookups.
WithRead(items, floats) ==
  [a \in DOMAIN entries \cup items |->
     IF a \in DOMAIN entries THEN entries[a]
     ELSE [currency |-> engine, float |-> IF a \in floats THEN "page" ELSE "none"]]

\* addInTradeTotals: the entries of what is in the trade, under the sign of the settings.
TotalsOf(items, known, sign) ==
  [sign |-> sign, summed |-> {known[a].currency : a \in items \cap DOMAIN known}]

\* getInventories, when both are there.
ReadInventories ==
  /\ reads < MaxReads   \* bound
  /\ reads' = reads + 1
  /\ \E items \in {OfferItems, OwnItems, PartnerItems, {}}, floats \in SUBSET OfferItems :
       /\ floats \subseteq items
       /\ entries' = WithRead(items, floats)
       /\ labels' \in Labelled(WithRead(items, floats), engine, labels)
  /\ \/ \E inTrade \in SUBSET OfferItems : totals' = TotalsOf(inTrade, entries', engine)
     \/ UNCHANGED totals   \* not the first read
  /\ UNCHANGED <<present, enrich, engine, chosen>>

\* periodicallyUpdateTotals, every second.
Tick ==
  /\ reads > 0
  /\ \E inTrade \in SUBSET OfferItems : totals' = TotalsOf(inTrade, entries, engine)
  /\ UNCHANGED <<present, entries, labels, enrich, engine, chosen, reads>>

(***************************************************************************)
(* Floats that come later.                                                 *)
(***************************************************************************)
\* mergeFloatData: an answer's floats, for the items that had none.
Merged(items) ==
  [a \in DOMAIN entries |->
     IF a \in items /\ entries[a].float = "none" THEN [entries[a] EXCEPT !.float = "answer"]
     ELSE entries[a]]
PartnerIsNew(items) == Merged(items) # entries   \* mutant: counted anew for the second answer
FoundNew(items) == enrich.fresh \/ Merged(items) # entries

\* It waits for the inventories, at most so long.
EnrichStarts ==
  /\ enrich.at = "waiting"
  /\ enrich' = [enrich EXCEPT !.at = IF DOMAIN entries = {} THEN "over" ELSE "own"]
  /\ UNCHANGED <<present, entries, labels, totals, engine, chosen, reads>>

\* The worker's answer for the own items; a failure merges nothing.
OwnAnswer ==
  /\ enrich.at = "own"
  /\ \E items \in SUBSET OwnItems :
       entries' = Merged(items) /\ enrich' = [at |-> "partner", fresh |-> FoundNew(items)]
  /\ UNCHANGED <<present, labels, totals, engine, chosen, reads>>

\* Steam's answer for the partner's, and if anything was new all tags are made again.
PartnerAnswer ==
  /\ enrich.at = "partner"
  /\ \E items \in SUBSET PartnerItems :
       /\ entries' = Merged(items)
       /\ enrich' = [at |-> "over", fresh |-> FoundNew(items)]
       /\ labels' \in IF FoundNew(items) THEN Labelled(Merged(items), engine, <<>>) ELSE {labels}
  /\ UNCHANGED <<present, totals, engine, chosen, reads>>

(***************************************************************************)
(* Settings.                                                               *)
(***************************************************************************)
ChooseCurrency ==
  /\ chosen < MaxCurrencies   \* bound
  /\ chosen' = chosen + 1
  /\ UNCHANGED <<present, entries, labels, totals, enrich, engine, reads>>

\* The listener: the engine is loaded again, the tags and the totals are made again.
SettingsShown ==
  /\ engine < chosen
  /\ engine' = chosen
  /\ labels' \in Labelled(entries, chosen, <<>>)
  /\ \E inTrade \in SUBSET OfferItems : totals' = TotalsOf(inTrade, entries, chosen)
  /\ UNCHANGED <<present, entries, enrich, chosen, reads>>

TagsNext ==
  \/ SteamRenders \/ Reprocess \/ ReadInventories \/ Tick
  \/ EnrichStarts \/ OwnAnswer \/ PartnerAnswer \/ ChooseCurrency \/ SettingsShown

TagsSpec == TagsInit /\ [][TagsNext]_tagsVars

(***************************************************************************)
(* Properties                                                              *)
(***************************************************************************)
\* When the floats have been asked for, a tagged item whose float came with an answer shows it,
\* its own and no other's: the tags are made again whichever of the two answers brought it.
FetchedFloatsAreShown ==
  enrich.at = "over" =>
    \A a \in DOMAIN labels \cap DOMAIN entries :
      entries[a].float = "answer" => labels[a].floatOf = a
=============================================================================
