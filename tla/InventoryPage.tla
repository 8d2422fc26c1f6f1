--------------------------- MODULE InventoryPage ---------------------------
(***************************************************************************)
(* The inventory page (content-scripts/steam/inventory.ts and the          *)
(* extractor it puts into the page, injectToPage/inventoryExtractor.js):   *)
(* four ways to read what Steam's page has loaded of the two contexts,     *)
(* the list they all write, and the tags and the sorting made of it.       *)
(*                                                                         *)
(* An item is its app, context and asset.  External: Steam's page.         *)
(***************************************************************************)
EXTENDS Integers, FiniteSets

CONSTANTS
  Tradable, Held,  \* the items of context 2, and of context 16
  AssetIdOf,       \* their numeric ids, which a context may share with the other
  MaxRechecks,     \* 12 in the code
  MaxTabs          \* bound: clicks on a game

Stock == Tradable \cup Held
Contexts == {"2", "16"}
StockOf(c) == IF c = "2" THEN Tradable ELSE Held

ASSUME InventoryAssumption ==
  /\ MaxRechecks \in Nat /\ MaxTabs \in Nat
  /\ IsFiniteSet(Stock) /\ Tradable \cap Held = {} /\ DOMAIN AssetIdOf = Stock

VARIABLES
  loaded,    \* Steam's page: the items it has
  contexts,  \* Steam's page: what became of LoadMoreAssets
  allLoaded, \* the attribute of the page that says both contexts are loaded
  loading,   \* the list is asked for in full: whether the next try is due
  items,     \* the extension's list
  rechecks,  \* how often the list was checked again
  extractor, \* the script in the page, what it sent last and whether it is to send again
  sent,      \* its message on the way
  tiles,     \* the items with an element on the page, those tagged, and a retry that is set
  sorting,   \* the sorting of the saved order: what was there to sort
  tabs       \* clicks on a game so far, and whether one is to take effect

inventoryVars == <<loaded, contexts, allLoaded, loading, items, rechecks, extractor, sent,
                   tiles, sorting, tabs>>

InventoryTypeOK ==
  /\ loaded \subseteq Stock /\ items \subseteq loaded
  /\ contexts \in [Contexts -> {"page", "asked", "full"}]
  /\ allLoaded \in BOOLEAN /\ loading \in BOOLEAN /\ rechecks \in 0..MaxRechecks
  /\ extractor \in [at : {"polling", "hooked", "stopped"}, last : 0..Cardinality(Stock),
                   again : BOOLEAN]
  /\ sent \in SUBSET SUBSET loaded
  /\ tiles.there \subseteq loaded /\ tiles.tagged \subseteq tiles.there /\ tiles.retry \in BOOLEAN
  /\ sorting.asked \in BOOLEAN /\ sorting.of \subseteq Stock
  /\ tabs \in [clicks : 0..MaxTabs, due : BOOLEAN]

\* init: the list is asked for in full and the extractor is put into the page.
InventoryInit ==
  /\ loaded = {} /\ contexts = [c \in Contexts |-> "page"]
  /\ allLoaded = FALSE /\ loading = TRUE
  /\ items = {} /\ rechecks = 0
  /\ extractor = [at |-> "polling", last |-> 0, again |-> FALSE] /\ sent = {}
  /\ tiles = [there |-> {}, tagged |-> {}, retry |-> FALSE]
  /\ sorting = [asked |-> FALSE, of |-> {}]
  /\ tabs = [clicks |-> 0, due |-> FALSE]

(***************************************************************************)
(* The list and the tags.                                                  *)
(***************************************************************************)
\* readAllContextItems: both contexts, told apart by context and asset.
ReadAllContexts == loaded

\* addPerItemInfo: the elements whose item is listed; with no element yet, again in a second.
Tagged(list, old) ==
  [tiles EXCEPT !.tagged = old \cup (tiles.there \cap list),
                !.retry = @ \/ tiles.there = {}]

OnlyTheFirst(read) == items = {} /\ read # {}   \* mutant: the later, fuller reads are not taken
\* Only a read with more items takes the place of the list.
MoreThanListed(read) == Cardinality(read) > Cardinality(items)

\* buildInventory, and every element tagged anew.
TakeIfMore(read) ==
  IF MoreThanListed(read) THEN items' = read /\ tiles' = Tagged(read, {})
  ELSE items' = items /\ tiles' = Tagged(items, tiles.tagged)

RetryTags ==
  /\ tiles.retry
  /\ tiles' = [Tagged(items, tiles.tagged) EXCEPT !.retry = tiles.there = {}]
  /\ UNCHANGED <<loaded, contexts, allLoaded, loading, items, rechecks, extractor, sent, sorting,
                 tabs>>

\* External: Steam makes the elements of a context or of both; the observer sees it and tags
\* them, unless it tagged some less than half a second ago.
SteamShowsPage ==
  /\ \E shown \in {loaded \cap Tradable, loaded} :
       /\ tiles.there \subseteq shown /\ shown # tiles.there
       /\ tiles' \in {[tiles EXCEPT !.there = shown],
                      [tiles EXCEPT !.there = shown, !.tagged = @ \cup (shown \cap items)]}
  /\ UNCHANGED <<loaded, contexts, allLoaded, loading, items, rechecks, extractor, sent, sorting,
                 tabs>>

\* doInitSorting, once: the elements there are, when the storage answers.
AskSorting == sorting' = [sorting EXCEPT !.asked = TRUE]

SortSaved ==
  /\ sorting.asked /\ sorting.of = {}
  /\ sorting' = [sorting EXCEPT !.of = tiles.there]
  /\ tiles' = Tagged(items, {})
  /\ UNCHANGED <<loaded, contexts, allLoaded, loading, items, rechecks, extractor, sent, tabs>>

\* The sorting bar.
ChooseOrder ==
  /\ tiles.there # {}
  /\ sorting' = [sorting EXCEPT !.of = tiles.there]
  /\ tiles' = Tagged(items, {})
  /\ UNCHANGED <<loaded, contexts, allLoaded, loading, items, rechecks, extractor, sent, tabs>>

(***************************************************************************)
(* Loading in full.                                                        *)
(***************************************************************************)
\* External: Steam loads a first part, or what was asked for.
SteamLoads(c) ==
  /\ \E more \in SUBSET (StockOf(c) \ loaded) : more # {} /\ loaded' = loaded \cup more
  /\ UNCHANGED <<contexts, allLoaded, loading, items, rechecks, extractor, sent, tiles, sorting,
                 tabs>>

\* Setting the attribute wakes the extractor's observer.
Wake == [extractor EXCEPT !.again = @ \/ extractor.at = "hooked"]

\* onFullInventoryLoad
FullLoad ==
  /\ loading' = FALSE
  /\ TakeIfMore(ReadAllContexts)
  /\ AskSorting

\* loadFullInventory: the attribute is there, or its script sets it at once, because context 2
\* was loaded before (its callback runs before context 16 is counted).
LoadFullDone ==
  /\ loading /\ (allLoaded \/ contexts["2"] = "full")
  /\ FullLoad
  /\ extractor' = IF allLoaded THEN extractor ELSE Wake
  /\ contexts' = IF allLoaded THEN contexts
                 ELSE [c \in Contexts |-> IF contexts[c] = "page" THEN "asked" ELSE contexts[c]]
  /\ UNCHANGED <<loaded, allLoaded, rechecks, sent, tabs>>

\* Else the two contexts are asked for, and it looks again in two seconds.
LoadFullPending ==
  /\ loading /\ ~allLoaded /\ contexts["2"] # "full"
  /\ contexts' = [c \in Contexts |-> IF contexts[c] = "page" THEN "asked" ELSE contexts[c]]
  /\ UNCHANGED <<loaded, allLoaded, loading, items, rechecks, extractor, sent, tiles, sorting,
                 tabs>>

\* External: LoadMoreAssets is done for a context; the second sets the attribute.
ContextDone(c) ==
  /\ contexts[c] = "asked"
  /\ contexts' = [contexts EXCEPT ![c] = "full"]
  /\ loaded' = loaded \cup StockOf(c)
  /\ LET both == \A d \in Contexts : contexts'[d] = "full" IN
       /\ allLoaded' = (allLoaded \/ both)
       /\ extractor' = IF both THEN Wake ELSE extractor
  /\ UNCHANGED <<loading, items, rechecks, sent, tiles, sorting, tabs>>

\* Every five seconds of the first minute.
Recheck ==
  /\ rechecks < MaxRechecks
  /\ rechecks' = rechecks + 1
  /\ IF MoreThanListed(ReadAllContexts) THEN TakeIfMore(ReadAllContexts)
     ELSE UNCHANGED <<items, tiles>>
  /\ UNCHANGED <<loaded, contexts, allLoaded, loading, extractor, sent, sorting, tabs>>

(***************************************************************************)
(* The extractor.                                                          *)
(***************************************************************************)
\* Its items are under their numeric id: the context that comes last stays.
Extracted ==
  {a \in loaded : a \in Held \/ \A h \in Held \cap loaded : AssetIdOf[h] # AssetIdOf[a]}

\* sendData: not the same number twice.
Send(last) ==
  IF Cardinality(Extracted) = last THEN UNCHANGED sent ELSE sent' = sent \cup {Extracted}

\* waitForInventory: until there is something, at most so often.
Poll ==
  /\ extractor.at = "polling"
  /\ \/ /\ Extracted # {}
        /\ Send(extractor.last)
        /\ extractor' = [extractor EXCEPT !.at = "hooked", !.last = Cardinality(Extracted)]
     \/ /\ Extracted = {}
        /\ extractor' = [extractor EXCEPT !.at = "stopped"]
        /\ UNCHANGED sent
  /\ UNCHANGED <<loaded, contexts, allLoaded, loading, items, rechecks, tiles, sorting, tabs>>

\* Half a second after the attribute was set: sent even if it is the same number.
SendAgain ==
  /\ extractor.again
  /\ Send(0)
  /\ extractor' = [extractor EXCEPT !.again = FALSE, !.last = Cardinality(Extracted)]
  /\ UNCHANGED <<loaded, contexts, allLoaded, loading, items, rechecks, tiles, sorting, tabs>>

\* SelectInventory is hooked: sent if the number is new.
GameSelected ==
  /\ extractor.at = "hooked" /\ tabs.due
  /\ Send(extractor.last)
  /\ extractor' = [extractor EXCEPT !.last = Cardinality(Extracted)]
  /\ UNCHANGED <<loaded, contexts, allLoaded, loading, items, rechecks, tiles, sorting, tabs>>

\* The listener of the message, once for each time the list was loaded; the later ones find
\* no more items than the first.
Receive ==
  \E read \in sent :
    /\ sent' = sent \ {read}
    /\ TakeIfMore(read)
    /\ UNCHANGED <<loaded, contexts, allLoaded, loading, rechecks, extractor, sorting, tabs>>

(***************************************************************************)
(* The user.                                                               *)
(***************************************************************************)
ClickGame ==
  /\ tabs.clicks < MaxTabs   \* bound
  /\ tabs' = [clicks |-> tabs.clicks + 1, due |-> TRUE]
  /\ UNCHANGED <<loaded, contexts, allLoaded, loading, items, rechecks, extractor, sent, tiles,
                 sorting>>

\* One and a half seconds later the list is emptied and loaded as in the beginning.
GameShown ==
  /\ tabs.due
  /\ tabs' = [tabs EXCEPT !.due = FALSE]
  /\ items' = {} /\ tiles' = [tiles EXCEPT !.tagged = {}]
  /\ loading' = TRUE
  /\ extractor' = [extractor EXCEPT !.at = "polling", !.last = 0]
  /\ UNCHANGED <<loaded, contexts, allLoaded, rechecks, sent, sorting>>

\* The listener of the settings: built again of what both contexts have, if they have anything.
SettingsRepaint ==
  /\ items' = IF ReadAllContexts # {} THEN ReadAllContexts ELSE items
  /\ tiles' = Tagged(items', {})
  /\ UNCHANGED <<loaded, contexts, allLoaded, loading, rechecks, extractor, sent, sorting, tabs>>

InventoryNext ==
  \/ RetryTags \/ SteamShowsPage \/ SortSaved \/ ChooseOrder
  \/ \E c \in Contexts : SteamLoads(c) \/ ContextDone(c)
  \/ LoadFullDone \/ LoadFullPending \/ Recheck
  \/ Poll \/ SendAgain \/ GameSelected \/ Receive
  \/ ClickGame \/ GameShown \/ SettingsRepaint

\* The timer of the rechecks runs, and nothing else is asked of anybody.
InventoryFairness == WF_inventoryVars(Recheck)
InventorySpec == InventoryInit /\ [][InventoryNext]_inventoryVars /\ InventoryFairness

(***************************************************************************)
(* Properties                                                              *)
(***************************************************************************)
\* While the list is still being checked it catches up with what the page has loaded: whatever
\* part of it the extractor, the full load or a repaint had put there, and in whatever order.
ListCatchesUp == (loaded # {} /\ rechecks < MaxRechecks) ~> (items = loaded)
=============================================================================
