--------------------------- MODULE TradeOfferPage ---------------------------
(***************************************************************************)
(* The page on which a trade offer is made (content-scripts/steam/         *)
(* trade-offer.ts): reading both inventories, click handlers and sorting.  *)
(* What the tags on the elements say is in TradeOfferTags.                 *)
(*                                                                         *)
(* Steam makes the elements page by page, each in its holder; an item that *)
(* is moved into the trade leaves its holder empty and later returns to    *)
(* it.  A page is its sequence of holders, named after their item; Filler  *)
(* is a holder the extension made up.  External: Steam's page.             *)
(***************************************************************************)
EXTENDS Integers, Sequences, FiniteSets, SequencesExt

CONSTANTS
  Yours, Theirs,  \* the items of both inventories
  NameOf,         \* the market name of every item
  PagesOf,        \* the items of every page of an inventory, by inventory
  PageSize,       \* holders on a page; 16 in the code
  MaxTries,       \* reads of the inventories; 60 in the code
  MaxGames,       \* bound: changes of the game
  Filler

TradeItems == Yours \cup Theirs
Parties == {"your", "their"}
ItemsOf(party) == IF party = "your" THEN Yours ELSE Theirs

\* Steam's pages: each holds items of its inventory, once, and not more than fit.
ASSUME TradePageAssumption ==
  /\ PageSize \in Nat \ {0} /\ MaxTries \in Nat \ {0} /\ MaxGames \in Nat
  /\ NameOf \in [TradeItems -> STRING] /\ IsFiniteSet(TradeItems)
  /\ Yours \cap Theirs = {} /\ Filler \notin TradeItems
  /\ DOMAIN PagesOf = Parties
  /\ \A party \in Parties :
       /\ PagesOf[party] \in Seq(Seq(ItemsOf(party)))
       /\ \A p \in DOMAIN PagesOf[party] :
            Len(PagesOf[party][p]) <= PageSize /\ IsInjective(PagesOf[party][p])

VARIABLES
  tries,    \* getInventoriesAttempts
  due,      \* the timers that are set
  known,    \* combinedInventories: the parties whose items it has
  pages,    \* the holders in the pages of both inventories
  inTrade,  \* the items whose element is in a trade slot
  hooks,    \* direct: elements with a click listener; flagged: those with _csboardClick;
            \* whole: the page has the delegated listener; noticed: the observer is due
  games     \* changes of the game so far

tradePageVars == <<tries, due, known, pages, inTrade, hooks, games>>

Timers == {"initial", "again", "sort", "tab"}
Made == {a \in TradeItems : \E party \in Parties : \E p \in DOMAIN pages[party] :
            a \in ToSet(pages[party][p])}
Known == UNION {ItemsOf(party) : party \in known}

TradePageTypeOK ==
  /\ tries \in 0..(MaxTries + MaxGames) /\ due \subseteq Timers
  /\ known \subseteq Parties /\ inTrade \subseteq TradeItems /\ games \in 0..MaxGames
  /\ \A party \in Parties : \A p \in DOMAIN PagesOf[party] :
       ToSet(pages[party][p]) \subseteq ItemsOf(party) \cup {Filler}
  /\ hooks.flagged \subseteq TradeItems /\ hooks.direct \subseteq TradeItems

TradePageInit ==
  /\ tries = 0 /\ due = {"initial"} /\ known = {} /\ inTrade = {} /\ games = 0
  /\ pages = [party \in Parties |-> [p \in DOMAIN PagesOf[party] |-> <<>>]]
  /\ hooks = [direct |-> {}, flagged |-> {}, whole |-> FALSE, noticed |-> FALSE]

\* External: Steam makes the elements of the pages in order, each after whatever is in it.
SteamMakesPage(party, p) ==
  /\ ToSet(PagesOf[party][p]) \cap Made = {}
  /\ \A q \in 1..(p - 1) : ToSet(PagesOf[party][q]) \subseteq Made
  /\ pages' = [pages EXCEPT ![party][p] = @ \o PagesOf[party][p]]
  /\ hooks' = [hooks EXCEPT !.noticed = hooks.whole]
  /\ UNCHANGED <<tries, due, known, inTrade, games>>

(***************************************************************************)
(* Clicks.                                                                 *)
(***************************************************************************)
\* singleClickControlClick marks what it attached to.
FlaggedAfter(h, elements) == h.flagged \cup elements

Attached ==
  hooks' = [direct |-> hooks.direct \cup Made, flagged |-> FlaggedAfter(hooks, Made),
            whole |-> TRUE, noticed |-> hooks.noticed]

\* The observer of the inventories.
ObserverRuns ==
  /\ hooks.noticed
  /\ hooks' = [hooks EXCEPT !.direct = @ \cup (Made \ hooks.flagged),
                            !.flagged = @ \cup Made, !.noticed = FALSE]
  /\ UNCHANGED <<tries, due, known, pages, inTrade, games>>

\* How often a click on the element is handled.
Handled(a) ==
  (IF a \in hooks.direct THEN 1 ELSE 0)
    + (IF hooks.whole /\ a \notin hooks.flagged THEN 1 ELSE 0)

\* Each dispatched double click takes the item into the trade or back to its holder.
Moved(items) == (inTrade \ items) \cup (items \ inTrade)

Move(items) ==
  /\ inTrade' = Moved(items)
  /\ hooks' = [hooks EXCEPT !.noticed = hooks.whole]
  /\ UNCHANGED <<tries, due, known, pages, games>>

SingleClick(a) ==
  /\ a \in Made /\ Handled(a) % 2 = 1
  /\ Move({a})

\* Control and a click: all known items of its name on its side, or it alone.
Alike(a) ==
  IF a \notin Known THEN {a}
  ELSE {b \in Made \cap Known :
          /\ NameOf[b] = NameOf[a] /\ (b \in inTrade <=> a \in inTrade)
          /\ \E party \in Parties : {a, b} \subseteq ItemsOf(party)}

ControlClick(a) ==
  /\ a \in Made /\ Handled(a) % 2 = 1
  /\ Move(Alike(a))

TakeEverything(party) == Move((Made \cap ItemsOf(party)) \ inTrade)
TakePage(party, p) == Move((ToSet(pages[party][p]) \ {Filler}) \ inTrade)
RemoveEverything(party) == Move(inTrade \cap ItemsOf(party))

(***************************************************************************)
(* Sorting.                                                                *)
(***************************************************************************)
Fills(party) == \E p \in DOMAIN pages[party] : pages[party][p] # <<>>
ShownOn(party) == (Made \cap ItemsOf(party)) \ inTrade

NoEmpties(page) == <<>>   \* mutant: holders that still count as items are not kept
\* The holders whose item is in the trade keep their page, and their order.
Empties(page) ==
  LET empty == {k \in DOMAIN page : page[k] \in inTrade}
      nth(i) == CHOOSE k \in empty : Cardinality({j \in empty : j <= k}) = i
      n == Cardinality(empty) IN
  [i \in 1..(IF n < PageSize THEN n ELSE PageSize) |-> page[nth(i)]]

\* The places (page, place on it) of an inventory behind the empty holders, and how many of them
\* have been filled when one is: page after page.
Free(inventory) ==
  {t \in (DOMAIN inventory) \X (1..PageSize) : t[2] > Len(Empties(inventory[t[1]]))}
UpTo(t, places) == {s \in places : s[1] < t[1] \/ (s[1] = t[1] /\ s[2] <= t[2])}
Turn(t, places) == Cardinality(UpTo(t, places))

\* doTheSorting for the inventory: the empty holders, then the items that come next, then fillers.
Repaged(party, items) ==
  LET old == pages[party]
      next(n) == IF n \in DOMAIN items THEN items[n] ELSE Filler
      holder(p, i) == IF i \in DOMAIN Empties(old[p]) THEN Empties(old[p])[i]
                      ELSE next(Turn(<<p, i>>, Free(old))) IN
  [p \in DOMAIN old |-> [i \in 1..PageSize |-> holder(p, i)]]

\* sortItems: the order is any, as the prices and names may have it.
Sorted(party) ==
  \E items \in SetToSeqs(ShownOn(party)) :
    pages' = [pages EXCEPT ![party] = Repaged(party, items)]

ChooseSorting(party) ==
  /\ tries > 0 /\ Fills(party)
  /\ Sorted(party)
  /\ hooks' = [hooks EXCEPT !.noticed = hooks.whole]
  /\ UNCHANGED <<tries, due, known, inTrade, games>>

\* The saved sorting, two seconds after the inventories were read.
SavedSorting(party) ==
  /\ "sort" \in due
  /\ due' = due \ {"sort"}
  /\ \/ Sorted(party) /\ Fills(party)
     \/ UNCHANGED pages   \* none saved, or another game is shown
  /\ hooks' = [hooks EXCEPT !.noticed = hooks.whole]
  /\ UNCHANGED <<tries, known, inTrade, games>>

(***************************************************************************)
(* Reading the inventories.                                                *)
(***************************************************************************)
\* getInventories, when both inventories are there: of the game or of another one.
InventoriesRead(timer) ==
  /\ timer \in due \cap {"initial", "again"}
  /\ tries' = tries + 1
  /\ due' = (due \ {timer}) \cup (IF timer = "initial" THEN {"sort"} ELSE {})
  /\ \E parties \in SUBSET Parties : known' = known \cup parties
  /\ Attached
  /\ UNCHANGED <<pages, inTrade, games>>

\* They are not there: again in half a second, at most so often.
InventoriesMissing(timer) ==
  /\ timer \in due \cap {"initial", "again"}
  /\ tries' = tries + 1
  /\ due' = IF tries' < MaxTries THEN due ELSE due \ {timer}
  /\ UNCHANGED <<known, pages, inTrade, hooks, games>>

\* Another game is chosen: read at once and after two seconds.
ChooseGame ==
  /\ games < MaxGames   \* bound
  /\ games' = games + 1
  /\ due' = due \cup {"again"}
  /\ UNCHANGED <<tries, known, pages, inTrade, hooks>>

\* reprocessOnTabSwitch: at once, and after one second with the saved sorting.
SwitchTab ==
  /\ due' = due \cup {"tab"}
  /\ Attached
  /\ UNCHANGED <<tries, known, pages, inTrade, games>>

TabShown(party) ==
  /\ "tab" \in due
  /\ due' = due \ {"tab"}
  /\ \/ Sorted(party) /\ Fills(party)
     \/ UNCHANGED pages   \* none saved
  /\ Attached
  /\ UNCHANGED <<tries, known, inTrade, games>>

TradePageNext ==
  \/ \E party \in Parties :
       \/ \E p \in DOMAIN PagesOf[party] : SteamMakesPage(party, p) \/ TakePage(party, p)
       \/ TakeEverything(party) \/ RemoveEverything(party)
       \/ ChooseSorting(party) \/ SavedSorting(party) \/ TabShown(party)
  \/ \E a \in TradeItems : SingleClick(a) \/ ControlClick(a)
  \/ \E timer \in Timers : InventoriesRead(timer) \/ InventoriesMissing(timer)
  \/ ObserverRuns \/ ChooseGame \/ SwitchTab

TradePageSpec == TradePageInit /\ [][TradePageNext]_tradePageVars

(***************************************************************************)
(* Properties                                                              *)
(***************************************************************************)
\* The holder of every item Steam made stays in a page, once: no sorting throws an item out of
\* its inventory, or leaves one in the trade without the holder it has to return to.
NothingIsLost ==
  \A party \in Parties, a \in TradeItems :
    LET places == UNION {{<<p, i>> : i \in {k \in DOMAIN pages[party][p] : pages[party][p][k] = a}} :
                           p \in DOMAIN pages[party]} IN
    /\ Cardinality(places) <= 1
    /\ a \in (inTrade \cup hooks.direct) \cap ItemsOf(party) => places # {}
=============================================================================
