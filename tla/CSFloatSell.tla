---------------------------- MODULE CSFloatSell ----------------------------
(***************************************************************************)
(* The sell page of CSFloat (content-scripts/csfloat/csfloat.ts): the      *)
(* cards of the user's items are matched with the inventory by name and    *)
(* float, and a click on a card's button sends a poll after the item that  *)
(* CSFloat adds to the sale, to fill in its price.                         *)
(*                                                                         *)
(* External: CSFloat's page and server, the user.                          *)
(***************************************************************************)
EXTENDS Integers, Sequences, SequencesExt

CONSTANTS
  Inventory,         \* the user's items, in the order of the server's answer
  SellName, FloatOf, \* the name and the float of an item, 0 for an item that has none
  Reference,         \* its Buff price in cents, 0 without one
  Percentages,       \* of the Buff price
  MaxMatches, MaxPolls, \* tries of a card and of a poll; csfloat.ts: 12 and 25
  MaxSellVisits, MaxClicks, MaxSaves  \* bounds

Owned == ToSet(Inventory)
\* Items of one name differ in their floats, or they are alike: stickers, cases.
ASSUME SellAssumption ==
  /\ DOMAIN SellName = Owned /\ 100 \in Percentages
  /\ FloatOf \in [Owned -> Nat] /\ Reference \in [Owned -> Nat]
  /\ \A i, j \in Owned : SellName[i] = SellName[j] =>
       (FloatOf[i] # FloatOf[j] /\ 0 \notin {FloatOf[i], FloatOf[j]}) \/ Reference[i] = Reference[j]
  /\ {MaxMatches, MaxPolls, MaxSellVisits, MaxClicks, MaxSaves} \subseteq Nat

VARIABLES
  site,           \* CSFloat: whether the address is /sell, arrivals so far, its toolbar
  noticed,        \* the extension took the address in, with a pass over the cards to come
  inventoryItems, \* the cached inventory
  fetching,       \* ensureInventoryLoaded: answers to come
  sellCards,      \* the card of every item: drawn, tries to come, what it was matched with
  sellSettings,   \* the local storage: whether to fill in prices, and the percentage
  sellPanel,      \* the extension's settings panel
  adding, sale,   \* CSFloat: items it is about to add, and its queue of items with their prices
  polls,          \* adjustSaleQueueItem: what the polls under way fill in, the first one first
  counts          \* clicks and saves so far

sellVars == <<site, noticed, inventoryItems, fetching, sellCards, sellSettings, sellPanel, adding,
              sale, polls, counts>>
pageVars == <<site, noticed, inventoryItems, fetching, sellCards>>
queueVars == <<adding, sale, polls>>

SellSettings == [active : BOOLEAN, percentage : Percentages]
Untyped == [of |-> {}, percentage |-> 0]
\* What the user types is of no item.
TypedPrice == [of |-> {}, percentage |-> 100]


SellTypeOK ==
  /\ site \in [selling : BOOLEAN, visits : 0..MaxSellVisits, toolbar : BOOLEAN]
  /\ noticed \in [selling : BOOLEAN, due : BOOLEAN]
  /\ inventoryItems \in {<<>>, Inventory} /\ fetching \in 0..(MaxSellVisits + 1)
  /\ sellCards \in [Owned -> [drawn : BOOLEAN, tries : SUBSET (0..MaxMatches), line : SUBSET Owned,
                              bound : BOOLEAN]]
  /\ sellSettings \in SellSettings /\ sellPanel \in {"none", "waiting", "mounted"}
  /\ ToSet(adding) \subseteq Owned /\ \A i \in DOMAIN sale : sale[i].item \in Owned
  /\ \A i \in DOMAIN polls : polls[i] \in [of : Owned, use : SellSettings, left : 0..MaxPolls]
  /\ counts \in [clicks : 0..MaxClicks, saves : 0..MaxSaves]

NoCard == [drawn |-> FALSE, tries |-> {}, line |-> {}, bound |-> FALSE]

\* The script starts on the sell page, whose inventory it asks for, or on another one.
SellInit ==
  /\ \E selling \in BOOLEAN :
       /\ site = [selling |-> selling, visits |-> 0, toolbar |-> FALSE]
       /\ noticed = [selling |-> selling, due |-> FALSE]
       /\ fetching = IF selling THEN 1 ELSE 0
       /\ sellPanel = IF selling THEN "waiting" ELSE "none"
  /\ inventoryItems = <<>> /\ sellCards = [i \in Owned |-> NoCard]
  /\ sellSettings = [active |-> FALSE, percentage |-> 100]
  /\ adding = <<>> /\ sale = <<>> /\ polls = <<>> /\ counts = [clicks |-> 0, saves |-> 0]

(***************************************************************************)
(* Cards and the inventory.                                                *)
(***************************************************************************)
\* findInventoryItem: of the same name, and of the same float where both have one.
Fit(item, card) ==
  /\ SellName[item] = SellName[card]
  /\ FloatOf[item] = FloatOf[card] \/ 0 \in {FloatOf[item], FloatOf[card]}
FirstOfName(item, card) == SellName[item] = SellName[card]  \* a mutant

SameItem(item, card) == Fit(item, card)
Found(stock, card) == {stock[k] : k \in {k \in DOMAIN stock :
  SameItem(stock[k], card) /\ \A j \in 1..(k - 1) : ~SameItem(stock[j], card)}}

TriesLeft(left) == IF left = 0 THEN {} ELSE {left - 1}

\* trySellMatch: the line of the matched item and the button's listener, or another try.
Matched(c, card, stock, left) ==
  IF c.line # {} THEN c
  ELSE IF Found(stock, card) = {}
    THEN [c EXCEPT !.tries = @ \cup TriesLeft(left)]
  ELSE [c EXCEPT !.line = {i \in Found(stock, card) : Reference[i] > 0}, !.bound = TRUE]

\* processAllCards with this inventory.
AllMatched(stock) ==
  [i \in Owned |-> IF sellCards[i].drawn THEN Matched(sellCards[i], i, stock, MaxMatches + 1)
                   ELSE sellCards[i]]

InventoryHeard ==
  /\ site.selling /\ inventoryItems' = Inventory
  /\ UNCHANGED <<site, noticed, fetching, sellCards, sellSettings, sellPanel, queueVars, counts>>

InventoryFetched ==
  /\ fetching > 0 /\ fetching' = fetching - 1
  /\ inventoryItems' = Inventory /\ sellCards' = AllMatched(Inventory)
  /\ UNCHANGED <<site, noticed, sellSettings, sellPanel, queueVars, counts>>
InventoryFails ==
  /\ fetching > 0 /\ fetching' = fetching - 1
  /\ UNCHANGED <<site, noticed, inventoryItems, sellCards, sellSettings, sellPanel, queueVars,
                 counts>>

CardDrawn ==
  /\ site.selling
  /\ \E i \in Owned : ~sellCards[i].drawn /\ sellCards' =
       [sellCards EXCEPT ![i] =
          Matched([@ EXCEPT !.drawn = TRUE], i, inventoryItems, MaxMatches + 1)]
  /\ UNCHANGED <<site, noticed, inventoryItems, fetching, sellSettings, sellPanel, queueVars,
                 counts>>

TryAgain ==
  /\ \E i \in Owned : \E left \in sellCards[i].tries : sellCards' =
       [sellCards EXCEPT ![i] = Matched([sellCards[i] EXCEPT !.tries = @ \ {left}], i,
                                             inventoryItems, left)]
  /\ UNCHANGED <<site, noticed, inventoryItems, fetching, sellSettings, sellPanel, queueVars,
                 counts>>

(***************************************************************************)
(* The address, and the settings panel.                                    *)
(***************************************************************************)
\* The user comes to the sell page or leaves it, and its cards and its toolbar with it.
Navigates ==
  /\ site.visits < MaxSellVisits
  /\ site' = [selling |-> ~site.selling, visits |-> site.visits + 1, toolbar |-> FALSE]
  /\ sellCards' = [i \in Owned |-> NoCard]
  /\ sellPanel' = IF sellPanel = "mounted" THEN "none" ELSE sellPanel
  /\ adding' = <<>> /\ sale' = <<>>
  /\ UNCHANGED <<noticed, inventoryItems, fetching, sellSettings, polls, counts>>

\* The tick of every second: the inventory of an earlier visit is forgotten.
AddressNoticed ==
  /\ noticed.selling # site.selling
  /\ noticed' = [selling |-> site.selling, due |-> TRUE]
  /\ IF site.selling
       THEN /\ inventoryItems' = <<>> /\ fetching' = fetching + 1
            /\ sellPanel' = IF sellPanel = "none" THEN "waiting" ELSE sellPanel
       ELSE UNCHANGED <<inventoryItems, fetching, sellPanel>>
  /\ UNCHANGED <<site, sellCards, sellSettings, queueVars, counts>>

PassAfterRoute ==
  /\ noticed.due /\ noticed' = [noticed EXCEPT !.due = FALSE]
  /\ sellCards' = AllMatched(inventoryItems)
  /\ UNCHANGED <<site, inventoryItems, fetching, sellSettings, sellPanel, queueVars, counts>>

ToolbarDrawn ==
  /\ site.selling /\ ~site.toolbar /\ site' = [site EXCEPT !.toolbar = TRUE]
  /\ UNCHANGED <<noticed, inventoryItems, fetching, sellCards, sellSettings, sellPanel, queueVars,
                 counts>>

\* mountSellSettingsPanel, once the toolbar is there, or not at all after eight seconds.
PanelMounts ==
  /\ sellPanel = "waiting"
  /\ \/ site.toolbar /\ sellPanel' = "mounted"
     \/ ~site.toolbar /\ sellPanel' = "none"
  /\ UNCHANGED <<pageVars, sellSettings, queueVars, counts>>

SavesSettings ==
  /\ sellPanel = "mounted" /\ counts.saves < MaxSaves
  /\ counts' = [counts EXCEPT !.saves = @ + 1]
  /\ sellSettings' \in SellSettings \ {sellSettings}
  /\ UNCHANGED <<pageVars, sellPanel, queueVars>>

(***************************************************************************)
(* The sale.                                                               *)
(***************************************************************************)
\* One turn of a poll: the last item of the sale, unless it had its turn already, is filled in
\* with what was fixed at the click.
Filled(entry, poll) ==
  [entry EXCEPT !.priced = TRUE, !.price =
     IF poll.use.active THEN [of |-> {poll.of}, percentage |-> poll.use.percentage] ELSE @]
Polled(queue, poll, others) ==
  IF queue = <<>> \/ (queue # <<>> /\ Last(queue).priced)
  THEN /\ polls' = IF poll.left = 0 THEN others
                   ELSE Append(others, [poll EXCEPT !.left = @ - 1])
       /\ UNCHANGED sale
  ELSE polls' = others /\ sale' = Append(Front(queue), Filled(Last(queue), poll))

\* The button of a card: CSFloat will add the item, and the first turn comes at once.
ClicksSell ==
  /\ site.selling /\ counts.clicks < MaxClicks /\ counts' = [counts EXCEPT !.clicks = @ + 1]
  /\ \E i \in Owned :
       /\ sellCards[i].drawn /\ i \notin ToSet(adding)
       /\ \A k \in DOMAIN sale : sale[k].item # i
       /\ adding' = Append(adding, i)
       /\ IF sellCards[i].bound /\ sellCards[i].line # {}
            THEN Polled(sale, [of |-> CHOOSE l \in sellCards[i].line : TRUE, use |-> sellSettings,
                               left |-> MaxPolls], polls)
            ELSE UNCHANGED <<sale, polls>>
  /\ UNCHANGED <<pageVars, sellSettings, sellPanel>>

PollTurn ==
  /\ polls # <<>> /\ Polled(sale, Head(polls), Tail(polls))
  /\ UNCHANGED <<pageVars, sellSettings, sellPanel, adding, counts>>

\* CSFloat adds the item that was clicked first.
ItemAdded ==
  /\ adding # <<>> /\ adding' = Tail(adding)
  /\ sale' = Append(sale, [item |-> Head(adding), price |-> Untyped, priced |-> FALSE])
  /\ UNCHANGED <<pageVars, sellSettings, sellPanel, polls, counts>>

UserTypes ==
  /\ \E k \in DOMAIN sale : sale[k].price # TypedPrice /\
       sale' = [sale EXCEPT ![k].price = TypedPrice]
  /\ UNCHANGED <<pageVars, sellSettings, sellPanel, adding, polls, counts>>

UserRemoves ==
  /\ \E k \in DOMAIN sale : sale' = RemoveAt(sale, k)
  /\ UNCHANGED <<pageVars, sellSettings, sellPanel, adding, polls, counts>>

SellNext ==
  \/ InventoryHeard \/ InventoryFetched \/ InventoryFails \/ CardDrawn \/ TryAgain \/ Navigates
  \/ AddressNoticed \/ PassAfterRoute \/ ToolbarDrawn \/ PanelMounts \/ SavesSettings
  \/ ClicksSell \/ PollTurn \/ ItemAdded \/ UserTypes \/ UserRemoves

SellSpec == SellInit /\ [][SellNext]_sellVars

(***************************************************************************)
(* Properties.                                                             *)
(***************************************************************************)
\* Whatever the order of cards, answers and visits, the price on a card is that of its own
\* item, also of two items of one name.
SellLinesAreTheirs ==
  \A i \in Owned : \A l \in sellCards[i].line : Reference[l] = Reference[i]

\* (Violated.) csfloat.ts:1420 of a click on a card: "we wait for the new <app-sell-queue-item> and
\* fill its price input with `refPrice * pct / 100`": an item's price is of its own Buff price.
SalesArePricedByTheirItem ==
  \A k \in DOMAIN sale : \A i \in sale[k].price.of : Reference[i] = Reference[sale[k].item]
=============================================================================
