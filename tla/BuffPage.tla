------------------------------ MODULE BuffPage ------------------------------
(***************************************************************************)
(* The enhancements on Buff's pages: the content script                    *)
(* (content-scripts/buff/buff.ts), the bridge it puts into the page        *)
(* (injectToPage/buffInterceptor.js) and what both check of an event       *)
(* (shared/buff-enhancer.ts, content-scripts/buff/model.ts).               *)
(*                                                                         *)
(* A view is what the page can show: a list, an order's rows or a price    *)
(* history.  Nothing says that two reads of the storage are answered in    *)
(* the order they were asked, so here they may overtake each other.        *)
(* External: Buff's page and server, the storage, the popup.               *)
(***************************************************************************)
EXTENDS Filtering, FiniteSets

CONSTANTS
  Views,
  KindOf,      \* the endpoint of a view
  OrdersIn,    \* the orders of a view, from top to bottom
  GoodsOf,     \* the goods of an order
  OwnViews,    \* the views whose rows tell about themselves
  MaxSettings, MaxMoves  \* bounds: of the settings, and from view to view

BuffKinds == {"sell_order", "market_goods", "price_history"}

ASSUME BuffAssumption ==
  /\ KindOf \in [Views -> BuffKinds] /\ OwnViews \subseteq Views
  /\ OrdersIn \in [Views -> Seq(DOMAIN GoodsOf)]
  /\ MaxSettings \in Nat /\ MaxMoves \in Nat

Settings == [on : BOOLEAN, version : 0..MaxSettings]

VARIABLES
  stored,      \* the storage: the settings
  events,      \* changes of the storage the script has not heard of
  openReads,   \* the script's reads: the generation, and the settings once they are read
  generation,  \* the script's last read
  script,      \* whether it is enabled and observes, its timer, the settings it goes by
  data,        \* the last response of every kind, the oldest first
  nodes,       \* what it has put into the page: panels, toolbar, history
  bridge,      \* the script in the page
  shown,       \* Buff's page: the view it is to show, and the orders of its rows
  responses,   \* on their way: a view, how it was asked for, who has yet to see it
  moves

buffVars == <<stored, events, openReads, generation, script, data, nodes, bridge, shown, responses,
              moves>>
storageVars == <<stored, events, openReads, generation>>
buffPageVars == <<shown, responses, moves>>

NoSettings == [on |-> FALSE, version |-> 0]
NoNodes == [panels |-> <<>>, toolbar |-> {}, history |-> FALSE]
RowsIn(orders) == DOMAIN orders

BuffTypeOK ==
  /\ stored \in Settings /\ events \in 0..MaxSettings /\ generation \in 1..(MaxSettings + 1)
  /\ \A r \in openReads : r.generation \in 1..generation /\ r.found \subseteq Settings
  /\ script \in [enabled : BOOLEAN, observes : BOOLEAN, timer : BOOLEAN, settings : Settings]
  /\ \A i \in DOMAIN data : data[i] \in Views
  /\ DOMAIN nodes.panels \subseteq RowsIn(shown.rows) /\ nodes.toolbar \subseteq Settings
  /\ bridge \in [loaded : BOOLEAN, enabled : BOOLEAN]
  /\ shown.view \in Views /\ moves \in 0..MaxMoves
  /\ \A r \in responses : r.view \in Views /\ r.left \subseteq {"page", "bridge"}

BuffInit ==
  /\ stored \in {s \in Settings : s.version = 0}
  /\ events = 0 /\ generation = 1 /\ openReads = {[generation |-> 1, found |-> {}]}
  /\ script = [enabled |-> FALSE, observes |-> FALSE, timer |-> FALSE, settings |-> NoSettings]
  /\ data = <<>> /\ nodes = NoNodes
  /\ bridge = [loaded |-> FALSE, enabled |-> FALSE]
  /\ \E v \in Views : shown = [view |-> v, rows |-> <<>>]
  /\ responses = {} /\ moves = 0

(***************************************************************************)
(* The settings.                                                           *)
(***************************************************************************)
\* External: the popup or the price refresh writes what the page goes by.
SettingsChange ==
  /\ stored.version < MaxSettings   \* bound
  /\ \E on \in BOOLEAN : stored' = [on |-> on, version |-> stored.version + 1]
  /\ events' = events + 1
  /\ UNCHANGED <<openReads, generation, script, data, nodes, bridge, buffPageVars>>

\* reloadLocalState, as far as its read.
ChangeHeard ==
  /\ events > 0
  /\ events' = events - 1 /\ generation' = generation + 1
  /\ openReads' = openReads \cup {[generation |-> generation + 1, found |-> {}]}
  /\ UNCHANGED <<stored, script, data, nodes, bridge, buffPageVars>>

\* External.
StorageRead ==
  \E r \in openReads :
    /\ r.found = {}
    /\ openReads' = (openReads \ {r}) \cup {[r EXCEPT !.found = {stored}]}
    /\ UNCHANGED <<stored, events, generation, script, data, nodes, bridge, buffPageVars>>

\* emitControlState: the bridge is told at once; enabled, it announces where the page is,
\* before anything else happens, and that clears what was there.
Told(on) == bridge' = [bridge EXCEPT !.enabled = IF bridge.loaded THEN on ELSE @]
Cleared == data' = <<>> /\ nodes' = NoNodes

Enable(settings) ==
  /\ script' = [enabled |-> TRUE, observes |-> TRUE, timer |-> TRUE, settings |-> settings]
  /\ IF script.enabled THEN UNCHANGED <<data, nodes, bridge>>
     ELSE Told(TRUE) /\ IF bridge.loaded THEN Cleared ELSE UNCHANGED <<data, nodes>>

Disable(settings) ==
  /\ script' = [enabled |-> FALSE, observes |-> FALSE, timer |-> FALSE, settings |-> settings]
  /\ Told(FALSE) /\ Cleared

AnyRead(r) == TRUE   \* mutant: a read of an earlier change is still taken
LatestRead(r) == r.generation = generation

\* The rest of reloadLocalState.  A read that fails disables, whatever the settings say.
ReadAnswered ==
  \E r \in openReads :
    /\ r.found # {} /\ openReads' = openReads \ {r}
    /\ IF LatestRead(r)
       THEN \E s \in r.found : IF s.on THEN Enable(s) ELSE Disable(s)
       ELSE UNCHANGED <<script, data, nodes, bridge>>
    /\ UNCHANGED <<stored, events, generation, buffPageVars>>

StorageReadFails ==
  \E r \in openReads :
    /\ openReads' = openReads \ {r}
    /\ IF LatestRead(r) THEN Disable(script.settings)
       ELSE UNCHANGED <<script, data, nodes, bridge>>
    /\ UNCHANGED <<stored, events, generation, buffPageVars>>

\* injectPageBridge: the bridge is there, and is told what the script knows by now.
BridgeLoads ==
  /\ ~bridge.loaded
  /\ bridge' = [loaded |-> TRUE, enabled |-> script.enabled]
  /\ IF script.enabled THEN Cleared /\ script' = [script EXCEPT !.timer = TRUE]
     ELSE UNCHANGED <<data, nodes, script>>
  /\ UNCHANGED <<storageVars, buffPageVars>>

(***************************************************************************)
(* The page.                                                               *)
(***************************************************************************)
\* External: the page goes to a view and asks the server for it.  The bridge announces the
\* move, and watches a fetch if it is enabled now, an XHR if it is when the answer is there.
MoveTo(v) ==
  /\ moves < MaxMoves   \* bound
  /\ moves' = moves + 1
  /\ shown' = [view |-> v, rows |-> <<>>]
  /\ \E via \in {"fetch", "xhr"} :
       LET watched == bridge.enabled \/ (via = "xhr" /\ bridge.loaded) IN
       responses' = responses \cup
         {[view |-> v, left |-> {"page"} \cup (IF watched THEN {"bridge"} ELSE {})]}
  /\ IF bridge.enabled /\ script.enabled
     THEN Cleared /\ script' = [script EXCEPT !.timer = TRUE]
     ELSE /\ nodes' = [nodes EXCEPT !.panels = <<>>, !.history = FALSE] /\ UNCHANGED data
          /\ script' = [script EXCEPT !.timer = @ \/ script.observes]
  /\ UNCHANGED <<storageVars, bridge>>

Seen(r, by) ==
  responses' = (responses \ {r})
               \cup (IF r.left = {by} THEN {} ELSE {[r EXCEPT !.left = @ \ {by}]})

\* External: the page shows the answer if it is the one it waits for; the observer sees it.
PageShows(r) ==
  /\ "page" \in r.left /\ Seen(r, "page")
  /\ IF r.view = shown.view
     THEN /\ shown' = [shown EXCEPT !.rows = OrdersIn[r.view]]
          /\ nodes' = [nodes EXCEPT !.panels = <<>>, !.history = FALSE]
          /\ script' = [script EXCEPT !.timer = @ \/ script.observes]
     ELSE UNCHANGED <<shown, nodes, script>>
  /\ UNCHANGED <<storageVars, data, bridge, moves>>

\* onApiEvent, if both are enabled: the response takes the place of the last of its kind.
BridgeShows(r) ==
  /\ "bridge" \in r.left /\ Seen(r, "bridge")
  /\ IF bridge.enabled /\ script.enabled
     THEN /\ data' = Append(Filtered(data, {v \in Views : KindOf[v] # KindOf[r.view]}), r.view)
          /\ script' = [script EXCEPT !.timer = TRUE]
     ELSE UNCHANGED <<data, script>>
  /\ UNCHANGED <<storageVars, nodes, bridge, shown, moves>>

(***************************************************************************)
(* Rendering.                                                              *)
(***************************************************************************)
\* rowsForKind: an endpoint has rows of its own.
RowsFor(kind) == IF KindOf[shown.view] = kind THEN RowsIn(shown.rows) ELSE {}

\* The row of a model's order, or the first row left of its goods.  A list of goods has no orders.
RowsOfOrder(v, o, free) == {i \in free : KindOf[v] = "sell_order" /\ shown.rows[i] = o}
RowsOfGoods(o, free) == {i \in free : GoodsOf[shown.rows[i]] = GoodsOf[o]}
Earliest(rows) == {i \in rows : \A j \in rows : i <= j}
RowFor(v, o, free) ==
  Earliest(IF RowsOfOrder(v, o, free) # {} THEN RowsOfOrder(v, o, free) ELSE RowsOfGoods(o, free))

\* matchRows: the models in their order, each on a row no other has.
PairedRows(v) ==
  LET used[n \in 0..Len(OrdersIn[v])] ==
        IF n = 0 THEN <<>>
        ELSE LET row == RowFor(v, OrdersIn[v][n], RowsFor(KindOf[v]) \ DOMAIN used[n - 1]) IN
             [i \in DOMAIN used[n - 1] \cup row |->
                IF i \in row THEN OrdersIn[v][n] ELSE used[n - 1][i]]
  IN used[Len(OrdersIn[v])]

\* renderPanel: an answer's panel takes the place of what the row has, a page's only of its own.
ApiPanels ==
  LET by == [n \in DOMAIN data |-> PairedRows(data[n])]
      rows == UNION {DOMAIN by[n] : n \in DOMAIN by} IN
  [i \in rows |-> by[CHOOSE n \in DOMAIN by : i \in DOMAIN by[n]
                       /\ \A m \in DOMAIN by : i \in DOMAIN by[m] => m <= n][i]]
StaticPanels == IF shown.view \in OwnViews THEN shown.rows ELSE <<>>

Over(new, old) == [i \in DOMAIN new \cup DOMAIN old |-> IF i \in DOMAIN new THEN new[i] ELSE old[i]]

\* renderAll.
Render ==
  /\ script.timer
  /\ script' = [script EXCEPT !.timer = FALSE]
  /\ nodes' = [panels |-> Over(ApiPanels, Over(nodes.panels, StaticPanels)),
               toolbar |-> {script.settings},
               history |-> \E n \in DOMAIN data : KindOf[data[n]] = "price_history"]
  /\ UNCHANGED <<storageVars, data, bridge, buffPageVars>>

BuffNext ==
  \/ SettingsChange \/ ChangeHeard \/ StorageRead \/ ReadAnswered \/ StorageReadFails
  \/ BridgeLoads \/ Render
  \/ \E v \in Views : MoveTo(v)
  \/ \E r \in responses : PageShows(r) \/ BridgeShows(r)

BuffSpec == BuffInit /\ [][BuffNext]_buffVars

(***************************************************************************)
(* Properties                                                              *)
(***************************************************************************)
Quiet == openReads = {} /\ events = 0
\* With the changes heard and the reads answered, in whatever order: switched off in the settings,
\* the page is as Buff made it, with nothing kept and nothing due; still enabled, the toolbar is
\* the current settings' or is about to be.
OffLeavesNothing ==
  Quiet =>
    /\ script.enabled => stored.on
    /\ ~script.enabled => nodes = NoNodes /\ data = <<>> /\ ~script.timer /\ ~bridge.enabled
    /\ script.enabled => script.settings = stored /\ (script.timer \/ nodes.toolbar = {stored})

\* (Violated.) The data of an answer is shown with the order it is about: "late, filtered,
\* reordered, or synthetic responses must fail closed" (buff.ts:336).  An order that is not on the
\* page finds another row of its goods.
LateAnswersFailClosed ==
  \A i \in DOMAIN nodes.panels : nodes.panels[i] = shown.rows[i]
=============================================================================
