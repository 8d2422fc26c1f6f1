---------------------------- MODULE TradeHistory ----------------------------
(***************************************************************************)
(* The two views of the user's past trades: the extension's own page       *)
(* (pages/trade-history-page.js), which asks the worker for one page of    *)
(* Steam's history after another (FETCH_TRADE_HISTORY), and the boxes the  *)
(* content script puts under the trades of Steam's page                    *)
(* (content-scripts/steam/trade-history.ts).  A trade is its place in the  *)
(* history, the oldest 1; what its sides are worth is counted in half      *)
(* dollars.  External: Steam and the user.                                 *)
(***************************************************************************)
EXTENDS Naturals, Sequences, SequencesExt

CONSTANTS
  MaxPastTrades,  \* bound: the trades there ever are
  Sizes,      \* the page sizes on offer
  MaxAsks,    \* bound: reads at a time
  Given,      \* what the items given were worth, by trade; 0: none were given
  Received

PastTrades == 1..MaxPastTrades

ASSUME HistoryAssumption ==
  /\ MaxPastTrades \in Nat \ {0} /\ MaxAsks \in Nat \ {0} /\ Sizes \subseteq 1..100 /\ Sizes # {}
  /\ Given \in [PastTrades -> Nat] /\ Received \in [PastTrades -> Nat]

VARIABLES
  made,     \* the trades made so far: 1..made
  view,     \* the extension's page
  asks,     \* its reads in progress
  boxes,    \* the rows of Steam's page and the boxes under them
  looks,    \* the content script has its prices and looks on
  overlapped  \* two reads were in progress at a time

historyVars == <<made, view, asks, boxes, looks, overlapped>>

Slots == 1..MaxAsks
NoAsk == [pc |-> "none", size |-> 1, cursor |-> 0, trades |-> <<>>, more |-> FALSE]
Faces == {"spinner", "trades", "no trades", "error"}
Gift(t) == Given[t] = 0 \/ Received[t] = 0

HistoryTypeOK ==
  /\ made \in PastTrades /\ {looks, overlapped} \subseteq BOOLEAN
  /\ view \in [shown : Seq(PastTrades), cursor : 0..MaxPastTrades,
               more : BOOLEAN, loading : BOOLEAN,
               full : BOOLEAN, size : Sizes, face : Faces, failed : BOOLEAN,
               button : {"hidden", "enabled", "disabled"}]
  /\ \A s \in Slots : asks[s].pc \in {"none", "asked", "answered"}
  /\ boxes \in [PastTrades -> {"absent", "none", "Profit", "Loss", "Fair"}]

\* While the first page loads nothing else is drawn: the button stays as it was.
Listed(v) == SelectSeq(v.shown, LAMBDA t : v.full => ~Gift(t))
Rendered(v) ==
  IF v.loading /\ v.shown = <<>> THEN [v EXCEPT !.face = "spinner"]
  ELSE [v EXCEPT !.face = IF Listed(v) = <<>> /\ ~v.loading THEN "no trades" ELSE "trades",
                 !.button = IF ~v.more THEN "hidden"
                            ELSE IF v.loading THEN "disabled" ELSE "enabled"]

Asking(v) == [pc |-> "asked", size |-> v.size, cursor |-> v.cursor, trades |-> <<>>, more |-> FALSE]
Busy == {s \in Slots : asks[s] # NoAsk}

\* fetchTrades, up to its answer.
FetchTrades(v) ==
  \E s \in Slots \ Busy :
    /\ asks' = [asks EXCEPT ![s] = Asking(v)]
    /\ view' = Rendered([v EXCEPT !.loading = TRUE, !.failed = FALSE])
    /\ overlapped' = (overlapped \/ Busy # {})
    /\ UNCHANGED <<made, boxes, looks>>

Blank == [shown |-> <<>>, cursor |-> 0, more |-> FALSE, loading |-> TRUE, full |-> FALSE,
          size |-> CHOOSE n \in Sizes : TRUE, face |-> "spinner", failed |-> FALSE,
          button |-> "hidden"]

\* The page is opened and asks for its first trades; Steam's page has no row yet.
HistoryInit ==
  /\ made \in PastTrades /\ view = Blank
  /\ asks = [s \in Slots |-> IF s = 1 THEN Asking(Blank) ELSE NoAsk]
  /\ boxes = [t \in PastTrades |-> "absent"] /\ looks = FALSE /\ overlapped = FALSE

Blanked(v) == [v EXCEPT !.shown = <<>>, !.cursor = 0, !.more = FALSE]

\* The button and the page size are never disabled.
Refreshes == FetchTrades(Blanked(view))
SizeChanges == \E n \in Sizes \ {view.size} : FetchTrades(Blanked([view EXCEPT !.size = n]))
LoadsMore == view.button = "enabled" /\ FetchTrades(view)

FilterChanges ==
  /\ view' = Rendered([view EXCEPT !.full = ~view.full])
  /\ UNCHANGED <<made, asks, boxes, looks, overlapped>>

TradeMade ==
  /\ made < MaxPastTrades /\ made' = made + 1   \* bound
  /\ UNCHANGED <<view, asks, boxes, looks, overlapped>>

PageLength(size, older) == IF older < size THEN older ELSE size

\* FETCH_TRADE_HISTORY and readRecentTrades: the trades older than the cursor, newest first.
\* Steam may hand back a row more than it was asked for, which is cut off.
HistoryAnswered(s) ==
  LET ask == asks[s]
      newest == IF ask.cursor = 0 THEN made ELSE ask.cursor - 1
      Row(i) == newest + 1 - i
  IN /\ ask.pc = "asked"
     /\ \E extra \in 0..1 :
          asks' = [asks EXCEPT ![s] =
            [ask EXCEPT !.pc = "answered", !.more = newest > ask.size + extra,
                        !.trades = [i \in 1..PageLength(ask.size, newest) |-> Row(i)]]]
     /\ UNCHANGED <<made, view, boxes, looks, overlapped>>

CursorIsFirst(v, ask) ==   \* mutant: the cursor is the newest trade of the page
  IF ask.trades = <<>> THEN v
  ELSE [v EXCEPT !.shown = @ \o ask.trades, !.cursor = Head(ask.trades)]
Extended(v, ask) ==
  IF ask.trades = <<>> THEN v
  ELSE [v EXCEPT !.shown = @ \o ask.trades, !.cursor = Last(ask.trades)]

TradesHeard(s) ==
  /\ asks[s].pc = "answered"
  /\ view' = Rendered([Extended(view, asks[s]) EXCEPT !.more = asks[s].more, !.loading = FALSE])
  /\ asks' = [asks EXCEPT ![s] = NoAsk]
  /\ UNCHANGED <<made, boxes, looks, overlapped>>

\* The error is written, and what there is of trades is drawn over it.
TradesRefused(s) ==
  /\ asks[s] # NoAsk
  /\ view' = Rendered([view EXCEPT !.face = "error", !.failed = TRUE, !.loading = FALSE])
  /\ asks' = [asks EXCEPT ![s] = NoAsk]
  /\ UNCHANGED <<made, boxes, looks, overlapped>>

(***************************************************************************)
(* Steam's page.                                                           *)
(***************************************************************************)
\* More than half a dollar either way; a row whose sides are not told apart is all on both.
TradeVerdict(t, told) ==
  LET diff(a, b) == a > b + 1
  IN IF told /\ diff(Given[t], Received[t]) THEN "Profit"
     ELSE IF told /\ diff(Received[t], Given[t]) THEN "Loss" ELSE "Fair"

\* A trade with an empty side, where the sides are told apart, gets no box.
Boxed(t, told) == IF told /\ Gift(t) THEN "none" ELSE TradeVerdict(t, told)

HistoryLooks ==
  /\ ~looks /\ looks' = TRUE
  /\ \E told \in BOOLEAN :
       boxes' = [t \in PastTrades |-> IF boxes[t] = "none" THEN Boxed(t, told) ELSE boxes[t]]
  /\ UNCHANGED <<made, view, asks, overlapped>>

RowDrawn(t) ==
  /\ boxes[t] = "absent" /\ t <= made
  /\ \E told \in BOOLEAN : boxes' = [boxes EXCEPT ![t] = IF looks THEN Boxed(t, told) ELSE "none"]
  /\ UNCHANGED <<made, view, asks, looks, overlapped>>

HistoryNext ==
  \/ Refreshes \/ SizeChanges \/ LoadsMore \/ FilterChanges \/ TradeMade \/ HistoryLooks
  \/ \E s \in Slots : HistoryAnswered(s) \/ TradesHeard(s) \/ TradesRefused(s)
  \/ \E t \in PastTrades : RowDrawn(t)

HistorySpec == HistoryInit /\ [][HistoryNext]_historyVars

\* Unless one read was asked for before another had ended, the page lists trades as they follow each
\* other in the history, none twice and none left out, whatever is made, refreshed or resized
\* meanwhile.
PagesJoinUp ==
  ~overlapped => \A i \in 2..Len(view.shown) : view.shown[i] = view.shown[i - 1] - 1

\* (Violated.) No trade is counted twice in the sum over the page's trades.
NoTradeTwice == IsInjective(view.shown)

\* (Violated.) A read that failed says so on the page.
FailuresAreShown == view.failed /\ Busy = {} => view.face = "error"

\* (Violated.) A trade is a profit where what was received is worth more.
ProfitIsProfit == \A t \in PastTrades : boxes[t] = "Profit" => Received[t] > Given[t]
=============================================================================
