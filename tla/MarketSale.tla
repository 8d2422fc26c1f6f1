----------------------------- MODULE MarketSale -----------------------------
(***************************************************************************)
(* Selling from the inventory page: one item behind an undo window, or a   *)
(* reviewed batch (content-scripts/steam/sell-ui.ts), both through the     *)
(* capability and the serialised write gate of shared/market-actions.ts.   *)
(* External: Steam's order book and its sellitem endpoint.                 *)
(*                                                                         *)
(* Every item has the same price level.                                    *)
(***************************************************************************)
EXTENDS Integers, Sequences, FiniteSets

CONSTANTS
  NumItems,    \* items of the inventory, in its order
  MaxPrice,    \* bound: price levels
  SingleSells  \* bound: single sells in progress, undone ones included

ASSUME SaleAssumption == NumItems \in Nat \ {0} /\ MaxPrice \in Nat \ {0} /\ SingleSells \in Nat

Items == 1..NumItems
Levels == 1..MaxPrice
NoPrice == 0
Sells == 1..SingleSells
Batch == 0          \* the author of a batch's writes

VARIABLES
  session,   \* the page still has Steam's session cookie
  level,     \* Steam: the live price
  listed,    \* Steam: the items with a listing
  single,    \* single sells: item, stage, reviewed price, cancelled
  batch,     \* the batch run
  approved,  \* items its capability still covers
  writes     \* the write gate: the head is at Steam, the others wait

saleVars == <<session, level, listed, single, batch, approved, writes>>

NoSell == [item |-> 0, stage |-> "none", reviewed |-> NoPrice, cancelled |-> FALSE]
Outcomes == {"unattempted", "listed", "refused", "limited", "auth", "lost", "drift", "lapsed"}
NoReport == [i \in Items |-> "unattempted"]
NoPlan == [i \in Items |-> NoPrice]
IdleBatch == [pc |-> "idle", queue |-> {}, at |-> 0, plan |-> NoPlan, stop |-> "none",
              abort |-> FALSE, report |-> NoReport]

SaleTypeOK ==
  /\ session \in BOOLEAN /\ level \in Levels /\ listed \subseteq Items
  /\ single \in [Sells -> [item : Items \cup {0}, stage : {"none", "undo", "book", "submit"},
                           reviewed : Levels \cup {NoPrice}, cancelled : BOOLEAN]]
  /\ approved \subseteq Items
  /\ batch \in [pc : {"idle", "review", "book", "submit", "summary"}, queue : SUBSET Items,
                at : Items \cup {0}, plan : [Items -> Levels \cup {NoPrice}], abort : BOOLEAN,
                stop : {"none", "limited", "auth", "drift", "lapsed", "user"},
                report : [Items -> Outcomes]]
  /\ \A k \in DOMAIN writes : writes[k] \in [by : Sells \cup {Batch}, item : Items, price : Levels]

SaleInit ==
  /\ session = TRUE /\ level = 1 /\ listed = {}
  /\ single = [s \in Sells |-> NoSell]
  /\ batch = IdleBatch /\ approved = {} /\ writes = <<>>

\* The map "pending" of sell-ui.ts: an undone sell leaves it at once, its promise later.
PendingSells(i) == {s \in Sells : single[s].item = i /\ ~single[s].cancelled}
Reserved(i) == batch.pc # "idle" /\ i \in batch.queue

HasDownwardPriceDrift(reviewed, live) == live < reviewed

\* What one forced read of the order book gives; "none" is a book with no target in it: no bid
\* or ask, or a price under Steam's floor.
BookAnswers == {"ok", "none", "refused", "limited", "auth"}

(***************************************************************************)
(* One item: a click and its confirmation, three seconds to undo, a fresh  *)
(* price, the write.                                                       *)
(***************************************************************************)
Undone(s) ==
  IF single[s].stage = "undo" THEN NoSell ELSE [single[s] EXCEPT !.cancelled = TRUE]

\* queueSellWithUndo; the price on the button may be up to three minutes old.
ClickSell(s, i, seen) ==
  /\ session /\ single[s] = NoSell
  /\ ~Reserved(i)
  /\ \A t \in PendingSells(i) : single[t].stage # "submit"
  /\ single' = [t \in Sells |->
       IF t = s THEN [item |-> i, stage |-> "undo", reviewed |-> seen, cancelled |-> FALSE]
       ELSE IF t \in PendingSells(i) THEN Undone(t) ELSE single[t]]
  /\ UNCHANGED <<session, level, listed, batch, approved, writes>>

Undo(s) ==
  /\ single[s].stage \in {"undo", "book"} /\ ~single[s].cancelled
  /\ single' = [single EXCEPT ![s] = Undone(s)]
  /\ UNCHANGED <<session, level, listed, batch, approved, writes>>

UndoWindowCloses(s) ==
  /\ single[s].stage = "undo"
  /\ single' = [single EXCEPT ![s].stage = "book"]
  /\ UNCHANGED <<session, level, listed, batch, approved, writes>>

CancelNotRechecked(s) == FALSE   \* mutant
CancelledMeanwhile(s) == single[s].cancelled

SingleSellPriced(s, answer) ==
  /\ single[s].stage = "book"
  /\ \/ /\ ~CancelledMeanwhile(s) /\ answer = "ok" /\ session
        /\ ~HasDownwardPriceDrift(single[s].reviewed, level)
        /\ single' = [single EXCEPT ![s].stage = "submit"]
        /\ writes' = Append(writes, [by |-> s, item |-> single[s].item, price |-> level])
     \/ /\ \/ CancelledMeanwhile(s) \/ answer # "ok" \/ ~session
           \/ HasDownwardPriceDrift(single[s].reviewed, level)
        /\ single' = [single EXCEPT ![s] = NoSell]
        /\ UNCHANGED writes
  /\ UNCHANGED <<session, level, listed, batch, approved>>

(***************************************************************************)
(* A batch: its items are reserved, priced, reviewed once, and then        *)
(* repriced and written one after the other.                               *)
(***************************************************************************)
Eligible(ticked) == {i \in ticked : PendingSells(i) = {}}

First(S) == CHOOSE i \in S : \A j \in S : i <= j
After(S, i) == {j \in S : j > i}
Planned(b) == {i \in Items : b.plan[i] # NoPrice}

\* The user ticks and unticks items at any time; what is ticked now is taken.
BatchStarts(ticked) ==
  LET queue == Eligible(ticked) IN
  /\ batch.pc = "idle" /\ session /\ queue # {}
  /\ batch' = [IdleBatch EXCEPT !.pc = "review", !.queue = queue, !.at = First(queue)]
  /\ approved' = queue
  /\ UNCHANGED <<session, level, listed, single, writes>>

BatchStop(b, reason) == [b EXCEPT !.pc = "summary", !.stop = reason]

\* The head of the submit loop; runAbort is looked at only here.
NextItem(b) ==
  LET rest == After(Planned(b), b.at)
  IN IF rest = {} THEN [b EXCEPT !.pc = "summary"]
     ELSE IF b.abort THEN BatchStop(b, "user")
     ELSE [b EXCEPT !.pc = "book", !.at = First(rest)]

\* One live price of the review; after the last one the user confirms or declines.
BatchReviewed(answer) ==
  LET b == IF answer = "ok" THEN [batch EXCEPT !.plan[batch.at] = level] ELSE batch
      rest == After(b.queue, b.at)
  IN
  /\ batch.pc = "review"
  /\ \/ answer \in {"limited", "auth"} /\ batch' = IdleBatch /\ approved' = {}
     \/ /\ answer \in {"ok", "none", "refused"} /\ rest # {}
        /\ batch' = [b EXCEPT !.at = First(rest)] /\ UNCHANGED approved
     \/ /\ answer \in {"ok", "none", "refused"} /\ rest = {} /\ Planned(b) # {}
        /\ batch' = NextItem([b EXCEPT !.at = 0]) /\ UNCHANGED approved
     \/ /\ answer \in {"ok", "none", "refused"} /\ rest = {}
        /\ batch' = IdleBatch /\ approved' = {}
  /\ UNCHANGED <<session, level, listed, single, writes>>

StopButton ==
  /\ batch.pc \in {"book", "submit"}
  /\ batch' = [batch EXCEPT !.abort = TRUE]
  /\ UNCHANGED <<session, level, listed, single, approved, writes>>

Reported(b, outcome) == [b EXCEPT !.report[b.at] = outcome]

LimitDoesNotStop(outcome) ==   \* mutant
  IF outcome \in {"auth", "drift", "lapsed"} THEN outcome ELSE "none"
\* batchStopReasonForError, and the drift that stops without an error.
StopReason(outcome) ==
  IF outcome \in {"limited", "auth", "drift", "lapsed"} THEN outcome ELSE "none"

\* An item is over: the batch stops for good, or goes on to the next one.
ItemOver(outcome) ==
  LET b == Reported(batch, outcome)
  IN batch' = IF StopReason(outcome) # "none" THEN BatchStop(b, StopReason(outcome))
              ELSE NextItem(b)

\* The price again, and then the checks of sellItem, in the code's order.
WriteVerdict(answer) ==
  IF answer \in {"refused", "limited", "auth"} THEN answer
  ELSE IF answer = "none" \/ HasDownwardPriceDrift(batch.plan[batch.at], level) THEN "drift"
  ELSE IF ~session THEN "auth"
  ELSE IF batch.at \notin approved THEN "lapsed" ELSE "write"

BatchPriced(answer) ==
  /\ batch.pc = "book"
  /\ \/ /\ WriteVerdict(answer) = "write"
        /\ batch' = [batch EXCEPT !.pc = "submit"]
        /\ approved' = approved \ {batch.at}
        /\ writes' = Append(writes, [by |-> Batch, item |-> batch.at, price |-> level])
     \/ /\ WriteVerdict(answer) # "write"
        /\ ItemOver(WriteVerdict(answer))
        /\ UNCHANGED <<approved, writes>>
  /\ UNCHANGED <<session, level, listed, single>>

\* The result is stored, and only then the reservation given up (the finally of runMassSell).
BatchEnds ==
  /\ batch.pc = "summary"
  /\ batch' = IdleBatch /\ approved' = {}
  /\ UNCHANGED <<session, level, listed, single, writes>>

(***************************************************************************)
(* Steam answers the write in flight.  An answer can be lost either way;   *)
(* an item that is listed already is refused.                              *)
(***************************************************************************)
CountsAsListed(answer) == answer = "listed"

WriteAnswered(answer, reached) ==
  LET w == Head(writes) IN
  /\ writes # <<>>
  /\ reached => session /\ w.item \notin listed
  /\ answer = "listed" => reached
  /\ answer \in {"refused", "limited", "auth"} => ~reached
  /\ writes' = Tail(writes)
  /\ listed' = IF reached THEN listed \cup {w.item} ELSE listed
  /\ \/ /\ w.by # Batch
        /\ single' = [single EXCEPT ![w.by] = NoSell]
        /\ UNCHANGED batch
     \/ /\ w.by = Batch /\ CountsAsListed(answer)
        /\ ItemOver("listed")
        /\ UNCHANGED single
     \/ /\ w.by = Batch /\ ~CountsAsListed(answer)
        /\ ItemOver(answer)
        /\ UNCHANGED single
  /\ UNCHANGED <<session, level, approved>>

PriceMoves ==
  /\ level' \in Levels \ {level}
  /\ UNCHANGED <<session, listed, single, batch, approved, writes>>

\* Signed out in another tab; the inventory page has to be loaded again after that.
SignedOut ==
  /\ session /\ session' = FALSE
  /\ UNCHANGED <<level, listed, single, batch, approved, writes>>

\* The capability lives for 30 minutes.
ApprovalLapses ==
  /\ approved # {} /\ approved' = {}
  /\ UNCHANGED <<session, level, listed, single, batch, writes>>

SaleNext ==
  \/ \E s \in Sells :
       \/ Undo(s) \/ UndoWindowCloses(s)
       \/ \E i \in Items, seen \in Levels : ClickSell(s, i, seen)
       \/ \E answer \in BookAnswers : SingleSellPriced(s, answer)
  \/ \E ticked \in SUBSET Items : BatchStarts(ticked)
  \/ StopButton \/ BatchEnds
  \/ \E answer \in BookAnswers : BatchReviewed(answer) \/ BatchPriced(answer)
  \/ \E answer \in {"listed", "refused", "limited", "auth", "lost"}, reached \in BOOLEAN :
       WriteAnswered(answer, reached)
  \/ PriceMoves \/ SignedOut \/ ApprovalLapses

SaleSpec == SaleInit /\ [][SaleNext]_saleVars

(***************************************************************************)
(* Properties                                                              *)
(***************************************************************************)
Reviewed(w) == IF w.by = Batch THEN batch.plan[w.item] ELSE single[w.by].reviewed

\* No write asks for less than the user reviewed, however the market moves between the review,
\* the repricing and the write, and whatever else is in the gate.
SellsAtReviewOrBetter == \A k \in DOMAIN writes : writes[k].price >= Reviewed(writes[k])

\* A sell the user took back, by Undo or by a second click on the item, is never written, even
\* when it was already asking for its price.
UndoneIsNeverWritten ==
  \A k \in DOMAIN writes : writes[k].by # Batch => ~single[writes[k].by].cancelled

\* Two writes of one item are never in the gate together: single sells and the batch exclude
\* each other in both directions.
OneWritePerItem ==
  \A k, l \in DOMAIN writes : writes[k].item = writes[l].item => k = l

\* What is in the gate is what the user asked for, once, at no less than was reviewed, whatever
\* was undone, repriced or answered while it was on its way.
WritesAreTheUsers == SellsAtReviewOrBetter /\ UndoneIsNeverWritten /\ OneWritePerItem

\* A rate limit, a lost session, a price drop or a lapsed approval ends the batch: no later item
\* is attempted.
BatchStopsDead ==
  \A i \in Items : batch.report[i] \in {"limited", "auth", "drift", "lapsed"} =>
    \A j \in After(Items, i) : /\ batch.report[j] = "unattempted"
                               /\ \A k \in DOMAIN writes :
                                    writes[k].by = Batch => writes[k].item < j
=============================================================================
