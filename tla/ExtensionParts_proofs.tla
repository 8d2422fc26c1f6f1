------------------------- MODULE ExtensionParts_proofs -------------------------
(***************************************************************************)
(* Nine invariants that MCExtensionParts checks on small instances, proved *)
(* for every value of the constants.  Eight are about one part: two of the *)
(* sales on Steam's market, and one each of the market's home page, the    *)
(* list of trade offers, the tags of the trade offer page, the Buff page,  *)
(* the panel on a listing's page of CSFloat and Steam's fees; each section *)
(* states the inductive invariant its theorems need, shows that the        *)
(* component starts in it and that each action keeps it, and ends with the *)
(* theorems.  The ninth is the types of all the variables: one section for *)
(* each part, on top of its inductive invariant where it has one, then     *)
(* that a behaviour of the whole is one of every part.                     *)
(***************************************************************************)
EXTENDS MCExtensionParts, P2PListing_proofs, SyncSchedule_proofs,
        FiniteSetTheorems, SequenceTheorems, WellFoundedInduction

\* Every set of numbers that has one has a least one.
LEMMA LeastNumber ==
  ASSUME NEW T \in SUBSET Nat, T # {}
  PROVE  \E x \in T : \A y \in T : x <= y
<1> DEFINE Less == OpToRel(<, Nat)
<1>1. IsWellFoundedOn(Less, Nat)
  BY NatLessThanWellFounded
<1>2. ASSUME NEW x \in Nat, NEW y \in Nat, y < x PROVE <<y, x>> \in Less
  BY <1>2 DEF OpToRel
<1> HIDE DEF Less
<1>3. PICK x \in T : \A y \in T : ~ (<<y, x>> \in Less)
  BY <1>1, WFMin
<1>4. ASSUME NEW y \in T PROVE x <= y
  <2>1. x \in Nat /\ y \in Nat /\ ~(y < x)
    BY <1>2, <1>3
  <2>2. QED
    BY <2>1
<1>5. QED
  BY <1>4

(***************************************************************************)
(* MarketSale.  A write in the gate is its author's only one, and its      *)
(* author waits for it; an item has one sell that is not taken back, and   *)
(* none while the batch holds it; the batch's items from the one it is at  *)
(* are not attempted, and a report that stops it finds it at its end.      *)
(***************************************************************************)
LiveSells == [item : Items, stage : {"undo", "book", "submit"}, reviewed : Levels,
              cancelled : BOOLEAN]
SellRecords == {NoSell} \cup LiveSells
Batches == [pc : {"idle", "review", "book", "submit", "summary"}, queue : SUBSET Items,
            at : Items \cup {0}, plan : [Items -> Levels \cup {NoPrice}], abort : BOOLEAN,
            stop : {"none", "limited", "auth", "drift", "lapsed", "user"},
            report : [Items -> Outcomes]]
GateWrites == [by : Sells \cup {Batch}, item : Items, price : Levels]
Stoppers == {"limited", "auth", "drift", "lapsed"}

SaleShapes ==
  /\ session \in BOOLEAN /\ level \in Levels
  /\ single \in [Sells -> SellRecords] /\ batch \in Batches /\ writes \in Seq(GateWrites)

\* What the write w says of its author.
IsSellsWrite(w) ==
  w.by \in Sells => /\ single[w.by].stage = "submit" /\ single[w.by].item = w.item
                    /\ ~single[w.by].cancelled /\ w.price >= single[w.by].reviewed
IsBatchsWrite(w) ==
  w.by = Batch => batch.pc = "submit" /\ batch.at = w.item /\ w.price >= batch.plan[w.item]

WritesAreAwaited ==
  /\ \A k \in DOMAIN writes : IsSellsWrite(writes[k]) /\ IsBatchsWrite(writes[k])
  /\ \A k, l \in DOMAIN writes : writes[k].by = writes[l].by => k = l

OneSellPerItem ==
  /\ \A i \in Items, s, t \in Sells : s \in PendingSells(i) /\ t \in PendingSells(i) => s = t
  /\ \A i \in Items : Reserved(i) => PendingSells(i) = {}

\* What holds of a batch by itself.
BatchIsInOrder(b) ==
  /\ Planned(b) \subseteq b.queue
  /\ b.pc \in {"review", "book", "submit"} => b.at \in b.queue
  /\ b.pc = "review" => b.report = NoReport
  /\ b.pc \in {"book", "submit"} => \A j \in Items : j >= b.at => b.report[j] = "unattempted"
  /\ \A i \in Items : b.report[i] \in Stoppers =>
       b.pc = "summary" /\ \A j \in After(Items, i) : b.report[j] = "unattempted"

SaleInductive == SaleShapes /\ WritesAreAwaited /\ OneSellPerItem /\ BatchIsInOrder(batch)

LEMMA OrNothing == \A i \in Items \cup {0} : i \in Nat
BY SaleAssumption DEF SaleAssumption, Items

LEMMA OrNoPrice == \A l \in Levels \cup {NoPrice} : l \in Nat
BY SaleAssumption DEF SaleAssumption, Levels, NoPrice

LEMMA ItemsAreNumbers ==
  /\ Items \subseteq Nat /\ 0 \notin Items /\ Levels \subseteq Nat /\ 0 \notin Levels
  /\ Sells \subseteq Nat /\ Batch \notin Sells /\ NoPrice \notin Levels
BY SaleAssumption DEF SaleAssumption, Items, Levels, Sells, Batch, NoPrice

\* The first item of a queue is one of its items.
LEMMA FirstIsIn ==
  ASSUME NEW S \in SUBSET Items, S # {}
  PROVE  First(S) \in S
<1>1. S \in SUBSET Nat
  BY ItemsAreNumbers
<1>2. \E i \in S : \A j \in S : i <= j
  BY <1>1, LeastNumber
<1>3. QED
  BY <1>2 DEF First

LEMMA IdleIsInOrder == IdleBatch \in Batches /\ BatchIsInOrder(IdleBatch)
<1>1. IdleBatch \in Batches
  BY DEF IdleBatch, Batches, NoPlan, NoReport, Outcomes
<1>2. Planned(IdleBatch) = {}
  BY DEF Planned, IdleBatch, NoPlan
<1>3. QED
  BY <1>1, <1>2 DEF BatchIsInOrder, IdleBatch, NoReport, Stoppers

LEMMA SaleBegins == SaleInit => SaleInductive
<1> SUFFICES ASSUME SaleInit PROVE SaleInductive
  OBVIOUS
<1>1. NoSell \in SellRecords /\ NoSell.item = 0
  BY DEF NoSell, SellRecords
<1>2. writes = <<>> /\ batch = IdleBatch /\ single = [s \in Sells |-> NoSell]
  BY DEF SaleInit
<1>3. SaleShapes
  <2>1. 1 \in Levels
    BY SaleAssumption DEF SaleAssumption, Levels
  <2>2. session \in BOOLEAN /\ level \in Levels
    BY <2>1 DEF SaleInit
  <2>3. single \in [Sells -> SellRecords]
    BY <1>1, <1>2
  <2>4. QED
    BY <1>2, <2>2, <2>3, IdleIsInOrder, EmptySeq DEF SaleShapes
<1>4. WritesAreAwaited
  BY <1>2 DEF WritesAreAwaited
<1>5. \A i \in Items : PendingSells(i) = {}
  BY <1>1, <1>2, ItemsAreNumbers DEF PendingSells
<1>6. OneSellPerItem
  BY <1>5 DEF OneSellPerItem
<1>7. QED
  BY <1>2, <1>3, <1>4, <1>6, IdleIsInOrder DEF SaleInductive

(***************************************************************************)
(* Single sells.                                                           *)
(***************************************************************************)
\* A change of single sells that are not in the gate, and that takes sells back or leaves them.
LEMMA SellsChange ==
  ASSUME SaleInductive, UNCHANGED <<session, level, batch, writes>>,
         single' \in [Sells -> SellRecords],
         \A s \in Sells : single[s].stage = "submit" /\ ~single[s].cancelled => single'[s] = single[s],
         \A i \in Items : PendingSells(i)' \subseteq PendingSells(i)
  PROVE  SaleInductive'
<1>0. SaleShapes /\ WritesAreAwaited /\ OneSellPerItem /\ BatchIsInOrder(batch)
  BY DEF SaleInductive
<1>1. SaleShapes'
  BY <1>0 DEF SaleShapes
<1>2. WritesAreAwaited'
  <2>1. \A k \in DOMAIN writes : IsSellsWrite(writes[k]) /\ IsBatchsWrite(writes[k])
    BY <1>0 DEF WritesAreAwaited
  <2>2. \A k \in DOMAIN writes : IsSellsWrite(writes[k])'
    BY <2>1 DEF IsSellsWrite
  <2>3. \A k \in DOMAIN writes : IsBatchsWrite(writes[k])'
    BY <2>1 DEF IsBatchsWrite
  <2>4. QED
    BY <1>0, <2>2, <2>3 DEF WritesAreAwaited
<1>3. \A i \in Items : Reserved(i)' = Reserved(i)
  BY DEF Reserved
<1>4. OneSellPerItem'
  BY <1>0, <1>3 DEF OneSellPerItem
<1>5. BatchIsInOrder(batch)'
  BY <1>0
<1>6. QED
  BY <1>1, <1>2, <1>4, <1>5 DEF SaleInductive

LEMMA UndoIsSafe ==
  ASSUME SaleInductive, NEW s \in Sells, Undo(s) \/ UndoWindowCloses(s)
  PROVE  SaleInductive'
<1>1. single \in [Sells -> SellRecords]
  BY DEF SaleInductive, SaleShapes
<1>2. single[s] \in LiveSells /\ single[s].stage # "submit"
  BY <1>1 DEF Undo, UndoWindowCloses, SellRecords, NoSell
<1>3. \E r \in SellRecords : /\ single' = [single EXCEPT ![s] = r]
                             /\ r.item \in {0, single[s].item}
                             /\ (single[s].cancelled => r.cancelled \/ r.item = 0)
  <2>1. CASE Undo(s)
    <3>1. NoSell \in SellRecords /\ NoSell.item = 0
      BY DEF NoSell, SellRecords
    <3>2. [single[s] EXCEPT !.cancelled = TRUE] \in SellRecords
          /\ [single[s] EXCEPT !.cancelled = TRUE].item = single[s].item
          /\ [single[s] EXCEPT !.cancelled = TRUE].cancelled
      BY <1>2 DEF SellRecords, LiveSells
    <3>3. Undone(s) \in {NoSell, [single[s] EXCEPT !.cancelled = TRUE]}
      BY DEF Undone
    <3>4. single' = [single EXCEPT ![s] = Undone(s)]
      BY <2>1 DEF Undo
    <3>5. QED
      BY <3>1, <3>2, <3>3, <3>4
  <2>2. CASE UndoWindowCloses(s)
    <3>1. [single[s] EXCEPT !.stage = "book"] \in SellRecords
          /\ [single[s] EXCEPT !.stage = "book"].item = single[s].item
          /\ [single[s] EXCEPT !.stage = "book"].cancelled = single[s].cancelled
      BY <1>2 DEF SellRecords, LiveSells
    <3>2. single' = [single EXCEPT ![s] = [single[s] EXCEPT !.stage = "book"]]
      BY <2>2 DEF UndoWindowCloses
    <3>3. QED
      BY <3>1, <3>2
  <2>3. QED
    BY <2>1, <2>2
<1>4. PICK r \in SellRecords : /\ single' = [single EXCEPT ![s] = r]
                               /\ r.item \in {0, single[s].item}
                               /\ (single[s].cancelled => r.cancelled \/ r.item = 0)
  BY <1>3
<1>5. /\ single' \in [Sells -> SellRecords] /\ single'[s] = r
      /\ \A t \in Sells : t # s => single'[t] = single[t]
  BY <1>1, <1>4
<1>6. \A i \in Items : PendingSells(i)' \subseteq PendingSells(i)
  <2>1. ASSUME NEW i \in Items, NEW t \in PendingSells(i)' PROVE t \in PendingSells(i)
    <3>1. t \in Sells /\ single'[t].item = i /\ ~single'[t].cancelled /\ i # 0
      BY <2>1, ItemsAreNumbers DEF PendingSells
    <3>2. QED
      BY <1>4, <1>5, <3>1 DEF PendingSells
  <2>2. QED
    BY <2>1
<1>7. UNCHANGED <<session, level, batch, writes>>
  BY DEF Undo, UndoWindowCloses
<1>8. \A t \in Sells : single[t].stage = "submit" /\ ~single[t].cancelled => single'[t] = single[t]
  BY <1>2, <1>5
<1>9. QED
  BY <1>5, <1>6, <1>7, <1>8, SellsChange

LEMMA ClickIsSafe ==
  ASSUME SaleInductive, NEW s \in Sells, NEW i \in Items, NEW seen \in Levels, ClickSell(s, i, seen)
  PROVE  SaleInductive'
<1>0. SaleShapes /\ WritesAreAwaited /\ OneSellPerItem /\ BatchIsInOrder(batch)
  BY DEF SaleInductive
<1> DEFINE new == [item |-> i, stage |-> "undo", reviewed |-> seen, cancelled |-> FALSE]
<1>1. single' = [t \in Sells |-> IF t = s THEN new
                                 ELSE IF t \in PendingSells(i) THEN Undone(t) ELSE single[t]]
  BY DEF ClickSell
<1>2. new \in SellRecords /\ new.item = i /\ new.stage = "undo"
  BY DEF SellRecords, LiveSells
<1>3. single[s] = NoSell /\ ~Reserved(i) /\ UNCHANGED <<session, level, batch, writes>>
  BY DEF ClickSell
<1>4. \A t \in PendingSells(i) : single[t].stage # "submit"
  BY DEF ClickSell
<1> HIDE DEF new
<1>5. \A t \in Sells : single[t] \in SellRecords
  BY <1>0 DEF SaleShapes
<1>6. NoSell \in SellRecords /\ NoSell.item = 0 /\ NoSell.stage = "none"
  BY DEF NoSell, SellRecords
<1>7. ASSUME NEW t \in PendingSells(i)
      PROVE  Undone(t) \in SellRecords /\ (Undone(t).cancelled \/ Undone(t).item = 0)
  <2>0. single[t] \in LiveSells
    BY <1>5, <1>6, ItemsAreNumbers DEF PendingSells, SellRecords
  <2>1. [single[t] EXCEPT !.cancelled = TRUE] \in SellRecords
        /\ [single[t] EXCEPT !.cancelled = TRUE].cancelled
    BY <2>0 DEF SellRecords, LiveSells
  <2>2. QED
    BY <1>6, <2>1 DEF Undone
<1>8. single' \in [Sells -> SellRecords] /\ single'[s] = new
  BY <1>1, <1>2, <1>5, <1>7
<1>9. \A t \in Sells : t # s => single'[t] = IF t \in PendingSells(i) THEN Undone(t) ELSE single[t]
  BY <1>1
<1>10. SaleShapes'
  BY <1>0, <1>3, <1>8 DEF SaleShapes
<1>11. \A t \in Sells : single[t].stage = "submit" => single'[t] = single[t]
  BY <1>3, <1>4, <1>6, <1>9
<1>12. WritesAreAwaited'
  <2>1. \A k \in DOMAIN writes : IsSellsWrite(writes[k]) /\ IsBatchsWrite(writes[k])
    BY <1>0 DEF WritesAreAwaited
  <2>2. \A k \in DOMAIN writes : IsSellsWrite(writes[k])'
    BY <1>3, <1>11, <2>1 DEF IsSellsWrite
  <2>3. \A k \in DOMAIN writes : IsBatchsWrite(writes[k])'
    BY <1>3, <2>1 DEF IsBatchsWrite
  <2>4. QED
    BY <1>0, <1>3, <2>2, <2>3 DEF WritesAreAwaited
<1>13. PendingSells(i)' \subseteq {s}
  <2>1. ASSUME NEW t \in PendingSells(i)', t # s PROVE FALSE
    <3>1. t \in Sells /\ single'[t].item = i /\ ~single'[t].cancelled /\ i # 0
      BY <2>1, ItemsAreNumbers DEF PendingSells
    <3>2. t \notin PendingSells(i)
      BY <1>7, <1>9, <2>1, <3>1
    <3>3. QED
      BY <1>9, <2>1, <3>1, <3>2 DEF PendingSells
  <2>2. QED
    BY <2>1
<1>14. ASSUME NEW j \in Items, j # i PROVE PendingSells(j)' \subseteq PendingSells(j)
  <2>1. ASSUME NEW t \in PendingSells(j)' PROVE t \in PendingSells(j)
    <3>1. t \in Sells /\ single'[t].item = j /\ ~single'[t].cancelled /\ j # 0
      BY <2>1, ItemsAreNumbers DEF PendingSells
    <3>2. t # s
      BY <1>2, <1>8, <1>14, <3>1
    <3>3. t \notin PendingSells(i)
      BY <1>7, <1>9, <3>1, <3>2
    <3>4. QED
      BY <1>9, <3>1, <3>2, <3>3 DEF PendingSells
  <2>2. QED
    BY <2>1
<1>15. \A j \in Items : Reserved(j)' = Reserved(j)
  BY <1>3 DEF Reserved
<1>16. OneSellPerItem'
  BY <1>0, <1>3, <1>13, <1>14, <1>15 DEF OneSellPerItem
<1>17. BatchIsInOrder(batch)'
  BY <1>0, <1>3
<1>18. QED
  BY <1>10, <1>12, <1>16, <1>17 DEF SaleInductive

\* A write joins the gate, whose author has none there.
LEMMA WriteJoins ==
  ASSUME NEW w \in GateWrites, writes \in Seq(GateWrites), writes' = Append(writes, w),
         \A v : \A k \in DOMAIN writes : v = writes[k] => IsSellsWrite(v)' /\ IsBatchsWrite(v)',
         \A v : v = w => IsSellsWrite(v)' /\ IsBatchsWrite(v)',
         \A k \in DOMAIN writes : writes[k].by # w.by,
         \A k, l \in DOMAIN writes : writes[k].by = writes[l].by => k = l
  PROVE  WritesAreAwaited' /\ writes' \in Seq(GateWrites)
<1>1. /\ writes' \in Seq(GateWrites) /\ Len(writes') = Len(writes) + 1 /\ Len(writes) \in Nat
      /\ writes'[Len(writes) + 1] = w /\ \A k \in 1..Len(writes) : writes'[k] = writes[k]
  BY AppendProperties
<1>2. DOMAIN writes = 1..Len(writes) /\ DOMAIN writes' = 1..(Len(writes) + 1)
  BY <1>1
<1>3. \A k \in DOMAIN writes' : k \in DOMAIN writes \/ k = Len(writes) + 1
  BY <1>1, <1>2
<1>4. \A k \in DOMAIN writes : writes'[k] = writes[k]
  BY <1>1, <1>2
<1>5. ASSUME NEW k \in DOMAIN writes' PROVE IsSellsWrite(writes[k])' /\ IsBatchsWrite(writes[k])'
  <2>1. CASE k \in DOMAIN writes
    <3>1. \A v : v = writes'[k] => IsSellsWrite(v)' /\ IsBatchsWrite(v)'
      BY <1>4, <2>1
    <3>2. QED
      BY <3>1
  <2>2. CASE k = Len(writes) + 1
    <3>1. \A v : v = writes'[k] => IsSellsWrite(v)' /\ IsBatchsWrite(v)'
      BY <1>1, <2>2
    <3>2. QED
      BY <3>1
  <2>3. QED
    BY <1>3, <2>1, <2>2
<1>6. \A k, l \in DOMAIN writes' : writes'[k].by = writes'[l].by => k = l
  BY <1>1, <1>3, <1>4
<1>7. QED
  BY <1>1, <1>5, <1>6 DEF WritesAreAwaited

LEMMA SingleSellIsSafe ==
  ASSUME SaleInductive, NEW s \in Sells, NEW answer, SingleSellPriced(s, answer)
  PROVE  SaleInductive'
<1>0. SaleShapes /\ WritesAreAwaited /\ OneSellPerItem /\ BatchIsInOrder(batch)
  BY DEF SaleInductive
<1>1. single \in [Sells -> SellRecords] /\ single[s] \in LiveSells /\ single[s].stage = "book"
  BY <1>0 DEF SaleShapes, SingleSellPriced, SellRecords, NoSell
<1>2. UNCHANGED <<session, level, listed, batch, approved>>
  BY DEF SingleSellPriced
<1>3. CASE single' = [single EXCEPT ![s] = NoSell] /\ UNCHANGED writes
  <2>1. NoSell \in SellRecords /\ NoSell.item = 0
    BY DEF NoSell, SellRecords
  <2>2. /\ single' \in [Sells -> SellRecords] /\ single'[s] = NoSell
        /\ \A t \in Sells : t # s => single'[t] = single[t]
    BY <1>1, <1>3, <2>1
  <2>3. \A i \in Items : PendingSells(i)' \subseteq PendingSells(i)
    BY <2>1, <2>2, ItemsAreNumbers DEF PendingSells
  <2>4. \A t \in Sells : single[t].stage = "submit" /\ ~single[t].cancelled => single'[t] = single[t]
    BY <1>1, <2>2
  <2>5. QED
    BY <1>2, <1>3, <2>2, <2>3, <2>4, SellsChange
<1>4. CASE /\ ~CancelledMeanwhile(s) /\ ~HasDownwardPriceDrift(single[s].reviewed, level)
           /\ single' = [single EXCEPT ![s].stage = "submit"]
           /\ writes' = Append(writes, [by |-> s, item |-> single[s].item, price |-> level])
  <2> DEFINE r == [single[s] EXCEPT !.stage = "submit"]
             w == [by |-> s, item |-> single[s].item, price |-> level]
  <2>1. /\ r \in SellRecords /\ r.stage = "submit" /\ r.item = single[s].item
        /\ r.reviewed = single[s].reviewed /\ r.cancelled = single[s].cancelled
    BY <1>1 DEF SellRecords, LiveSells
  <2>2. single' = [single EXCEPT ![s] = r] /\ writes' = Append(writes, w)
    BY <1>4
  <2>3. level \in Levels /\ single[s].reviewed \in Levels
    BY <1>0, <1>1 DEF SaleShapes, LiveSells
  <2>4. level >= single[s].reviewed
    <3>1. level \in Nat /\ single[s].reviewed \in Nat
      BY <2>3, ItemsAreNumbers DEF NoPrice
    <3>2. ~(level < single[s].reviewed)
      BY <1>4 DEF HasDownwardPriceDrift
    <3>3. QED
      BY <3>1, <3>2
  <2>5. ~single[s].cancelled
    BY <1>4 DEF CancelledMeanwhile
  <2>0. w.by = s /\ w.item = single[s].item /\ w.price = level
    OBVIOUS
  <2>6. CASE single[s].item \in Items
    <3>1. w \in GateWrites
      BY <2>3, <2>6 DEF GateWrites
    <3> HIDE DEF r, w
    <3>2. /\ single' \in [Sells -> SellRecords] /\ single'[s] = r
          /\ \A t \in Sells : t # s => single'[t] = single[t]
      BY <1>1, <2>1, <2>2
    <3>3. \A k \in DOMAIN writes : IsSellsWrite(writes[k]) /\ IsBatchsWrite(writes[k])
      BY <1>0 DEF WritesAreAwaited
    <3>4. \A k \in DOMAIN writes : writes[k].by # s
      BY <1>1, <3>3 DEF IsSellsWrite
    <3>5. \A v : \A k \in DOMAIN writes : v = writes[k] => IsSellsWrite(v)'
      BY <3>2, <3>3, <3>4 DEF IsSellsWrite
    <3>6. \A v : \A k \in DOMAIN writes : v = writes[k] => IsBatchsWrite(v)'
      BY <1>2, <3>3 DEF IsBatchsWrite
    <3>7. \A v : v = w => IsSellsWrite(v)'
      BY <2>0, <2>1, <2>4, <2>5, <3>2 DEF IsSellsWrite
    <3>8. \A v : v = w => IsBatchsWrite(v)'
      BY <2>0, ItemsAreNumbers DEF IsBatchsWrite
    <3>9. WritesAreAwaited' /\ writes' \in Seq(GateWrites)
      <4>1. writes \in Seq(GateWrites)
        BY <1>0 DEF SaleShapes
      <4>2. \A k, l \in DOMAIN writes : writes[k].by = writes[l].by => k = l
        BY <1>0 DEF WritesAreAwaited
      <4>3. QED
        BY <2>0, <2>2, <3>1, <3>4, <3>5, <3>6, <3>7, <3>8, <4>1, <4>2, WriteJoins
    <3>10. SaleShapes'
      BY <1>0, <1>2, <3>2, <3>9 DEF SaleShapes
    <3>11. \A i \in Items : PendingSells(i)' = PendingSells(i)
      BY <2>1, <3>2 DEF PendingSells
    <3>12. \A i \in Items : Reserved(i)' = Reserved(i)
      BY <1>2 DEF Reserved
    <3>13. OneSellPerItem'
      BY <1>0, <3>11, <3>12 DEF OneSellPerItem
    <3>14. QED
      BY <1>0, <1>2, <3>9, <3>10, <3>13 DEF SaleInductive
  <2>8. QED
    BY <1>1, <2>6 DEF LiveSells
<1>5. QED
  BY <1>3, <1>4 DEF SingleSellPriced

(***************************************************************************)
(* The batch.                                                              *)
(***************************************************************************)
\* The batch goes on, while none of its writes is in the gate, with no item that is being sold.
LEMMA BatchChanges ==
  ASSUME SaleInductive, UNCHANGED <<session, level, single>>, writes' \in Seq(GateWrites),
         \A k \in DOMAIN writes' : /\ writes'[k].by # Batch
                                   /\ \E l \in DOMAIN writes : writes'[k] = writes[l],
         \A k, l \in DOMAIN writes' : writes'[k].by = writes'[l].by => k = l,
         batch' \in Batches, BatchIsInOrder(batch)',
         \A i \in batch'.queue : batch'.pc = "idle" \/ Reserved(i) \/ PendingSells(i) = {}
  PROVE  SaleInductive'
<1>0. SaleShapes /\ WritesAreAwaited /\ OneSellPerItem /\ BatchIsInOrder(batch)
  BY DEF SaleInductive
<1>1. SaleShapes'
  BY <1>0 DEF SaleShapes
<1>2. WritesAreAwaited'
  <2>1. \A k \in DOMAIN writes' : IsSellsWrite(writes'[k]) /\ writes'[k].by # Batch
    BY <1>0 DEF WritesAreAwaited
  <2>2. \A v : \A k \in DOMAIN writes' : v = writes'[k] => IsSellsWrite(v)' /\ IsBatchsWrite(v)'
    BY <2>1 DEF IsSellsWrite, IsBatchsWrite
  <2>3. \A k \in DOMAIN writes' : IsSellsWrite(writes[k])' /\ IsBatchsWrite(writes[k])'
    BY <2>2
  <2>4. QED
    BY <2>3 DEF WritesAreAwaited
<1>3. \A i \in Items : PendingSells(i)' = PendingSells(i)
  BY DEF PendingSells
<1>4. \A i \in Items : Reserved(i)' => PendingSells(i) = {}
  BY <1>0 DEF Reserved, OneSellPerItem
<1>5. OneSellPerItem'
  BY <1>0, <1>3, <1>4 DEF OneSellPerItem
<1>6. QED
  BY <1>1, <1>2, <1>5 DEF SaleInductive

\* The same, where no write comes or goes.
LEMMA BatchGoesOn ==
  ASSUME SaleInductive, batch.pc # "submit", UNCHANGED <<session, level, single, writes>>,
         batch' \in Batches, BatchIsInOrder(batch)',
         \A i \in batch'.queue : batch'.pc = "idle" \/ Reserved(i) \/ PendingSells(i) = {}
  PROVE  SaleInductive'
<1>0. SaleShapes /\ WritesAreAwaited
  BY DEF SaleInductive
<1>1. \A k \in DOMAIN writes : writes[k].by # Batch
  BY <1>0 DEF WritesAreAwaited, IsBatchsWrite
<1>2. \A k, l \in DOMAIN writes : writes[k].by = writes[l].by => k = l
  BY <1>0 DEF WritesAreAwaited
<1>3. writes \in Seq(GateWrites)
  BY <1>0 DEF SaleShapes
<1>4. QED
  BY <1>1, <1>2, <1>3, BatchChanges

\* NextItem moves on to an item of the plan that is not attempted yet.
LEMMA NextItemIsInOrder ==
  ASSUME NEW b \in Batches, Planned(b) \subseteq b.queue,
         \A j \in After(Items, b.at) : b.report[j] = "unattempted",
         \A i \in Items : b.report[i] \notin Stoppers
  PROVE  NextItem(b) \in Batches /\ BatchIsInOrder(NextItem(b)) /\ NextItem(b).queue = b.queue
<1> DEFINE rest == After(Planned(b), b.at)
<1>1. rest \subseteq Planned(b) /\ rest \subseteq After(Items, b.at) /\ rest \subseteq Items
  BY DEF After, Planned
<1>2. \A c \in Batches : c.plan = b.plan => Planned(c) = Planned(b)
  BY DEF Planned
<1>3. ASSUME NEW c \in Batches, c.pc = "summary", c.plan = b.plan, c.queue = b.queue,
             c.report = b.report
      PROVE  BatchIsInOrder(c)
  BY <1>2, <1>3 DEF BatchIsInOrder
<1>4. CASE rest = {}
  <2> DEFINE c == [b EXCEPT !.pc = "summary"]
  <2>1. /\ c \in Batches /\ c.pc = "summary" /\ c.plan = b.plan /\ c.queue = b.queue
        /\ c.report = b.report
    BY DEF Batches
  <2>2. NextItem(b) = c
    BY <1>4 DEF NextItem
  <2> HIDE DEF c
  <2>3. QED
    BY <1>3, <2>1, <2>2
<1>5. CASE rest # {} /\ b.abort
  <2> DEFINE c == BatchStop(b, "user")
  <2>1. /\ c \in Batches /\ c.pc = "summary" /\ c.plan = b.plan /\ c.queue = b.queue
        /\ c.report = b.report
    BY DEF Batches, BatchStop
  <2>2. NextItem(b) = c
    BY <1>5 DEF NextItem
  <2> HIDE DEF c
  <2>3. QED
    BY <1>3, <2>1, <2>2
<1>6. CASE rest # {} /\ ~b.abort
  <2> DEFINE i == First(rest)
             c == [b EXCEPT !.pc = "book", !.at = i]
  <2>1. i \in rest
    BY <1>1, <1>6, FirstIsIn
  <2>2. i \in Items /\ i > b.at /\ b.at \in Nat /\ i \in b.queue
    <3>0. b.at \in Items \cup {0}
      BY DEF Batches
    <3>1. b.at \in Nat
      BY <3>0, OrNothing
    <3>2. QED
      BY <1>1, <2>1, <3>1 DEF After
  <2> HIDE DEF i
  <2>3. /\ c \in Batches /\ c.pc = "book" /\ c.plan = b.plan /\ c.queue = b.queue
        /\ c.report = b.report /\ c.at = i
    BY <2>2 DEF Batches
  <2>4. NextItem(b) = c
    BY <1>6 DEF NextItem, i
  <2> HIDE DEF c
  <2>5. ASSUME NEW j \in Items, j >= i PROVE c.report[j] = "unattempted"
    <3>1. j \in Nat /\ i \in Nat
      BY <2>2, ItemsAreNumbers
    <3>2. j > b.at
      BY <2>2, <2>5, <3>1
    <3>3. QED
      BY <2>3, <3>2 DEF After
  <2>6. BatchIsInOrder(c)
    BY <1>2, <2>2, <2>3, <2>5 DEF BatchIsInOrder
  <2>7. QED
    BY <2>3, <2>4, <2>6
<1>7. QED
  BY <1>4, <1>5, <1>6

\* The batch as it may be found while it reprices or writes, and once the item at hand is over.
LEMMA ItemOverIsInOrder ==
  ASSUME SaleShapes, BatchIsInOrder(batch), batch.pc \in {"book", "submit"},
         NEW outcome \in Outcomes \ {"unattempted"}, ItemOver(outcome)
  PROVE  batch' \in Batches /\ BatchIsInOrder(batch)' /\ batch'.queue = batch.queue
         /\ batch'.pc # "submit"
<1> DEFINE b == Reported(batch, outcome)
<1>1. batch \in Batches /\ batch.at \in batch.queue /\ batch.queue \subseteq Items
  BY DEF SaleShapes, BatchIsInOrder, Batches
<1>2. /\ b \in Batches /\ b.queue = batch.queue /\ b.plan = batch.plan /\ b.at = batch.at
      /\ b.report = [batch.report EXCEPT ![batch.at] = outcome]
  BY <1>1 DEF Batches, Reported
<1>3. /\ b.report[batch.at] = outcome
      /\ \A i \in Items : i # batch.at => b.report[i] = batch.report[i]
  BY <1>1, <1>2 DEF Batches
<1>4. Planned(b) \subseteq b.queue
  BY <1>2 DEF Planned, BatchIsInOrder
<1>5. ASSUME NEW j \in After(Items, b.at) PROVE b.report[j] = "unattempted"
  <2>1. j \in Items /\ j > batch.at /\ j \in Nat /\ batch.at \in Nat
    BY <1>1, <1>2, <1>5, ItemsAreNumbers DEF After
  <2>2. j >= batch.at /\ j # batch.at
    BY <2>1
  <2>3. QED
    BY <1>3, <2>1, <2>2 DEF BatchIsInOrder
<1>6. \A i \in Items : i # batch.at => b.report[i] \notin Stoppers
  BY <1>3 DEF BatchIsInOrder
<1>7. batch' = IF StopReason(outcome) # "none" THEN BatchStop(b, StopReason(outcome))
               ELSE NextItem(b)
  BY DEF ItemOver
<1>8. StopReason(outcome) # "none" <=> outcome \in Stoppers
  BY DEF StopReason, Stoppers
<1> HIDE DEF b
<1>9. CASE outcome \in Stoppers
  <2> DEFINE c == BatchStop(b, StopReason(outcome))
  <2>1. StopReason(outcome) = outcome
    BY <1>9 DEF StopReason, Stoppers
  <2>2. /\ c \in Batches /\ c.pc = "summary" /\ c.plan = b.plan /\ c.queue = b.queue
        /\ c.report = b.report
    BY <1>2, <1>9, <2>1 DEF Batches, BatchStop, Stoppers
  <2>3. batch' = c
    BY <1>7, <1>8, <1>9
  <2> HIDE DEF c
  <2>4. Planned(c) = Planned(b)
    BY <2>2 DEF Planned
  <2>5. \A i \in Items : c.report[i] \in Stoppers => i = batch.at
    BY <1>6, <2>2
  <2>6. \A j \in After(Items, batch.at) : c.report[j] = "unattempted"
    BY <1>2, <1>5, <2>2
  <2>7. BatchIsInOrder(c)
    BY <1>4, <2>2, <2>4, <2>5, <2>6 DEF BatchIsInOrder
  <2>8. BatchIsInOrder(batch)'
    <3>1. \A p : p = c => BatchIsInOrder(p)
      BY <2>7
    <3>2. QED
      BY <2>3, <3>1 DEF BatchIsInOrder, Planned
  <2>9. QED
    BY <1>2, <2>2, <2>3, <2>8
<1>10. CASE outcome \notin Stoppers
  <2>1. \A i \in Items : b.report[i] \notin Stoppers
    BY <1>3, <1>6, <1>10
  <2>2. NextItem(b) \in Batches /\ BatchIsInOrder(NextItem(b)) /\ NextItem(b).queue = b.queue
    BY <1>2, <1>4, <1>5, <2>1, NextItemIsInOrder
  <2>3. NextItem(b).pc # "submit"
    BY <1>2 DEF NextItem, BatchStop, Batches
  <2>4. batch' = NextItem(b)
    BY <1>7, <1>8, <1>10
  <2>5. QED
    BY <1>2, <2>2, <2>3, <2>4
<1>11. QED
  BY <1>9, <1>10

\* A batch that is over, or ends at once, holds nothing.
LEMMA IdlingIsSafe ==
  ASSUME SaleInductive, batch.pc # "submit", UNCHANGED <<session, level, single, writes>>,
         batch' = IdleBatch
  PROVE  SaleInductive'
<1>1. batch' \in Batches /\ batch'.pc = "idle"
  BY IdleIsInOrder DEF IdleBatch
<1>2. BatchIsInOrder(batch)'
  <2>1. \A b : b = IdleBatch => BatchIsInOrder(b)
    BY IdleIsInOrder
  <2>2. QED
    BY <2>1 DEF BatchIsInOrder, Planned
<1>3. QED
  BY <1>1, <1>2, BatchGoesOn

LEMMA BatchStartsSafely ==
  ASSUME SaleInductive, NEW ticked \in SUBSET Items, BatchStarts(ticked)
  PROVE  SaleInductive'
<1> DEFINE queue == Eligible(ticked)
           b == [IdleBatch EXCEPT !.pc = "review", !.queue = queue, !.at = First(queue)]
<1>1. queue \subseteq Items /\ queue # {} /\ \A i \in queue : PendingSells(i) = {}
  BY DEF BatchStarts, Eligible
<1>2. First(queue) \in queue
  BY <1>1, FirstIsIn
<1>3. /\ b \in Batches /\ b.pc = "review" /\ b.queue = queue /\ b.at = First(queue)
      /\ b.plan = NoPlan /\ b.report = NoReport
  BY <1>1, <1>2, IdleIsInOrder DEF IdleBatch, Batches
<1>4. batch' = b /\ batch.pc = "idle" /\ UNCHANGED <<session, level, single, writes>>
  BY DEF BatchStarts
<1> HIDE DEF b, queue
<1>5. Planned(b) = {} /\ \A i \in Items : b.report[i] \notin Stoppers
  BY <1>3 DEF Planned, NoPlan, NoReport, Stoppers
<1>6. BatchIsInOrder(b)
  BY <1>2, <1>3, <1>5 DEF BatchIsInOrder
<1>7. BatchIsInOrder(batch)'
  BY <1>4, <1>6 DEF BatchIsInOrder, Planned
<1>8. QED
  BY <1>1, <1>3, <1>4, <1>7, BatchGoesOn

LEMMA ReviewIsSafe ==
  ASSUME SaleInductive, NEW answer, BatchReviewed(answer)
  PROVE  SaleInductive'
<1>0. SaleShapes /\ BatchIsInOrder(batch)
  BY DEF SaleInductive
<1> DEFINE b == IF answer = "ok" THEN [batch EXCEPT !.plan[batch.at] = level] ELSE batch
           rest == After(b.queue, b.at)
<1>1. /\ batch \in Batches /\ batch.pc = "review" /\ batch.at \in batch.queue
      /\ batch.queue \subseteq Items /\ batch.report = NoReport /\ level \in Levels
      /\ UNCHANGED <<session, level, single, writes>>
  BY <1>0 DEF SaleShapes, BatchIsInOrder, Batches, BatchReviewed
<1>2. /\ b \in Batches /\ b.pc = "review" /\ b.queue = batch.queue /\ b.at = batch.at
      /\ b.report = NoReport /\ \A i \in Items : i # batch.at => b.plan[i] = batch.plan[i]
  BY <1>1 DEF Batches
<1>3. Planned(b) \subseteq b.queue
  BY <1>0, <1>1, <1>2 DEF Planned, BatchIsInOrder
<1>4. \A i \in Items : NoReport[i] = "unattempted"
  BY DEF NoReport
<1>5. \/ batch' = IdleBatch
      \/ rest # {} /\ batch' = [b EXCEPT !.at = First(rest)]
      \/ batch' = NextItem([b EXCEPT !.at = 0])
  BY DEF BatchReviewed
<1>6. rest \subseteq b.queue
  BY DEF After
<1> HIDE DEF b, rest
<1>7. CASE batch' = IdleBatch
  BY <1>1, <1>7, IdlingIsSafe
<1>8. CASE rest # {} /\ batch' = [b EXCEPT !.at = First(rest)]
  <2> DEFINE c == [b EXCEPT !.at = First(rest)]
  <2>1. First(rest) \in rest
    BY <1>1, <1>2, <1>6, <1>8, FirstIsIn
  <2>2. /\ c \in Batches /\ c.pc = "review" /\ c.queue = batch.queue /\ c.at = First(rest)
        /\ c.plan = b.plan /\ c.report = NoReport
    BY <1>1, <1>2, <1>6, <2>1 DEF Batches
  <2>3. batch' = c
    BY <1>8
  <2> HIDE DEF c
  <2>4. Planned(c) = Planned(b)
    BY <2>2 DEF Planned
  <2>5. BatchIsInOrder(c)
    BY <1>2, <1>3, <1>4, <1>6, <2>1, <2>2, <2>4 DEF BatchIsInOrder, Stoppers
  <2>6. BatchIsInOrder(batch)'
    BY <2>3, <2>5 DEF BatchIsInOrder, Planned
  <2>7. \A i \in batch'.queue : Reserved(i)
    BY <1>1, <2>2, <2>3 DEF Reserved
  <2>8. QED
    BY <1>1, <2>2, <2>3, <2>6, <2>7, BatchGoesOn
<1>9. CASE batch' = NextItem([b EXCEPT !.at = 0])
  <2> DEFINE c == [b EXCEPT !.at = 0]
  <2>1. /\ c \in Batches /\ c.queue = batch.queue /\ c.plan = b.plan /\ c.report = NoReport
    BY <1>2 DEF Batches
  <2> HIDE DEF c
  <2>2. Planned(c) = Planned(b)
    BY <2>1 DEF Planned
  <2>3. \A j \in After(Items, c.at) : c.report[j] = "unattempted"
    BY <1>4, <2>1 DEF After
  <2>4. \A i \in Items : c.report[i] \notin Stoppers
    BY <1>4, <2>1 DEF Stoppers
  <2>5. NextItem(c) \in Batches /\ BatchIsInOrder(NextItem(c)) /\ NextItem(c).queue = c.queue
    BY <1>2, <1>3, <2>1, <2>2, <2>3, <2>4, NextItemIsInOrder
  <2>6. batch' = NextItem(c)
    BY <1>9 DEF c
  <2>7. BatchIsInOrder(batch)'
    BY <2>5, <2>6 DEF BatchIsInOrder, Planned
  <2>8. \A i \in batch'.queue : Reserved(i)
    BY <1>1, <2>1, <2>5, <2>6 DEF Reserved
  <2>9. QED
    BY <1>1, <2>5, <2>6, <2>7, <2>8, BatchGoesOn
<1>10. QED
  BY <1>5, <1>7, <1>8, <1>9

LEMMA RepricingIsSafe ==
  ASSUME SaleInductive, NEW answer \in BookAnswers, BatchPriced(answer)
  PROVE  SaleInductive'
<1>0. SaleShapes /\ WritesAreAwaited /\ OneSellPerItem /\ BatchIsInOrder(batch)
  BY DEF SaleInductive
<1>1. /\ batch \in Batches /\ batch.pc = "book" /\ batch.at \in batch.queue
      /\ batch.queue \subseteq Items /\ UNCHANGED <<session, level, single>>
  BY <1>0 DEF SaleShapes, BatchIsInOrder, Batches, BatchPriced
<1>2. CASE /\ WriteVerdict(answer) = "write"
           /\ batch' = [batch EXCEPT !.pc = "submit"]
           /\ writes' = Append(writes, [by |-> Batch, item |-> batch.at, price |-> level])
  <2> DEFINE b == [batch EXCEPT !.pc = "submit"]
             w == [by |-> Batch, item |-> batch.at, price |-> level]
  <2>1. /\ b \in Batches /\ b.pc = "submit" /\ b.queue = batch.queue /\ b.at = batch.at
        /\ b.plan = batch.plan /\ b.report = batch.report
    BY <1>1 DEF Batches
  <2>2. level >= batch.plan[batch.at]
    <3>1. level \in Levels /\ batch.plan[batch.at] \in Levels \cup {NoPrice}
      BY <1>0, <1>1 DEF SaleShapes, Batches
    <3>2. level \in Nat /\ batch.plan[batch.at] \in Nat
      BY <3>1, OrNoPrice
    <3>3. ~(level < batch.plan[batch.at])
      BY <1>2 DEF WriteVerdict, HasDownwardPriceDrift
    <3>4. QED
      BY <3>2, <3>3
  <2>3. w \in GateWrites /\ w.by = Batch /\ w.item = batch.at /\ w.price = level
    BY <1>0, <1>1 DEF GateWrites, SaleShapes
  <2>4. batch' = b /\ writes' = Append(writes, w)
    BY <1>2
  <2> HIDE DEF b, w
  <2>5. \A k \in DOMAIN writes : IsSellsWrite(writes[k]) /\ writes[k].by # Batch
    BY <1>0, <1>1 DEF WritesAreAwaited, IsBatchsWrite
  <2>6. \A v : \A k \in DOMAIN writes : v = writes[k] => IsSellsWrite(v)' /\ IsBatchsWrite(v)'
    BY <1>1, <2>5 DEF IsSellsWrite, IsBatchsWrite
  <2>7. \A v : v = w => IsSellsWrite(v)' /\ IsBatchsWrite(v)'
    BY <2>1, <2>2, <2>3, <2>4, ItemsAreNumbers DEF IsSellsWrite, IsBatchsWrite
  <2>8. WritesAreAwaited' /\ writes' \in Seq(GateWrites)
    <3>1. writes \in Seq(GateWrites)
      BY <1>0 DEF SaleShapes
    <3>2. \A k, l \in DOMAIN writes : writes[k].by = writes[l].by => k = l
      BY <1>0 DEF WritesAreAwaited
    <3>3. QED
      BY <2>3, <2>4, <2>5, <2>6, <2>7, <3>1, <3>2, WriteJoins
  <2>9. Planned(b) = Planned(batch)
    BY <2>1 DEF Planned
  <2>10. BatchIsInOrder(b)
    BY <1>0, <1>1, <2>1, <2>9 DEF BatchIsInOrder
  <2>11. BatchIsInOrder(batch)'
    BY <2>4, <2>10 DEF BatchIsInOrder, Planned
  <2>12. SaleShapes'
    BY <1>0, <1>1, <2>1, <2>4, <2>8 DEF SaleShapes
  <2>13. \A i \in Items : PendingSells(i)' = PendingSells(i) /\ Reserved(i)' = Reserved(i)
    BY <1>1, <2>1, <2>4 DEF PendingSells, Reserved
  <2>14. OneSellPerItem'
    BY <1>0, <2>13 DEF OneSellPerItem
  <2>15. QED
    BY <2>8, <2>11, <2>12, <2>14 DEF SaleInductive
<1>3. CASE WriteVerdict(answer) # "write" /\ ItemOver(WriteVerdict(answer)) /\ UNCHANGED writes
  <2>1. WriteVerdict(answer) \in Outcomes \ {"unattempted"}
    BY <1>3 DEF WriteVerdict, Outcomes
  <2>2. batch' \in Batches /\ BatchIsInOrder(batch)' /\ batch'.queue = batch.queue
    BY <1>0, <1>1, <1>3, <2>1, ItemOverIsInOrder
  <2>3. \A i \in batch'.queue : Reserved(i)
    BY <1>1, <2>2 DEF Reserved
  <2>4. QED
    BY <1>1, <1>3, <2>2, <2>3, BatchGoesOn
<1>4. QED
  BY <1>2, <1>3 DEF BatchPriced

LEMMA StopIsSafe ==
  ASSUME SaleInductive, StopButton
  PROVE  SaleInductive'
<1>0. SaleShapes /\ WritesAreAwaited /\ OneSellPerItem /\ BatchIsInOrder(batch)
  BY DEF SaleInductive
<1> DEFINE b == [batch EXCEPT !.abort = TRUE]
<1>1. batch \in Batches
  BY <1>0 DEF SaleShapes
<1>2. /\ b \in Batches /\ b.pc = batch.pc /\ b.queue = batch.queue /\ b.at = batch.at
      /\ b.plan = batch.plan /\ b.report = batch.report
  BY <1>1 DEF Batches
<1>3. batch' = b /\ UNCHANGED <<session, level, single, writes>>
  BY DEF StopButton
<1> HIDE DEF b
<1>4. SaleShapes'
  BY <1>0, <1>2, <1>3 DEF SaleShapes
<1>5. \A k \in DOMAIN writes : IsSellsWrite(writes[k])' /\ IsBatchsWrite(writes[k])'
  BY <1>0, <1>2, <1>3 DEF WritesAreAwaited, IsSellsWrite, IsBatchsWrite
<1>6. WritesAreAwaited'
  BY <1>0, <1>3, <1>5 DEF WritesAreAwaited
<1>7. \A i \in Items : PendingSells(i)' = PendingSells(i) /\ Reserved(i)' = Reserved(i)
  BY <1>2, <1>3 DEF PendingSells, Reserved
<1>8. OneSellPerItem'
  BY <1>0, <1>7 DEF OneSellPerItem
<1>9. BatchIsInOrder(batch)'
  BY <1>0, <1>2, <1>3 DEF BatchIsInOrder, Planned
<1>10. QED
  BY <1>4, <1>6, <1>8, <1>9 DEF SaleInductive

\* The answered write leaves the gate, with its author's only one.
LEMMA AnswerIsSafeForSales ==
  ASSUME SaleInductive, NEW answer \in {"listed", "refused", "limited", "auth", "lost"},
         NEW reached, WriteAnswered(answer, reached)
  PROVE  SaleInductive'
<1>0. SaleShapes /\ WritesAreAwaited /\ OneSellPerItem /\ BatchIsInOrder(batch)
  BY DEF SaleInductive
<1> DEFINE w == Head(writes)
<1>1. writes # <<>> /\ writes \in Seq(GateWrites) /\ writes' = Tail(writes)
      /\ UNCHANGED <<session, level>>
  BY <1>0 DEF SaleShapes, WriteAnswered
<1>2. /\ w \in GateWrites /\ writes' \in Seq(GateWrites)
      /\ Len(writes') = Len(writes) - 1
      /\ \A k \in 1..Len(writes') : writes'[k] = writes[k + 1]
  BY <1>1, HeadTailProperties
<1>3. Len(writes) \in Nat /\ Len(writes) # 0 /\ DOMAIN writes = 1..Len(writes)
  BY <1>1, EmptySeq
<1>4. 1 \in DOMAIN writes /\ w = writes[1]
  BY <1>1, <1>3
<1>5. DOMAIN writes' = 1..Len(writes')
  BY <1>2
<1>6. \A k \in DOMAIN writes' : /\ k + 1 \in DOMAIN writes /\ k + 1 # 1 /\ k \in Nat
                                /\ writes'[k] = writes[k + 1]
  BY <1>2, <1>3, <1>5
<1>7. \A k, l \in DOMAIN writes : writes[k].by = writes[l].by => k = l
  BY <1>0 DEF WritesAreAwaited
<1>8. \A k, l \in DOMAIN writes' : writes'[k].by = writes'[l].by => k = l
  BY <1>6, <1>7
<1>9. \A k \in DOMAIN writes' : writes'[k].by # w.by
  BY <1>4, <1>6, <1>7
<1>10. \A k \in DOMAIN writes' : \E l \in DOMAIN writes : writes'[k] = writes[l]
  BY <1>6
<1>11. IsSellsWrite(w) /\ IsBatchsWrite(w)
  BY <1>0, <1>4 DEF WritesAreAwaited
<1>12. \A k \in DOMAIN writes' : IsSellsWrite(writes'[k]) /\ IsBatchsWrite(writes'[k])
  BY <1>0, <1>10 DEF WritesAreAwaited
<1>13. \/ w.by # Batch /\ single' = [single EXCEPT ![w.by] = NoSell] /\ UNCHANGED batch
       \/ w.by = Batch /\ UNCHANGED single
          /\ \E outcome \in Outcomes \ {"unattempted"} : ItemOver(outcome)
  <2>1. answer \in Outcomes \ {"unattempted"} /\ "listed" \in Outcomes \ {"unattempted"}
    BY DEF Outcomes
  <2>2. QED
    BY <2>1 DEF WriteAnswered
<1> HIDE DEF w
<1>14. CASE w.by # Batch /\ single' = [single EXCEPT ![w.by] = NoSell] /\ UNCHANGED batch
  <2>1. w.by \in Sells
    BY <1>2, <1>14 DEF GateWrites
  <2>2. NoSell \in SellRecords /\ NoSell.item = 0
    BY DEF NoSell, SellRecords
  <2>3. /\ single' \in [Sells -> SellRecords] /\ single'[w.by] = NoSell
        /\ \A s \in Sells : s # w.by => single'[s] = single[s]
    BY <1>0, <1>14, <2>1, <2>2 DEF SaleShapes
  <2>4. SaleShapes'
    BY <1>0, <1>1, <1>2, <1>14, <2>3 DEF SaleShapes
  <2>5. \A v : \A k \in DOMAIN writes' : v = writes'[k] => IsSellsWrite(v)'
    BY <1>9, <1>12, <2>3 DEF IsSellsWrite
  <2>6. \A v : \A k \in DOMAIN writes' : v = writes'[k] => IsBatchsWrite(v)'
    BY <1>12, <1>14 DEF IsBatchsWrite
  <2>7. \A k \in DOMAIN writes' : IsSellsWrite(writes[k])' /\ IsBatchsWrite(writes[k])'
    BY <2>5, <2>6
  <2>8. WritesAreAwaited'
    BY <1>8, <2>7 DEF WritesAreAwaited
  <2>9. \A i \in Items : PendingSells(i)' \subseteq PendingSells(i)
    BY <2>2, <2>3, ItemsAreNumbers DEF PendingSells
  <2>10. \A i \in Items : Reserved(i)' = Reserved(i)
    BY <1>14 DEF Reserved
  <2>11. OneSellPerItem'
    BY <1>0, <2>9, <2>10 DEF OneSellPerItem
  <2>12. BatchIsInOrder(batch)'
    BY <1>0, <1>14
  <2>13. QED
    BY <2>4, <2>8, <2>11, <2>12 DEF SaleInductive
<1>15. CASE w.by = Batch /\ UNCHANGED single
            /\ \E outcome \in Outcomes \ {"unattempted"} : ItemOver(outcome)
  <2>1. batch.pc = "submit"
    BY <1>11, <1>15 DEF IsBatchsWrite
  <2>2. batch' \in Batches /\ BatchIsInOrder(batch)' /\ batch'.queue = batch.queue
    BY <1>0, <1>15, <2>1, ItemOverIsInOrder
  <2>3. \A i \in batch'.queue : Reserved(i)
    BY <2>1, <2>2 DEF Reserved
  <2>4. \A k \in DOMAIN writes' : writes'[k].by # Batch
    BY <1>9, <1>15
  <2>5. QED
    BY <1>1, <1>2, <1>8, <1>10, <1>15, <2>2, <2>3, <2>4, BatchChanges
<1>16. QED
  BY <1>13, <1>14, <1>15

LEMMA SaleStep == SaleInductive /\ [SaleNext]_saleVars => SaleInductive'
<1> SUFFICES ASSUME SaleInductive, [SaleNext]_saleVars PROVE SaleInductive'
  OBVIOUS
<1>0. SaleShapes
  BY DEF SaleInductive
<1>1. ASSUME NEW s \in Sells, Undo(s) \/ UndoWindowCloses(s) PROVE SaleInductive'
  BY <1>1, UndoIsSafe
<1>2. ASSUME NEW s \in Sells, NEW i \in Items, NEW seen \in Levels, ClickSell(s, i, seen)
      PROVE  SaleInductive'
  BY <1>2, ClickIsSafe
<1>3. ASSUME NEW s \in Sells, NEW answer \in BookAnswers, SingleSellPriced(s, answer)
      PROVE  SaleInductive'
  BY <1>3, SingleSellIsSafe
<1>4. ASSUME NEW ticked \in SUBSET Items, BatchStarts(ticked) PROVE SaleInductive'
  BY <1>4, BatchStartsSafely
<1>5. CASE StopButton
  BY <1>5, StopIsSafe
<1>6. CASE BatchEnds
  BY <1>6, IdlingIsSafe DEF BatchEnds
<1>7. ASSUME NEW answer \in BookAnswers, BatchReviewed(answer) \/ BatchPriced(answer)
      PROVE  SaleInductive'
  BY <1>7, ReviewIsSafe, RepricingIsSafe
<1>8. ASSUME NEW answer \in {"listed", "refused", "limited", "auth", "lost"},
             NEW reached \in BOOLEAN, WriteAnswered(answer, reached)
      PROVE  SaleInductive'
  BY <1>8, AnswerIsSafeForSales
<1>9. CASE PriceMoves \/ SignedOut \/ ApprovalLapses \/ UNCHANGED saleVars
  <2>1. UNCHANGED <<single, batch, writes>> /\ session' \in BOOLEAN /\ level' \in Levels
    BY <1>0, <1>9 DEF PriceMoves, SignedOut, ApprovalLapses, saleVars, SaleShapes
  <2>2. SaleShapes'
    BY <1>0, <2>1 DEF SaleShapes
  <2>3. WritesAreAwaited'
    BY <2>1 DEF SaleInductive, WritesAreAwaited, IsSellsWrite, IsBatchsWrite
  <2>4. OneSellPerItem' /\ BatchIsInOrder(batch)'
    BY <2>1 DEF SaleInductive, OneSellPerItem, PendingSells, Reserved
  <2>5. QED
    BY <2>2, <2>3, <2>4 DEF SaleInductive
<1>10. QED
  BY <1>1, <1>2, <1>3, <1>4, <1>5, <1>6, <1>7, <1>8, <1>9 DEF SaleNext

LEMMA SaleIsSafe == SaleInductive => WritesAreTheUsers /\ BatchStopsDead
<1> SUFFICES ASSUME SaleInductive PROVE WritesAreTheUsers /\ BatchStopsDead
  OBVIOUS
<1>0. SaleShapes /\ WritesAreAwaited /\ OneSellPerItem /\ BatchIsInOrder(batch)
  BY DEF SaleInductive
<1>1. ASSUME NEW k \in DOMAIN writes
      PROVE  /\ writes[k] \in GateWrites /\ writes[k].item \in Items
             /\ writes[k].by \in Sells \/ writes[k].by = Batch
             /\ IsSellsWrite(writes[k]) /\ IsBatchsWrite(writes[k])
  <2>1. writes[k] \in GateWrites
    BY <1>0, <1>1 DEF SaleShapes
  <2>2. QED
    BY <1>0, <2>1 DEF GateWrites, WritesAreAwaited
<1>2. SellsAtReviewOrBetter
  BY <1>1, ItemsAreNumbers DEF SellsAtReviewOrBetter, Reviewed, IsSellsWrite, IsBatchsWrite
<1>3. UndoneIsNeverWritten
  BY <1>1 DEF UndoneIsNeverWritten, IsSellsWrite
<1>4. ASSUME NEW k \in DOMAIN writes, NEW l \in DOMAIN writes, writes[k].item = writes[l].item
      PROVE  writes[k].by = writes[l].by
  <2>1. ASSUME NEW m \in DOMAIN writes, writes[m].by \in Sells
        PROVE  writes[m].by \in PendingSells(writes[m].item)
    BY <1>1, <2>1 DEF IsSellsWrite, PendingSells
  <2>2. ASSUME NEW m \in DOMAIN writes, writes[m].by = Batch
        PROVE  PendingSells(writes[m].item) = {}
    BY <1>0, <1>1, <2>2 DEF IsBatchsWrite, BatchIsInOrder, Reserved, OneSellPerItem
  <2>3. CASE writes[k].by \in Sells /\ writes[l].by \in Sells
    BY <1>0, <1>1, <1>4, <2>1, <2>3 DEF OneSellPerItem
  <2>4. QED
    BY <1>1, <1>4, <2>1, <2>2, <2>3
<1>5. OneWritePerItem
  BY <1>0, <1>4 DEF OneWritePerItem, WritesAreAwaited
<1>6. BatchStopsDead
  <2>1. \A i \in Items : batch.report[i] \in Stoppers =>
          batch.pc = "summary" /\ \A j \in After(Items, i) : batch.report[j] = "unattempted"
    BY <1>0 DEF BatchIsInOrder
  <2>2. batch.pc = "summary" => \A k \in DOMAIN writes : writes[k].by # Batch
    BY <1>1 DEF IsBatchsWrite
  <2>3. QED
    BY <2>1, <2>2 DEF BatchStopsDead, Stoppers
<1>7. QED
  BY <1>2, <1>3, <1>5, <1>6 DEF WritesAreTheUsers

\* What is in the gate is what the user asked for, once and at no less than reviewed: for any
\* number of items, of price levels and of sells in progress.
THEOREM WritesStayTheUsers == SaleSpec => []WritesAreTheUsers
<1>1. SaleInductive => WritesAreTheUsers
  BY SaleIsSafe
<1>2. QED
  BY <1>1, SaleBegins, SaleStep, PTL DEF SaleSpec

\* After a rate limit, a lost session, a price drop or a lapsed approval nothing is attempted.
THEOREM BatchesStopDead == SaleSpec => []BatchStopsDead
<1>1. SaleInductive => BatchStopsDead
  BY SaleIsSafe
<1>2. QED
  BY <1>1, SaleBegins, SaleStep, PTL DEF SaleSpec

-----------------------------------------------------------------------------

(***************************************************************************)
(* MarketHome.  While no two scans have run at once, nothing is flagged    *)
(* from a scan's first read to its end, so what a name without an ask      *)
(* leaves alone is not flagged; and a read that is due belongs to a scan   *)
(* that waits for it, one read to a scan, so no read revives a scan.       *)
(***************************************************************************)
HomeScans == [pc : {"idle", "asking", "waiting"}, rows : SUBSET Listings, todo : SUBSET Names,
              asks : [Names -> Verdicts \cup {"unread"}], button : BOOLEAN]
BookReads == [by : Scans, name : Names, kind : {"page", "book"}]

HomeShapes ==
  /\ scan \in [Scans -> HomeScans] /\ gate \in Seq(BookReads)
  /\ flagged \subseteq Listings /\ verdict \in [Listings -> Verdicts \cup {"unread"}]
  /\ overlapped \in BOOLEAN
  /\ rows \subseteq Listings

ReadsAreAwaited ==
  /\ \A i \in DOMAIN gate : scan[gate[i].by].pc = "waiting"
  /\ \A i, j \in DOMAIN gate : gate[i].by = gate[j].by => i = j

AloneFromTheStart ==
  ~overlapped => \A k \in Running : flagged = {} /\ \A l \in Running : l = k

HomeInductive == HomeShapes /\ ReadsAreAwaited /\ AloneFromTheStart /\ FlaggedIsOverpriced

LEMMA HomeBegins == HomeInit => HomeInductive
<1> SUFFICES ASSUME HomeInit PROVE HomeInductive
  OBVIOUS
<1>1. NoScan \in HomeScans /\ NoScan.pc = "idle"
  BY DEF NoScan, HomeScans, NoAsks
<1>2. HomeShapes
  <2>1. scan \in [Scans -> HomeScans]
    BY <1>1 DEF HomeInit
  <2>2. verdict \in [Listings -> Verdicts \cup {"unread"}]
    BY DEF HomeInit
  <2>3. gate = <<>> /\ overlapped = FALSE /\ flagged = {} /\ rows = Listings
    BY DEF HomeInit
  <2>4. QED
    BY <2>1, <2>2, <2>3, EmptySeq DEF HomeShapes
<1>3. ReadsAreAwaited
  BY DEF HomeInit, ReadsAreAwaited
<1>4. AloneFromTheStart /\ FlaggedIsOverpriced
  BY <1>1 DEF HomeInit, AloneFromTheStart, FlaggedIsOverpriced, Running
<1>5. QED
  BY <1>2, <1>3, <1>4 DEF HomeInductive

\* What Read leaves a scan with.
LEMMA ReadKeepsTheScan ==
  ASSUME HomeAssumption, NEW s \in HomeScans, NEW n \in Names, NEW said \in Verdicts
  PROVE  Read(s, n, said) \in HomeScans /\ Read(s, n, said).rows = s.rows
BY DEF Read, HomeScans

\* Annotate flags what the scan found overpriced, and takes the flag from what it found fair.
LEMMA AnnotatedIsOverpriced ==
  ASSUME HomeShapes, FlaggedIsOverpriced, overlapped \/ flagged = {}, NEW s \in HomeScans,
         Annotate(s), overlapped' = overlapped
  PROVE  /\ FlaggedIsOverpriced' /\ flagged' \subseteq Listings
         /\ verdict' \in [Listings -> Verdicts \cup {"unread"}]
<1>1. s.rows \subseteq Listings /\ s.asks \in [Names -> Verdicts \cup {"unread"}]
  BY DEF HomeScans
<1>2. \A l \in Listings : MarketNameOf[l] \in Names
  BY HomeAssumption DEF HomeAssumption
<1>3. \A l \in Listings : s.asks[MarketNameOf[l]] \in Verdicts \cup {"unread"}
  BY <1>1, <1>2
<1>4. verdict' = [l \in Listings |-> IF l \in s.rows /\ s.asks[MarketNameOf[l]] # "unread"
                                     THEN s.asks[MarketNameOf[l]] ELSE verdict[l]]
      /\ flagged' = (flagged \ Judged(s, "fair")) \cup Judged(s, "over")
  BY DEF Annotate
<1>5. verdict' \in [Listings -> Verdicts \cup {"unread"}]
  BY <1>3, <1>4 DEF HomeShapes
<1>6. \A said \in Verdicts : Judged(s, said) = {l \in s.rows : s.asks[MarketNameOf[l]] = said}
  BY DEF Judged
<1>7. flagged' \subseteq Listings
  BY <1>1, <1>4 DEF HomeShapes, Judged
<1>8. ASSUME NEW l \in flagged'
      PROVE  verdict'[l] = "over" \/ (overlapped' /\ verdict'[l] = "none")
  <2>1. l \in Listings
    BY <1>7
  <2>2. CASE l \in Judged(s, "over")
    BY <1>1, <1>4, <2>1, <2>2 DEF Judged
  <2>3. CASE l \in flagged /\ l \notin Judged(s, "over") /\ l \notin Judged(s, "fair")
    <3>1. overlapped /\ (verdict[l] = "over" \/ verdict[l] = "none")
      BY <2>3 DEF FlaggedIsOverpriced
    <3>2. l \in s.rows => s.asks[MarketNameOf[l]] \in {"none", "unread"}
      BY <1>3, <2>1, <2>3 DEF Judged, Verdicts
    <3>3. verdict'[l] = IF l \in s.rows /\ s.asks[MarketNameOf[l]] # "unread"
                        THEN s.asks[MarketNameOf[l]] ELSE verdict[l]
      BY <1>4, <2>1
    <3>4. QED
      BY <3>1, <3>2, <3>3
  <2>4. QED
    BY <1>4, <2>2, <2>3
<1>9. QED
  BY <1>5, <1>7, <1>8 DEF FlaggedIsOverpriced

\* A scan of which no read is due goes on, or ends.
LEMMA GoingOnIsSafe ==
  ASSUME HomeAssumption, HomeInductive, NEW k \in Scans, NEW s \in HomeScans, NEW limited \in BOOLEAN,
         scan[k].pc # "idle", Continue(k, s, limited), UNCHANGED <<rows, overlapped>>,
         gate' \in Seq(BookReads), \A i \in DOMAIN gate' : gate'[i].by # k,
         \A i \in DOMAIN gate' : scan[gate'[i].by].pc = "waiting",
         \A i, j \in DOMAIN gate' : gate'[i].by = gate'[j].by => i = j
  PROVE  HomeInductive'
<1>0. HomeShapes /\ ReadsAreAwaited /\ AloneFromTheStart /\ FlaggedIsOverpriced
  BY DEF HomeInductive
<1>1. NoScan \in HomeScans /\ NoScan.pc = "idle"
  BY DEF NoScan, HomeScans, NoAsks
<1>2. k \in Running /\ Running \subseteq Scans
  BY DEF Running
<1>3. overlapped \/ (flagged = {} /\ Running = {k})
  BY <1>0, <1>2 DEF AloneFromTheStart
<1>4. [s EXCEPT !.pc = "asking"] \in HomeScans /\ [s EXCEPT !.pc = "asking"].pc = "asking"
  BY DEF HomeScans
<1>5. \E r \in HomeScans : /\ scan' = [scan EXCEPT ![k] = r]
                           /\ \/ r.pc = "idle" /\ Annotate(s)
                              \/ UNCHANGED <<highlighted, flagged, verdict, panel>>
  BY <1>1, <1>4 DEF Continue
<1>6. PICK r \in HomeScans : /\ scan' = [scan EXCEPT ![k] = r]
                             /\ \/ r.pc = "idle" /\ Annotate(s)
                                \/ UNCHANGED <<highlighted, flagged, verdict, panel>>
  BY <1>5
<1>7. scan \in [Scans -> HomeScans]
  BY <1>0 DEF HomeShapes
<1>8. scan' \in [Scans -> HomeScans] /\ scan'[k] = r /\ \A j \in Scans : j # k => scan'[j] = scan[j]
  BY <1>6, <1>7
<1>9. FlaggedIsOverpriced' /\ flagged' \subseteq Listings
      /\ verdict' \in [Listings -> Verdicts \cup {"unread"}]
  <2>1. CASE Annotate(s)
    BY <1>0, <1>3, <2>1, AnnotatedIsOverpriced
  <2>2. CASE UNCHANGED <<highlighted, flagged, verdict, panel>>
    BY <1>0, <2>2 DEF HomeShapes, FlaggedIsOverpriced
  <2>3. QED
    BY <1>6, <2>1, <2>2
<1>10. HomeShapes'
  BY <1>0, <1>8, <1>9 DEF HomeShapes
<1>11. ReadsAreAwaited'
  <2>1. ASSUME NEW i \in DOMAIN gate' PROVE gate'[i].by \in Scans
    <3>1. gate'[i] \in BookReads
      BY <2>1
    <3>2. QED
      BY <3>1 DEF BookReads
  <2>2. QED
    BY <1>8, <2>1 DEF ReadsAreAwaited
<1>12. AloneFromTheStart'
  <2>1. Running' \subseteq Running
    BY <1>2, <1>8 DEF Running
  <2>2. CASE r.pc = "idle"
    <3>1. k \notin Running'
      BY <1>8, <2>2 DEF Running
    <3>2. QED
      BY <1>3, <2>1, <3>1 DEF AloneFromTheStart
  <2>3. CASE UNCHANGED <<highlighted, flagged, verdict, panel>>
    BY <1>3, <2>1, <2>3 DEF AloneFromTheStart
  <2>4. QED
    BY <1>6, <2>2, <2>3
<1>13. QED
  BY <1>9, <1>10, <1>11, <1>12 DEF HomeInductive

LEMMA ScanClickIsSafe ==
  ASSUME HomeAssumption, HomeInductive, NEW k \in Scans, ScanClick(k)
  PROVE  HomeInductive'
<1>0. HomeShapes /\ ReadsAreAwaited /\ AloneFromTheStart /\ FlaggedIsOverpriced
  BY DEF HomeInductive
<1> DEFINE r == [pc |-> "asking", rows |-> rows, asks |-> NoAsks,
                 todo |-> {MarketNameOf[l] : l \in rows}, button |-> TRUE]
<1>1. r \in HomeScans /\ r.pc = "asking"
  BY <1>0, HomeAssumption DEF HomeScans, NoAsks, HomeShapes, HomeAssumption
<1>2. scan' = [scan EXCEPT ![k] = r] /\ flagged' = {} /\ scan[k].pc = "idle"
      /\ overlapped' = (overlapped \/ Running # {}) /\ UNCHANGED <<rows, verdict, gate>>
  BY DEF ScanClick, FlagsAtStart, readVars
<1> HIDE DEF r
<1>3. scan' \in [Scans -> HomeScans] /\ scan'[k] = r /\ \A j \in Scans : j # k => scan'[j] = scan[j]
  BY <1>0, <1>1, <1>2 DEF HomeShapes
<1>4. overlapped' \in BOOLEAN
  BY <1>2
<1>5. HomeShapes'
  BY <1>0, <1>2, <1>3, <1>4 DEF HomeShapes
<1>6. ReadsAreAwaited'
  <2>1. ASSUME NEW i \in DOMAIN gate PROVE gate[i].by \in Scans /\ gate[i].by # k
    <3>1. gate[i] \in BookReads
      BY <1>0, <2>1 DEF HomeShapes
    <3>2. QED
      BY <1>0, <1>2, <3>1 DEF BookReads, ReadsAreAwaited
  <2>2. QED
    BY <1>0, <1>2, <1>3, <2>1 DEF ReadsAreAwaited
<1>7. AloneFromTheStart'
  <2>1. Running' \subseteq Running \cup {k}
    BY <1>3 DEF Running
  <2>2. QED
    BY <1>2, <2>1 DEF AloneFromTheStart
<1>8. FlaggedIsOverpriced'
  BY <1>2 DEF FlaggedIsOverpriced
<1>9. QED
  BY <1>5, <1>6, <1>7, <1>8 DEF HomeInductive

LEMMA ScanAsksIsSafe ==
  ASSUME HomeAssumption, HomeInductive, NEW k \in Scans, NEW n \in Names, ScanAsks(k, n)
  PROVE  HomeInductive'
<1>0. HomeShapes /\ ReadsAreAwaited /\ AloneFromTheStart /\ FlaggedIsOverpriced
  BY DEF HomeInductive
<1> DEFINE s == scan[k]
<1>1. s \in HomeScans /\ s.pc = "asking" /\ n \in s.todo /\ UNCHANGED <<rows, overlapped>>
  BY <1>0 DEF ScanAsks, HomeShapes
<1>2. \A i \in DOMAIN gate : gate[i].by # k
  BY <1>0, <1>1 DEF ReadsAreAwaited
<1>3. CASE UNCHANGED gate /\ \E said \in Verdicts : Continue(k, Read(s, n, said), FALSE)
  <2>1. PICK said \in Verdicts : Continue(k, Read(s, n, said), FALSE)
    BY <1>3
  <2>2. Read(s, n, said) \in HomeScans
    BY <1>1, ReadKeepsTheScan
  <2>3. QED
    BY <1>0, <1>1, <1>2, <1>3, <2>1, <2>2, GoingOnIsSafe DEF HomeShapes, ReadsAreAwaited
<1>4. CASE UNCHANGED gate /\ Continue(k, s, TRUE)
  BY <1>0, <1>1, <1>2, <1>4, GoingOnIsSafe DEF HomeShapes, ReadsAreAwaited
<1>5. CASE /\ scan' = [scan EXCEPT ![k].pc = "waiting"]
           /\ gate' = Append(gate, [by |-> k, name |-> n,
                                    kind |-> IF n \in knownIds THEN "book" ELSE "page"])
           /\ UNCHANGED <<highlighted, flagged, verdict, panel>>
  <2> DEFINE r == [s EXCEPT !.pc = "waiting"]
             due == [by |-> k, name |-> n, kind |-> IF n \in knownIds THEN "book" ELSE "page"]
  <2>1. r \in HomeScans /\ r.pc = "waiting"
    BY <1>1 DEF HomeScans
  <2>2. scan' = [scan EXCEPT ![k] = r]
    BY <1>5
  <2>3. due \in BookReads /\ due.by = k
    BY DEF BookReads
  <2>4. gate' = Append(gate, due) /\ gate \in Seq(BookReads)
    BY <1>0, <1>5 DEF HomeShapes
  <2> HIDE DEF r, due
  <2>5. scan' \in [Scans -> HomeScans] /\ scan'[k] = r
        /\ \A j \in Scans : j # k => scan'[j] = scan[j]
    BY <1>0, <2>1, <2>2 DEF HomeShapes
  <2>6. /\ gate' \in Seq(BookReads) /\ Len(gate') = Len(gate) + 1 /\ Len(gate) \in Nat
        /\ gate'[Len(gate) + 1] = due /\ \A i \in 1..Len(gate) : gate'[i] = gate[i]
    BY <2>3, <2>4, AppendProperties
  <2>7. DOMAIN gate = 1..Len(gate) /\ DOMAIN gate' = 1..(Len(gate) + 1)
    BY <2>4, <2>6
  <2>8. HomeShapes'
    BY <1>0, <1>1, <1>5, <2>5, <2>6 DEF HomeShapes
  <2>9. ASSUME NEW i \in DOMAIN gate PROVE gate[i].by \in Scans
    <3>1. gate[i] \in BookReads
      BY <2>4, <2>9
    <3>2. QED
      BY <3>1 DEF BookReads
  <2>10. ReadsAreAwaited'
    <3>1. \A i \in DOMAIN gate' : i \in DOMAIN gate \/ i = Len(gate) + 1
      BY <2>6, <2>7
    <3>2. \A i \in DOMAIN gate' : scan'[gate'[i].by].pc = "waiting"
      BY <1>0, <1>2, <2>1, <2>3, <2>5, <2>6, <2>7, <2>9, <3>1 DEF ReadsAreAwaited
    <3>3. \A i, j \in DOMAIN gate' : gate'[i].by = gate'[j].by => i = j
      BY <1>0, <1>2, <2>3, <2>6, <2>7, <3>1 DEF ReadsAreAwaited
    <3>4. QED
      BY <3>2, <3>3 DEF ReadsAreAwaited
  <2>11. Running' = Running
    BY <1>1, <2>1, <2>5 DEF Running
  <2>12. QED
    BY <1>0, <1>1, <1>5, <2>8, <2>10, <2>11 DEF HomeInductive, AloneFromTheStart, FlaggedIsOverpriced
<1>6. QED
  BY <1>3, <1>4, <1>5 DEF ScanAsks

\* The read at the head of the gate, and what is left behind it.
LEMMA TheHeadsScan ==
  ASSUME HomeInductive, gate # <<>>
  PROVE  /\ Head(gate) \in BookReads /\ Head(gate).by \in Scans /\ Head(gate).name \in Names
         /\ scan[Head(gate).by] \in HomeScans /\ scan[Head(gate).by].pc = "waiting"
         /\ Tail(gate) \in Seq(BookReads)
         /\ \A i \in DOMAIN Tail(gate) : Tail(gate)[i].by # Head(gate).by
         /\ \A i \in DOMAIN Tail(gate) : scan[Tail(gate)[i].by].pc = "waiting"
         /\ \A i, j \in DOMAIN Tail(gate) : Tail(gate)[i].by = Tail(gate)[j].by => i = j
<1>0. HomeShapes /\ ReadsAreAwaited
  BY DEF HomeInductive
<1>1. gate \in Seq(BookReads)
  BY <1>0 DEF HomeShapes
<1>2. /\ Head(gate) \in BookReads /\ Tail(gate) \in Seq(BookReads)
      /\ Len(Tail(gate)) = Len(gate) - 1 /\ \A i \in 1..Len(Tail(gate)) : Tail(gate)[i] = gate[i + 1]
  BY <1>1, HeadTailProperties
<1>3. Len(gate) \in Nat /\ Len(gate) # 0 /\ DOMAIN gate = 1..Len(gate)
  BY <1>1, EmptySeq
<1>4. 1 \in DOMAIN gate /\ Head(gate) = gate[1]
  BY <1>1, <1>3
<1>5. \A i \in DOMAIN Tail(gate) : i + 1 \in DOMAIN gate /\ i \in Nat /\ i + 1 # 1
                                   /\ Tail(gate)[i] = gate[i + 1]
  BY <1>2, <1>3
<1>6. Head(gate).by \in Scans /\ Head(gate).name \in Names
  BY <1>2 DEF BookReads
<1>7. scan[Head(gate).by] \in HomeScans /\ scan[Head(gate).by].pc = "waiting"
  BY <1>0, <1>4, <1>6 DEF HomeShapes, ReadsAreAwaited
<1>8. \A i \in DOMAIN Tail(gate) : Tail(gate)[i].by # Head(gate).by
  BY <1>0, <1>4, <1>5 DEF ReadsAreAwaited
<1>9. \A i \in DOMAIN Tail(gate) : scan[Tail(gate)[i].by].pc = "waiting"
  BY <1>0, <1>5 DEF ReadsAreAwaited
<1>10. \A i, j \in DOMAIN Tail(gate) : Tail(gate)[i].by = Tail(gate)[j].by => i = j
  BY <1>0, <1>5 DEF ReadsAreAwaited
<1>11. QED
  BY <1>2, <1>6, <1>7, <1>8, <1>9, <1>10

LEMMA AnsweredReadIsSafe ==
  ASSUME HomeAssumption, HomeInductive,
         IdResolved \/ (\E said \in Verdicts : BookRead(said))
           \/ \E limited \in BOOLEAN : ReadFails(limited)
  PROVE  HomeInductive'
<1>0. HomeShapes /\ ReadsAreAwaited /\ AloneFromTheStart /\ FlaggedIsOverpriced
  BY DEF HomeInductive
<1> DEFINE r == Head(gate)
<1>1. gate # <<>>
  BY DEF IdResolved, BookRead, ReadFails
<1>2. /\ r \in BookReads /\ r.by \in Scans /\ r.name \in Names
      /\ scan[r.by] \in HomeScans /\ scan[r.by].pc = "waiting"
      /\ Tail(gate) \in Seq(BookReads)
      /\ \A i \in DOMAIN Tail(gate) : Tail(gate)[i].by # r.by
      /\ \A i \in DOMAIN Tail(gate) : scan[Tail(gate)[i].by].pc = "waiting"
      /\ \A i, j \in DOMAIN Tail(gate) : Tail(gate)[i].by = Tail(gate)[j].by => i = j
  BY <1>1, TheHeadsScan
<1>3. CASE IdResolved
  <2> DEFINE due == [r EXCEPT !.kind = "book"]
             left == Tail(gate)
  <2>1. due \in BookReads /\ due.by = r.by
    BY <1>2 DEF BookReads
  <2>2. gate' = Append(left, due) /\ UNCHANGED <<rows, flagged, scan, verdict, overlapped>>
    BY <1>3 DEF IdResolved, pageVars
  <2> HIDE DEF r, due, left
  <2>3. /\ left \in Seq(BookReads) /\ \A i \in DOMAIN left : left[i].by # r.by
        /\ \A i \in DOMAIN left : scan[left[i].by].pc = "waiting"
        /\ \A i, j \in DOMAIN left : left[i].by = left[j].by => i = j
    BY <1>2 DEF left
  <2>4. /\ gate' \in Seq(BookReads) /\ Len(gate') = Len(left) + 1 /\ Len(left) \in Nat
        /\ gate'[Len(left) + 1] = due /\ \A i \in 1..Len(left) : gate'[i] = left[i]
    BY <2>1, <2>2, <2>3, AppendProperties
  <2>5. DOMAIN left = 1..Len(left) /\ DOMAIN gate' = 1..(Len(left) + 1)
    BY <2>3, <2>4
  <2>6. \A i \in DOMAIN gate' : i \in DOMAIN left \/ i = Len(left) + 1
    BY <2>4, <2>5
  <2>7. \A i \in DOMAIN gate' : scan[gate'[i].by].pc = "waiting"
    BY <1>2, <2>1, <2>3, <2>4, <2>5, <2>6
  <2>8. \A i, j \in DOMAIN gate' : gate'[i].by = gate'[j].by => i = j
    BY <2>1, <2>3, <2>4, <2>5, <2>6
  <2>9. ReadsAreAwaited'
    BY <2>2, <2>7, <2>8 DEF ReadsAreAwaited
  <2>10. HomeShapes'
    BY <1>0, <2>2, <2>4 DEF HomeShapes
  <2>11. Running' = Running
    BY <2>2 DEF Running
  <2>12. QED
    BY <1>0, <2>2, <2>9, <2>10, <2>11 DEF HomeInductive, AloneFromTheStart, FlaggedIsOverpriced
<1>4. CASE \E said \in Verdicts : BookRead(said)
  <2>1. PICK said \in Verdicts : BookRead(said)
    BY <1>4
  <2>2. Read(scan[r.by], r.name, said) \in HomeScans
    BY <1>2, ReadKeepsTheScan
  <2>3. gate' = Tail(gate) /\ UNCHANGED <<rows, overlapped>>
        /\ Continue(r.by, Read(scan[r.by], r.name, said), FALSE)
    BY <2>1 DEF BookRead
  <2> HIDE DEF r
  <2>4. QED
    BY <1>2, <2>2, <2>3, GoingOnIsSafe
<1>5. CASE \E limited \in BOOLEAN : ReadFails(limited)
  <2>1. PICK limited \in BOOLEAN : ReadFails(limited)
    BY <1>5
  <2> DEFINE s == IF limited THEN scan[r.by] ELSE Read(scan[r.by], r.name, "none")
  <2>2. s \in HomeScans
    BY <1>2, ReadKeepsTheScan DEF Verdicts
  <2>3. gate' = Tail(gate) /\ UNCHANGED <<rows, overlapped>> /\ Continue(r.by, s, limited)
    BY <2>1 DEF ReadFails
  <2> HIDE DEF r, s
  <2>4. QED
    BY <1>2, <2>2, <2>3, GoingOnIsSafe
<1>6. QED
  BY <1>3, <1>4, <1>5

\* What the panel's rebuilding does to the scans.
LEMMA RebuiltIsSafe ==
  ASSUME HomeInductive, Rebuilt \/ UNCHANGED <<panel, scan>>, UNCHANGED <<gate, verdict, overlapped>>,
         flagged' \subseteq flagged, rows' \subseteq Listings
  PROVE  HomeInductive'
<1>0. HomeShapes /\ ReadsAreAwaited /\ AloneFromTheStart /\ FlaggedIsOverpriced
  BY DEF HomeInductive
<1>1. scan' \in [Scans -> HomeScans] /\ \A k \in Scans : scan'[k].pc = scan[k].pc
  <2>1. CASE Rebuilt
    <3>1. \A k \in Scans : [scan[k] EXCEPT !.button = FALSE] \in HomeScans
                           /\ [scan[k] EXCEPT !.button = FALSE].pc = scan[k].pc
      BY <1>0 DEF HomeShapes, HomeScans
    <3>2. scan' = [k \in Scans |-> [scan[k] EXCEPT !.button = FALSE]]
      BY <2>1 DEF Rebuilt
    <3>3. QED
      BY <3>1, <3>2
  <2>2. CASE UNCHANGED <<panel, scan>>
    BY <1>0, <2>2 DEF HomeShapes
  <2>3. QED
    BY <2>1, <2>2
<1>2. HomeShapes'
  BY <1>0, <1>1 DEF HomeShapes
<1>3. ReadsAreAwaited'
  <2>1. ASSUME NEW i \in DOMAIN gate PROVE gate[i].by \in Scans
    <3>1. gate[i] \in BookReads
      BY <1>0, <2>1 DEF HomeShapes
    <3>2. QED
      BY <3>1 DEF BookReads
  <2>2. QED
    BY <1>0, <1>1, <2>1 DEF ReadsAreAwaited
<1>4. Running' = Running
  BY <1>1 DEF Running
<1>5. AloneFromTheStart' /\ FlaggedIsOverpriced'
  BY <1>0, <1>4 DEF AloneFromTheStart, FlaggedIsOverpriced
<1>6. QED
  BY <1>2, <1>3, <1>5 DEF HomeInductive

LEMMA HomeStep == HomeAssumption /\ HomeInductive /\ [HomeNext]_homeVars => HomeInductive'
<1> SUFFICES ASSUME HomeAssumption, HomeInductive, [HomeNext]_homeVars PROVE HomeInductive'
  OBVIOUS
<1>0. rows \subseteq Listings
  BY DEF HomeInductive, HomeShapes
<1>1. ASSUME NEW k \in Scans, ScanClick(k) PROVE HomeInductive'
  BY <1>1, ScanClickIsSafe
<1>2. ASSUME NEW k \in Scans, NEW n \in Names, ScanAsks(k, n) PROVE HomeInductive'
  BY <1>2, ScanAsksIsSafe
<1>3. CASE IdResolved \/ (\E said \in Verdicts : BookRead(said))
             \/ \E limited \in BOOLEAN : ReadFails(limited)
  BY <1>3, AnsweredReadIsSafe
<1>4. CASE CooldownEnds
  BY <1>0, <1>4, RebuiltIsSafe DEF CooldownEnds, pageVars
<1>5. ASSUME NEW now \in SUBSET Listings, RowsReplaced(now) PROVE HomeInductive'
  <2>1. /\ scan' = scan /\ gate' = gate /\ verdict' = verdict /\ overlapped' = overlapped
        /\ flagged' = flagged /\ rows' \subseteq Listings
    BY <1>5 DEF RowsReplaced, readVars
  <2>2. Running' = Running
    BY <2>1 DEF Running
  <2>3. QED
    BY <2>1, <2>2 DEF HomeInductive, HomeShapes, ReadsAreAwaited, AloneFromTheStart,
                      FlaggedIsOverpriced
<1>6. CASE PanelRebuilt
  BY <1>0, <1>6, RebuiltIsSafe DEF PanelRebuilt, readVars
<1>7. CASE RemoveClick
  BY <1>0, <1>7, RebuiltIsSafe DEF RemoveClick, readVars
<1>8. ASSUME NEW l \in Listings, NEW removed \in BOOLEAN, NEW fatal \in BOOLEAN,
             RemovalAnswered(l, removed, fatal)
      PROVE  HomeInductive'
  <2>1. Rebuilt \/ UNCHANGED <<panel, scan>>
    BY <1>8 DEF RemovalAnswered, RemovalGoesOn
  <2>2. flagged' \subseteq flagged /\ UNCHANGED <<rows, verdict, overlapped, gate>>
    BY <1>8 DEF RemovalAnswered, readVars
  <2>3. QED
    BY <1>0, <2>1, <2>2, RebuiltIsSafe
<1>9. CASE UNCHANGED homeVars
  BY <1>0, <1>9, RebuiltIsSafe DEF homeVars, pageVars, readVars
<1>10. QED
  BY <1>1, <1>2, <1>3, <1>4, <1>5, <1>6, <1>7, <1>8, <1>9 DEF HomeNext

\* "Remove flagged" takes only listings the last scan found overpriced, unless two scans ran at
\* once: for any listings, names and number of scans.
THEOREM FlagsStayTrue == HomeSpec => []FlaggedIsOverpriced
<1>1. HomeInductive => FlaggedIsOverpriced
  BY DEF HomeInductive
<1>2. QED
  BY <1>1, HomeBegins, HomeStep, HomeAssumption, PTL DEF HomeSpec

-----------------------------------------------------------------------------

(***************************************************************************)
(* OffersPage.  A yes on its way to the page is about what became of the   *)
(* offer, and so is a banner; the row of an item the worker answered is    *)
(* its position, so whatever item is found at a tile's place is the tile's.*)
(***************************************************************************)
Deals == {"accept", "decline"}
Ends == {"open", "accepted", "declined"}

OffersShapes ==
  /\ deal \in [OfferIds -> Ends] /\ banner \in [OfferIds -> Ends]
  /\ answers \in [OfferIds -> [Deals -> SUBSET BOOLEAN]]

YesesAreTrue == \A o \in OfferIds, w \in Deals : TRUE \in answers[o][w] => deal[o] = Outcome(w)

OffersInductive == OffersShapes /\ YesesAreTrue /\ RowsAreTrue

LEMMA OffersBegin == OffersInit => OffersInductive
<1> SUFFICES ASSUME OffersInit PROVE OffersInductive
  OBVIOUS
<1>1. OffersShapes /\ YesesAreTrue
  BY DEF OffersInit, OffersShapes, YesesAreTrue, Ends, Deals
<1>2. DOMAIN priced = {} /\ DOMAIN floats = {}
  BY DEF OffersInit
<1>3. RowsAreTrue
  BY <1>2 DEF OffersInit, RowsAreTrue, BannersAreTrue, MarksAreTheirItems
<1>4. QED
  BY <1>1, <1>3 DEF OffersInductive

\* The items the worker answered lie at their positions.
LEMMA ItemsLieAtTheirRow ==
  ASSUME NEW item \in OfferedItems
  PROVE  /\ item.offer \in OfferIds /\ item.side \in Sides /\ item.row = item.position
         /\ TileOf(item) = [offer |-> item.offer, side |-> item.side, at |-> item.position]
<1>1. PICK o \in OfferIds, s \in Sides : item \in RowsOfSide(o, s)
  BY DEF OfferedItems
<1>2. PICK i \in DOMAIN offers[o][s] :
        item = [offer |-> o, side |-> s, kind |-> offers[o][s][i], position |-> i, row |-> i]
  BY <1>1 DEF RowsOfSide
<1>3. QED
  BY <1>2 DEF TileOf

LEMMA PricesAreOfTheirTile ==
  ASSUME OffersInductive, OffersRead
  PROVE  \A t \in DOMAIN priced' : priced'[t] = t
<1>1. priced' = [t \in {u \in ActiveTiles : Priceable(u)} |-> FirstFound(t)]
  BY DEF OffersRead
<1>2. SUFFICES ASSUME NEW t \in ActiveTiles, Priceable(t) PROVE FirstFound(t) = t
  BY <1>1
<1>3. t \in Tiles /\ Found(t) # {}
  BY <1>2 DEF ActiveTiles, Priceable
<1> DEFINE item == CHOOSE i \in Found(t) : TRUE
<1>4. item \in Found(t)
  BY <1>3
<1> HIDE DEF item
<1>5. item \in OfferedItems /\ item.position = t.at /\ item.side = t.side /\ item.offer = t.offer
  BY <1>4 DEF Found, Matches
<1>6. TileOf(item) = [offer |-> t.offer, side |-> t.side, at |-> t.at]
  BY <1>5, ItemsLieAtTheirRow
<1>7. t = [offer |-> t.offer, side |-> t.side, at |-> t.at]
  BY <1>3 DEF Tiles
<1>8. QED
  BY <1>6, <1>7 DEF FirstFound, item

LEMMA FloatsAreOfTheirTile ==
  ASSUME OffersInductive, FloatsRead
  PROVE  \A t \in DOMAIN floats' : floats'[t] = t
<1>1. PICK known \in SUBSET {item \in OfferedItems : item.side = "your" /\ item.kind = "skin"} :
        floats' = [t \in {[offer |-> i.offer, side |-> "your", at |-> i.position] : i \in known} |->
                     TileOf(CHOOSE i \in known : i.offer = t.offer /\ i.position = t.at)]
  BY DEF FloatsRead
<1>2. SUFFICES ASSUME NEW k \in known, NEW t,
                      t = [offer |-> k.offer, side |-> "your", at |-> k.position]
               PROVE  TileOf(CHOOSE i \in known : i.offer = t.offer /\ i.position = t.at) = t
  BY <1>1
<1> DEFINE item == CHOOSE i \in known : i.offer = t.offer /\ i.position = t.at
<1>3. item \in known /\ item.offer = t.offer /\ item.position = t.at
  BY <1>2
<1> HIDE DEF item
<1>4. item \in OfferedItems /\ item.side = "your"
  BY <1>3
<1>5. TileOf(item) = [offer |-> t.offer, side |-> "your", at |-> t.at]
  BY <1>3, <1>4, ItemsLieAtTheirRow
<1>6. QED
  BY <1>2, <1>5 DEF item

LEMMA SteamsDealIsSafe ==
  ASSUME OffersInductive, NEW o \in OfferIds, NEW w \in Deals, SteamDecides(o, w)
  PROVE  OffersInductive'
<1>0. OffersShapes /\ YesesAreTrue /\ BannersAreTrue /\ MarksAreTheirItems
  BY DEF OffersInductive, RowsAreTrue
<1> DEFINE done == deal[o] = "open"
<1>1. /\ deal' = [deal EXCEPT ![o] = IF done THEN Outcome(w) ELSE @]
      /\ \E ok \in {done, FALSE} : answers' = [answers EXCEPT ![o][w] = @ \cup {ok}]
      /\ UNCHANGED <<priced, floats, banner>>
  BY DEF SteamDecides, marks
<1>2. PICK ok \in {done, FALSE} : answers' = [answers EXCEPT ![o][w] = @ \cup {ok}]
  BY <1>1
<1>3. ok \in BOOLEAN /\ (ok => done)
  BY <1>2
<1>4. deal' \in [OfferIds -> Ends] /\ deal'[o] = (IF done THEN Outcome(w) ELSE deal[o])
      /\ \A p \in OfferIds : p # o => deal'[p] = deal[p]
  BY <1>0, <1>1 DEF OffersShapes, Outcome, Ends
<1>5. /\ answers' \in [OfferIds -> [Deals -> SUBSET BOOLEAN]]
      /\ answers'[o][w] = answers[o][w] \cup {ok}
      /\ \A p \in OfferIds, v \in Deals : p # o \/ v # w => answers'[p][v] = answers[p][v]
  <2>1. answers[o] \in [Deals -> SUBSET BOOLEAN] /\ answers[o][w] \cup {ok} \in SUBSET BOOLEAN
    BY <1>0, <1>3 DEF OffersShapes
  <2>2. QED
    BY <1>0, <1>2, <2>1 DEF OffersShapes
<1>6. OffersShapes'
  BY <1>0, <1>1, <1>4, <1>5 DEF OffersShapes
<1>7. ASSUME NEW p \in OfferIds, NEW v \in Deals, TRUE \in answers'[p][v]
      PROVE  deal'[p] = Outcome(v)
  <2>1. CASE p = o /\ v = w /\ ok = TRUE
    BY <1>3, <1>4, <2>1
  <2>2. CASE TRUE \in answers[p][v]
    <3>1. deal[p] = Outcome(v)
      BY <1>0, <2>2 DEF YesesAreTrue
    <3>2. deal[p] # "open"
      BY <3>1 DEF Outcome
    <3>3. QED
      BY <1>4, <3>1, <3>2
  <2>3. QED
    BY <1>5, <1>7, <2>1, <2>2
<1>8. BannersAreTrue'
  <2>1. ASSUME NEW p \in OfferIds, banner[p] # "open" PROVE deal'[p] = banner[p]
    BY <1>0, <1>4, <2>1 DEF BannersAreTrue
  <2>2. QED
    BY <1>1, <2>1 DEF BannersAreTrue
<1>9. MarksAreTheirItems'
  BY <1>0, <1>1 DEF MarksAreTheirItems
<1>10. QED
  BY <1>6, <1>7, <1>8, <1>9 DEF OffersInductive, YesesAreTrue, RowsAreTrue

LEMMA BannerIsSafe ==
  ASSUME OffersInductive, NEW o \in OfferIds, NEW w \in Deals, Answered(o, w)
  PROVE  OffersInductive'
<1>0. OffersShapes /\ YesesAreTrue /\ BannersAreTrue /\ MarksAreTheirItems
  BY DEF OffersInductive, RowsAreTrue
<1>1. PICK ok \in answers[o][w] :
        /\ answers' = [answers EXCEPT ![o][w] = @ \ {ok}]
        /\ banner' = [banner EXCEPT ![o] = IF AnswerIsYes(ok) /\ @ = "open" THEN Outcome(w) ELSE @]
        /\ UNCHANGED <<offers, deal, read, marks, requests, order>>
  BY DEF Answered
<1>2. ok \in BOOLEAN
  BY <1>0, <1>1 DEF OffersShapes
<1>3. /\ answers' \in [OfferIds -> [Deals -> SUBSET BOOLEAN]]
      /\ \A p \in OfferIds, v \in Deals : answers'[p][v] \subseteq answers[p][v]
  <2>1. answers[o] \in [Deals -> SUBSET BOOLEAN] /\ answers[o][w] \ {ok} \in SUBSET BOOLEAN
    BY <1>0 DEF OffersShapes
  <2>2. QED
    BY <1>0, <1>1, <2>1 DEF OffersShapes
<1>4. /\ banner' \in [OfferIds -> Ends] /\ \A p \in OfferIds : p # o => banner'[p] = banner[p]
      /\ banner'[o] = IF ok /\ banner[o] = "open" THEN Outcome(w) ELSE banner[o]
  BY <1>0, <1>1, <1>2 DEF OffersShapes, AnswerIsYes, Outcome, Ends
<1>5. OffersShapes'
  BY <1>0, <1>1, <1>3, <1>4 DEF OffersShapes
<1>6. YesesAreTrue'
  BY <1>0, <1>1, <1>3 DEF YesesAreTrue
<1>7. BannersAreTrue'
  <2>1. ok = TRUE => deal[o] = Outcome(w)
    BY <1>0, <1>1 DEF YesesAreTrue
  <2>2. ASSUME NEW p \in OfferIds, banner'[p] # "open" PROVE banner'[p] = deal[p]
    <3>1. CASE p = o /\ ok = TRUE /\ banner[o] = "open"
      BY <1>4, <2>1, <3>1
    <3>2. CASE banner'[p] = banner[p]
      BY <1>0, <2>2, <3>2 DEF BannersAreTrue
    <3>3. QED
      BY <1>2, <1>4, <3>1, <3>2
  <2>3. QED
    BY <1>1, <2>2 DEF BannersAreTrue
<1>8. MarksAreTheirItems'
  BY <1>0, <1>1 DEF MarksAreTheirItems, marks
<1>9. QED
  BY <1>5, <1>6, <1>7, <1>8 DEF OffersInductive, RowsAreTrue

LEMMA OffersStep == OffersInductive /\ [OffersNext]_offersVars => OffersInductive'
<1> SUFFICES ASSUME OffersInductive, [OffersNext]_offersVars PROVE OffersInductive'
  OBVIOUS
<1>1. ASSUME UNCHANGED <<deal, banner, answers>>, \A t \in DOMAIN priced' : priced'[t] = t,
             \A t \in DOMAIN floats' : floats'[t] = t
      PROVE  OffersInductive'
  BY <1>1 DEF OffersInductive, OffersShapes, YesesAreTrue, RowsAreTrue, BannersAreTrue,
              MarksAreTheirItems
<1>2. (\A t \in DOMAIN priced : priced[t] = t) /\ (\A t \in DOMAIN floats : floats[t] = t)
  BY DEF OffersInductive, RowsAreTrue, MarksAreTheirItems
<1>3. CASE PageLoads \/ OffersReadFails \/ SortOffers \/ UNCHANGED offersVars
  BY <1>1, <1>2, <1>3 DEF PageLoads, OffersReadFails, SortOffers, offersVars, marks, deals
<1>4. CASE OffersRead
  BY <1>1, <1>2, <1>4, PricesAreOfTheirTile DEF OffersRead, deals
<1>5. CASE FloatsRead
  BY <1>1, <1>2, <1>5, FloatsAreOfTheirTile DEF FloatsRead, deals
<1>6. ASSUME NEW o \in OfferIds, NEW w \in {"accept", "decline"}, Click(o, w) PROVE OffersInductive'
  BY <1>1, <1>2, <1>6 DEF Click, marks
<1>7. ASSUME NEW o \in OfferIds, NEW w \in {"accept", "decline"}, SteamDecides(o, w)
      PROVE  OffersInductive'
  BY <1>7, SteamsDealIsSafe DEF Deals
<1>8. ASSUME NEW o \in OfferIds, NEW w \in {"accept", "decline"}, Answered(o, w)
      PROVE  OffersInductive'
  BY <1>8, BannerIsSafe DEF Deals
<1>9. QED
  BY <1>3, <1>4, <1>5, <1>6, <1>7, <1>8 DEF OffersNext

\* What the list says of an offer is so, of any number of offers with any number of items.
THEOREM RowsStayTrue == OffersSpec => []RowsAreTrue
<1>1. OffersInductive => RowsAreTrue
  BY DEF OffersInductive
<1>2. QED
  BY <1>1, OffersBegin, OffersStep, PTL DEF OffersSpec

-----------------------------------------------------------------------------

(***************************************************************************)
(* TradeOfferTags.  As long as no answer brought anything new, no float is *)
(* an answer's; and a tag that is made anew shows the float the entry has. *)
(***************************************************************************)
EntriesAreItems ==
  /\ enrich = [at |-> enrich.at, fresh |-> enrich.fresh]
  /\ DOMAIN entries \subseteq OfferItems
  /\ \A a \in DOMAIN entries :
       entries[a] = [currency |-> entries[a].currency, float |-> entries[a].float]

FreshIsNoticed == ~enrich.fresh => \A a \in DOMAIN entries : entries[a].float # "answer"

TagsInductive == EntriesAreItems /\ FreshIsNoticed /\ FetchedFloatsAreShown

LEMMA TagsBegin == TagsInit => TagsInductive
<1> SUFFICES ASSUME TagsInit PROVE TagsInductive
  OBVIOUS
<1>1. DOMAIN entries = {} /\ DOMAIN labels = {}
  BY DEF TagsInit
<1>3. enrich = [at |-> enrich.at, fresh |-> enrich.fresh]
  BY DEF TagsInit
<1>2. QED
  BY <1>1, <1>3 DEF TagsInductive, EntriesAreItems, FreshIsNoticed, FetchedFloatsAreShown

\* addPerItemInfo: an element keeps its tag, or gets the float of its entry.
LEMMA LabelsAreOfTheirEntry ==
  ASSUME TagsAssumption, NEW known, DOMAIN known \subseteq OfferItems, NEW currency, NEW old,
         NEW new \in Labelled(known, currency, old), NEW a \in DOMAIN new \cap DOMAIN known
  PROVE  \/ a \in DOMAIN old /\ new[a] = old[a]
         \/ a \notin DOMAIN old /\ (known[a].float # "none" => new[a].floatOf = a)
<1>1. PICK those \in Untagged(known, old) : new \in {TagsAs(as, known, currency, old) : as \in LookedUp(those, known)}
  BY DEF Labelled
<1>2. PICK as \in LookedUp(those, known) : new = TagsAs(as, known, currency, old)
  BY <1>1
<1>6. /\ as \in [those -> OfferItems \cup {NoItem}]
      /\ \A b \in those : Lookups(b, known) # {} => as[b] \in Lookups(b, known)
  BY <1>2 DEF LookedUp
<1>7. new = [b \in DOMAIN old \cup those |->
               IF b \in DOMAIN old THEN old[b] ELSE LabelFrom(as[b], known, currency)]
  BY <1>2, <1>6 DEF TagsAs
<1>3. CASE a \in DOMAIN old
  BY <1>7, <1>3
<1>4. CASE a \notin DOMAIN old
  <2>1. a \in those /\ new[a] = LabelFrom(as[a], known, currency)
    BY <1>7, <1>4
  <2>2. Lookups(a, known) = {a}
    BY DEF Lookups
  <2>3. as[a] = a
    BY <1>6, <2>1, <2>2
  <2>4. a # NoItem
    BY DEF TagsAssumption
  <2>5. new[a] = [currency |-> known[a].currency,
                  floatOf |-> IF known[a].float = "none" THEN NoItem ELSE a]
    BY <2>1, <2>3, <2>4 DEF LabelFrom
  <2>6. QED
    BY <1>4, <2>5
<1>5. QED
  BY <1>3, <1>4

\* The entries after an answer.
LEMMA MergingKeepsEntries ==
  ASSUME EntriesAreItems, NEW those
  PROVE  /\ DOMAIN Merged(those) = DOMAIN entries
         /\ \A a \in DOMAIN entries :
              Merged(those)[a] = [currency |-> Merged(those)[a].currency,
                                  float |-> Merged(those)[a].float]
<1>1. \A a \in DOMAIN entries :
        entries[a] = [currency |-> entries[a].currency, float |-> entries[a].float]
  BY DEF EntriesAreItems
<1>2. ASSUME NEW a \in DOMAIN entries
      PROVE  Merged(those)[a] = [currency |-> Merged(those)[a].currency,
                                 float |-> Merged(those)[a].float]
  <2>1. Merged(those)[a] = entries[a] \/ Merged(those)[a] = [entries[a] EXCEPT !.float = "answer"]
    BY DEF Merged
  <2>2. [entries[a] EXCEPT !.float = "answer"] = [currency |-> entries[a].currency, float |-> "answer"]
    BY <1>1
  <2>3. QED
    BY <1>1, <2>1, <2>2
<1>3. QED
  BY <1>2 DEF Merged

LEMMA TagsStep == TagsAssumption /\ TagsInductive /\ [TagsNext]_tagsVars => TagsInductive'
<1> SUFFICES ASSUME TagsAssumption, TagsInductive, [TagsNext]_tagsVars PROVE TagsInductive'
  OBVIOUS
<1>0. EntriesAreItems /\ FreshIsNoticed /\ FetchedFloatsAreShown
  BY DEF TagsInductive
<1>1. CASE SteamRenders
  <2>1. UNCHANGED <<entries, enrich>>
        /\ \A a \in DOMAIN labels' : a \in DOMAIN labels /\ labels'[a] = labels[a]
    BY <1>1 DEF SteamRenders
  <2>2. QED
    BY <1>0, <2>1 DEF TagsInductive, EntriesAreItems, FreshIsNoticed, FetchedFloatsAreShown
<1>2. CASE Reprocess
  <2>1. UNCHANGED <<entries, enrich>> /\ labels' \in Labelled(entries, engine, labels)
    BY <1>2 DEF Reprocess
  <2>2. ASSUME NEW a \in DOMAIN labels' \cap DOMAIN entries, entries[a].float = "answer",
               enrich.at = "over"
        PROVE  labels'[a].floatOf = a
    <3>1. \/ a \in DOMAIN labels /\ labels'[a] = labels[a]
          \/ a \notin DOMAIN labels /\ (entries[a].float # "none" => labels'[a].floatOf = a)
      BY <1>0, <2>1, LabelsAreOfTheirEntry DEF EntriesAreItems
    <3>2. QED
      BY <1>0, <2>2, <3>1 DEF FetchedFloatsAreShown
  <2>3. QED
    BY <1>0, <2>1, <2>2 DEF TagsInductive, EntriesAreItems, FreshIsNoticed, FetchedFloatsAreShown
<1>3. CASE ReadInventories
  <2>1. PICK those \in {OfferItems, OwnItems, PartnerItems, {}}, withFloat \in SUBSET OfferItems :
          entries' = WithRead(those, withFloat) /\ labels' \in Labelled(WithRead(those, withFloat), engine, labels)
    BY <1>3 DEF ReadInventories
  <2>2. UNCHANGED enrich
    BY <1>3 DEF ReadInventories
  <2>3. those \subseteq OfferItems
    BY DEF OfferItems
  <2> DEFINE known == WithRead(those, withFloat)
  <2>4. DOMAIN known \subseteq OfferItems
    BY <1>0, <2>3 DEF WithRead, EntriesAreItems
  <2>5. \A a \in DOMAIN known : \/ a \in DOMAIN entries /\ known[a] = entries[a]
                                \/ known[a] = [currency |-> engine, float |-> "page"]
                                \/ known[a] = [currency |-> engine, float |-> "none"]
    BY DEF WithRead
  <2>6. \A a \in DOMAIN known : known[a] = [currency |-> known[a].currency, float |-> known[a].float]
    BY <1>0, <2>5 DEF EntriesAreItems
  <2>7. \A a \in DOMAIN known : known[a].float = "answer" =>
                                  a \in DOMAIN entries /\ entries[a].float = "answer"
    BY <2>5
  <2>8. entries' = known /\ labels' \in Labelled(known, engine, labels)
    BY <2>1
  <2> HIDE DEF known
  <2>9. EntriesAreItems' /\ FreshIsNoticed'
    BY <1>0, <2>2, <2>4, <2>6, <2>7, <2>8 DEF EntriesAreItems, FreshIsNoticed
  <2>10. ASSUME NEW a \in DOMAIN labels' \cap DOMAIN known, known[a].float = "answer",
                enrich.at = "over"
         PROVE  labels'[a].floatOf = a
    <3>1. \/ a \in DOMAIN labels /\ labels'[a] = labels[a]
          \/ a \notin DOMAIN labels /\ (known[a].float # "none" => labels'[a].floatOf = a)
      BY <2>4, <2>8, LabelsAreOfTheirEntry
    <3>2. QED
      BY <1>0, <2>7, <2>10, <3>1 DEF FetchedFloatsAreShown
  <2>11. QED
    BY <2>2, <2>8, <2>9, <2>10 DEF TagsInductive, FetchedFloatsAreShown
<1>4. CASE EnrichStarts
  <2>1. UNCHANGED <<entries, labels>> /\ enrich' = [enrich EXCEPT !.at = IF DOMAIN entries = {} THEN "over" ELSE "own"]
    BY <1>4 DEF EnrichStarts
  <2>2. enrich.at = "waiting"
    BY <1>4 DEF EnrichStarts
  <2>3. enrich'.fresh = enrich.fresh /\ enrich'.at = (IF DOMAIN entries = {} THEN "over" ELSE "own")
    BY <1>0, <2>1 DEF EntriesAreItems
  <2>4. QED
    BY <1>0, <2>1, <2>3 DEF TagsInductive, EntriesAreItems, FreshIsNoticed, FetchedFloatsAreShown
<1>5. CASE OwnAnswer
  <2>1. PICK those \in SUBSET OwnItems :
          entries' = Merged(those) /\ enrich' = [at |-> "partner", fresh |-> FoundNew(those)]
    BY <1>5 DEF OwnAnswer
  <2>2. EntriesAreItems'
    BY <1>0, <2>1, MergingKeepsEntries DEF EntriesAreItems
  <2>3. enrich'.at = "partner" /\ (~enrich'.fresh => ~enrich.fresh /\ entries' = entries)
    BY <2>1 DEF FoundNew
  <2>4. FreshIsNoticed'
    BY <1>0, <2>3 DEF FreshIsNoticed
  <2>5. FetchedFloatsAreShown'
    BY <2>3 DEF FetchedFloatsAreShown
  <2>6. QED
    BY <2>2, <2>4, <2>5 DEF TagsInductive
<1>6. CASE PartnerAnswer
  <2>1. PICK those \in SUBSET PartnerItems :
          /\ entries' = Merged(those)
          /\ enrich' = [at |-> "over", fresh |-> FoundNew(those)]
          /\ labels' \in IF FoundNew(those) THEN Labelled(Merged(those), engine, <<>>) ELSE {labels}
    BY <1>6 DEF PartnerAnswer
  <2>2. EntriesAreItems'
    BY <1>0, <2>1, MergingKeepsEntries DEF EntriesAreItems
  <2>3. ~enrich'.fresh => ~enrich.fresh /\ entries' = entries
    BY <2>1 DEF FoundNew
  <2>4. FreshIsNoticed'
    BY <1>0, <2>3 DEF FreshIsNoticed
  <2>5. CASE FoundNew(those)
    <3>1. DOMAIN Merged(those) \subseteq OfferItems /\ labels' \in Labelled(Merged(those), engine, <<>>)
      BY <1>0, <2>1, <2>5, MergingKeepsEntries DEF EntriesAreItems
    <3>2. \A a \in DOMAIN labels' \cap DOMAIN Merged(those) :
            Merged(those)[a].float # "none" => labels'[a].floatOf = a
      BY <3>1, LabelsAreOfTheirEntry
    <3>3. QED
      BY <2>1, <2>2, <2>4, <3>2 DEF TagsInductive, FetchedFloatsAreShown
  <2>6. CASE ~FoundNew(those)
    <3>1. \A a \in DOMAIN entries' : entries'[a].float # "answer"
      BY <2>1, <2>4, <2>6 DEF FreshIsNoticed
    <3>2. QED
      BY <2>2, <2>4, <3>1 DEF TagsInductive, FetchedFloatsAreShown
  <2>7. QED
    BY <2>5, <2>6
<1>7. CASE SettingsShown
  <2>1. UNCHANGED <<entries, enrich>> /\ labels' \in Labelled(entries, chosen, <<>>)
    BY <1>7 DEF SettingsShown
  <2>2. \A a \in DOMAIN labels' \cap DOMAIN entries :
          entries[a].float # "none" => labels'[a].floatOf = a
    BY <1>0, <2>1, LabelsAreOfTheirEntry DEF EntriesAreItems
  <2>3. QED
    BY <1>0, <2>1, <2>2 DEF TagsInductive, EntriesAreItems, FreshIsNoticed, FetchedFloatsAreShown
<1>8. CASE Tick \/ ChooseCurrency \/ UNCHANGED tagsVars
  <2>1. UNCHANGED <<entries, labels, enrich>>
    BY <1>8 DEF Tick, ChooseCurrency, tagsVars
  <2>2. QED
    BY <1>0, <2>1 DEF TagsInductive, EntriesAreItems, FreshIsNoticed, FetchedFloatsAreShown
<1>9. QED
  BY <1>1, <1>2, <1>3, <1>4, <1>5, <1>6, <1>7, <1>8 DEF TagsNext

\* A tag shows the float an answer brought: for any items, reads and changes of the currency.
THEOREM FloatsStayShown == TagsSpec => []FetchedFloatsAreShown
<1>1. TagsInductive => FetchedFloatsAreShown
  BY DEF TagsInductive
<1>2. QED
  BY <1>1, TagsBegin, TagsStep, TagsAssumption, PTL DEF TagsSpec

-----------------------------------------------------------------------------

(***************************************************************************)
(* BuffPage.  With every change heard, the youngest read finds what is     *)
(* stored; once none of the youngest is open the script goes by that.  A   *)
(* script that is off has nothing on the page and nothing due, and one     *)
(* that is on has its toolbar or is about to draw it.                      *)
(***************************************************************************)
Scripts == [enabled : BOOLEAN, observes : BOOLEAN, timer : BOOLEAN, settings : Settings]

BuffShapes ==
  /\ stored \in Settings /\ events \in Nat /\ generation \in Nat
  /\ openReads \subseteq [generation : Nat, found : SUBSET Settings]
  /\ \A r \in openReads : r.generation <= generation
  /\ script \in Scripts /\ bridge \in [loaded : BOOLEAN, enabled : BOOLEAN]
  /\ nodes = [panels |-> nodes.panels, toolbar |-> nodes.toolbar, history |-> nodes.history]

YoungestRead == \E r \in openReads : LatestRead(r)

ReadsFindWhatIsStored ==
  events = 0 =>
    /\ \A r \in openReads : LatestRead(r) => r.found \subseteq {stored}
    /\ ~YoungestRead /\ script.enabled => stored.on /\ script.settings = stored

ScriptKeepsThePage ==
  /\ ~script.enabled => /\ nodes = NoNodes /\ data = <<>> /\ ~script.timer /\ ~script.observes
                        /\ ~bridge.enabled
  /\ ~bridge.loaded => ~bridge.enabled
  /\ script.enabled => script.timer \/ nodes.toolbar = {script.settings}

BuffInductive == BuffShapes /\ ReadsFindWhatIsStored /\ ScriptKeepsThePage

LEMMA BuffBegins == BuffInit => BuffInductive
<1> SUFFICES ASSUME BuffInit PROVE BuffInductive
  OBVIOUS
<1>1. BuffShapes
  <2>1. NoSettings \in Settings
    BY BuffAssumption DEF BuffAssumption, NoSettings, Settings
  <2>2. nodes = [panels |-> nodes.panels, toolbar |-> nodes.toolbar, history |-> nodes.history]
    BY DEF BuffInit, NoNodes
  <2>3. stored \in Settings /\ events = 0 /\ generation = 1
        /\ openReads = {[generation |-> 1, found |-> {}]}
    BY DEF BuffInit
  <2>4. script \in Scripts /\ bridge \in [loaded : BOOLEAN, enabled : BOOLEAN]
    BY <2>1 DEF BuffInit, Scripts
  <2>5. QED
    BY <2>2, <2>3, <2>4 DEF BuffShapes
<1>2. ReadsFindWhatIsStored
  BY DEF BuffInit, ReadsFindWhatIsStored, LatestRead, YoungestRead
<1>3. ScriptKeepsThePage
  BY DEF BuffInit, ScriptKeepsThePage
<1>4. QED
  BY <1>1, <1>2, <1>3 DEF BuffInductive

LEMMA ChangesAreHeard ==
  ASSUME BuffInductive, SettingsChange \/ ChangeHeard \/ StorageRead
  PROVE  BuffInductive'
<1>0. BuffShapes /\ ReadsFindWhatIsStored /\ ScriptKeepsThePage
  BY DEF BuffInductive
<1>1. UNCHANGED <<script, data, nodes, bridge>>
  BY DEF SettingsChange, ChangeHeard, StorageRead
<1>2. ScriptKeepsThePage'
  BY <1>0, <1>1 DEF ScriptKeepsThePage
<1>3. CASE SettingsChange
  <2>1. stored.version \in 0..MaxSettings /\ stored.version < MaxSettings
    BY <1>0, <1>3 DEF BuffShapes, Settings, SettingsChange
  <2>2. stored.version + 1 \in 0..MaxSettings
    BY <2>1, BuffAssumption DEF BuffAssumption
  <2>3. stored' \in Settings
    BY <1>3, <2>2 DEF SettingsChange, Settings
  <2>4. events' \in Nat /\ events' # 0 /\ UNCHANGED <<openReads, generation>>
    BY <1>0, <1>3 DEF SettingsChange, BuffShapes
  <2>5. BuffShapes'
    BY <1>0, <1>1, <2>3, <2>4 DEF BuffShapes
  <2>6. ReadsFindWhatIsStored'
    BY <2>4 DEF ReadsFindWhatIsStored
  <2>7. QED
    BY <1>2, <2>5, <2>6 DEF BuffInductive
<1>4. CASE ChangeHeard
  <2> DEFINE new == [generation |-> generation + 1, found |-> {}]
  <2>1. /\ openReads' = openReads \cup {new} /\ generation' = generation + 1
        /\ events' = events - 1 /\ events > 0 /\ UNCHANGED stored
    BY <1>4 DEF ChangeHeard
  <2>2. new \in [generation : Nat, found : SUBSET Settings] /\ new.found = {}
        /\ new.generation = generation + 1
    BY <1>0 DEF BuffShapes
  <2> HIDE DEF new
  <2>3. generation \in Nat /\ \A r \in openReads : r.generation \in Nat /\ r.generation <= generation
    BY <1>0 DEF BuffShapes
  <2>4. \A r \in openReads' : r.generation <= generation' /\ (LatestRead(r)' => r = new)
    BY <2>1, <2>2, <2>3 DEF LatestRead
  <2>5. BuffShapes'
    BY <1>0, <1>1, <2>1, <2>2, <2>4 DEF BuffShapes
  <2>6. YoungestRead'
    BY <2>1, <2>2 DEF YoungestRead, LatestRead
  <2>7. ReadsFindWhatIsStored'
    BY <2>2, <2>4, <2>6 DEF ReadsFindWhatIsStored
  <2>8. QED
    BY <1>2, <2>5, <2>7 DEF BuffInductive
<1>5. CASE StorageRead
  <2>1. PICK r \in openReads :
          /\ openReads' = (openReads \ {r}) \cup {[r EXCEPT !.found = {stored}]}
          /\ UNCHANGED <<stored, events, generation>>
    BY <1>5 DEF StorageRead
  <2> DEFINE new == [r EXCEPT !.found = {stored}]
  <2>2. new \in [generation : Nat, found : SUBSET Settings] /\ new.found = {stored}
        /\ new.generation = r.generation
    BY <1>0 DEF BuffShapes
  <2>3. openReads' = (openReads \ {r}) \cup {new}
    BY <2>1
  <2> HIDE DEF new
  <2>4. BuffShapes'
    BY <1>0, <1>1, <2>1, <2>2, <2>3 DEF BuffShapes
  <2>5. YoungestRead => YoungestRead'
    BY <2>1, <2>2, <2>3 DEF YoungestRead, LatestRead
  <2>6. ReadsFindWhatIsStored'
    BY <1>0, <1>1, <2>1, <2>2, <2>3, <2>5 DEF ReadsFindWhatIsStored, LatestRead
  <2>7. QED
    BY <1>2, <2>4, <2>6 DEF BuffInductive
<1>6. QED
  BY <1>3, <1>4, <1>5

\* What turning the enhancements on or off leaves.
LEMMA EnableIsSafe ==
  ASSUME BuffInductive, NEW s \in Settings, Enable(s)
  PROVE  /\ script' \in Scripts /\ bridge' \in [loaded : BOOLEAN, enabled : BOOLEAN]
         /\ nodes' = [panels |-> nodes'.panels, toolbar |-> nodes'.toolbar, history |-> nodes'.history]
         /\ script'.enabled /\ script'.settings = s /\ ScriptKeepsThePage'
<1>0. BuffShapes /\ ScriptKeepsThePage
  BY DEF BuffInductive
<1>1. script' = [enabled |-> TRUE, observes |-> TRUE, timer |-> TRUE, settings |-> s]
  BY DEF Enable
<1>2. script' \in Scripts /\ script'.enabled /\ script'.timer /\ script'.settings = s
  BY <1>1 DEF Scripts
<1>3. bridge' = bridge \/ Told(TRUE)
  BY DEF Enable
<1>4. bridge' \in [loaded : BOOLEAN, enabled : BOOLEAN] /\ (~bridge'.loaded => ~bridge'.enabled)
  BY <1>0, <1>3 DEF Told, BuffShapes, ScriptKeepsThePage
<1>5. nodes' = nodes \/ nodes' = NoNodes
  BY DEF Enable, Cleared
<1>6. nodes' = [panels |-> nodes'.panels, toolbar |-> nodes'.toolbar, history |-> nodes'.history]
  BY <1>0, <1>5 DEF BuffShapes, NoNodes
<1>7. QED
  BY <1>2, <1>4, <1>6 DEF ScriptKeepsThePage

LEMMA DisableIsSafe ==
  ASSUME BuffInductive, NEW s \in Settings, Disable(s)
  PROVE  /\ script' \in Scripts /\ bridge' \in [loaded : BOOLEAN, enabled : BOOLEAN]
         /\ nodes' = [panels |-> nodes'.panels, toolbar |-> nodes'.toolbar, history |-> nodes'.history]
         /\ ~script'.enabled /\ ScriptKeepsThePage'
<1>0. BuffShapes /\ ScriptKeepsThePage
  BY DEF BuffInductive
<1>1. script' = [enabled |-> FALSE, observes |-> FALSE, timer |-> FALSE, settings |-> s]
  BY DEF Disable
<1>2. script' \in Scripts /\ ~script'.enabled /\ ~script'.timer /\ ~script'.observes
  BY <1>1 DEF Scripts
<1>3. bridge' \in [loaded : BOOLEAN, enabled : BOOLEAN] /\ ~bridge'.enabled
  BY <1>0 DEF Disable, Told, BuffShapes, ScriptKeepsThePage
<1>4. nodes' = NoNodes /\ data' = <<>>
  BY DEF Disable, Cleared
<1>5. nodes' = [panels |-> nodes'.panels, toolbar |-> nodes'.toolbar, history |-> nodes'.history]
  BY <1>4 DEF NoNodes
<1>6. QED
  BY <1>2, <1>3, <1>4, <1>5 DEF ScriptKeepsThePage

LEMMA AnsweringIsSafe ==
  ASSUME BuffInductive, ReadAnswered \/ StorageReadFails
  PROVE  BuffInductive'
<1>0. BuffShapes /\ ReadsFindWhatIsStored /\ ScriptKeepsThePage
  BY DEF BuffInductive
<1>1. PICK r \in openReads :
        /\ openReads' = openReads \ {r} /\ UNCHANGED <<stored, events, generation>>
        /\ \/ LatestRead(r) /\ \E s \in r.found : s.on /\ Enable(s)
           \/ LatestRead(r) /\ \E s \in Settings : Disable(s)
           \/ ~LatestRead(r) /\ UNCHANGED <<script, data, nodes, bridge>>
  <2>1. CASE ReadAnswered
    <3>1. PICK r \in openReads :
            /\ openReads' = openReads \ {r} /\ UNCHANGED <<stored, events, generation>>
            /\ IF LatestRead(r)
               THEN \E s \in r.found : IF s.on THEN Enable(s) ELSE Disable(s)
               ELSE UNCHANGED <<script, data, nodes, bridge>>
      BY <2>1 DEF ReadAnswered
    <3>2. r.found \subseteq Settings
      BY <1>0 DEF BuffShapes
    <3>3. QED
      BY <3>1, <3>2
  <2>2. CASE StorageReadFails
    <3>1. script.settings \in Settings
      BY <1>0 DEF BuffShapes, Scripts
    <3>2. QED
      BY <2>2, <3>1 DEF StorageReadFails
  <2>3. QED
    BY <2>1, <2>2
<1>2. r.found \subseteq Settings /\ openReads' \subseteq openReads
  BY <1>0, <1>1 DEF BuffShapes
<1>3. \A q : LatestRead(q)' <=> LatestRead(q)
  BY <1>1 DEF LatestRead
<1>4. CASE LatestRead(r) /\ \E s \in r.found : s.on /\ Enable(s)
  <2>1. PICK s \in r.found : s.on /\ Enable(s)
    BY <1>4
  <2>2. /\ script' \in Scripts /\ bridge' \in [loaded : BOOLEAN, enabled : BOOLEAN]
        /\ nodes' = [panels |-> nodes'.panels, toolbar |-> nodes'.toolbar, history |-> nodes'.history]
        /\ script'.settings = s /\ ScriptKeepsThePage'
    BY <1>2, <2>1, EnableIsSafe
  <2>3. BuffShapes'
    BY <1>0, <1>1, <1>2, <2>2 DEF BuffShapes
  <2>4. events = 0 => s = stored
    BY <1>0, <1>1, <1>4, <2>1 DEF ReadsFindWhatIsStored
  <2>5. ReadsFindWhatIsStored'
    BY <1>0, <1>1, <1>2, <1>3, <2>1, <2>2, <2>4 DEF ReadsFindWhatIsStored
  <2>6. QED
    BY <2>2, <2>3, <2>5 DEF BuffInductive
<1>5. CASE LatestRead(r) /\ \E s \in Settings : Disable(s)
  <2>1. /\ script' \in Scripts /\ bridge' \in [loaded : BOOLEAN, enabled : BOOLEAN]
        /\ nodes' = [panels |-> nodes'.panels, toolbar |-> nodes'.toolbar, history |-> nodes'.history]
        /\ ~script'.enabled /\ ScriptKeepsThePage'
    BY <1>5, DisableIsSafe
  <2>2. BuffShapes'
    BY <1>0, <1>1, <1>2, <2>1 DEF BuffShapes
  <2>3. ReadsFindWhatIsStored'
    BY <1>0, <1>1, <1>2, <1>3, <2>1 DEF ReadsFindWhatIsStored
  <2>4. QED
    BY <2>1, <2>2, <2>3 DEF BuffInductive
<1>6. CASE ~LatestRead(r) /\ UNCHANGED <<script, data, nodes, bridge>>
  <2>1. BuffShapes' /\ ScriptKeepsThePage'
    BY <1>0, <1>1, <1>2, <1>6 DEF BuffShapes, ScriptKeepsThePage
  <2>2. YoungestRead => YoungestRead'
    BY <1>1, <1>3, <1>6 DEF YoungestRead
  <2>3. ReadsFindWhatIsStored'
    BY <1>0, <1>1, <1>2, <1>3, <1>6, <2>2 DEF ReadsFindWhatIsStored
  <2>4. QED
    BY <2>1, <2>3 DEF BuffInductive
<1>7. QED
  BY <1>1, <1>4, <1>5, <1>6

\* What the page does, with nothing heard of the settings.
LEMMA PageIsKept ==
  ASSUME BuffInductive, UNCHANGED storageVars,
         script' \in Scripts, script'.enabled = script.enabled, script'.settings = script.settings,
         bridge' \in [loaded : BOOLEAN, enabled : BOOLEAN],
         nodes' = [panels |-> nodes'.panels, toolbar |-> nodes'.toolbar, history |-> nodes'.history],
         ScriptKeepsThePage'
  PROVE  BuffInductive'
<1>1. BuffShapes'
  BY DEF BuffInductive, BuffShapes, storageVars
<1>2. ReadsFindWhatIsStored'
  BY DEF BuffInductive, ReadsFindWhatIsStored, YoungestRead, LatestRead, storageVars
<1>3. QED
  BY <1>1, <1>2 DEF BuffInductive

LEMMA NodesGo ==
  ASSUME nodes = [panels |-> nodes.panels, toolbar |-> nodes.toolbar, history |-> nodes.history],
         nodes' = [nodes EXCEPT !.panels = <<>>, !.history = FALSE]
  PROVE  /\ nodes' = [panels |-> nodes'.panels, toolbar |-> nodes'.toolbar, history |-> nodes'.history]
         /\ nodes'.toolbar = nodes.toolbar
         /\ nodes = NoNodes => nodes' = NoNodes
<1>1. nodes' = [panels |-> <<>>, toolbar |-> nodes.toolbar, history |-> FALSE]
  OBVIOUS
<1>2. nodes'.panels = <<>> /\ nodes'.toolbar = nodes.toolbar /\ nodes'.history = FALSE
  BY <1>1
<1>3. ASSUME nodes = NoNodes PROVE nodes' = NoNodes
  <2>1. nodes.toolbar = {}
    BY <1>3 DEF NoNodes
  <2>2. QED
    BY <1>1, <2>1 DEF NoNodes
<1>4. QED
  BY <1>1, <1>2, <1>3

LEMMA PageStepIsSafe ==
  ASSUME BuffInductive,
         \/ BridgeLoads \/ Render \/ (\E v \in Views : MoveTo(v))
         \/ \E r \in responses : PageShows(r) \/ BridgeShows(r)
  PROVE  BuffInductive'
<1>0. BuffShapes /\ ScriptKeepsThePage
  BY DEF BuffInductive
<1>s. script \in Scripts /\ bridge \in [loaded : BOOLEAN, enabled : BOOLEAN]
  BY <1>0 DEF BuffShapes
<1>n. /\ nodes = [panels |-> nodes.panels, toolbar |-> nodes.toolbar, history |-> nodes.history]
      /\ NoNodes = [panels |-> NoNodes.panels, toolbar |-> NoNodes.toolbar,
                    history |-> NoNodes.history]
  BY <1>0 DEF BuffShapes, NoNodes
<1>t. /\ [script EXCEPT !.timer = TRUE] \in Scripts
      /\ [script EXCEPT !.timer = TRUE].enabled = script.enabled
      /\ [script EXCEPT !.timer = TRUE].settings = script.settings
      /\ [script EXCEPT !.timer = TRUE].timer
  BY <1>s DEF Scripts
<1> DEFINE due == [script EXCEPT !.timer = @ \/ script.observes]
<1>d. /\ due \in Scripts /\ due.enabled = script.enabled /\ due.settings = script.settings
      /\ due.observes = script.observes /\ (due.timer <=> script.timer \/ script.observes)
  <2>1. script.timer \in BOOLEAN /\ script.observes \in BOOLEAN
    BY <1>s DEF Scripts
  <2>2. (script.timer \/ script.observes) \in BOOLEAN
    OBVIOUS
  <2>3. QED
    BY <1>s, <2>2 DEF Scripts
<1>1. CASE BridgeLoads
  <2>1. bridge' = [loaded |-> TRUE, enabled |-> script.enabled] /\ UNCHANGED storageVars
        /\ IF script.enabled THEN Cleared /\ script' = [script EXCEPT !.timer = TRUE]
           ELSE UNCHANGED <<data, nodes, script>>
    BY <1>1 DEF BridgeLoads
  <2>2. script.enabled \in BOOLEAN
    BY <1>s DEF Scripts
  <2>3. bridge' \in [loaded : BOOLEAN, enabled : BOOLEAN] /\ bridge'.loaded
        /\ bridge'.enabled = script.enabled
    BY <2>1, <2>2
  <2>4. CASE script.enabled
    BY <1>n, <1>t, <2>1, <2>3, <2>4, PageIsKept DEF Cleared, ScriptKeepsThePage
  <2>5. CASE ~script.enabled
    BY <1>0, <1>s, <1>n, <2>1, <2>3, <2>5, PageIsKept DEF ScriptKeepsThePage
  <2>6. QED
    BY <2>4, <2>5
<1>2. CASE Render
  <2>1. /\ script' = [script EXCEPT !.timer = FALSE] /\ script.timer
        /\ UNCHANGED <<storageVars, data, bridge>>
        /\ nodes' = [panels |-> Over(ApiPanels, Over(nodes.panels, StaticPanels)),
                     toolbar |-> {script.settings},
                     history |-> \E n \in DOMAIN data : KindOf[data[n]] = "price_history"]
    BY <1>2 DEF Render
  <2>2. script' \in Scripts /\ script'.enabled = script.enabled /\ script'.settings = script.settings
    BY <1>s, <2>1 DEF Scripts
  <2>3. nodes' = [panels |-> nodes'.panels, toolbar |-> nodes'.toolbar, history |-> nodes'.history]
        /\ nodes'.toolbar = {script.settings}
    BY <2>1
  <2>4. script.enabled
    BY <1>0, <2>1 DEF ScriptKeepsThePage
  <2>5. ScriptKeepsThePage'
    BY <1>0, <2>1, <2>2, <2>3, <2>4 DEF ScriptKeepsThePage
  <2>6. QED
    BY <1>s, <2>1, <2>2, <2>3, <2>5, PageIsKept
<1>3. CASE \E v \in Views : MoveTo(v)
  <2>1. /\ UNCHANGED <<storageVars, bridge>>
        /\ IF bridge.enabled /\ script.enabled
           THEN Cleared /\ script' = [script EXCEPT !.timer = TRUE]
           ELSE /\ nodes' = [nodes EXCEPT !.panels = <<>>, !.history = FALSE] /\ UNCHANGED data
                /\ script' = due
    BY <1>3 DEF MoveTo
  <2>2. CASE bridge.enabled /\ script.enabled
    BY <1>0, <1>s, <1>n, <1>t, <2>1, <2>2, PageIsKept DEF Cleared, ScriptKeepsThePage
  <2>3. CASE ~(bridge.enabled /\ script.enabled)
    <3> HIDE DEF due
    <3>1. ScriptKeepsThePage'
      BY <1>0, <1>n, <1>d, <2>1, <2>3, NodesGo DEF ScriptKeepsThePage
    <3>2. QED
      BY <1>s, <1>n, <1>d, <2>1, <2>3, <3>1, NodesGo, PageIsKept
  <2>4. QED
    BY <2>2, <2>3
<1>4. CASE \E r \in responses : PageShows(r)
  <2>1. /\ UNCHANGED <<storageVars, data, bridge>>
        /\ \/ /\ nodes' = [nodes EXCEPT !.panels = <<>>, !.history = FALSE] /\ script' = due
           \/ UNCHANGED <<nodes, script>>
    BY <1>4 DEF PageShows
  <2>2. CASE UNCHANGED <<nodes, script>>
    BY <1>0, <1>s, <1>n, <2>1, <2>2, PageIsKept DEF ScriptKeepsThePage
  <2>3. CASE nodes' = [nodes EXCEPT !.panels = <<>>, !.history = FALSE] /\ script' = due
    <3> HIDE DEF due
    <3>1. ScriptKeepsThePage'
      BY <1>0, <1>n, <1>d, <2>1, <2>3, NodesGo DEF ScriptKeepsThePage
    <3>2. QED
      BY <1>s, <1>n, <1>d, <2>1, <2>3, <3>1, NodesGo, PageIsKept
  <2>4. QED
    BY <2>1, <2>2, <2>3
<1>5. CASE \E r \in responses : BridgeShows(r)
  <2>1. /\ UNCHANGED <<storageVars, nodes, bridge>>
        /\ \/ bridge.enabled /\ script.enabled /\ script' = [script EXCEPT !.timer = TRUE]
           \/ UNCHANGED <<data, script>>
    BY <1>5 DEF BridgeShows
  <2>2. ScriptKeepsThePage'
    BY <1>0, <1>t, <2>1 DEF ScriptKeepsThePage
  <2>3. QED
    BY <1>s, <1>n, <1>t, <2>1, <2>2, PageIsKept
<1>6. QED
  BY <1>1, <1>2, <1>3, <1>4, <1>5

LEMMA BuffStep == BuffInductive /\ [BuffNext]_buffVars => BuffInductive'
<1> SUFFICES ASSUME BuffInductive, [BuffNext]_buffVars PROVE BuffInductive'
  OBVIOUS
<1>1. CASE UNCHANGED buffVars
  BY <1>1 DEF buffVars, BuffInductive, BuffShapes, ReadsFindWhatIsStored, YoungestRead, LatestRead,
              ScriptKeepsThePage
<1>2. CASE SettingsChange \/ ChangeHeard \/ StorageRead
  BY <1>2, ChangesAreHeard
<1>3. CASE ReadAnswered \/ StorageReadFails
  BY <1>3, AnsweringIsSafe
<1>4. CASE \/ BridgeLoads \/ Render \/ (\E v \in Views : MoveTo(v))
           \/ \E r \in responses : PageShows(r) \/ BridgeShows(r)
  BY <1>4, PageStepIsSafe
<1>5. QED
  BY <1>1, <1>2, <1>3, <1>4 DEF BuffNext

\* Off, the page is as Buff made it; on, it goes by the settings stored: for any views and any
\* number of changes of the settings, whatever order their reads are answered in.
THEOREM OffStaysOff == BuffSpec => []OffLeavesNothing
<1>1. BuffInductive => OffLeavesNothing
  BY DEF BuffInductive, ReadsFindWhatIsStored, ScriptKeepsThePage, OffLeavesNothing, Quiet,
         YoungestRead
<1>2. QED
  BY <1>1, BuffBegins, BuffStep, PTL DEF BuffSpec

-----------------------------------------------------------------------------

(***************************************************************************)
(* CSFloatPage.  The reads on their way, answered ones before those asked  *)
(* for, are one queue: the reloads in it are in the order of the changes   *)
(* they are for, the last of them for the last change heard of, and what   *)
(* initUI waits for is the one other read.  No panel is on the page while  *)
(* a reload is on its way.                                                 *)
(***************************************************************************)
FloatReads == [what : {"engine", "panel", "prices"}, asOf : Nat]
FloatStored == [show : BOOLEAN, settings : Nat, prices : Nat]
FloatReadings == [what : {"engine", "panel", "prices"}, asOf : Nat, value : FloatStored, ok : BOOLEAN]
FloatChanges == [what : {"settings", "prices"}, value : FloatStored]

FloatShapes ==
  /\ storage \in FloatStored
  /\ asked \in Seq(FloatReads) /\ readings \in Seq(FloatReadings) /\ changes \in Seq(FloatChanges)
  /\ priceEngine \in [settings : Nat, failed : BOOLEAN]
  /\ show \in BOOLEAN /\ ready \in BOOLEAN /\ panelRevision \in Nat
  /\ card = [key |-> card.key, line |-> card.line, panel |-> card.panel]

\* The reads on their way, in the order in which they were asked for.
ReadOf(reading) == [what |-> reading.what, asOf |-> reading.asOf]
QueueOf(found, unread) ==
  [i \in 1..(Len(found) + Len(unread)) |->
     IF i <= Len(found) THEN ReadOf(found[i]) ELSE unread[i - Len(found)]]

Reload(r) == r.what = "engine"
NoReload(q) == \A i \in DOMAIN q : ~Reload(q[i])

\* x is before y in the queue.
MayPrecede(useIt, x, y) ==
  /\ Reload(x) /\ Reload(y) => x.asOf < y.asOf
  /\ Reload(x) \/ Reload(y)
  /\ useIt /\ x.what = "prices" => ~Reload(y)

QueueInOrder(q, useIt) == \A i, j \in DOMAIN q : i < j => MayPrecede(useIt, q[i], q[j])

WaitedFor(q, stage, latest) ==
  /\ \A i \in DOMAIN q : ~Reload(q[i]) \/ q[i].asOf = 0 => stage = q[i].what
  /\ \A i \in DOMAIN q : Reload(q[i]) => q[i].asOf <= latest
  /\ NoReload(q) \/ \E i \in DOMAIN q : Reload(q[i]) /\ q[i].asOf = latest

QueueHolds(q, useIt, stage, latest) ==
  /\ QueueInOrder(q, useIt) /\ WaitedFor(q, stage, latest)
  /\ useIt /\ stage = "done" => NoReload(q)

ReadsInOrder == QueueHolds(QueueOf(readings, asked), ready, booting, panelRevision)

\* Without a reload on its way the engine is as new as the last change heard of, or failed.
EngineFollows ==
  NoReload(QueueOf(readings, asked)) => priceEngine.settings >= panelRevision \/ priceEngine.failed

\* What was stored when a read was answered or a change announced.
WasStored(value, now) ==
  value.settings <= now.settings /\ (value.settings = now.settings => value.show = now.show)
ReadingsWereStored ==
  \A i \in DOMAIN readings :
    WasStored(readings[i].value, storage) /\ (Reload(readings[i]) => readings[i].asOf <= readings[i].value.settings)

ChangesInOrder ==
  /\ panelRevision <= storage.settings /\ OnTheirWay = (panelRevision + 1)..storage.settings
  /\ \A i, j \in DOMAIN changes :
       i < j /\ changes[i].what = "settings" /\ changes[j].what = "settings"
         => changes[i].value.settings < changes[j].value.settings
  /\ \A i \in DOMAIN changes : WasStored(changes[i].value, storage)

\* The page shows the panel only if the settings it heard of last want it.
ShowIsWanted == ~overtaken /\ show /\ panelRevision = storage.settings => storage.show

PaintedWith(p, currentPrices, currentEngine) ==
  p.settings = currentEngine.settings /\ p.prices = currentPrices
PanelIsPainted ==
  booting = "done" /\ card.panel # {} =>
    ready /\ show /\ \A p \in card.panel : PaintedWith(p, prices, priceEngine)

FloatInductive ==
  /\ FloatShapes /\ ReadsInOrder /\ EngineFollows /\ ReadingsWereStored /\ ChangesInOrder
  /\ ShowIsWanted /\ PanelIsPainted

(***************************************************************************)
(* The queue of reads.                                                     *)
(***************************************************************************)
LEMMA QueueShape ==
  ASSUME NEW found \in Seq(FloatReadings), NEW unread \in Seq(FloatReads)
  PROVE  /\ Len(found) + Len(unread) \in Nat
         /\ QueueOf(found, unread) \in [1..(Len(found) + Len(unread)) -> FloatReads]
<1>1. \A i \in 1..Len(found) : ReadOf(found[i]) \in FloatReads
  <2>1. \A r \in FloatReadings : ReadOf(r) \in FloatReads
    BY DEF FloatReadings, FloatReads, ReadOf
  <2> QED
    BY <2>1, ElementOfSeq
<1>2. Len(found) \in Nat /\ Len(unread) \in Nat
  OBVIOUS
<1>3. \A i \in 1..(Len(found) + Len(unread)) : i > Len(found) => i - Len(found) \in 1..Len(unread)
  BY <1>2
<1>4. \A i \in 1..Len(unread) : unread[i] \in FloatReads
  BY ElementOfSeq
<1>5. \A i \in 1..(Len(found) + Len(unread)) :
        (IF i <= Len(found) THEN ReadOf(found[i]) ELSE unread[i - Len(found)]) \in FloatReads
  BY <1>1, <1>2, <1>3, <1>4
<1> QED
  BY <1>2, <1>5 DEF QueueOf

\* A read that is answered keeps its place.
LEMMA AnsweredKeepsItsPlace ==
  ASSUME NEW found \in Seq(FloatReadings), NEW unread \in Seq(FloatReads), unread # <<>>,
         NEW r \in FloatReadings, ReadOf(r) = Head(unread)
  PROVE  QueueOf(Append(found, r), Tail(unread)) = QueueOf(found, unread)
<1> DEFINE n == Len(found)
           m == Len(unread)
<1>1. n \in Nat /\ m \in Nat /\ m > 0 /\ Len(Append(found, r)) = n + 1 /\ Len(Tail(unread)) = m - 1
  OBVIOUS
<1>2. \A i \in 1..n : Append(found, r)[i] = found[i]
  OBVIOUS
<1>3. Append(found, r)[n + 1] = r /\ Head(unread) = unread[1]
  OBVIOUS
<1>4. \A i \in 1..(m - 1) : Tail(unread)[i] = unread[i + 1]
  OBVIOUS
<1>5. (n + 1) + (m - 1) = n + m
  BY <1>1
<1> SUFFICES ASSUME NEW i \in 1..(n + m)
    PROVE (IF i <= n + 1 THEN ReadOf(Append(found, r)[i]) ELSE Tail(unread)[i - (n + 1)])
            = (IF i <= n THEN ReadOf(found[i]) ELSE unread[i - n])
  BY <1>1, <1>5 DEF QueueOf
<1> HIDE DEF n, m
<1>6. CASE i <= n
  BY <1>1, <1>2, <1>6
<1>7. CASE i = n + 1
  <2>1. ~(i <= n) /\ i <= n + 1 /\ i - n = 1
    BY <1>1, <1>7
  <2> QED
    BY <2>1, <1>3, <1>7
<1>8. CASE i > n + 1
  <2>1. ~(i <= n) /\ ~(i <= n + 1) /\ i - (n + 1) \in 1..(m - 1) /\ (i - (n + 1)) + 1 = i - n
    BY <1>1, <1>8
  <2> QED
    BY <2>1, <1>4
<1> QED
  BY <1>1, <1>6, <1>7, <1>8

IsTail(t, q, n) ==
  /\ n \in Nat /\ n > 0 /\ q \in [1..n -> FloatReads] /\ t \in [1..(n - 1) -> FloatReads]
  /\ \A i \in 1..(n - 1) : t[i] = q[i + 1]
IsAppended(t, q, n, request) ==
  /\ n \in Nat /\ q \in [1..n -> FloatReads] /\ t \in [1..(n + 1) -> FloatReads]
  /\ \A i \in 1..n : t[i] = q[i]
  /\ t[n + 1] = request

LEMMA QueueTaken ==
  ASSUME NEW found \in Seq(FloatReadings), NEW unread \in Seq(FloatReads), found # <<>>
  PROVE  /\ IsTail(QueueOf(Tail(found), unread), QueueOf(found, unread), Len(found) + Len(unread))
         /\ QueueOf(found, unread)[1] = ReadOf(Head(found))
<1> DEFINE n == Len(found)
           m == Len(unread)
           q == QueueOf(found, unread)
           t == QueueOf(Tail(found), unread)
<1>1. n \in Nat /\ m \in Nat /\ n > 0 /\ Tail(found) \in Seq(FloatReadings) /\ Len(Tail(found)) = n - 1
  OBVIOUS
<1>2. \A i \in 1..(n - 1) : Tail(found)[i] = found[i + 1]
  OBVIOUS
<1>3. (n - 1) + m = (n + m) - 1
  BY <1>1
<1>4. q \in [1..(n + m) -> FloatReads] /\ t \in [1..((n + m) - 1) -> FloatReads]
  <2>1. q \in [1..(n + m) -> FloatReads]
    BY QueueShape
  <2>2. t \in [1..(Len(Tail(found)) + m) -> FloatReads]
    BY <1>1, QueueShape
  <2> QED
    BY <2>1, <2>2, <1>1, <1>3
<1>5. q[1] = ReadOf(Head(found))
  <2>1. 1 \in 1..(n + m) /\ 1 <= n
    BY <1>1
  <2>2. Head(found) = found[1]
    OBVIOUS
  <2> QED
    BY <2>1, <2>2 DEF QueueOf
<1>6. ASSUME NEW i \in 1..((n + m) - 1) PROVE t[i] = q[i + 1]
  <2> HIDE DEF n, m
  <2>1. i \in 1..((n - 1) + m) /\ i + 1 \in 1..(n + m) /\ (i <= n - 1 <=> i + 1 <= n)
    BY <1>1
  <2>2. t[i] = IF i <= n - 1 THEN ReadOf(Tail(found)[i]) ELSE unread[i - (n - 1)]
    BY <2>1, <1>1 DEF QueueOf, m
  <2>3. q[i + 1] = IF i + 1 <= n THEN ReadOf(found[i + 1]) ELSE unread[(i + 1) - n]
    BY <2>1 DEF QueueOf, n, m
  <2>4. i - (n - 1) = (i + 1) - n
    BY <1>1
  <2>5. i <= n - 1 => i \in 1..(n - 1)
    BY <1>1
  <2> QED
    BY <2>1, <2>2, <2>3, <2>4, <2>5, <1>2
<1>7. n + m \in Nat /\ n + m > 0
  BY <1>1
<1> QED
  BY <1>4, <1>5, <1>6, <1>7 DEF IsTail

LEMMA QueueGrows ==
  ASSUME NEW found \in Seq(FloatReadings), NEW unread \in Seq(FloatReads), NEW request \in FloatReads
  PROVE  IsAppended(QueueOf(found, Append(unread, request)), QueueOf(found, unread),
                    Len(found) + Len(unread), request)
<1> DEFINE n == Len(found)
           m == Len(unread)
           q == QueueOf(found, unread)
           t == QueueOf(found, Append(unread, request))
<1>1. n \in Nat /\ m \in Nat /\ Append(unread, request) \in Seq(FloatReads) /\ Len(Append(unread, request)) = m + 1
  OBVIOUS
<1>2. \A i \in 1..m : Append(unread, request)[i] = unread[i]
  OBVIOUS
<1>3. Append(unread, request)[m + 1] = request
  OBVIOUS
<1>4. q \in [1..(n + m) -> FloatReads] /\ t \in [1..((n + m) + 1) -> FloatReads]
  <2>1. q \in [1..(n + m) -> FloatReads]
    BY QueueShape
  <2>2. t \in [1..(n + Len(Append(unread, request))) -> FloatReads]
    BY <1>1, QueueShape
  <2>3. n + (m + 1) = (n + m) + 1
    BY <1>1
  <2> QED
    BY <2>1, <2>2, <2>3, <1>1
<1>5. ASSUME NEW i \in 1..(n + m) PROVE t[i] = q[i]
  <2> HIDE DEF n, m
  <2>1. i \in 1..(n + (m + 1))
    BY <1>1
  <2>2. t[i] = IF i <= n THEN ReadOf(found[i]) ELSE Append(unread, request)[i - n]
    BY <2>1, <1>1 DEF QueueOf, n
  <2>3. q[i] = IF i <= n THEN ReadOf(found[i]) ELSE unread[i - n]
    BY DEF QueueOf, n, m
  <2>4. ~(i <= n) => i - n \in 1..m
    BY <1>1
  <2> QED
    BY <2>2, <2>3, <2>4, <1>2
<1>6. t[(n + m) + 1] = request
  <2> HIDE DEF n, m
  <2>1. (n + m) + 1 \in 1..(n + (m + 1)) /\ ~((n + m) + 1 <= n) /\ ((n + m) + 1) - n = m + 1
    BY <1>1
  <2>2. t[(n + m) + 1] = IF (n + m) + 1 <= n THEN ReadOf(found[(n + m) + 1])
                         ELSE Append(unread, request)[((n + m) + 1) - n]
    BY <2>1, <1>1 DEF QueueOf, n
  <2> QED
    BY <2>1, <2>2, <1>3 DEF m
<1>7. n + m \in Nat
  BY <1>1
<1> QED
  BY <1>4, <1>5, <1>6, <1>7 DEF IsAppended

\* The reads after the first one are in order among themselves and with it.
LEMMA RestHolds ==
  ASSUME NEW q, NEW t, NEW n, IsTail(t, q, n), NEW useIt \in BOOLEAN, NEW stage, NEW latest \in Nat,
         QueueHolds(q, useIt, stage, latest)
  PROVE  /\ QueueInOrder(t, useIt) /\ WaitedFor(t, stage, latest)
         /\ \A i \in DOMAIN t : MayPrecede(useIt, q[1], t[i])
         /\ Reload(q[1]) /\ NoReload(t) => q[1].asOf = latest
         /\ Reload(q[1]) /\ q[1].asOf = latest => NoReload(t)
<1>1. /\ n \in Nat /\ n > 0 /\ DOMAIN q = 1..n /\ DOMAIN t = 1..(n - 1)
      /\ \A i \in 1..(n - 1) : t[i] = q[i + 1]
      /\ \A i \in 1..n : q[i].asOf \in Nat
  BY DEF IsTail, FloatReads
<1>2. \A i, j \in 1..n : i < j => MayPrecede(useIt, q[i], q[j])
  BY <1>1 DEF QueueHolds, QueueInOrder
<1>3. WaitedFor(q, stage, latest)
  BY DEF QueueHolds
<1>4. \A i \in 1..(n - 1) : i + 1 \in 1..n /\ 1 < i + 1 /\ 1 \in 1..n
  BY <1>1
<1>5. QueueInOrder(t, useIt)
  <2> SUFFICES ASSUME NEW i \in 1..(n - 1), NEW j \in 1..(n - 1), i < j
               PROVE  MayPrecede(useIt, t[i], t[j])
    BY <1>1 DEF QueueInOrder
  <2>1. i + 1 \in 1..n /\ j + 1 \in 1..n /\ i + 1 < j + 1
    BY <1>1
  <2> QED
    BY <2>1, <1>1, <1>2
<1>6. \A i \in 1..(n - 1) : MayPrecede(useIt, q[1], t[i])
  BY <1>1, <1>2, <1>4
<1>7. \A i \in 1..(n - 1) : Reload(t[i]) => t[i].asOf <= latest /\ t[i].asOf \in Nat
  BY <1>1, <1>3, <1>4 DEF WaitedFor
<1>8. \A i \in 1..(n - 1) : ~Reload(t[i]) \/ t[i].asOf = 0 => stage = t[i].what
  BY <1>1, <1>3, <1>4 DEF WaitedFor
<1>9. Reload(q[1]) => \A i \in 1..(n - 1) : Reload(t[i]) => q[1].asOf < t[i].asOf
  BY <1>6 DEF MayPrecede
<1>10. Reload(q[1]) /\ q[1].asOf = latest => NoReload(t)
  <2> SUFFICES ASSUME Reload(q[1]), q[1].asOf = latest, NEW i \in 1..(n - 1), Reload(t[i])
               PROVE  FALSE
    BY <1>1 DEF NoReload
  <2>1. latest < t[i].asOf /\ t[i].asOf <= latest /\ t[i].asOf \in Nat
    BY <1>7, <1>9
  <2> QED
    BY <2>1
<1>11. \A k \in 1..n : k # 1 => k - 1 \in 1..(n - 1) /\ (k - 1) + 1 = k
  BY <1>1
<1>12. ASSUME NEW k \in 1..n, Reload(q[k]), q[k].asOf = latest
       PROVE  (k = 1 /\ NoReload(t)) \/ \E i \in 1..(n - 1) : Reload(t[i]) /\ t[i].asOf = latest
  <2>1. CASE k = 1
    BY <2>1, <1>10, <1>12
  <2>2. CASE k # 1
    <3>1. k - 1 \in 1..(n - 1) /\ t[k - 1] = q[k]
      BY <2>2, <1>1, <1>11
    <3> QED
      BY <3>1, <1>12
  <2> QED
    BY <2>1, <2>2
<1>13. NoReload(q) => NoReload(t)
  BY <1>1, <1>4 DEF NoReload
<1>14. NoReload(q) \/ \E k \in 1..n : Reload(q[k]) /\ q[k].asOf = latest
  BY <1>1, <1>3 DEF WaitedFor
<1>15. NoReload(t) \/ \E i \in 1..(n - 1) : Reload(t[i]) /\ t[i].asOf = latest
  BY <1>12, <1>13, <1>14
<1>16. Reload(q[1]) /\ NoReload(t) => q[1].asOf = latest
  <2> SUFFICES ASSUME Reload(q[1]), NoReload(t) PROVE q[1].asOf = latest
    OBVIOUS
  <2>1. ~NoReload(q)
    BY <1>1 DEF NoReload
  <2>2. PICK k \in 1..n : Reload(q[k]) /\ q[k].asOf = latest
    BY <2>1, <1>14
  <2>3. ~\E i \in 1..(n - 1) : Reload(t[i])
    BY <1>1 DEF NoReload
  <2> QED
    BY <2>2, <2>3, <1>12
<1> QED
  BY <1>1, <1>5, <1>6, <1>7, <1>8, <1>10, <1>15, <1>16 DEF WaitedFor

\* A read is asked for after those that are on their way.
LEMMA GrownHolds ==
  ASSUME NEW q, NEW t, NEW n, NEW request \in FloatReads, IsAppended(t, q, n, request),
         NEW useIt \in BOOLEAN,
         QueueInOrder(q, useIt), \A i \in DOMAIN q : MayPrecede(useIt, q[i], request)
  PROVE  /\ QueueInOrder(t, useIt)
         /\ \A i \in DOMAIN t : t[i] = request \/ \E j \in DOMAIN q : t[i] = q[j]
         /\ \A i \in DOMAIN q : i \in DOMAIN t /\ t[i] = q[i]
         /\ \E i \in DOMAIN t : t[i] = request
<1>1. /\ n \in Nat /\ DOMAIN q = 1..n /\ DOMAIN t = 1..(n + 1)
      /\ \A i \in 1..n : t[i] = q[i]
      /\ t[n + 1] = request
  BY DEF IsAppended
<1>2. \A i \in 1..(n + 1) : i = n + 1 \/ i \in 1..n
  BY <1>1
<1>3. n + 1 \in 1..(n + 1) /\ \A i \in 1..n : i \in 1..(n + 1)
  BY <1>1
<1>4. ASSUME NEW i \in 1..(n + 1), NEW j \in 1..(n + 1), i < j PROVE MayPrecede(useIt, t[i], t[j])
  <2>1. i \in 1..n
    BY <1>1, <1>4
  <2>2. CASE j = n + 1
    BY <2>1, <2>2, <1>1
  <2>3. CASE j \in 1..n
    BY <2>1, <2>3, <1>1, <1>4 DEF QueueInOrder
  <2> QED
    BY <2>2, <2>3, <1>2
<1> QED
  BY <1>1, <1>2, <1>3, <1>4 DEF QueueInOrder

\* initUI's next step: what it waited for is the first read, and the rest are reloads.
LEMMA WaitGoesOn ==
  ASSUME NEW q, NEW t, NEW n, IsTail(t, q, n), NEW useIt \in BOOLEAN, NEW stage, NEW latest \in Nat,
         QueueHolds(q, useIt, stage, latest), ~Reload(q[1]) \/ q[1].asOf = 0
  PROVE  /\ stage = q[1].what
         /\ \A i \in DOMAIN t : Reload(t[i]) /\ t[i].asOf > 0
         /\ useIt /\ q[1].what = "prices" => NoReload(t)
<1>1. /\ n \in Nat /\ n > 0 /\ DOMAIN q = 1..n /\ DOMAIN t = 1..(n - 1)
      /\ 1 \in DOMAIN q /\ \A i \in DOMAIN t : t[i].asOf \in Nat /\ t[i] \in FloatReads
  BY DEF IsTail, FloatReads
<1>2. stage = q[1].what
  BY <1>1 DEF QueueHolds, WaitedFor
<1>3. WaitedFor(t, stage, latest) /\ \A i \in DOMAIN t : MayPrecede(useIt, q[1], t[i])
  BY RestHolds
<1>4. ASSUME NEW i \in DOMAIN t PROVE Reload(t[i]) /\ t[i].asOf > 0
  <2>1. CASE Reload(q[1])
    <3>1. ~Reload(t[i]) \/ t[i].asOf = 0 => t[i].what = "engine"
      BY <2>1, <1>2, <1>3 DEF WaitedFor, Reload
    <3>2. q[1].asOf = 0 /\ (Reload(t[i]) => 0 < t[i].asOf)
      BY <2>1, <1>3 DEF MayPrecede
    <3> QED
      BY <3>1, <3>2 DEF Reload
  <2>2. CASE ~Reload(q[1])
    <3>1. Reload(t[i])
      BY <2>2, <1>3 DEF MayPrecede
    <3>2. t[i].asOf # 0
      <4>1. t[i].asOf = 0 => stage = t[i].what
        BY <1>3 DEF WaitedFor
      <4> QED
        BY <4>1, <3>1, <2>2, <1>2 DEF Reload
    <3> QED
      BY <3>1, <3>2, <1>1
  <2> QED
    BY <2>1, <2>2
<1>5. useIt /\ q[1].what = "prices" => NoReload(t)
  BY <1>3 DEF MayPrecede, NoReload
<1> QED
  BY <1>2, <1>4, <1>5

(***************************************************************************)
(* The announcements.                                                      *)
(***************************************************************************)
\* The revision is that of the settings in the last change heard of.
LEMMA HeardIsCounted == FloatShapes /\ ChangesInOrder => Heard = panelRevision
<1> SUFFICES ASSUME FloatShapes, ChangesInOrder PROVE Heard = panelRevision
  OBVIOUS
<1>1. storage.settings \in Nat /\ panelRevision \in 0..storage.settings
  BY DEF FloatShapes, FloatStored, ChangesInOrder
<1>2. \A s, v, w \in Nat : v <= s /\ w <= s /\ (v + 1)..s = (w + 1)..s => v = w
  <2> SUFFICES ASSUME NEW s \in Nat, NEW v \in Nat, NEW w \in Nat, v <= s, w <= s,
                      (v + 1)..s = (w + 1)..s, v < w
               PROVE  FALSE
    OBVIOUS
  <2>1. v + 1 \in (v + 1)..s /\ v + 1 \notin (w + 1)..s
    OBVIOUS
  <2> QED
    BY <2>1
<1>3. OnTheirWay = (panelRevision + 1)..storage.settings
  BY DEF ChangesInOrder
<1>4. Heard \in 0..storage.settings /\ OnTheirWay = (Heard + 1)..storage.settings
  BY <1>1, <1>3 DEF Heard
<1>5. Heard \in Nat /\ panelRevision \in Nat /\ Heard <= storage.settings /\ panelRevision <= storage.settings
  BY <1>1, <1>4
<1> QED
  BY <1>1, <1>2, <1>3, <1>4, <1>5

\* The head of the announcements is heard.
LEMMA HeadIsHeard ==
  ASSUME FloatShapes, ChangesInOrder, changes # <<>>, changes' = Tail(changes), storage' = storage
  PROVE  /\ changes' \in Seq(FloatChanges)
         /\ Head(changes) \in FloatChanges /\ WasStored(Head(changes).value, storage)
         /\ \A i, j \in DOMAIN changes' :
              i < j /\ changes'[i].what = "settings" /\ changes'[j].what = "settings"
                => changes'[i].value.settings < changes'[j].value.settings
         /\ \A i \in DOMAIN changes' : WasStored(changes'[i].value, storage')
         /\ Head(changes).what # "settings" => OnTheirWay' = OnTheirWay
         /\ Head(changes).what = "settings" =>
              /\ Head(changes).value.settings = panelRevision + 1
              /\ OnTheirWay' = (panelRevision + 2)..storage.settings
<1> DEFINE n == Len(changes)
<1>1. changes \in Seq(FloatChanges) /\ n \in Nat /\ n > 0 /\ DOMAIN changes = 1..n
  BY DEF FloatShapes
<1>2. /\ changes' \in Seq(FloatChanges) /\ DOMAIN changes' = 1..(n - 1)
      /\ \A i \in 1..(n - 1) : changes'[i] = changes[i + 1]
      /\ Head(changes) = changes[1] /\ Head(changes) \in FloatChanges
  BY <1>1
<1>3. 1 \in DOMAIN changes /\ \A i \in DOMAIN changes' : i + 1 \in DOMAIN changes /\ 1 < i + 1
  BY <1>1, <1>2
<1>4. \A i \in DOMAIN changes : i # 1 => i - 1 \in DOMAIN changes' /\ (i - 1) + 1 = i
  BY <1>1, <1>2
<1>5. \A i \in DOMAIN changes : WasStored(changes[i].value, storage)
  BY DEF ChangesInOrder
<1>6. \A i \in DOMAIN changes' : WasStored(changes'[i].value, storage')
  BY <1>2, <1>3, <1>5 DEF WasStored
<1>7. ASSUME NEW i \in DOMAIN changes', NEW j \in DOMAIN changes', i < j,
             changes'[i].what = "settings", changes'[j].what = "settings"
      PROVE  changes'[i].value.settings < changes'[j].value.settings
  <2>1. i + 1 < j + 1 /\ i + 1 \in DOMAIN changes /\ j + 1 \in DOMAIN changes
    BY <1>2, <1>3, <1>7
  <2> QED
    BY <2>1, <1>2, <1>7 DEF ChangesInOrder
<1>8. \A v : v \in OnTheirWay' <=> \E i \in DOMAIN changes' : changes'[i].what = "settings" /\ v = changes'[i].value.settings
  BY DEF OnTheirWay
<1>9. \A v : v \in OnTheirWay <=> \E i \in DOMAIN changes : changes[i].what = "settings" /\ v = changes[i].value.settings
  BY DEF OnTheirWay
<1>10. OnTheirWay' \subseteq OnTheirWay
  <2> SUFFICES ASSUME NEW i \in DOMAIN changes', changes'[i].what = "settings"
               PROVE  changes'[i].value.settings \in OnTheirWay
    BY <1>8
  <2> QED
    BY <1>2, <1>3, <1>9
<1>11. ASSUME NEW v \in OnTheirWay, v \notin OnTheirWay'
       PROVE  changes[1].what = "settings" /\ v = changes[1].value.settings
  <2>1. PICK i \in DOMAIN changes : changes[i].what = "settings" /\ v = changes[i].value.settings
    BY <1>9
  <2>2. i = 1
    <3> SUFFICES ASSUME i # 1 PROVE FALSE
      OBVIOUS
    <3>1. i - 1 \in DOMAIN changes' /\ changes'[i - 1] = changes[i]
      BY <1>2, <1>4
    <3> QED
      BY <3>1, <2>1, <1>8, <1>11
  <2> QED
    BY <2>1, <2>2
<1>12. Head(changes).what # "settings" => OnTheirWay' = OnTheirWay
  BY <1>2, <1>10, <1>11
<1>13. ASSUME Head(changes).what = "settings"
       PROVE  /\ Head(changes).value.settings = panelRevision + 1
              /\ OnTheirWay' = (panelRevision + 2)..storage.settings
  <2> DEFINE v == changes[1].value.settings
             r == panelRevision
             s == storage.settings
  <2>1. r \in Nat /\ s \in Nat /\ OnTheirWay = (r + 1)..s
    BY DEF FloatShapes, FloatStored, ChangesInOrder
  <2>2. v \in OnTheirWay
    BY <1>2, <1>3, <1>9, <1>13
  <2>3. v \in Nat /\ r + 1 <= v /\ v <= s
    BY <2>1, <2>2
  <2>4. \A i \in DOMAIN changes' : changes'[i].what = "settings" => v < changes'[i].value.settings
    BY <1>2, <1>3, <1>13 DEF ChangesInOrder
  <2>5. \A w \in OnTheirWay' : v < w
    BY <1>8, <2>4
  <2>6. \A w \in OnTheirWay : w # v => w \in OnTheirWay'
    BY <1>11
  <2> HIDE DEF v, r, s
  <2>7. r + 1 \in OnTheirWay
    BY <2>1, <2>3
  <2>8. v = r + 1
    <3> SUFFICES ASSUME v # r + 1 PROVE FALSE
      OBVIOUS
    <3>1. v < r + 1
      BY <2>5, <2>6, <2>7
    <3> QED
      BY <3>1, <2>1, <2>3
  <2>9. OnTheirWay' = (r + 2)..s
    <3>1. ASSUME NEW w \in OnTheirWay' PROVE w \in (r + 2)..s
      <4>1. w \in (r + 1)..s /\ r + 1 < w
        BY <1>10, <2>1, <2>5, <2>8
      <4> QED
        BY <4>1, <2>1
    <3>2. ASSUME NEW w \in (r + 2)..s PROVE w \in OnTheirWay'
      <4>1. w \in (r + 1)..s /\ w # r + 1
        BY <2>1
      <4> QED
        BY <4>1, <2>1, <2>6, <2>8
    <3> QED
      BY <3>1, <3>2
  <2> QED
    BY <2>8, <2>9, <1>2 DEF v, r, s
<1> QED
  BY <1>2, <1>3, <1>5, <1>6, <1>7, <1>12, <1>13

\* A change is announced with what is stored then.
LEMMA ChangeIsAnnounced ==
  ASSUME FloatShapes, ChangesInOrder, storage' \in FloatStored, NEW what \in {"settings", "prices"},
         changes' = Append(changes, [what |-> what, value |-> storage']),
         what = "settings" => storage'.settings = storage.settings + 1,
         what = "prices" => storage'.settings = storage.settings /\ storage'.show = storage.show,
         panelRevision' = panelRevision
  PROVE  changes' \in Seq(FloatChanges) /\ ChangesInOrder'
<1> DEFINE n == Len(changes)
           last == [what |-> what, value |-> storage']
<1>1. changes \in Seq(FloatChanges) /\ n \in Nat /\ DOMAIN changes = 1..n
  BY DEF FloatShapes
<1>2. last \in FloatChanges
  BY DEF FloatChanges
<1>3. /\ changes' \in Seq(FloatChanges) /\ DOMAIN changes' = 1..(n + 1)
      /\ \A i \in 1..n : changes'[i] = changes[i]
      /\ changes'[n + 1] = last
  <2> HIDE DEF last
  <2>1. changes' = Append(changes, last)
    BY DEF last
  <2> QED
    BY <1>1, <1>2, <2>1
<1>4. n + 1 \in DOMAIN changes' /\ \A i \in DOMAIN changes' : i = n + 1 \/ i \in DOMAIN changes
  BY <1>1, <1>3
<1>5. \A i \in DOMAIN changes : i \in DOMAIN changes' /\ ~(n + 1 < i)
  BY <1>1, <1>3
<1>6. storage.settings \in Nat /\ storage'.settings \in Nat /\ storage.settings <= storage'.settings /\ panelRevision \in Nat
  BY DEF FloatShapes, FloatStored
<1>7. \A i \in DOMAIN changes : changes[i].value.settings \in Nat
  <2>1. \A i \in DOMAIN changes : changes[i] \in FloatChanges
    BY <1>1
  <2> QED
    BY <2>1 DEF FloatChanges, FloatStored
<1>8. \A i \in DOMAIN changes : changes[i].value.settings <= storage.settings
  BY DEF ChangesInOrder, WasStored
<1>9. ASSUME NEW i \in DOMAIN changes' PROVE WasStored(changes'[i].value, storage')
  <2>1. CASE i = n + 1
    <3>1. changes'[i].value = storage'
      BY <2>1, <1>3
    <3> QED
      BY <3>1, <1>6 DEF WasStored
  <2>2. CASE i \in DOMAIN changes
    <3>1. changes'[i] = changes[i] /\ WasStored(changes[i].value, storage) /\ changes[i].value.settings \in Nat
      BY <2>2, <1>1, <1>3, <1>7 DEF ChangesInOrder
    <3>2. CASE what = "settings"
      <4>1. changes[i].value.settings < storage'.settings
        BY <3>1, <3>2, <1>6 DEF WasStored
      <4> QED
        BY <3>1, <4>1, <1>6 DEF WasStored
    <3>3. CASE what = "prices"
      BY <3>1, <3>3 DEF WasStored
    <3> QED
      BY <3>2, <3>3
  <2> QED
    BY <2>1, <2>2, <1>4
<1>10. ASSUME NEW i \in DOMAIN changes', NEW j \in DOMAIN changes', i < j,
              changes'[i].what = "settings", changes'[j].what = "settings"
       PROVE  changes'[i].value.settings < changes'[j].value.settings
  <2>1. i \in DOMAIN changes /\ changes'[i] = changes[i]
    BY <1>10, <1>1, <1>3, <1>4
  <2>2. CASE j \in DOMAIN changes
    BY <2>1, <2>2, <1>1, <1>3, <1>10 DEF ChangesInOrder
  <2>3. CASE j = n + 1
    <3>1. what = "settings" /\ changes'[j].value = storage'
      BY <2>3, <1>3, <1>10
    <3>2. changes[i].value.settings <= storage.settings /\ changes[i].value.settings \in Nat
      BY <2>1, <1>7, <1>8
    <3> QED
      BY <3>1, <3>2, <2>1, <1>6
  <2> QED
    BY <2>2, <2>3, <1>4
<1>11. OnTheirWay' = (panelRevision + 1)..storage'.settings
  <2>1. \A v : v \in OnTheirWay' <=> \E i \in DOMAIN changes' : changes'[i].what = "settings" /\ v = changes'[i].value.settings
    BY DEF OnTheirWay
  <2>2. \A v : v \in OnTheirWay <=> \E i \in DOMAIN changes : changes[i].what = "settings" /\ v = changes[i].value.settings
    BY DEF OnTheirWay
  <2>3. OnTheirWay = (panelRevision + 1)..storage.settings /\ panelRevision <= storage.settings
    BY DEF ChangesInOrder
  <2>4. OnTheirWay \subseteq OnTheirWay'
    BY <2>1, <2>2, <1>1, <1>3, <1>5
  <2>5. \A v \in OnTheirWay' : v \in OnTheirWay \/ (what = "settings" /\ v = storage'.settings)
    <3> SUFFICES ASSUME NEW i \in DOMAIN changes', changes'[i].what = "settings"
                 PROVE  changes'[i].value.settings \in OnTheirWay
                        \/ (what = "settings" /\ changes'[i].value.settings = storage'.settings)
      BY <2>1
    <3> QED
      BY <2>2, <1>1, <1>3, <1>4
  <2>6. what = "settings" => storage'.settings \in OnTheirWay'
    BY <2>1, <1>3, <1>4
  <2>7. CASE what = "prices"
    BY <2>3, <2>4, <2>5, <2>7
  <2>8. CASE what = "settings"
    <3>1. (panelRevision + 1)..storage'.settings = ((panelRevision + 1)..storage.settings) \cup {storage'.settings}
      BY <2>3, <2>8, <1>6
    <3> QED
      BY <3>1, <2>3, <2>4, <2>5, <2>6, <2>8
  <2> QED
    BY <2>7, <2>8
<1>12. panelRevision <= storage'.settings
  BY <1>6 DEF ChangesInOrder
<1> QED
  BY <1>3, <1>9, <1>10, <1>11, <1>12 DEF ChangesInOrder

(***************************************************************************)
(* What is painted.                                                        *)
(***************************************************************************)
CardShape(c) == c = [key |-> c.key, line |-> c.line, panel |-> c.panel]

LEMMA SyncPaints ==
  ASSUME NEW answered, NEW old, CardShape(old), NEW useIt \in BOOLEAN, NEW currentPrices, NEW currentEngine
  PROVE  LET new == SyncedWith(answered, old, useIt, currentPrices, currentEngine) IN
         /\ CardShape(new)
         /\ new = old \/ \A p \in new.panel : useIt /\ PaintedWith(p, currentPrices, currentEngine)
<1> DEFINE new == SyncedWith(answered, old, useIt, currentPrices, currentEngine)
<1>1. CASE page.card = Nowhere \/ old.key = {Detail(answered)}
  BY <1>1 DEF SyncedWith
<1>2. CASE ~(page.card = Nowhere \/ old.key = {Detail(answered)})
  <2> DEFINE l == Detail(answered)
  <2>1. new = [key |-> {l}, line |-> {l.of}, panel |-> PanelOf(l.of, useIt, currentPrices, currentEngine)]
    BY <1>2 DEF SyncedWith
  <2>2. \A p \in PanelOf(l.of, useIt, currentPrices, currentEngine) :
          useIt /\ PaintedWith(p, currentPrices, currentEngine)
    BY DEF PanelOf, PaintedWith
  <2> HIDE DEF l
  <2>3. CardShape(new) /\ new.panel = PanelOf(l.of, useIt, currentPrices, currentEngine)
    BY <2>1 DEF CardShape
  <2> QED
    BY <2>2, <2>3
<1> QED
  BY <1>1, <1>2

LEMMA RepaintPaints ==
  ASSUME CardShape(card), NEW useIt \in BOOLEAN, NEW currentPrices, NEW currentEngine
  PROVE  LET new == Repainted(useIt, currentPrices, currentEngine) IN
         CardShape(new) /\ \A p \in new.panel : useIt /\ PaintedWith(p, currentPrices, currentEngine)
<1> DEFINE bare == [card EXCEPT !.panel = {}]
           new == Repainted(useIt, currentPrices, currentEngine)
<1>1. CardShape(bare) /\ bare.panel = {}
  BY DEF CardShape
<1>2. CASE ~useIt
  BY <1>1, <1>2 DEF Repainted
<1>3. CASE useIt
  <2> DEFINE blank == [bare EXCEPT !.key = {}]
  <2>0. Repainted(TRUE, currentPrices, currentEngine) = SyncedWith(popupItem, blank, TRUE, currentPrices, currentEngine)
    BY DEF Repainted, Synced
  <2> HIDE DEF bare
  <2>1. CardShape(blank) /\ blank.panel = {}
    BY <1>1 DEF CardShape
  <2>2. new = SyncedWith(popupItem, blank, TRUE, currentPrices, currentEngine)
    BY <1>3, <2>0
  <2> HIDE DEF blank, new
  <2>3. CardShape(new) /\ (new = blank \/ \A p \in new.panel : PaintedWith(p, currentPrices, currentEngine))
    BY <2>1, <2>2, SyncPaints
  <2> QED
    BY <2>1, <2>3, <1>3 DEF new
<1> QED
  BY <1>2, <1>3

LEMMA FloatBegins == CSFloatInit => FloatInductive
<1> SUFFICES ASSUME CSFloatInit PROVE FloatInductive
  OBVIOUS
<1>0. /\ storage \in Stored /\ storage.settings = 0 /\ storage.prices = 1
      /\ asked = <<[what |-> "engine", asOf |-> 0]>> /\ readings = <<>> /\ changes = <<>>
      /\ priceEngine = [settings |-> 0, failed |-> FALSE]
      /\ show = FALSE /\ ready = FALSE /\ panelRevision = 0 /\ booting = "engine"
      /\ card = Bare
  BY DEF CSFloatInit
<1>1. FloatShapes
  <2>1. storage \in FloatStored
    BY <1>0 DEF Stored, FloatStored
  <2>2. [what |-> "engine", asOf |-> 0] \in FloatReads
    BY DEF FloatReads
  <2>3. asked \in Seq(FloatReads) /\ readings \in Seq(FloatReadings) /\ changes \in Seq(FloatChanges)
    BY <1>0, <2>2
  <2>4. CardShape(card)
    BY <1>0 DEF Bare, CardShape
  <2> QED
    BY <1>0, <2>1, <2>3, <2>4 DEF FloatShapes, CardShape
<1>2. ReadsInOrder
  <2> DEFINE q == QueueOf(readings, asked)
  <2>1. Len(readings) = 0 /\ Len(asked) = 1
    BY <1>0
  <2>2. q = [i \in 1..1 |-> asked[i]]
    <3>1. 1..(Len(readings) + Len(asked)) = 1..1
      BY <2>1
    <3>2. \A i \in 1..1 : ~(i <= Len(readings)) /\ i - Len(readings) = i
      BY <2>1
    <3> QED
      BY <3>1, <3>2 DEF QueueOf
  <2>3. DOMAIN q = {1} /\ q[1] = [what |-> "engine", asOf |-> 0]
    BY <2>2, <1>0
  <2> HIDE DEF q
  <2>4. QueueInOrder(q, ready)
    BY <2>3 DEF QueueInOrder
  <2>5. WaitedFor(q, booting, panelRevision)
    BY <2>3, <1>0 DEF WaitedFor, Reload
  <2> QED
    BY <2>4, <2>5, <1>0 DEF ReadsInOrder, QueueHolds, q
<1>3. EngineFollows /\ ReadingsWereStored
  BY <1>0 DEF EngineFollows, ReadingsWereStored
<1>4. ChangesInOrder
  <2>1. DOMAIN changes = {}
    BY <1>0
  <2>2. OnTheirWay = {}
    BY <2>1 DEF OnTheirWay
  <2>3. (panelRevision + 1)..storage.settings = {} /\ panelRevision <= storage.settings
    BY <1>0
  <2> QED
    BY <2>1, <2>2, <2>3 DEF ChangesInOrder
<1>5. ShowIsWanted /\ PanelIsPainted
  BY <1>0 DEF ShowIsWanted, PanelIsPainted, Bare
<1> QED
  BY <1>1, <1>2, <1>3, <1>4, <1>5 DEF FloatInductive

\* The site and the second's tick change the card alone.
LEMMA CardIsSynced ==
  ASSUME FloatInductive, NEW answered, card' = SyncedWith(answered, card, ready /\ show, prices, priceEngine),
         UNCHANGED <<storage, asked, readings, changes, scriptVars>>
  PROVE  FloatInductive'
<1> DEFINE u == ready /\ show
<1>1. CardShape(card) /\ u \in BOOLEAN
  BY DEF FloatInductive, FloatShapes, CardShape
<1>2. /\ CardShape(card')
      /\ card' = card \/ \A p \in card'.panel : u /\ PaintedWith(p, prices, priceEngine)
  <2> HIDE DEF u
  <2>1. card' = SyncedWith(answered, card, u, prices, priceEngine)
    BY DEF u
  <2> QED
    BY <1>1, <2>1, SyncPaints
<1>3. FloatShapes'
  BY <1>2 DEF FloatInductive, FloatShapes, CardShape, scriptVars, panelVars
<1>4. PanelIsPainted'
  BY <1>2 DEF FloatInductive, PanelIsPainted, scriptVars, panelVars, PaintedWith
<1>5. (ReadsInOrder /\ EngineFollows /\ ReadingsWereStored /\ ChangesInOrder /\ ShowIsWanted)'
  BY DEF FloatInductive, ReadsInOrder, EngineFollows, ReadingsWereStored, ChangesInOrder, OnTheirWay,
         ShowIsWanted, scriptVars, panelVars
<1> QED
  BY <1>3, <1>4, <1>5 DEF FloatInductive

\* Nothing of the script's changes with the site's page.
LEMMA SiteIsSafe ==
  ASSUME FloatInductive, UNCHANGED <<storage, asked, readings, changes, scriptVars, card>>
  PROVE  FloatInductive'
BY DEF FloatInductive, FloatShapes, ReadsInOrder, EngineFollows, ReadingsWereStored, ChangesInOrder,
       OnTheirWay, ShowIsWanted, PanelIsPainted, PaintedWith, scriptVars, panelVars

LEMMA WritingIsSafe ==
  ASSUME FloatInductive, SettingsWritten \/ PricesWritten
  PROVE  FloatInductive'
<1>0. UNCHANGED <<asked, readings, scriptVars, siteVars, card>>
  BY DEF SettingsWritten, PricesWritten
<1>1. storage = [show |-> storage.show, settings |-> storage.settings, prices |-> storage.prices]
      /\ storage.show \in BOOLEAN /\ storage.settings \in Nat /\ storage.prices \in Nat
  BY DEF FloatInductive, FloatShapes, FloatStored
<1>2. /\ storage' \in FloatStored /\ storage.settings <= storage'.settings
      /\ storage'.settings = storage.settings => storage'.show = storage.show
      /\ changes' \in Seq(FloatChanges) /\ ChangesInOrder'
  <2>1. CASE SettingsWritten
    <3>1. PICK on \in BOOLEAN : storage' = [storage EXCEPT !.show = on, !.settings = @ + 1]
      BY <2>1 DEF SettingsWritten
    <3>2. storage' = [show |-> on, settings |-> storage.settings + 1, prices |-> storage.prices]
      BY <1>1, <3>1
    <3>3. storage' \in FloatStored /\ storage'.settings = storage.settings + 1
      BY <1>1, <3>2 DEF FloatStored
    <3>4. changes' = Append(changes, [what |-> "settings", value |-> storage'])
      BY <2>1 DEF SettingsWritten
    <3>5. changes' \in Seq(FloatChanges) /\ ChangesInOrder'
      BY <3>3, <3>4, <1>0, ChangeIsAnnounced DEF FloatInductive, scriptVars, panelVars
    <3> QED
      BY <1>1, <3>3, <3>5
  <2>2. CASE PricesWritten
    <3>1. storage' = [storage EXCEPT !.prices = @ + 1]
      BY <2>2 DEF PricesWritten
    <3>2. storage' = [show |-> storage.show, settings |-> storage.settings, prices |-> storage.prices + 1]
      BY <1>1, <3>1
    <3>3. storage' \in FloatStored /\ storage'.settings = storage.settings /\ storage'.show = storage.show
      BY <1>1, <3>2 DEF FloatStored
    <3>4. changes' = Append(changes, [what |-> "prices", value |-> storage'])
      BY <2>2 DEF PricesWritten
    <3>5. changes' \in Seq(FloatChanges) /\ ChangesInOrder'
      BY <3>3, <3>4, <1>0, ChangeIsAnnounced DEF FloatInductive, scriptVars, panelVars
    <3> QED
      BY <1>1, <3>3, <3>5
  <2> QED
    BY <2>1, <2>2
<1>3. FloatShapes'
  BY <1>0, <1>2 DEF FloatInductive, FloatShapes, scriptVars, panelVars
<1>4. ReadingsWereStored'
  <2>1. \A i \in DOMAIN readings : readings[i].value \in FloatStored
    <3>1. readings \in Seq(FloatReadings)
      BY DEF FloatInductive, FloatShapes
    <3>2. \A i \in DOMAIN readings : readings[i] \in FloatReadings
      BY <3>1
    <3> QED
      BY <3>2 DEF FloatReadings
  <2>2. \A value \in FloatStored : WasStored(value, storage) => WasStored(value, storage')
    <3> SUFFICES ASSUME NEW value \in FloatStored, WasStored(value, storage) PROVE WasStored(value, storage')
      OBVIOUS
    <3>1. value.settings \in Nat /\ storage'.settings \in Nat
      BY <1>2 DEF FloatStored
    <3>2. CASE storage'.settings = storage.settings
      BY <1>2, <3>2 DEF WasStored
    <3>3. CASE storage.settings < storage'.settings
      BY <1>1, <3>1, <3>3 DEF WasStored
    <3> QED
      BY <1>1, <1>2, <3>1, <3>2, <3>3
  <2> QED
    BY <2>1, <2>2, <1>0 DEF FloatInductive, ReadingsWereStored
<1>5. ShowIsWanted'
  <2>1. panelRevision \in Nat /\ panelRevision <= storage.settings /\ storage'.settings \in Nat
    BY <1>2 DEF FloatInductive, FloatShapes, ChangesInOrder, FloatStored
  <2>2. panelRevision = storage'.settings => storage'.settings = storage.settings
    BY <1>1, <1>2, <2>1
  <2> QED
    BY <1>0, <1>2, <2>2 DEF FloatInductive, ShowIsWanted, scriptVars, panelVars
<1>6. (ReadsInOrder /\ EngineFollows /\ PanelIsPainted)'
  BY <1>0 DEF FloatInductive, ReadsInOrder, EngineFollows, PanelIsPainted, PaintedWith, scriptVars, panelVars
<1> QED
  BY <1>2, <1>3, <1>4, <1>5, <1>6 DEF FloatInductive

LEMMA AnsweringReadsIsSafe ==
  ASSUME FloatInductive, StorageAnswers
  PROVE  FloatInductive'
<1>0. UNCHANGED <<storage, changes, scriptVars, siteVars, card>> /\ asked # <<>> /\ asked' = Tail(asked)
  BY DEF StorageAnswers
<1>1. PICK ok \in BOOLEAN :
        readings' = Append(readings, [what |-> Head(asked).what, asOf |-> Head(asked).asOf,
                                      value |-> storage, ok |-> ok])
  BY DEF StorageAnswers
<1> DEFINE r == [what |-> Head(asked).what, asOf |-> Head(asked).asOf, value |-> storage, ok |-> ok]
           q == QueueOf(readings, asked)
           n == Len(readings)
<1>2. asked \in Seq(FloatReads) /\ readings \in Seq(FloatReadings) /\ storage \in FloatStored /\ n \in Nat
  BY DEF FloatInductive, FloatShapes
<1>3. Head(asked) \in FloatReads /\ Head(asked) = asked[1] /\ Tail(asked) \in Seq(FloatReads) /\ Len(asked) \in Nat /\ Len(asked) > 0
  BY <1>0, <1>2
<1>4. r \in FloatReadings /\ ReadOf(r) = Head(asked) /\ r.value = storage /\ Reload(r) = Reload(Head(asked)) /\ r.asOf = Head(asked).asOf
  BY <1>2, <1>3 DEF FloatReads, FloatReadings, ReadOf, Reload
<1> HIDE DEF r
<1>5. /\ readings' = Append(readings, r) /\ readings' \in Seq(FloatReadings)
      /\ DOMAIN readings' = 1..(n + 1) /\ DOMAIN readings = 1..n
      /\ \A i \in 1..n : readings'[i] = readings[i]
      /\ readings'[n + 1] = r
  <2>1. readings' = Append(readings, r)
    BY <1>1 DEF r
  <2> QED
    BY <2>1, <1>2, <1>4
<1>6. QueueOf(readings', asked') = q
  BY <1>0, <1>2, <1>4, <1>5, AnsweredKeepsItsPlace
<1>7. Reload(r) => r.asOf <= storage.settings
  <2>1. n + 1 \in 1..(n + Len(asked)) /\ ~(n + 1 <= n) /\ (n + 1) - n = 1
    BY <1>2, <1>3
  <2>2. n + 1 \in DOMAIN q /\ q[n + 1] = asked[1]
    BY <2>1 DEF QueueOf
  <2>3. Reload(asked[1]) => asked[1].asOf <= panelRevision
    BY <2>2 DEF FloatInductive, ReadsInOrder, QueueHolds, WaitedFor
  <2>4. panelRevision <= storage.settings /\ panelRevision \in Nat /\ storage.settings \in Nat /\ asked[1].asOf \in Nat
    BY <1>2, <1>3 DEF FloatInductive, ChangesInOrder, FloatShapes, FloatStored, FloatReads
  <2> QED
    BY <2>3, <2>4, <1>3, <1>4
<1>8. ReadingsWereStored'
  <2>1. \A i \in 1..(n + 1) : i \in 1..n \/ i = n + 1
    BY <1>2
  <2>2. \A i \in 1..n : /\ WasStored(readings[i].value, storage)
                        /\ Reload(readings[i]) => readings[i].asOf <= readings[i].value.settings
    BY <1>5 DEF FloatInductive, ReadingsWereStored
  <2>3. WasStored(r.value, storage) /\ (Reload(r) => r.asOf <= r.value.settings)
    <3>1. storage.settings \in Nat
      BY <1>2 DEF FloatStored
    <3> QED
      BY <3>1, <1>4, <1>7 DEF WasStored
  <2> HIDE DEF n
  <2> QED
    BY <2>1, <2>2, <2>3, <1>0, <1>5 DEF ReadingsWereStored
<1>9. FloatShapes'
  BY <1>0, <1>3, <1>5 DEF FloatInductive, FloatShapes, scriptVars, panelVars
<1>10. (ReadsInOrder /\ EngineFollows)'
  BY <1>0, <1>6 DEF FloatInductive, ReadsInOrder, EngineFollows, scriptVars, panelVars
<1>11. (ChangesInOrder /\ ShowIsWanted /\ PanelIsPainted)'
  BY <1>0 DEF FloatInductive, ChangesInOrder, OnTheirWay, ShowIsWanted, PanelIsPainted, PaintedWith, scriptVars, panelVars
<1> QED
  BY <1>8, <1>9, <1>10, <1>11 DEF FloatInductive

\* A change of the settings: the panel goes, and a reload joins the end of the queue.
LEMMA SettingsHeardIsSafe ==
  ASSUME FloatInductive, SettingsHeard
  PROVE  FloatInductive'
<1> DEFINE request == [what |-> "engine", asOf |-> panelRevision + 1]
           q == QueueOf(readings, asked)
           n == Len(readings) + Len(asked)
<1>0. /\ changes # <<>> /\ Head(changes).what = "settings" /\ changes' = Tail(changes)
      /\ panelRevision' = panelRevision + 1 /\ show' = Head(changes).value.show /\ ready' = FALSE
      /\ card' = Repainted(FALSE, prices, priceEngine)
      /\ asked' = Append(asked, request)
      /\ UNCHANGED <<storage, readings, priceEngine, prices, booting, overtaken>>
  BY DEF SettingsHeard, Announced
<1>1. FloatShapes /\ ChangesInOrder /\ panelRevision \in Nat /\ storage.settings \in Nat
  BY DEF FloatInductive, FloatShapes, FloatStored
<1>2. /\ changes' \in Seq(FloatChanges)
      /\ Head(changes) \in FloatChanges /\ WasStored(Head(changes).value, storage)
      /\ \A i, j \in DOMAIN changes' :
           i < j /\ changes'[i].what = "settings" /\ changes'[j].what = "settings"
             => changes'[i].value.settings < changes'[j].value.settings
      /\ \A i \in DOMAIN changes' : WasStored(changes'[i].value, storage')
      /\ Head(changes).value.settings = panelRevision + 1
      /\ OnTheirWay' = (panelRevision + 2)..storage.settings
  BY <1>0, <1>1, HeadIsHeard
<1>3. panelRevision' \in Nat /\ panelRevision' <= storage'.settings /\ panelRevision' + 1 = panelRevision + 2
  BY <1>0, <1>1, <1>2 DEF WasStored
<1>4. CardShape(card') /\ card'.panel = {}
  <2>1. CardShape(card)
    BY <1>1 DEF FloatShapes, CardShape
  <2> QED
    BY <1>0, <2>1, RepaintPaints
<1>5. request \in FloatReads
  BY <1>1 DEF FloatReads
<1>6. FloatShapes'
  <2>1. asked' \in Seq(FloatReads)
    BY <1>0, <1>1, <1>5 DEF FloatShapes
  <2>2. show' \in BOOLEAN
    BY <1>0, <1>2 DEF FloatChanges, FloatStored
  <2> QED
    BY <1>0, <1>1, <1>2, <1>3, <1>4, <2>1, <2>2 DEF FloatShapes, CardShape
<1>7. ChangesInOrder'
  BY <1>0, <1>2, <1>3 DEF ChangesInOrder
<1>8. ShowIsWanted'
  BY <1>0, <1>2 DEF ShowIsWanted, WasStored
<1>9. PanelIsPainted'
  BY <1>4 DEF PanelIsPainted
<1>10. ReadingsWereStored'
  BY <1>0 DEF FloatInductive, ReadingsWereStored
<1>11. ReadsInOrder' /\ EngineFollows'
  <2> DEFINE t == QueueOf(readings', asked')
  <2>1. IsAppended(t, q, n, request)
    BY <1>0, <1>1, <1>5, QueueGrows DEF FloatShapes
  <2>2. QueueHolds(q, ready, booting, panelRevision)
    BY DEF FloatInductive, ReadsInOrder
  <2>3. Reload(request) /\ request.asOf = panelRevision + 1
    BY DEF Reload
  <2>4. \A i \in DOMAIN q : q[i].asOf \in Nat
    BY <2>1 DEF IsAppended, FloatReads
  <2>0. ready' \in BOOLEAN
    BY <1>0
  <2> HIDE DEF request, q, t, n
  <2>5. QueueInOrder(q, ready')
    BY <1>0, <2>2 DEF QueueHolds, QueueInOrder, MayPrecede
  <2>6. \A i \in DOMAIN q : Reload(q[i]) => q[i].asOf <= panelRevision
    BY <2>2 DEF QueueHolds, WaitedFor
  <2>7. \A i \in DOMAIN q : Reload(q[i]) => q[i].asOf < request.asOf
    BY <2>3, <2>4, <2>6, <1>1
  <2>8. \A i \in DOMAIN q : MayPrecede(ready', q[i], request)
    BY <1>0, <2>3, <2>7 DEF MayPrecede
  <2>9. /\ QueueInOrder(t, ready')
        /\ \A i \in DOMAIN t : t[i] = request \/ \E j \in DOMAIN q : t[i] = q[j]
        /\ \E i \in DOMAIN t : t[i] = request
    BY <2>0, <2>1, <2>5, <2>8, <1>5, GrownHolds
  <2>10. WaitedFor(t, booting, panelRevision + 1)
    <3>1. \A j \in DOMAIN q : /\ ~Reload(q[j]) \/ q[j].asOf = 0 => booting = q[j].what
                              /\ Reload(q[j]) => q[j].asOf <= panelRevision + 1
      BY <2>2, <2>4, <2>6, <1>1 DEF QueueHolds, WaitedFor
    <3>2. request.asOf # 0 /\ request.asOf <= panelRevision + 1
      BY <2>3, <1>1
    <3> QED
      BY <3>1, <3>2, <2>3, <2>9 DEF WaitedFor
  <2>11. ~NoReload(t)
    BY <2>3, <2>9 DEF NoReload
  <2> QED
    BY <1>0, <2>9, <2>10, <2>11 DEF ReadsInOrder, EngineFollows, QueueHolds, t
<1> QED
  BY <1>6, <1>7, <1>8, <1>9, <1>10, <1>11 DEF FloatInductive

\* A change of the prices.
LEMMA PricesHeardIsSafe ==
  ASSUME FloatInductive, PricesHeard
  PROVE  FloatInductive'
<1> DEFINE u == ready /\ show
<1>0. /\ changes # <<>> /\ Head(changes).what = "prices" /\ changes' = Tail(changes)
      /\ card' = Repainted(u, prices', priceEngine)
      /\ UNCHANGED <<storage, readings, asked, priceEngine, panelVars, booting, overtaken>>
  BY DEF PricesHeard, Announced
<1>1. FloatShapes /\ ChangesInOrder /\ u \in BOOLEAN
  BY DEF FloatInductive, FloatShapes
<1>2. /\ changes' \in Seq(FloatChanges)
      /\ \A i, j \in DOMAIN changes' :
           i < j /\ changes'[i].what = "settings" /\ changes'[j].what = "settings"
             => changes'[i].value.settings < changes'[j].value.settings
      /\ \A i \in DOMAIN changes' : WasStored(changes'[i].value, storage')
      /\ OnTheirWay' = OnTheirWay
  BY <1>0, <1>1, HeadIsHeard
<1>3. CardShape(card') /\ \A p \in card'.panel : u /\ PaintedWith(p, prices', priceEngine)
  <2>1. CardShape(card)
    BY <1>1 DEF FloatShapes, CardShape
  <2> HIDE DEF u
  <2> QED
    BY <1>0, <1>1, <2>1, RepaintPaints
<1>4. FloatShapes'
  BY <1>0, <1>1, <1>2, <1>3 DEF FloatShapes, CardShape, panelVars
<1>5. ChangesInOrder'
  BY <1>0, <1>1, <1>2 DEF ChangesInOrder, panelVars
<1>6. PanelIsPainted'
  BY <1>0, <1>3 DEF PanelIsPainted, PaintedWith, panelVars
<1>7. (ReadsInOrder /\ EngineFollows /\ ReadingsWereStored /\ ShowIsWanted)'
  BY <1>0 DEF FloatInductive, ReadsInOrder, EngineFollows, ReadingsWereStored, ShowIsWanted, panelVars
<1> QED
  BY <1>4, <1>5, <1>6, <1>7 DEF FloatInductive

\* A reply is taken from the readings and from the queue.
LEMMA ReplyIsTaken ==
  ASSUME FloatInductive, readings # <<>>, readings' = Tail(readings), UNCHANGED storage
  PROVE  LET q == QueueOf(readings, asked)
             t == QueueOf(readings', asked)
             n == Len(readings) + Len(asked)
         IN /\ readings' \in Seq(FloatReadings) /\ Head(readings) \in FloatReadings
            /\ ReadingsWereStored'
            /\ WasStored(Head(readings).value, storage)
            /\ Reload(Head(readings)) => Head(readings).asOf <= Head(readings).value.settings
            /\ IsTail(t, q, n) /\ q[1].what = Head(readings).what /\ q[1].asOf = Head(readings).asOf
            /\ QueueHolds(q, ready, booting, panelRevision)
<1>1. readings \in Seq(FloatReadings) /\ asked \in Seq(FloatReads)
  BY DEF FloatInductive, FloatShapes
<1>2. /\ readings' \in Seq(FloatReadings) /\ Head(readings) \in FloatReadings
      /\ Head(readings) = readings[1] /\ 1 \in DOMAIN readings
      /\ DOMAIN readings' = 1..(Len(readings) - 1) /\ DOMAIN readings = 1..Len(readings) /\ Len(readings) \in Nat
      /\ \A i \in 1..(Len(readings) - 1) : readings'[i] = readings[i + 1]
  BY <1>1
<1>3. \A i \in DOMAIN readings' : i + 1 \in DOMAIN readings /\ readings'[i] = readings[i + 1]
  BY <1>2
<1>4. ReadingsWereStored'
  BY <1>3 DEF FloatInductive, ReadingsWereStored
<1>5. /\ WasStored(Head(readings).value, storage)
      /\ Reload(Head(readings)) => Head(readings).asOf <= Head(readings).value.settings
  BY <1>2 DEF FloatInductive, ReadingsWereStored
<1>6. /\ IsTail(QueueOf(readings', asked), QueueOf(readings, asked), Len(readings) + Len(asked))
      /\ QueueOf(readings, asked)[1] = ReadOf(Head(readings))
  BY <1>1, QueueTaken
<1>7. ReadOf(Head(readings)).what = Head(readings).what /\ ReadOf(Head(readings)).asOf = Head(readings).asOf
  BY DEF ReadOf
<1>8. QueueHolds(QueueOf(readings, asked), ready, booting, panelRevision)
  BY DEF FloatInductive, ReadsInOrder
<1> QED
  BY <1>2, <1>4, <1>5, <1>6, <1>7, <1>8

LEMMA EngineStaysShaped ==
  ASSUME FloatShapes, NEW found \in FloatReadings
  PROVE  /\ EngineWith(found) \in [settings : Nat, failed : BOOLEAN]
         /\ EngineWith(found).failed \/ EngineWith(found).settings = found.value.settings
<1>1. priceEngine = [settings |-> priceEngine.settings, failed |-> priceEngine.failed]
      /\ priceEngine.settings \in Nat
  BY DEF FloatShapes
<1>2. found.value.settings \in Nat
  BY DEF FloatReadings, FloatStored
<1>3. CASE found.ok
  BY <1>2, <1>3 DEF EngineWith
<1>4. CASE ~found.ok
  <2>1. EngineWith(found) = [settings |-> priceEngine.settings, failed |-> TRUE]
    BY <1>1, <1>4 DEF EngineWith
  <2> QED
    BY <1>1, <2>1
<1> QED
  BY <1>3, <1>4

\* A reload ends: the panel is painted anew if it is the last one's.
LEMMA ReloadingIsSafe ==
  ASSUME FloatInductive, EngineReloaded
  PROVE  FloatInductive'
<1> DEFINE q == QueueOf(readings, asked)
           t == QueueOf(readings', asked)
           n == Len(readings) + Len(asked)
           found == Head(readings)
<1>0. /\ readings # <<>> /\ found.what = "engine" /\ readings' = Tail(readings)
      /\ found.asOf > 0 /\ priceEngine' = EngineWith(found)
      /\ IF found.asOf = panelRevision
         THEN ready' = TRUE /\ card' = Repainted(show, prices, priceEngine')
         ELSE UNCHANGED <<ready, card>>
      /\ UNCHANGED <<storage, changes, asked, show, panelRevision, prices, booting, overtaken>>
  BY DEF EngineReloaded, Replied, LatestRevision
<1>1. FloatShapes /\ show \in BOOLEAN /\ ready \in BOOLEAN /\ panelRevision \in Nat
  BY DEF FloatInductive, FloatShapes
<1>2. /\ readings' \in Seq(FloatReadings) /\ found \in FloatReadings /\ ReadingsWereStored'
      /\ Reload(found) => found.asOf <= found.value.settings
      /\ IsTail(t, q, n) /\ q[1].what = found.what /\ q[1].asOf = found.asOf
      /\ QueueHolds(q, ready, booting, panelRevision)
  BY <1>0, ReplyIsTaken
<1>3. priceEngine' \in [settings : Nat, failed : BOOLEAN]
      /\ (priceEngine'.failed \/ priceEngine'.settings = found.value.settings)
  BY <1>0, <1>1, <1>2, EngineStaysShaped
<1>4. Reload(q[1]) /\ Reload(found)
  BY <1>0, <1>2 DEF Reload
<1>5. /\ QueueInOrder(t, ready) /\ WaitedFor(t, booting, panelRevision)
      /\ NoReload(t) => q[1].asOf = panelRevision
      /\ q[1].asOf = panelRevision => NoReload(t)
  BY <1>1, <1>2, <1>4, RestHolds
<1>6. 1 \in DOMAIN q
  BY <1>2 DEF IsTail
<1>7. ~(ready /\ booting = "done")
  BY <1>2, <1>4, <1>6 DEF QueueHolds, NoReload
<1>8. ReadsInOrder' /\ EngineFollows'
  <2>1. QueueOf(readings', asked') = t
    BY <1>0
  <2> HIDE DEF q, t
  <2>2. CASE found.asOf = panelRevision
    <3>1. NoReload(t)
      BY <2>2, <1>2, <1>5
    <3>2. QueueInOrder(t, TRUE)
      BY <3>1, <1>5 DEF QueueInOrder, MayPrecede, NoReload
    <3>3. priceEngine'.settings >= panelRevision \/ priceEngine'.failed
      BY <2>2, <1>1, <1>2, <1>3, <1>4
    <3> QED
      BY <1>0, <1>5, <2>1, <2>2, <3>1, <3>2, <3>3 DEF ReadsInOrder, EngineFollows, QueueHolds
  <2>3. CASE found.asOf # panelRevision
    <3>1. ~NoReload(t)
      BY <2>3, <1>2, <1>5
    <3> QED
      BY <1>0, <1>5, <1>7, <2>1, <2>3, <3>1 DEF ReadsInOrder, EngineFollows, QueueHolds
  <2> QED
    BY <2>2, <2>3
<1>9. CardShape(card') /\ PanelIsPainted'
  <2>1. CardShape(card)
    BY <1>1 DEF FloatShapes, CardShape
  <2>2. CASE found.asOf = panelRevision
    <3>1. card' = Repainted(show, prices, priceEngine')
      BY <1>0, <2>2
    <3>2. CardShape(card') /\ \A p \in card'.panel : show /\ PaintedWith(p, prices, priceEngine')
      BY <1>1, <2>1, <3>1, RepaintPaints
    <3> QED
      BY <1>0, <2>2, <3>2 DEF PanelIsPainted, PaintedWith
  <2>3. CASE found.asOf # panelRevision
    BY <1>0, <1>7, <2>1, <2>3 DEF FloatInductive, PanelIsPainted
  <2> QED
    BY <2>2, <2>3
<1>10. FloatShapes'
  <2>1. ready' \in BOOLEAN
    BY <1>0, <1>1
  <2> QED
    BY <1>0, <1>1, <1>2, <1>3, <1>9, <2>1 DEF FloatShapes, CardShape
<1>11. (ChangesInOrder /\ ShowIsWanted)'
  BY <1>0 DEF FloatInductive, ChangesInOrder, OnTheirWay, ShowIsWanted
<1> QED
  BY <1>2, <1>8, <1>9, <1>10, <1>11 DEF FloatInductive

\* initUI asks for the next thing.
LEMMA AskingIsSafe ==
  ASSUME FloatShapes, ReadsInOrder, readings # <<>>, readings' = Tail(readings),
         ~Reload(Head(readings)) \/ Head(readings).asOf = 0,
         IsTail(QueueOf(readings', asked), QueueOf(readings, asked), Len(readings) + Len(asked)),
         QueueOf(readings, asked)[1].what = Head(readings).what,
         QueueOf(readings, asked)[1].asOf = Head(readings).asOf,
         readings' \in Seq(FloatReadings),
         NEW what \in {"panel", "prices"}, asked' = Append(asked, [what |-> what, asOf |-> 0]),
         booting' = what, panelRevision' = panelRevision, ready' \in BOOLEAN
  PROVE  /\ asked' \in Seq(FloatReads) /\ ReadsInOrder' /\ booting = Head(readings).what
         /\ NoReload(QueueOf(readings', asked')) => NoReload(QueueOf(readings', asked))
<1> DEFINE request == [what |-> what, asOf |-> 0]
           q == QueueOf(readings, asked)
           t == QueueOf(readings', asked)
           w == QueueOf(readings', asked')
           n == Len(readings) + Len(asked)
           m == Len(readings') + Len(asked)
<1>1. request \in FloatReads /\ ~Reload(request) /\ request.asOf = 0 /\ request.what = what
  BY DEF FloatReads, Reload
<1>2. asked \in Seq(FloatReads) /\ ready \in BOOLEAN /\ panelRevision \in Nat /\ QueueHolds(q, ready, booting, panelRevision)
  BY DEF FloatShapes, ReadsInOrder
<1>3. IsAppended(w, t, m, request)
  BY <1>1, <1>2, QueueGrows
<1>4. ~Reload(q[1]) \/ q[1].asOf = 0
  BY DEF Reload
<1>5. asked' \in Seq(FloatReads)
  BY <1>1, <1>2
<1>6. booting = q[1].what /\ \A i \in DOMAIN t : Reload(t[i]) /\ t[i].asOf > 0
  BY <1>2, <1>4, WaitGoesOn
<1>7. QueueInOrder(t, ready) /\ WaitedFor(t, booting, panelRevision)
  BY <1>2, RestHolds
<1> HIDE DEF q, t, w, n, m, request
<1>8. QueueInOrder(t, ready')
  BY <1>6, <1>7 DEF QueueInOrder, MayPrecede, Reload
<1>9. \A i \in DOMAIN t : MayPrecede(ready', t[i], request)
  BY <1>1, <1>6 DEF MayPrecede, Reload
<1>10. /\ QueueInOrder(w, ready')
       /\ \A i \in DOMAIN w : w[i] = request \/ \E j \in DOMAIN t : w[i] = t[j]
       /\ \A i \in DOMAIN t : i \in DOMAIN w /\ w[i] = t[i]
  BY <1>1, <1>2, <1>3, <1>8, <1>9, GrownHolds
<1>11. NoReload(w) => NoReload(t)
  BY <1>10 DEF NoReload
<1>12. WaitedFor(w, what, panelRevision)
  <2>1. \A i \in DOMAIN t : Reload(t[i]) /\ t[i].asOf # 0 /\ t[i].asOf <= panelRevision
    BY <1>6, <1>7 DEF WaitedFor
  <2>2. NoReload(w) \/ \E i \in DOMAIN w : Reload(w[i]) /\ w[i].asOf = panelRevision
    <3>1. CASE NoReload(t)
      BY <3>1, <1>1, <1>10 DEF NoReload
    <3>2. CASE ~NoReload(t)
      BY <3>2, <1>7, <1>10 DEF WaitedFor
    <3> QED
      BY <3>1, <3>2
  <2> QED
    BY <1>1, <1>10, <2>1, <2>2 DEF WaitedFor
<1>13. ReadsInOrder'
  BY <1>10, <1>12 DEF ReadsInOrder, QueueHolds, w
<1> QED
  BY <1>5, <1>6, <1>11, <1>13 DEF q, t, w

\* The engine is there, initUI asks for the panel's settings.
LEMMA LoadingEngineIsSafe ==
  ASSUME FloatInductive, EngineLoaded
  PROVE  FloatInductive'
<1> DEFINE q == QueueOf(readings, asked)
           t == QueueOf(readings', asked)
           n == Len(readings) + Len(asked)
           found == Head(readings)
<1>0. /\ readings # <<>> /\ found.what = "engine" /\ readings' = Tail(readings) /\ found.asOf = 0
      /\ priceEngine' = EngineWith(found) /\ booting' = "panel"
      /\ asked' = Append(asked, [what |-> "panel", asOf |-> 0])
      /\ UNCHANGED <<storage, changes, panelVars, prices, overtaken, card>>
  BY DEF EngineLoaded, Replied, Asks
<1>1. FloatShapes /\ ReadsInOrder /\ ready \in BOOLEAN /\ panelRevision \in Nat
  BY DEF FloatInductive, FloatShapes
<1>2. /\ readings' \in Seq(FloatReadings) /\ found \in FloatReadings /\ ReadingsWereStored'
      /\ IsTail(t, q, n) /\ q[1].what = found.what /\ q[1].asOf = found.asOf
      /\ QueueHolds(q, ready, booting, panelRevision)
  BY <1>0, ReplyIsTaken
<1>3. /\ asked' \in Seq(FloatReads) /\ ReadsInOrder'
      /\ NoReload(QueueOf(readings', asked')) => NoReload(t)
  BY <1>0, <1>1, <1>2, AskingIsSafe DEF panelVars
<1>4. priceEngine' \in [settings : Nat, failed : BOOLEAN]
  BY <1>0, <1>1, <1>2, EngineStaysShaped
<1>5. NoReload(t) => panelRevision = 0
  <2>1. Reload(q[1])
    BY <1>0, <1>2 DEF Reload
  <2> QED
    BY <2>1, <1>0, <1>1, <1>2, RestHolds
<1>6. EngineFollows'
  BY <1>0, <1>3, <1>4, <1>5 DEF EngineFollows, panelVars
<1>7. FloatShapes'
  BY <1>0, <1>1, <1>2, <1>3, <1>4 DEF FloatShapes, panelVars
<1>8. (ChangesInOrder /\ ShowIsWanted /\ PanelIsPainted)'
  BY <1>0 DEF FloatInductive, ChangesInOrder, OnTheirWay, ShowIsWanted, PanelIsPainted, panelVars
<1> QED
  BY <1>2, <1>3, <1>6, <1>7, <1>8 DEF FloatInductive

\* The panel's settings are there, initUI asks for the prices.
LEMMA LoadingPanelIsSafe ==
  ASSUME FloatInductive, PanelSettingsLoaded
  PROVE  FloatInductive'
<1> DEFINE q == QueueOf(readings, asked)
           t == QueueOf(readings', asked)
           n == Len(readings) + Len(asked)
           found == Head(readings)
<1>0. /\ readings # <<>> /\ found.what = "panel" /\ readings' = Tail(readings)
      /\ show' = (found.ok /\ found.value.show) /\ ready' = TRUE
      /\ overtaken' = (panelRevision > 0 /\ found.value.settings < Heard)
      /\ booting' = "prices"
      /\ asked' = Append(asked, [what |-> "prices", asOf |-> 0])
      /\ UNCHANGED <<storage, changes, priceEngine, panelRevision, prices, card>>
  BY DEF PanelSettingsLoaded, Replied, Asks
<1>1. FloatShapes /\ ReadsInOrder /\ ChangesInOrder /\ ready \in BOOLEAN /\ panelRevision \in Nat /\ storage.settings \in Nat
  BY DEF FloatInductive, FloatShapes, FloatStored
<1>2. /\ readings' \in Seq(FloatReadings) /\ found \in FloatReadings /\ ReadingsWereStored'
      /\ WasStored(found.value, storage)
      /\ IsTail(t, q, n) /\ q[1].what = found.what /\ q[1].asOf = found.asOf
      /\ QueueHolds(q, ready, booting, panelRevision)
  BY <1>0, ReplyIsTaken
<1>3. /\ asked' \in Seq(FloatReads) /\ ReadsInOrder'
      /\ NoReload(QueueOf(readings', asked')) => NoReload(t)
  <2>1. ~Reload(found)
    BY <1>0 DEF Reload
  <2> QED
    BY <2>1, <1>0, <1>1, <1>2, AskingIsSafe
<1>4. EngineFollows'
  <2>1. NoReload(t) => NoReload(q)
    <3>1. q[1].what = "panel"
      BY <1>0, <1>2
    <3>2. \A i \in DOMAIN q : Reload(q[i]) => i - 1 \in DOMAIN t /\ t[i - 1] = q[i]
      <4> SUFFICES ASSUME NEW i \in DOMAIN q, Reload(q[i]) PROVE i - 1 \in DOMAIN t /\ t[i - 1] = q[i]
        OBVIOUS
      <4>1. i # 1
        BY <3>1 DEF Reload
      <4>2. n \in Nat /\ i \in 1..n /\ DOMAIN t = 1..(n - 1) /\ \A j \in 1..(n - 1) : t[j] = q[j + 1]
        BY <1>2 DEF IsTail
      <4> HIDE DEF q, t, n
      <4>3. i - 1 \in 1..(n - 1) /\ (i - 1) + 1 = i
        BY <4>1, <4>2
      <4> QED
        BY <4>2, <4>3
    <3> QED
      BY <3>2 DEF NoReload
  <2> QED
    BY <2>1, <1>0, <1>3 DEF FloatInductive, EngineFollows
<1>5. show' \in BOOLEAN /\ found.value.settings \in Nat
  BY <1>0, <1>2 DEF FloatReadings, FloatStored
<1>6. FloatShapes'
  BY <1>0, <1>1, <1>2, <1>3, <1>5 DEF FloatShapes
<1>7. ShowIsWanted'
  <2> SUFFICES ASSUME ~overtaken', show', panelRevision = storage.settings PROVE storage.show
    BY <1>0 DEF ShowIsWanted
  <2>1. found.value.show /\ ~(panelRevision > 0 /\ found.value.settings < panelRevision)
    BY <1>0, <1>1, HeardIsCounted
  <2>2. found.value.settings = storage.settings
    BY <2>1, <1>1, <1>2, <1>5 DEF WasStored
  <2> QED
    BY <2>1, <2>2, <1>2 DEF WasStored
<1>8. (ChangesInOrder /\ PanelIsPainted)'
  BY <1>0 DEF FloatInductive, ChangesInOrder, OnTheirWay, PanelIsPainted
<1> QED
  BY <1>2, <1>3, <1>4, <1>6, <1>7, <1>8 DEF FloatInductive

\* The prices are there: initUI is done, and paints.
LEMMA LoadingPricesIsSafe ==
  ASSUME FloatInductive, PricesLoaded
  PROVE  FloatInductive'
<1> DEFINE q == QueueOf(readings, asked)
           t == QueueOf(readings', asked)
           n == Len(readings) + Len(asked)
           found == Head(readings)
           u == ready /\ show
<1>0. /\ readings # <<>> /\ found.what = "prices" /\ readings' = Tail(readings)
      /\ booting' = "done" /\ card' = Repainted(u, prices', priceEngine)
      /\ UNCHANGED <<storage, changes, asked, priceEngine, panelVars, overtaken>>
  BY DEF PricesLoaded, Replied
<1>1. FloatShapes /\ ReadsInOrder /\ ready \in BOOLEAN /\ panelRevision \in Nat /\ u \in BOOLEAN
  BY DEF FloatInductive, FloatShapes
<1>2. /\ readings' \in Seq(FloatReadings) /\ found \in FloatReadings /\ ReadingsWereStored'
      /\ IsTail(t, q, n) /\ q[1].what = found.what /\ q[1].asOf = found.asOf
      /\ QueueHolds(q, ready, booting, panelRevision)
  BY <1>0, ReplyIsTaken
<1>3. ~Reload(q[1]) /\ q[1].what = "prices"
  BY <1>0, <1>2 DEF Reload
<1>4. /\ \A i \in DOMAIN t : Reload(t[i]) /\ t[i].asOf > 0
      /\ ready => NoReload(t)
  BY <1>1, <1>2, <1>3, WaitGoesOn
<1>5. QueueInOrder(t, ready) /\ WaitedFor(t, booting, panelRevision)
  BY <1>1, <1>2, RestHolds
<1>6. ReadsInOrder' /\ EngineFollows'
  <2>1. QueueOf(readings', asked') = t
    BY <1>0
  <2>2. NoReload(t) => NoReload(q)
    <3>1. \A i \in DOMAIN q : Reload(q[i]) => i - 1 \in DOMAIN t /\ t[i - 1] = q[i]
      <4> SUFFICES ASSUME NEW i \in DOMAIN q, Reload(q[i]) PROVE i - 1 \in DOMAIN t /\ t[i - 1] = q[i]
        OBVIOUS
      <4>1. i # 1
        BY <1>3
      <4>2. n \in Nat /\ i \in 1..n /\ DOMAIN t = 1..(n - 1) /\ \A j \in 1..(n - 1) : t[j] = q[j + 1]
        BY <1>2 DEF IsTail
      <4> HIDE DEF q, t, n
      <4>3. i - 1 \in 1..(n - 1) /\ (i - 1) + 1 = i
        BY <4>1, <4>2
      <4> QED
        BY <4>2, <4>3
    <3> QED
      BY <3>1 DEF NoReload
  <2>3. WaitedFor(t, "done", panelRevision)
    BY <1>4, <1>5 DEF WaitedFor
  <2> HIDE DEF q, t
  <2>4. ReadsInOrder'
    BY <1>0, <1>4, <1>5, <2>1, <2>3 DEF ReadsInOrder, QueueHolds, panelVars
  <2>5. EngineFollows'
    BY <1>0, <2>1, <2>2 DEF FloatInductive, EngineFollows, panelVars, q
  <2> QED
    BY <2>4, <2>5
<1>7. CardShape(card') /\ \A p \in card'.panel : u /\ PaintedWith(p, prices', priceEngine)
  <2>1. CardShape(card)
    BY <1>1 DEF FloatShapes, CardShape
  <2> HIDE DEF u
  <2> QED
    BY <1>0, <1>1, <2>1, RepaintPaints
<1>8. FloatShapes'
  BY <1>0, <1>1, <1>2, <1>7 DEF FloatShapes, CardShape, panelVars
<1>9. PanelIsPainted'
  BY <1>0, <1>7 DEF PanelIsPainted, PaintedWith, panelVars
<1>10. (ChangesInOrder /\ ShowIsWanted)'
  BY <1>0 DEF FloatInductive, ChangesInOrder, OnTheirWay, ShowIsWanted, panelVars
<1> QED
  BY <1>2, <1>6, <1>8, <1>9, <1>10 DEF FloatInductive

LEMMA FloatStep == FloatInductive /\ [CSFloatNext]_csfloatVars => FloatInductive'
<1> SUFFICES ASSUME FloatInductive, [CSFloatNext]_csfloatVars PROVE FloatInductive'
  OBVIOUS
<1>1. CASE UNCHANGED csfloatVars
  BY <1>1, SiteIsSafe DEF csfloatVars, scriptVars, panelVars
<1>2. CASE SyncTick
  BY <1>2, CardIsSynced DEF SyncTick, Synced
<1>3. CASE SettingsWritten \/ PricesWritten
  BY <1>3, WritingIsSafe
<1>4. CASE StorageAnswers
  BY <1>4, AnsweringReadsIsSafe
<1>5. CASE SettingsHeard
  BY <1>5, SettingsHeardIsSafe
<1>6. CASE PricesHeard
  BY <1>6, PricesHeardIsSafe
<1>7. CASE EngineReloaded
  BY <1>7, ReloadingIsSafe
<1>8. CASE EngineLoaded
  BY <1>8, LoadingEngineIsSafe
<1>9. CASE PanelSettingsLoaded
  BY <1>9, LoadingPanelIsSafe
<1>10. CASE PricesLoaded
  BY <1>10, LoadingPricesIsSafe
<1>11. ASSUME NEW l \in FloatListings, Visit(l) \/ CardShows(l) PROVE FloatInductive'
  BY <1>11, SiteIsSafe DEF Visit, CardShows
<1>12. ASSUME NEW l \in FloatListings, ListingAnswered(l) PROVE FloatInductive'
  BY <1>12, CardIsSynced DEF ListingAnswered
<1> QED
  BY <1>1, <1>2, <1>3, <1>4, <1>5, <1>6, <1>7, <1>8, <1>9, <1>10, <1>11, <1>12 DEF CSFloatNext

\* A panel on the page is of the last settings heard of and of the page's prices: for any listings
\* and any number of changes, in whatever order replies and announcements come.
THEOREM PanelStaysCurrent == CSFloatSpec => []PanelIsCurrent
<1>1. FloatInductive => PanelIsCurrent
  <2> SUFFICES ASSUME FloatInductive, booting = "done", NEW p \in card.panel
               PROVE  /\ show /\ (p.settings >= Heard \/ priceEngine.failed) /\ p.prices = prices
                      /\ Heard = storage.settings /\ ~overtaken => storage.show
    BY DEF PanelIsCurrent
  <2>1. ready /\ show /\ p.settings = priceEngine.settings /\ p.prices = prices
    BY DEF FloatInductive, PanelIsPainted, PaintedWith
  <2>2. Heard = panelRevision
    BY HeardIsCounted DEF FloatInductive
  <2>3. NoReload(QueueOf(readings, asked))
    BY <2>1 DEF FloatInductive, ReadsInOrder, QueueHolds
  <2>4. priceEngine.settings >= panelRevision \/ priceEngine.failed
    BY <2>3 DEF FloatInductive, EngineFollows
  <2> QED
    BY <2>1, <2>2, <2>4 DEF FloatInductive, ShowIsWanted
<1>2. QED
  BY <1>1, FloatBegins, FloatStep, PTL DEF CSFloatSpec

-----------------------------------------------------------------------------

(***************************************************************************)
(* SteamFees.  What the buyer pays grows by at least a unit with what the  *)
(* seller receives, and the estimate is at most three below what is right  *)
(* and two above it; so a few turns of the loop decide.                    *)
(***************************************************************************)
BuyerPays(r, w) == Split(r, w).buyerPays
SteamGets(r, w) == AtLeast((r * w.percent) \div 100, w.minimum)
PublisherGets(r, w) ==
  IF w.publisher > 0 THEN AtLeast((r * w.publisher) \div 100, 1) ELSE 0

LEMMA WholePart ==
  ASSUME NEW a \in Nat
  PROVE  a \div 100 \in Nat /\ 100 * (a \div 100) <= a /\ a < 100 * (a \div 100) + 100
OBVIOUS

LEMMA WholePartGrows ==
  ASSUME NEW a \in Nat, NEW b \in Nat, a <= b
  PROVE  a \div 100 <= b \div 100
OBVIOUS

LEMMA ShareGrows ==
  ASSUME NEW r \in Nat, NEW s \in Nat, NEW rate \in Nat, r <= s
  PROVE  r * rate \in Nat /\ s * rate \in Nat /\ r * rate <= s * rate
OBVIOUS

LEMMA Quotient ==
  ASSUME NEW a \in Nat, NEW d \in Nat, d > 0
  PROVE  a \div d \in Nat /\ d * (a \div d) <= a /\ a < d * (a \div d) + d
OBVIOUS

LEMMA AtLeastIs ==
  ASSUME NEW n \in Int, NEW least \in Int
  PROVE  AtLeast(n, least) \in {n, least} /\ AtLeast(n, least) >= n /\ AtLeast(n, least) >= least
BY DEF AtLeast

LEMMA AtLeastGrows ==
  ASSUME NEW n \in Int, NEW m \in Int, NEW least \in Int, n <= m
  PROVE  AtLeast(n, least) <= AtLeast(m, least)
BY DEF AtLeast

LEMMA Rates ==
  ASSUME NEW w \in Wallets
  PROVE  /\ w.percent \in Nat /\ w.percent <= 50 /\ w.publisher \in Nat /\ w.publisher <= 50
         /\ w.base \in Nat /\ w.minimum \in Nat
<1>1. HighestFee \in Nat /\ HighestRate \in Nat /\ HighestRate <= 50
  BY DEF HighestFee, HighestRate
<1> QED
  BY <1>1, FeeAssumption

LEMMA SplitIs ==
  ASSUME NEW w \in Wallets, NEW r \in Nat
  PROVE  /\ Split(r, w) = [received |-> r, buyerPays |-> BuyerPays(r, w)]
         /\ BuyerPays(r, w) = r + (SteamGets(r, w) + w.base) + PublisherGets(r, w)
         /\ SteamGets(r, w) \in Nat /\ PublisherGets(r, w) \in Nat
<1>1. AtLeast(r, 0) = r
  BY DEF AtLeast
<1>2. w.percent \in Nat /\ w.publisher \in Nat /\ w.base \in Nat /\ w.minimum \in Nat
  BY Rates
<1>3. r * w.percent \in Nat /\ r * w.publisher \in Nat
  BY <1>2, ShareGrows
<1>4. (r * w.percent) \div 100 \in Nat /\ (r * w.publisher) \div 100 \in Nat
  BY <1>3, WholePart
<1>5. SteamGets(r, w) \in Nat
  BY <1>2, <1>4, AtLeastIs DEF SteamGets
<1>6. PublisherGets(r, w) \in Nat
  BY <1>4, AtLeastIs DEF PublisherGets
<1>7. Split(r, w) = [received |-> r, buyerPays |-> r + (SteamGets(r, w) + w.base) + PublisherGets(r, w)]
  BY <1>1 DEF Split, SteamGets, PublisherGets
<1> QED
  BY <1>5, <1>6, <1>7 DEF BuyerPays

\* A unit more for the seller is a unit more for the buyer, or more.
LEMMA BuyersPayMore ==
  ASSUME NEW w \in Wallets, NEW r \in Nat, NEW s \in Nat, r <= s
  PROVE  BuyerPays(r, w) \in Nat /\ BuyerPays(r, w) + (s - r) <= BuyerPays(s, w)
<1>1. w.percent \in Nat /\ w.publisher \in Nat /\ w.base \in Nat /\ w.minimum \in Nat
  BY Rates
<1> DEFINE a == r * w.percent  b == s * w.percent  c == r * w.publisher  d == s * w.publisher
<1>2. a \in Nat /\ b \in Nat /\ a <= b /\ c \in Nat /\ d \in Nat /\ c <= d
  BY <1>1, ShareGrows
<1> HIDE DEF a, b, c, d
<1>3. /\ a \div 100 \in Nat /\ b \div 100 \in Nat /\ a \div 100 <= b \div 100
      /\ c \div 100 \in Nat /\ d \div 100 \in Nat /\ c \div 100 <= d \div 100
  BY <1>2, WholePart, WholePartGrows
<1>4. SteamGets(r, w) <= SteamGets(s, w)
  BY <1>1, <1>3, AtLeastGrows DEF SteamGets, a, b
<1>5. PublisherGets(r, w) <= PublisherGets(s, w)
  <2>1. CASE w.publisher > 0
    BY <1>3, <2>1, AtLeastGrows DEF PublisherGets, c, d
  <2>2. CASE ~(w.publisher > 0)
    BY <2>2 DEF PublisherGets
  <2> QED
    BY <2>1, <2>2
<1> QED
  BY <1>1, <1>4, <1>5, SplitIs

LEMMA EstimateIsClose ==
  ASSUME NEW w \in Wallets, w.minimum <= 2, NEW price \in Nat, BuyerPays(0, w) <= price
  PROVE  /\ Estimate(price, w) \in Nat
         /\ BuyerPays(Estimate(price, w), w) >= price - 3
         /\ BuyerPays(Estimate(price, w), w) <= price + 2
<1> DEFINE e == Estimate(price, w)
           d == 100 + w.percent + w.publisher
           a == price - w.base
           ps == e * w.percent
           qs == e * w.publisher
<1>1. /\ w.percent \in Nat /\ w.percent <= 50 /\ w.publisher \in Nat /\ w.publisher <= 50
      /\ w.base \in Nat /\ w.minimum \in Nat
  BY Rates
<1>2. d \in Nat /\ d >= 100 /\ d <= 200 /\ a \in Nat
  <2>1. w.base <= BuyerPays(0, w) /\ BuyerPays(0, w) \in Nat
    BY <1>1, SplitIs
  <2>2. a \in Nat
    BY <1>1, <2>1
  <2> QED
    BY <1>1, <2>2
<1>3. e \in Nat /\ d * e <= 100 * a /\ 100 * a < d * e + d
  <2>1. (a * 100) \div d \in Nat /\ d * ((a * 100) \div d) <= a * 100 /\ a * 100 < d * ((a * 100) \div d) + d
    <3>1. a * 100 \in Nat /\ d \in Nat /\ d > 0
      BY <1>2
    <3> HIDE DEF a, d
    <3> QED
      BY <3>1, Quotient
  <2>2. e = (a * 100) \div d
    BY <2>1 DEF Estimate, AtLeast
  <2> HIDE DEF e, a, d
  <2> QED
    BY <1>2, <2>1, <2>2
<1>4. d * e = 100 * e + ps + qs
  <2> HIDE DEF e
  <2> QED
    BY <1>1, <1>3
<1>5. ps \in Nat /\ qs \in Nat
  <2> HIDE DEF e
  <2> QED
    BY <1>1, <1>3, ShareGrows
<1> DEFINE x == ps \div 100  y == qs \div 100
<1>6. /\ x \in Nat /\ 100 * x <= ps /\ ps < 100 * x + 100
      /\ y \in Nat /\ 100 * y <= qs /\ qs < 100 * y + 100
  <2> HIDE DEF ps, qs
  <2> QED
    BY <1>5, WholePart
<1>7. BuyerPays(e, w) = e + (SteamGets(e, w) + w.base) + PublisherGets(e, w)
      /\ SteamGets(e, w) \in Nat /\ PublisherGets(e, w) \in Nat
  BY <1>3, SplitIs
<1>8. SteamGets(e, w) >= x /\ (SteamGets(e, w) = x \/ SteamGets(e, w) <= 2)
  BY <1>1, <1>6, AtLeastIs DEF SteamGets
<1>9. PublisherGets(e, w) >= y
  <2>1. CASE w.publisher > 0
    BY <1>6, <2>1, AtLeastIs DEF PublisherGets
  <2>2. CASE w.publisher = 0
    <3>1. qs = 0
      <4> HIDE DEF e
      <4> QED
        BY <1>3, <2>2
    <3>2. y = 0
      BY <1>6, <3>1
    <3> QED
      BY <1>7, <3>2
  <2> QED
    BY <1>1, <2>1, <2>2
<1>10. e > 0 => 100 * PublisherGets(e, w) < qs + 100
  <2> SUFFICES ASSUME e > 0 PROVE 100 * PublisherGets(e, w) < qs + 100
    OBVIOUS
  <2>1. CASE w.publisher > 0
    <3>1. qs > 0
      <4> HIDE DEF e
      <4> QED
        BY <1>1, <1>3, <2>1
    <3>2. PublisherGets(e, w) \in {y, 1}
      BY <1>6, <2>1, AtLeastIs DEF PublisherGets
    <3> HIDE DEF qs, y, e
    <3> QED
      BY <1>5, <1>6, <3>1, <3>2
  <2>2. CASE w.publisher = 0
    <3>1. PublisherGets(e, w) = 0
      BY <2>2 DEF PublisherGets
    <3> HIDE DEF qs, e
    <3> QED
      BY <1>5, <3>1
  <2> QED
    BY <1>1, <2>1, <2>2
<1>11. BuyerPays(e, w) >= price - 3
  <2>1. 100 * (e + x + y) > 100 * a - d - 200
    <3> HIDE DEF e, x, y, a, d, ps, qs
    <3> QED
      BY <1>2, <1>3, <1>4, <1>5, <1>6
  <2>2. e + x + y > a - 4
    <3> HIDE DEF e, x, y, a, d, ps, qs
    <3> QED
      BY <1>2, <1>3, <1>6, <2>1
  <2>3. e + SteamGets(e, w) + PublisherGets(e, w) > a - 4
    <3> HIDE DEF e, x, y, a, d, ps, qs
    <3> QED
      BY <1>2, <1>3, <1>6, <1>7, <1>8, <1>9, <2>2
  <2> HIDE DEF e, d
  <2> QED
    BY <1>1, <1>3, <1>7, <2>3
<1>12. BuyerPays(e, w) <= price + 2
  <2>1. CASE e = 0
    <3>1. BuyerPays(e, w) <= price /\ BuyerPays(e, w) \in Nat
      <4> HIDE DEF e
      <4> QED
        BY <1>1, <1>3, <1>7, <2>1
    <3> HIDE DEF e
    <3> QED
      BY <3>1
  <2>2. CASE e > 0
    <3>1. 100 * SteamGets(e, w) <= ps + 200
      <4> HIDE DEF e, x, ps
      <4> QED
        BY <1>5, <1>6, <1>7, <1>8
    <3>2. 100 * (e + SteamGets(e, w) + PublisherGets(e, w)) < 100 * a + 300
      <4> HIDE DEF e, x, y, a, d, ps, qs
      <4> QED
        BY <1>2, <1>3, <1>4, <1>5, <1>7, <1>10, <2>2, <3>1
    <3>3. e + SteamGets(e, w) + PublisherGets(e, w) < a + 3
      <4> HIDE DEF e, a
      <4> QED
        BY <1>2, <1>3, <1>7, <3>2
    <3> HIDE DEF e
    <3> QED
      BY <1>1, <1>3, <1>7, <3>3
  <2> QED
    BY <1>3, <2>1, <2>2
<1> QED
  BY <1>3, <1>11, <1>12

\* A turn of the loop, by a function that says what the turns after it come to.
AfterTurn(f, t, price, w) ==
  IF t.left = 0 \/ BuyerPays(t.at, w) = price THEN Split(t.at, w)
  ELSE IF BuyerPays(t.at, w) < price THEN f[[at |-> t.at + 1, undershot |-> t.undershot, left |-> t.left - 1]]
  ELSE IF t.undershot THEN Split(t.at - 1, w)
  ELSE f[[at |-> t.at - 1, undershot |-> TRUE, left |-> t.left - 1]]

LEMMA TurnsLeft == WalkSteps \in Nat /\ WalkSteps >= 10
BY DEF WalkSteps

\* Such a function exists: it is made for no turns left, for one, for two, ...
LEMMA TheWalkExists ==
  ASSUME NEW price, NEW w
  PROVE  \E f : f = [t \in Turns |-> AfterTurn(f, t, price, w)]
<1> DEFINE Upto(f, n) ==
             /\ f = [t \in Turns |-> f[t]]
             /\ \A t \in Turns : t.left <= n => f[t] = AfterTurn(f, t, price, w)
           Made == {n \in Nat : \E f : Upto(f, n)}
<1>1. 0 \in Made
  <2> DEFINE f == [t \in Turns |-> Split(t.at, w)]
  <2>1. \A t \in Turns : t.left <= 0 => t.left = 0
    BY TurnsLeft DEF Turns
  <2>2. \A t \in Turns : f[t] = Split(t.at, w)
    OBVIOUS
  <2>3. f = [t \in Turns |-> f[t]]
    OBVIOUS
  <2> HIDE DEF f
  <2>4. Upto(f, 0)
    BY <2>1, <2>2, <2>3 DEF AfterTurn
  <2> QED
    BY <2>4
<1>2. ASSUME NEW n \in Made PROVE n + 1 \in Made
  <2>1. PICK f : Upto(f, n)
    OBVIOUS
  <2> DEFINE g == [t \in Turns |-> IF t.left <= n + 1 THEN AfterTurn(f, t, price, w) ELSE f[t]]
  <2>2. \A t \in Turns : g[t] = IF t.left <= n + 1 THEN AfterTurn(f, t, price, w) ELSE f[t]
    OBVIOUS
  <2>3. g = [t \in Turns |-> g[t]]
    OBVIOUS
  <2> HIDE DEF g
  <2>4. n \in Nat /\ \A t \in Turns : t.left \in Nat /\ (t.left <= n => t.left <= n + 1)
    BY TurnsLeft DEF Turns
  <2>5. \A t \in Turns : t.left <= n => g[t] = f[t]
    BY <2>1, <2>2, <2>4
  <2>6. ASSUME NEW t \in Turns, t.left <= n + 1 PROVE g[t] = AfterTurn(g, t, price, w)
    <3>1. g[t] = AfterTurn(f, t, price, w)
      BY <2>2, <2>6
    <3>2. CASE t.left = 0
      BY <3>1, <3>2 DEF AfterTurn
    <3>3. CASE t.left # 0
      <4> DEFINE up == [at |-> t.at + 1, undershot |-> t.undershot, left |-> t.left - 1]
                 down == [at |-> t.at - 1, undershot |-> TRUE, left |-> t.left - 1]
      <4>1. up \in Turns /\ down \in Turns /\ up.left <= n /\ down.left <= n
        <5>1. t.at \in Int /\ t.left \in 0..WalkSteps /\ t.left > 0 /\ t.left <= n + 1
          BY <2>6, <3>3, TurnsLeft DEF Turns
        <5>2. t.left - 1 \in 0..WalkSteps /\ t.left - 1 <= n /\ t.at + 1 \in Int /\ t.at - 1 \in Int
          BY <2>4, <5>1, TurnsLeft
        <5> QED
          BY <5>2 DEF Turns
      <4>2. g[up] = f[up] /\ g[down] = f[down]
        BY <2>5, <4>1
      <4> QED
        BY <3>1, <4>2 DEF AfterTurn
    <3> QED
      BY <3>2, <3>3
  <2>7. Upto(g, n + 1)
    BY <2>3, <2>6
  <2> QED
    BY <2>4, <2>7
<1>3. WalkSteps \in Made
  <2> DEFINE Missing == {n \in Nat : n \notin Made}
  <2> HIDE DEF Made
  <2>1. CASE Missing = {}
    BY <2>1, TurnsLeft
  <2>2. CASE Missing # {}
    <3>1. PICK m \in Missing : \A k \in Missing : m <= k
      BY <2>2, LeastNumber
    <3>2. m # 0 /\ m \in Nat
      BY <1>1, <3>1
    <3>3. m - 1 \in Nat /\ ~(m <= m - 1) /\ (m - 1) + 1 = m
      BY <3>2
    <3>4. m - 1 \in Made
      BY <3>1, <3>3
    <3> QED
      BY <1>2, <3>1, <3>3, <3>4
  <2> QED
    BY <2>1, <2>2
<1>4. PICK f : Upto(f, WalkSteps)
  BY <1>3
<1>5. \A t \in Turns : t.left <= WalkSteps
  BY TurnsLeft DEF Turns
<1>6. \A t \in Turns : f[t] = AfterTurn(f, t, price, w)
  BY <1>4, <1>5
<1>7. f = [t \in Turns |-> AfterTurn(f, t, price, w)]
  BY <1>4, <1>6
<1> QED
  BY <1>7

LEMMA WalkIs ==
  ASSUME NEW price, NEW w
  PROVE  Walk(price, w) = [t \in Turns |-> AfterTurn(Walk(price, w), t, price, w)]
<1> DEFINE F == CHOOSE f : f = [t \in Turns |-> AfterTurn(f, t, price, w)]
<1>1. F = [t \in Turns |-> AfterTurn(F, t, price, w)]
  BY TheWalkExists
<1> HIDE DEF F
<1>2. Walk(price, w) = F
  BY DEF Walk, F, AfterTurn, BuyerPays
<1> QED
  BY <1>1, <1>2

\* What the loop comes to from an amount, before it has stepped down and after.
TurnAt(at, undershot, left) == [at |-> at, undershot |-> undershot, left |-> left]
Rising(at, left, price, w) == Walk(price, w)[TurnAt(at, FALSE, left)]
Falling(at, left, price, w) == Walk(price, w)[TurnAt(at, TRUE, left)]

LEMMA BuyerPaysUnits ==
  ASSUME NEW w \in Wallets, NEW r \in Nat PROVE BuyerPays(r, w) \in Nat
BY BuyersPayMore

LEMMA RisingTurn ==
  ASSUME NEW price, NEW w, NEW at \in Int, NEW left \in 1..WalkSteps
  PROVE  Rising(at, left, price, w) =
           IF BuyerPays(at, w) = price THEN Split(at, w)
           ELSE IF BuyerPays(at, w) < price THEN Rising(at + 1, left - 1, price, w)
           ELSE Falling(at - 1, left - 1, price, w)
<1> DEFINE t == TurnAt(at, FALSE, left)
<1>1. t \in Turns /\ t.at = at /\ t.undershot = FALSE /\ t.left = left /\ t.left # 0
  BY TurnsLeft DEF TurnAt, Turns
<1>2. [at |-> t.at + 1, undershot |-> t.undershot, left |-> t.left - 1] = TurnAt(at + 1, FALSE, left - 1)
  BY <1>1 DEF TurnAt
<1> HIDE DEF t
<1>3. Walk(price, w)[t] = AfterTurn(Walk(price, w), t, price, w)
  BY <1>1, WalkIs
<1> QED
  BY <1>1, <1>2, <1>3 DEF AfterTurn, Rising, Falling, TurnAt, t

LEMMA FallingTurn ==
  ASSUME NEW price, NEW w, NEW at \in Int, NEW left \in 1..WalkSteps
  PROVE  Falling(at, left, price, w) =
           IF BuyerPays(at, w) = price THEN Split(at, w)
           ELSE IF BuyerPays(at, w) < price THEN Falling(at + 1, left - 1, price, w)
           ELSE Split(at - 1, w)
<1> DEFINE t == TurnAt(at, TRUE, left)
<1>1. t \in Turns /\ t.at = at /\ t.undershot = TRUE /\ t.left = left /\ t.left # 0
  BY TurnsLeft DEF TurnAt, Turns
<1>2. [at |-> t.at + 1, undershot |-> t.undershot, left |-> t.left - 1] = TurnAt(at + 1, TRUE, left - 1)
  BY <1>1 DEF TurnAt
<1> HIDE DEF t
<1>3. Walk(price, w)[t] = AfterTurn(Walk(price, w), t, price, w)
  BY <1>1, WalkIs
<1> QED
  BY <1>1, <1>2, <1>3 DEF AfterTurn, Falling, TurnAt, t

\* The greatest amount a buyer at the price can pay for.
Best(s, price, w) ==
  s.buyerPays <= price /\ \A r \in Nat : BuyerPays(r, w) <= price => r <= s.received

LEMMA BestIs ==
  ASSUME NEW w \in Wallets, NEW price \in Nat, NEW r \in Nat,
         BuyerPays(r, w) = price \/ (BuyerPays(r, w) <= price /\ BuyerPays(r + 1, w) > price)
  PROVE  Best(Split(r, w), price, w)
<1>1. Split(r, w).buyerPays = BuyerPays(r, w) /\ Split(r, w).received = r
  BY SplitIs
<1>2. ASSUME NEW s \in Nat, BuyerPays(s, w) <= price PROVE s <= r
  <2> SUFFICES ASSUME s >= r + 1 PROVE FALSE
    OBVIOUS
  <2>1. BuyerPays(r + 1, w) + (s - (r + 1)) <= BuyerPays(s, w) /\ BuyerPays(r + 1, w) \in Nat
    BY BuyersPayMore
  <2>2. BuyerPays(r, w) + ((r + 1) - r) <= BuyerPays(r + 1, w) /\ BuyerPays(r, w) \in Nat
    BY BuyersPayMore
  <2>3. BuyerPays(s, w) \in Nat
    BY BuyerPaysUnits
  <2> QED
    BY <1>2, <2>1, <2>2, <2>3
<1> QED
  BY <1>1, <1>2 DEF Best

\* From above the price: one step down, and if that is too low the walk knows to come back to it,
\* if it is still too high one more is enough.
LEMMA WalksDown ==
  ASSUME NEW w \in Wallets, NEW price \in Nat, NEW left \in 3..WalkSteps, NEW at \in Nat, at >= 1,
         BuyerPays(at, w) > price,
         BuyerPays(at - 1, w) <= price \/ (at >= 2 /\ BuyerPays(at - 2, w) <= price)
  PROVE  Best(Rising(at, left, price, w), price, w)
<1>0. /\ left \in 1..WalkSteps /\ left - 1 \in 1..WalkSteps /\ left - 2 \in 1..WalkSteps
      /\ at - 1 \in Nat /\ (at - 1) + 1 = at /\ at \in Int /\ (left - 1) - 1 = left - 2
  BY TurnsLeft
<1>1. BuyerPays(at, w) \in Nat /\ BuyerPays(at - 1, w) \in Nat
  BY <1>0, BuyerPaysUnits
<1>2. Rising(at, left, price, w) = Falling(at - 1, left - 1, price, w)
  BY <1>0, <1>1, RisingTurn, FallingTurn
<1>3. CASE BuyerPays(at - 1, w) = price
  <2>1. Falling(at - 1, left - 1, price, w) = Split(at - 1, w)
    BY <1>0, <1>3, RisingTurn, FallingTurn
  <2> QED
    BY <1>0, <1>2, <1>3, <2>1, BestIs
<1>4. CASE BuyerPays(at - 1, w) < price
  <2>1. Falling(at - 1, left - 1, price, w) = Falling(at, left - 2, price, w)
    BY <1>0, <1>1, <1>4, RisingTurn, FallingTurn
  <2>2. Falling(at, left - 2, price, w) = Split(at - 1, w)
    BY <1>0, <1>1, RisingTurn, FallingTurn
  <2> QED
    BY <1>0, <1>1, <1>2, <1>4, <2>1, <2>2, BestIs
<1>5. CASE BuyerPays(at - 1, w) > price
  <2>1. at - 2 \in Nat /\ (at - 2) + 1 = at - 1 /\ BuyerPays(at - 2, w) <= price /\ (at - 1) - 1 = at - 2
    BY <1>1, <1>5
  <2>2. Falling(at - 1, left - 1, price, w) = Split(at - 2, w)
    BY <1>0, <1>1, <1>5, <2>1, RisingTurn, FallingTurn
  <2> QED
    BY <1>2, <1>5, <2>1, <2>2, BestIs
<1> QED
  BY <1>1, <1>3, <1>4, <1>5

\* From below the price, by no more than k units.
Ascends(k, price, w) ==
  \A at \in Nat : \A left \in (k + 3)..WalkSteps :
    BuyerPays(at, w) <= price /\ BuyerPays(at, w) >= price - k =>
      Best(Rising(at, left, price, w), price, w)

LEMMA ExactIsBest ==
  ASSUME NEW w \in Wallets, NEW price \in Nat, NEW at \in Nat, NEW left \in 1..WalkSteps,
         BuyerPays(at, w) = price
  PROVE  Best(Rising(at, left, price, w), price, w)
BY RisingTurn, FallingTurn, BestIs

LEMMA WalksUp ==
  ASSUME NEW w \in Wallets, NEW price \in Nat, NEW k \in Nat, Ascends(k, price, w)
  PROVE  Ascends(k + 1, price, w)
<1> SUFFICES ASSUME NEW at \in Nat, NEW left \in ((k + 1) + 3)..WalkSteps,
                    BuyerPays(at, w) <= price, BuyerPays(at, w) >= price - (k + 1)
             PROVE  Best(Rising(at, left, price, w), price, w)
  BY DEF Ascends
<1>1. /\ left \in 1..WalkSteps /\ left - 1 \in (k + 3)..WalkSteps /\ left - 1 \in 3..WalkSteps
      /\ at + 1 \in Nat /\ at + 1 >= 1 /\ (at + 1) - 1 = at /\ at \in Int
  BY TurnsLeft
<1>2. BuyerPays(at, w) \in Nat /\ BuyerPays(at + 1, w) \in Nat
      /\ BuyerPays(at, w) + 1 <= BuyerPays(at + 1, w)
  <2>1. BuyerPays(at, w) + ((at + 1) - at) <= BuyerPays(at + 1, w) /\ BuyerPays(at, w) \in Nat
    BY <1>1, BuyersPayMore
  <2>2. BuyerPays(at + 1, w) \in Nat
    BY <1>1, BuyerPaysUnits
  <2> QED
    BY <2>1, <2>2
<1>3. CASE BuyerPays(at, w) = price
  BY <1>1, <1>3, ExactIsBest
<1>4. CASE BuyerPays(at, w) < price
  <2>1. Rising(at, left, price, w) = Rising(at + 1, left - 1, price, w)
    BY <1>1, <1>2, <1>4, RisingTurn, FallingTurn
  <2>2. CASE BuyerPays(at + 1, w) <= price
    <3>1. BuyerPays(at + 1, w) >= price - k
      BY <1>2
    <3> QED
      BY <1>1, <2>1, <2>2, <3>1 DEF Ascends
  <2>3. CASE BuyerPays(at + 1, w) > price
    <3>1. Best(Rising(at + 1, left - 1, price, w), price, w)
      BY <1>1, <2>3, WalksDown
    <3> QED
      BY <2>1, <3>1
  <2> QED
    BY <1>2, <2>2, <2>3
<1> QED
  BY <1>2, <1>3, <1>4

LEMMA WalksThreeUp ==
  ASSUME NEW w \in Wallets, NEW price \in Nat
  PROVE  Ascends(3, price, w)
<1>1. Ascends(0, price, w)
  <2> SUFFICES ASSUME NEW at \in Nat, NEW left \in (0 + 3)..WalkSteps,
                      BuyerPays(at, w) <= price, BuyerPays(at, w) >= price - 0
               PROVE  Best(Rising(at, left, price, w), price, w)
    BY DEF Ascends
  <2>1. left \in 1..WalkSteps
    BY TurnsLeft
  <2>2. BuyerPays(at, w) = price
    BY BuyerPaysUnits
  <2> QED
    BY <2>1, <2>2, ExactIsBest
<1>2. Ascends(0 + 1, price, w)
  BY <1>1, WalksUp
<1>3. Ascends((0 + 1) + 1, price, w)
  BY <1>2, WalksUp
<1>4. Ascends(((0 + 1) + 1) + 1, price, w)
  BY <1>3, WalksUp
<1> QED
  BY <1>4

\* The loop finds the greatest amount there is.
LEMMA WalkIsBest ==
  ASSUME NEW w \in Wallets, w.minimum <= 2, NEW price \in Nat, BuyerPays(0, w) <= price
  PROVE  Best(ReceivedForBuyerPays(price, w), price, w)
<1> DEFINE e == Estimate(price, w)
<1>1. e \in Nat /\ BuyerPays(e, w) >= price - 3 /\ BuyerPays(e, w) <= price + 2
  BY EstimateIsClose
<1>2. ReceivedForBuyerPays(price, w) = Rising(e, WalkSteps, price, w)
  BY DEF ReceivedForBuyerPays, Rising, TurnAt
<1> HIDE DEF e
<1>3. BuyerPays(e, w) \in Nat
  BY <1>1, BuyerPaysUnits
<1>4. WalkSteps \in (3 + 3)..WalkSteps /\ WalkSteps \in 3..WalkSteps
  BY TurnsLeft
<1>5. CASE BuyerPays(e, w) <= price
  BY <1>1, <1>2, <1>4, <1>5, WalksThreeUp DEF Ascends
<1>6. CASE BuyerPays(e, w) > price
  <2>1. e >= 1
    <3>1. e # 0
      BY <1>6, <1>3
    <3> QED
      BY <1>1, <3>1
  <2>2. BuyerPays(e - 1, w) <= price \/ (e >= 2 /\ BuyerPays(e - 2, w) <= price)
    <3> SUFFICES ASSUME BuyerPays(e - 1, w) > price PROVE e >= 2 /\ BuyerPays(e - 2, w) <= price
      <4>1. e - 1 \in Nat
        BY <1>1, <2>1
      <4>2. BuyerPays(e - 1, w) \in Nat
        BY <4>1, BuyerPaysUnits
      <4> QED
        BY <4>2
    <3>1. e - 1 # 0 /\ e - 1 \in Nat
      <4>1. e - 1 \in Nat
        BY <1>1, <2>1
      <4>2. BuyerPays(e - 1, w) \in Nat
        BY <4>1, BuyerPaysUnits
      <4> QED
        BY <4>1, <4>2
    <3>2. e >= 2 /\ e - 2 \in Nat /\ e - 2 <= e /\ e - (e - 2) = 2
      BY <1>1, <3>1
    <3>3. BuyerPays(e - 2, w) \in Nat /\ BuyerPays(e - 2, w) + (e - (e - 2)) <= BuyerPays(e, w)
      BY <1>1, <3>2, BuyersPayMore
    <3> QED
      BY <1>1, <1>3, <3>2, <3>3
  <2> QED
    BY <1>1, <1>2, <1>4, <1>6, <2>1, <2>2, WalksDown
<1> QED
  BY <1>3, <1>5, <1>6

Quotes == [wallet : Wallets \cup {NoWallet}, price : Nat]

\* An amount that is listed is the greatest one whose buyer pays no more than the price asked for,
\* for every wallet whose smallest fee is at most two units.
THEOREM SplitsMeetPrices ==
  ASSUME \A w \in Wallets : w.minimum <= 2
  PROVE  FeeSpec => []SplitMeetsPrice
<1>1. FeeInit => quote \in Quotes
  BY DEF FeeInit, Quotes
<1>2. quote \in Quotes /\ [FeeNext]_feeVars => (quote \in Quotes)'
  <2> SUFFICES ASSUME quote \in Quotes, [FeeNext]_feeVars PROVE quote' \in Quotes
    OBVIOUS
  <2>1. CASE QuotePrice
    BY <2>1 DEF QuotePrice, Quotes
  <2> QED
    BY <2>1 DEF FeeNext, feeVars
<1>3. quote \in Quotes => SplitMeetsPrice
  <2> SUFFICES ASSUME quote \in Quotes, quote.wallet # NoWallet,
                      Affordable(quote.price, quote.wallet) # {}
               PROVE  LET s == ReceivedForBuyerPays(quote.price, quote.wallet)
                      IN /\ s.buyerPays <= quote.price
                         /\ \A r \in Affordable(quote.price, quote.wallet) : r <= s.received
    BY DEF SplitMeetsPrice
  <2> DEFINE w == quote.wallet  p == quote.price
  <2>1. w \in Wallets /\ w.minimum <= 2 /\ p \in Nat
    BY DEF Quotes
  <2> HIDE DEF w, p
  <2>2. \A r \in Affordable(p, w) : r \in Nat /\ BuyerPays(r, w) <= p
    BY <2>1 DEF Affordable, BuyerPays
  <2>3. PICK r \in Affordable(p, w) : TRUE
    BY DEF w, p
  <2>4. BuyerPays(0, w) <= p
    <3>1. r \in Nat /\ 0 <= r /\ BuyerPays(r, w) <= p /\ BuyerPays(r, w) \in Nat
      BY <2>1, <2>2, <2>3, BuyerPaysUnits
    <3>2. BuyerPays(0, w) \in Nat /\ BuyerPays(0, w) + (r - 0) <= BuyerPays(r, w)
      BY <2>1, <3>1, BuyersPayMore
    <3> QED
      BY <2>1, <3>1, <3>2
  <2>5. Best(ReceivedForBuyerPays(p, w), p, w)
    BY <2>1, <2>4, WalkIsBest
  <2> QED
    BY <2>2, <2>5 DEF Best, w, p
<1> QED
  BY <1>1, <1>2, <1>3, PTL DEF FeeSpec

-----------------------------------------------------------------------------
(***************************************************************************)
(* The types of MarketSale.  The inductive invariant has those of the      *)
(* sells, the batch and the gate; Steam's listings and the approval are    *)
(* of items.                                                               *)
(***************************************************************************)
SaleBooks == listed \subseteq Items /\ approved \subseteq Items

LEMMA SaleBooksStep ==
  ASSUME SaleShapes, SaleBooks, [SaleNext]_saleVars
  PROVE  SaleBooks'
<1>1. ASSUME NEW ticked \in SUBSET Items, BatchStarts(ticked) PROVE SaleBooks'
  BY <1>1 DEF BatchStarts, Eligible, SaleBooks
<1>2. ASSUME NEW answer, BatchReviewed(answer) PROVE SaleBooks'
  BY <1>2 DEF BatchReviewed, SaleBooks
<1>3. ASSUME NEW answer, BatchPriced(answer) PROVE SaleBooks'
  BY <1>3 DEF BatchPriced, SaleBooks
<1>4. ASSUME NEW answer, NEW reached, WriteAnswered(answer, reached) PROVE SaleBooks'
  <2>1. writes \in Seq(GateWrites) /\ writes # <<>>
    BY <1>4 DEF WriteAnswered, SaleShapes
  <2>2. Head(writes) \in GateWrites
    <3> HIDE DEF GateWrites
    <3> QED
      BY <2>1, HeadTailProperties
  <2>3. Head(writes).item \in Items
    BY <2>2 DEF GateWrites
  <2> QED
    BY <1>4, <2>3 DEF WriteAnswered, SaleBooks
<1>5. ASSUME NEW s \in Sells, Undo(s) \/ UndoWindowCloses(s) PROVE SaleBooks'
  BY <1>5 DEF Undo, UndoWindowCloses, SaleBooks
<1>6. ASSUME NEW s \in Sells, NEW i, NEW seen, ClickSell(s, i, seen) PROVE SaleBooks'
  BY <1>6 DEF ClickSell, SaleBooks
<1>7. ASSUME NEW s \in Sells, NEW answer, SingleSellPriced(s, answer) PROVE SaleBooks'
  BY <1>7 DEF SingleSellPriced, SaleBooks
<1>8. CASE StopButton \/ BatchEnds
  BY <1>8 DEF StopButton, BatchEnds, SaleBooks
<1>9. CASE PriceMoves \/ SignedOut \/ ApprovalLapses
  BY <1>9 DEF PriceMoves, SignedOut, ApprovalLapses, SaleBooks
<1>10. CASE UNCHANGED saleVars
  BY <1>10 DEF saleVars, SaleBooks
<1> QED
  BY <1>1, <1>2, <1>3, <1>4, <1>5, <1>6, <1>7, <1>8, <1>9, <1>10 DEF SaleNext

LEMMA SaleShapesAreTypes ==
  ASSUME SaleShapes, SaleBooks
  PROVE  SaleTypeOK
<1> DEFINE Singles == [item : Items \cup {0}, stage : {"none", "undo", "book", "submit"},
                       reviewed : Levels \cup {NoPrice}, cancelled : BOOLEAN]
<1>1. SellRecords \subseteq Singles
  <2>1. NoSell \in Singles
    BY DEF NoSell
  <2>2. LiveSells \subseteq Singles
    BY DEF LiveSells
  <2> QED
    BY <2>1, <2>2 DEF SellRecords
<1>2. single \in [Sells -> Singles]
  BY <1>1 DEF SaleShapes
<1>3. \A k \in DOMAIN writes : writes[k] \in GateWrites
  <2>1. writes \in Seq(GateWrites)
    BY DEF SaleShapes
  <2> HIDE DEF GateWrites
  <2> QED
    BY <2>1, LenProperties
<1> QED
  BY <1>2, <1>3 DEF SaleShapes, SaleBooks, SaleTypeOK, Batches, GateWrites

\* Every variable of a sale keeps its type, for any number of items, price levels and sells.
THEOREM SaleKeepsTypes == SaleSpec => []SaleTypeOK
<1>1. SaleInit => SaleInductive /\ SaleBooks
  BY SaleBegins DEF SaleInit, SaleBooks
<1>2. SaleInductive /\ SaleBooks /\ [SaleNext]_saleVars => (SaleInductive /\ SaleBooks)'
  BY SaleStep, SaleBooksStep DEF SaleInductive
<1>3. SaleInductive /\ SaleBooks => SaleTypeOK
  BY SaleShapesAreTypes DEF SaleInductive
<1> QED
  BY <1>1, <1>2, <1>3, PTL DEF SaleSpec

-----------------------------------------------------------------------------
(***************************************************************************)
(* The types of MarketHome: those of the rows that are marked, the panel,  *)
(* the removal and the cache of names come beside the inductive invariant. *)
(***************************************************************************)
HomeRest ==
  /\ highlighted \subseteq rows
  /\ panel \in [enabled : BOOLEAN, due : BOOLEAN]
  /\ removal \subseteq Listings /\ knownIds \subseteq Names /\ cooldown \in BOOLEAN

\* The scan at the head of the gate goes on, or ends and annotates rows that are there.
LEMMA ContinuingKeepsRows ==
  ASSUME HomeRest, NEW k, NEW s, NEW limited, Continue(k, s, limited), rows' = rows
  PROVE  highlighted' \subseteq rows' /\ panel' \in [enabled : BOOLEAN, due : BOOLEAN]
<1>1. CASE Annotate(s)
  <2>1. highlighted' \subseteq rows'
    BY <1>1 DEF Annotate, HomeRest
  <2>2. panel' = panel \/ panel' = [panel EXCEPT !.enabled = TRUE]
    BY <1>1 DEF Annotate
  <2> QED
    BY <2>1, <2>2 DEF HomeRest
<1>2. CASE UNCHANGED <<highlighted, flagged, verdict, panel>>
  BY <1>2 DEF HomeRest
<1> QED
  BY <1>1, <1>2 DEF Continue

LEMMA RebuiltIsAPanel ==
  ASSUME Rebuilt
  PROVE  panel' \in [enabled : BOOLEAN, due : BOOLEAN]
BY DEF Rebuilt

LEMMA HomeRestStep ==
  ASSUME HomeShapes, HomeRest, [HomeNext]_homeVars
  PROVE  HomeRest'
<1>0. gate # <<>> => Head(gate) \in BookReads
  <2>1. gate \in Seq(BookReads)
    BY DEF HomeShapes
  <2> HIDE DEF BookReads
  <2> QED
    BY <2>1, HeadTailProperties
<1>1. ASSUME NEW k \in Scans, ScanClick(k) PROVE HomeRest'
  BY <1>1 DEF ScanClick, HomeRest, readVars
<1>2. ASSUME NEW k \in Scans, NEW n \in Names, ScanAsks(k, n) PROVE HomeRest'
  <2>1. rows' = rows /\ UNCHANGED <<removal, knownIds, cooldown>>
    BY <1>2 DEF ScanAsks
  <2>2. CASE UNCHANGED <<highlighted, flagged, verdict, panel>>
    BY <2>1, <2>2 DEF HomeRest
  <2>3. CASE \E said \in Verdicts : Continue(k, Read(scan[k], n, said), FALSE)
    BY <2>1, <2>3, ContinuingKeepsRows DEF HomeRest
  <2>4. CASE Continue(k, scan[k], TRUE)
    BY <2>1, <2>4, ContinuingKeepsRows DEF HomeRest
  <2> QED
    BY <1>2, <2>2, <2>3, <2>4 DEF ScanAsks
<1>3. CASE IdResolved
  <2>1. Head(gate).name \in Names
    BY <1>0, <1>3 DEF IdResolved, BookReads
  <2> QED
    BY <1>3, <2>1 DEF IdResolved, HomeRest, pageVars
<1>4. ASSUME NEW said \in Verdicts, BookRead(said) PROVE HomeRest'
  <2>1. rows' = rows /\ UNCHANGED <<removal, knownIds, cooldown>>
    BY <1>4 DEF BookRead
  <2>2. Continue(Head(gate).by, Read(scan[Head(gate).by], Head(gate).name, said), FALSE)
    BY <1>4 DEF BookRead
  <2> QED
    BY <2>1, <2>2, ContinuingKeepsRows DEF HomeRest
<1>5. ASSUME NEW limited \in BOOLEAN, ReadFails(limited) PROVE HomeRest'
  <2>1. rows' = rows /\ UNCHANGED <<removal, knownIds>> /\ cooldown' \in BOOLEAN
    BY <1>5 DEF ReadFails
  <2>2. \E s : Continue(Head(gate).by, s, limited)
    BY <1>5 DEF ReadFails
  <2> QED
    BY <2>1, <2>2, ContinuingKeepsRows DEF HomeRest
<1>6. CASE CooldownEnds
  BY <1>6 DEF CooldownEnds, HomeRest, pageVars
<1>7. ASSUME NEW seen \in SUBSET Listings, RowsReplaced(seen) PROVE HomeRest'
  BY <1>7 DEF RowsReplaced, HomeRest, readVars
<1>8. CASE PanelRebuilt
  BY <1>8, RebuiltIsAPanel DEF PanelRebuilt, HomeRest, readVars
<1>9. CASE RemoveClick
  BY <1>9 DEF RemoveClick, HomeRest, HomeShapes, readVars
<1>10. ASSUME NEW l \in Listings, NEW removed \in BOOLEAN, NEW fatal \in BOOLEAN,
              RemovalAnswered(l, removed, fatal)
       PROVE  HomeRest'
  <2>1. removal' \subseteq Listings
    BY <1>10 DEF RemovalAnswered, RemovalGoesOn, HomeRest
  <2>2. Rebuilt \/ panel' = panel
    BY <1>10 DEF RemovalAnswered, RemovalGoesOn
  <2>3. UNCHANGED <<rows, highlighted, knownIds, cooldown>>
    BY <1>10 DEF RemovalAnswered, readVars
  <2> QED
    BY <2>1, <2>2, <2>3, RebuiltIsAPanel DEF HomeRest
<1>11. CASE UNCHANGED homeVars
  BY <1>11 DEF homeVars, pageVars, readVars, HomeRest
<1> QED
  BY <1>1, <1>2, <1>3, <1>4, <1>5, <1>6, <1>7, <1>8, <1>9, <1>10, <1>11 DEF HomeNext

LEMMA HomeShapesAreTypes ==
  ASSUME HomeShapes, HomeRest
  PROVE  HomeTypeOK
<1>1. \A k \in DOMAIN gate : gate[k] \in BookReads
  <2>1. gate \in Seq(BookReads)
    BY DEF HomeShapes
  <2> HIDE DEF BookReads
  <2> QED
    BY <2>1, LenProperties
<1>2. scan \in [Scans -> HomeScans]
  BY DEF HomeShapes
<1> QED
  BY <1>1, <1>2 DEF HomeShapes, HomeRest, HomeTypeOK, HomeScans, BookReads

\* Every variable of the home page keeps its type, and a marked row is one of the page: for any
\* listings, names and number of scans.
THEOREM HomeKeepsTypes == HomeSpec => []HomeTypeOK
<1>1. HomeInit => HomeInductive /\ HomeRest
  <2>1. ASSUME HomeInit PROVE HomeRest
    <3>1. panel = [enabled |-> TRUE, due |-> FALSE] /\ cooldown = FALSE
      BY <2>1 DEF HomeInit
    <3>2. highlighted = {} /\ removal = {} /\ knownIds = {}
      BY <2>1 DEF HomeInit, NoRemoval
    <3> QED
      BY <3>1, <3>2 DEF HomeRest
  <2> QED
    BY <2>1, HomeBegins
<1>2. HomeInductive /\ HomeRest /\ [HomeNext]_homeVars => (HomeInductive /\ HomeRest)'
  BY HomeStep, HomeRestStep, HomeAssumption DEF HomeInductive
<1>3. HomeInductive /\ HomeRest => HomeTypeOK
  BY HomeShapesAreTypes DEF HomeInductive
<1> QED
  BY <1>1, <1>2, <1>3, PTL DEF HomeSpec

-----------------------------------------------------------------------------
(***************************************************************************)
(* What filtering a list keeps, for the types of the pages that filter.    *)
(* Induction is over the positions of the list, and the recursive function *)
(* of Filtered has to be shown to exist before anything follows from it.   *)
(***************************************************************************)
\* A function may be defined by recursion over the numbers up to n, by what makes the value at a
\* number of the number and of the value before: it exists, for it is made value by value.
Recursive(f, n, base, step) ==
  f = [k \in 0..n |-> IF k = 0 THEN base ELSE step[<<k, f[k - 1]>>]]

LEMMA RecursionExists ==
  ASSUME NEW n \in Nat, NEW X, NEW base \in X, NEW step \in [(1..n) \X X -> X]
  PROVE  \E f \in [0..n -> X] : Recursive(f, n, base, step)
<1> DEFINE Upto(f, m) ==
             /\ f \in [0..n -> X] /\ f[0] = base
             /\ \A k \in 1..n : k <= m => f[k] = step[<<k, f[k - 1]>>]
           Made == {m \in Nat : \E f : Upto(f, m)}
<1>1. 0 \in Made
  <2>1. [k \in 0..n |-> base] \in [0..n -> X] /\ [k \in 0..n |-> base][0] = base
    OBVIOUS
  <2>2. \A k \in 1..n : ~(k <= 0)
    OBVIOUS
  <2>3. Upto([k \in 0..n |-> base], 0)
    BY <2>1, <2>2
  <2> QED
    BY <2>3
<1>2. ASSUME NEW m \in Made PROVE m + 1 \in Made
  <2>1. PICK f : Upto(f, m)
    OBVIOUS
  <2>0. m \in Nat /\ m + 1 \in Nat
    OBVIOUS
  <2>2. CASE m + 1 \in 1..n
    <3>1. f[m] \in X /\ m + 1 \in 1..n /\ (m + 1) - 1 = m /\ m + 1 \in 0..n
      BY <2>0, <2>1, <2>2
    <3>2. step[<<m + 1, f[m]>>] \in X
      BY <3>1
    <3> DEFINE g == [f EXCEPT ![m + 1] = step[<<m + 1, f[m]>>]]
    <3>3. /\ g \in [0..n -> X] /\ g[m + 1] = step[<<m + 1, f[m]>>]
          /\ \A k \in 0..n : k # m + 1 => g[k] = f[k]
      BY <2>1, <3>1, <3>2
    <3> HIDE DEF g
    <3>4. g[0] = base
      BY <2>0, <2>1, <3>3
    <3>5. ASSUME NEW k \in 1..n, k <= m + 1 PROVE g[k] = step[<<k, g[k - 1]>>]
      <4>1. k - 1 \in 0..n /\ k - 1 # m + 1 /\ k \in 0..n
        BY <2>0, <3>5
      <4>2. g[k - 1] = f[k - 1]
        BY <3>3, <4>1
      <4>3. CASE k = m + 1
        BY <3>1, <3>3, <4>2, <4>3
      <4>4. CASE k # m + 1
        <5>1. k <= m
          BY <2>0, <3>5, <4>4
        <5> QED
          BY <2>1, <3>3, <4>1, <4>2, <4>4, <5>1
      <4> QED
        BY <4>3, <4>4
    <3>6. Upto(g, m + 1)
      BY <3>3, <3>4, <3>5
    <3> QED
      BY <2>0, <3>6
  <2>3. CASE m + 1 \notin 1..n
    <3>1. \A k \in 1..n : k <= m + 1 => k <= m
      BY <2>0, <2>3
    <3>2. Upto(f, m + 1)
      BY <2>1, <3>1
    <3> QED
      BY <2>0, <3>2
  <2> QED
    BY <2>2, <2>3
<1>3. n \in Made
  <2> DEFINE Missing == {m \in Nat : m \notin Made}
  <2> HIDE DEF Made
  <2>1. CASE Missing = {}
    BY <2>1
  <2>2. CASE Missing # {}
    <3>1. PICK m \in Missing : \A k \in Missing : m <= k
      BY <2>2, LeastNumber
    <3>2. m # 0 /\ m \in Nat
      BY <1>1, <3>1
    <3>3. m - 1 \in Nat /\ ~(m <= m - 1) /\ (m - 1) + 1 = m
      BY <3>2
    <3>4. m - 1 \in Made
      BY <3>1, <3>3
    <3> QED
      BY <1>2, <3>1, <3>3, <3>4
  <2> QED
    BY <2>1, <2>2
<1>4. PICK f : Upto(f, n)
  BY <1>3
<1>5. \A k \in 0..n : f[k] = IF k = 0 THEN base ELSE step[<<k, f[k - 1]>>]
  <2> TAKE k \in 0..n
  <2>1. CASE k = 0
    BY <1>4, <2>1
  <2>2. CASE k # 0
    <3>1. k \in 1..n /\ k <= n
      BY <2>2
    <3> QED
      BY <1>4, <2>2, <3>1
  <2> QED
    BY <2>1, <2>2
<1>6. f \in [0..n -> X]
  BY <1>4
<1>7. f = [k \in 0..n |-> IF k = 0 THEN base ELSE step[<<k, f[k - 1]>>]]
  BY <1>5, <1>6
<1> QED
  BY <1>6, <1>7 DEF Recursive

\* What Filtered builds: k elements into s, the elements of S seen so far.
NextFiltered(f, s, S, k) ==
  IF k = 0 THEN <<>> ELSE IF s[k] \in S THEN Append(f[k - 1], s[k]) ELSE f[k - 1]

LEMMA FilteringExists ==
  ASSUME NEW T, NEW s \in Seq(T), NEW S
  PROVE  \E f : f = [k \in 0..Len(s) |-> NextFiltered(f, s, S, k)]
<1> DEFINE X == Seq(T)
           step == [p \in (1..Len(s)) \X X |-> IF s[p[1]] \in S THEN Append(p[2], s[p[1]]) ELSE p[2]]
<1>1. Len(s) \in Nat /\ \A k \in 1..Len(s) : s[k] \in T
  BY LenProperties
<1>2. <<>> \in X
  BY EmptySeq
<1>3. step \in [(1..Len(s)) \X X -> X]
  <2>1. ASSUME NEW p \in (1..Len(s)) \X X
        PROVE  (IF s[p[1]] \in S THEN Append(p[2], s[p[1]]) ELSE p[2]) \in X
    <3>1. p[1] \in 1..Len(s) /\ p[2] \in Seq(T)
      BY <2>1
    <3>2. Append(p[2], s[p[1]]) \in Seq(T)
      BY <1>1, <3>1, AppendProperties
    <3> QED
      BY <3>1, <3>2
  <2> QED
    BY <2>1
<1>4. \A k \in 1..Len(s) : \A v \in X :
        step[<<k, v>>] = IF s[k] \in S THEN Append(v, s[k]) ELSE v
  OBVIOUS
<1> HIDE DEF X, step
<1>5. PICK f \in [0..Len(s) -> X] : Recursive(f, Len(s), <<>>, step)
  BY <1>1, <1>2, <1>3, RecursionExists
<1>6. ASSUME NEW k \in 0..Len(s) PROVE f[k] = NextFiltered(f, s, S, k)
  <2>1. f[k] = IF k = 0 THEN <<>> ELSE step[<<k, f[k - 1]>>]
    BY <1>5 DEF Recursive
  <2>2. CASE k = 0
    BY <2>1, <2>2 DEF NextFiltered
  <2>3. CASE k # 0
    <3>1. k \in 1..Len(s) /\ k - 1 \in 0..Len(s)
      BY <1>1, <2>3
    <3>2. f[k - 1] \in X
      BY <1>5, <3>1
    <3>3. step[<<k, f[k - 1]>>] = IF s[k] \in S THEN Append(f[k - 1], s[k]) ELSE f[k - 1]
      BY <1>4, <3>1, <3>2
    <3> QED
      BY <2>1, <2>3, <3>3 DEF NextFiltered
  <2> QED
    BY <2>2, <2>3
<1>7. f = [k \in 0..Len(s) |-> NextFiltered(f, s, S, k)]
  BY <1>5, <1>6
<1> QED
  BY <1>7

\* s names its elements once.
Once(s) == \A i, j \in DOMAIN s : s[i] = s[j] => i = j

\* Filtered keeps what is in S and nothing else, and each as often as s has it.
LEMMA FilteredIs ==
  ASSUME NEW T, NEW s \in Seq(T), NEW S
  PROVE  /\ Filtered(s, S) \in Seq(T)
         /\ \A i \in DOMAIN Filtered(s, S) :
              Filtered(s, S)[i] \in S /\ \E j \in DOMAIN s : s[j] = Filtered(s, S)[i]
         /\ \A j \in DOMAIN s : s[j] \in S => \E i \in DOMAIN Filtered(s, S) : Filtered(s, S)[i] = s[j]
         /\ Once(s) => Once(Filtered(s, S))
<1> DEFINE F == CHOOSE f : f = [k \in 0..Len(s) |-> NextFiltered(f, s, S, k)]
<1>1. F = [k \in 0..Len(s) |-> NextFiltered(F, s, S, k)]
  BY FilteringExists
<1>2. Filtered(s, S) = F[Len(s)]
  BY DEF Filtered, F, NextFiltered
<1> HIDE DEF F
<1>3. Len(s) \in Nat /\ DOMAIN s = 1..Len(s) /\ \A k \in 1..Len(s) : s[k] \in T
  BY LenProperties
<1> DEFINE Good(k) ==
             /\ F[k] \in Seq(T)
             /\ \A i \in DOMAIN F[k] : F[k][i] \in S /\ \E j \in 1..k : s[j] = F[k][i]
             /\ \A j \in 1..k : s[j] \in S => \E i \in DOMAIN F[k] : F[k][i] = s[j]
             /\ Once(s) => Once(F[k])
           Bad == {k \in 0..Len(s) : ~Good(k)}
<1>4. F[0] = <<>>
  <2>1. 0 \in 0..Len(s)
    BY <1>3
  <2> QED
    BY <1>1, <2>1 DEF NextFiltered
<1>5. Good(0)
  <2>1. F[0] \in Seq(T) /\ DOMAIN F[0] = {}
    BY <1>4, EmptySeq
  <2> QED
    BY <2>1 DEF Once
<1>6. ASSUME NEW k \in 1..Len(s), Good(k - 1) PROVE Good(k)
  <2> DEFINE old == F[k - 1]
             new == F[k]
  <2>1. k \in Nat /\ k - 1 \in 0..Len(s) /\ k \in 0..Len(s) /\ k # 0
    BY <1>3
  <2>2. new = IF s[k] \in S THEN Append(old, s[k]) ELSE old
    BY <1>1, <2>1 DEF NextFiltered
  <2>3. /\ old \in Seq(T)
        /\ \A i \in DOMAIN old : old[i] \in S /\ \E j \in 1..(k - 1) : s[j] = old[i]
        /\ \A j \in 1..(k - 1) : s[j] \in S => \E i \in DOMAIN old : old[i] = s[j]
        /\ Once(s) => Once(old)
    BY <1>6
  <2>4. \A j \in 1..k : j \in 1..(k - 1) \/ j = k
    BY <2>1
  <2>5. \A j \in 1..(k - 1) : j \in 1..k /\ j # k
    BY <2>1
  <2>9. \A j \in 1..k : j \in DOMAIN s
    BY <1>3, <2>1
  <2> HIDE DEF old, new, Good, Bad
  <2>6. /\ new \in Seq(T)
        /\ \A i \in DOMAIN new : new[i] \in S /\ \E j \in 1..k : s[j] = new[i]
        /\ \A j \in 1..k : s[j] \in S => \E i \in DOMAIN new : new[i] = s[j]
        /\ Once(s) => Once(new)
    <3>1. CASE s[k] \notin S
      BY <2>2, <2>3, <2>4, <2>5, <3>1
    <3>2. CASE s[k] \in S
      <4>0. new = Append(old, s[k]) /\ s[k] \in T
        BY <1>3, <2>2, <3>2
      <4>1. /\ new \in Seq(T) /\ Len(new) = Len(old) + 1 /\ Len(old) \in Nat
            /\ new[Len(old) + 1] = s[k] /\ \A i \in 1..Len(old) : new[i] = old[i]
        BY <2>3, <4>0, AppendProperties
      <4>2. DOMAIN old = 1..Len(old) /\ DOMAIN new = 1..(Len(old) + 1)
        BY <2>3, <4>1, LenProperties
      <4>3. \A i \in DOMAIN new : i \in DOMAIN old \/ i = Len(old) + 1
        BY <4>1, <4>2
      <4>4. \A i \in DOMAIN old : i \in DOMAIN new /\ new[i] = old[i] /\ i # Len(old) + 1
        BY <4>1, <4>2
      <4>5. Len(old) + 1 \in DOMAIN new
        BY <4>1, <4>2
      <4>6. ASSUME NEW i \in DOMAIN new PROVE new[i] \in S /\ \E j \in 1..k : s[j] = new[i]
        <5>1. CASE i \in DOMAIN old
          BY <2>3, <2>5, <4>4, <5>1
        <5>2. CASE i = Len(old) + 1
          <6>1. k \in 1..k
            BY <2>1
          <6> QED
            BY <3>2, <4>1, <5>2, <6>1
        <5> QED
          BY <4>3, <5>1, <5>2
      <4>7. ASSUME NEW j \in 1..k, s[j] \in S PROVE \E i \in DOMAIN new : new[i] = s[j]
        <5>1. CASE j \in 1..(k - 1)
          BY <2>3, <4>4, <4>7, <5>1
        <5>2. CASE j = k
          BY <4>1, <4>5, <5>2
        <5> QED
          BY <2>4, <5>1, <5>2
      <4>8. ASSUME Once(s), NEW i \in DOMAIN new, NEW h \in DOMAIN new, new[i] = new[h] PROVE i = h
        <5>1. \A x \in DOMAIN old : old[x] # s[k]
          <6>1. ASSUME NEW x \in DOMAIN old, old[x] = s[k] PROVE FALSE
            <7>1. PICK j \in 1..(k - 1) : s[j] = old[x]
              BY <2>3
            <7>2. j \in DOMAIN s /\ k \in DOMAIN s /\ j # k
              BY <1>3, <2>5, <2>9
            <7> QED
              BY <4>8, <6>1, <7>1, <7>2 DEF Once
          <6> QED
            BY <6>1
        <5>2. Once(old)
          BY <2>3, <4>8
        <5>3. CASE i \in DOMAIN old /\ h \in DOMAIN old
          BY <4>4, <4>8, <5>2, <5>3 DEF Once
        <5>4. CASE i \in DOMAIN old /\ h = Len(old) + 1
          BY <4>1, <4>4, <4>8, <5>1, <5>4
        <5>5. CASE i = Len(old) + 1 /\ h \in DOMAIN old
          BY <4>1, <4>4, <4>8, <5>1, <5>5
        <5> QED
          BY <4>3, <5>3, <5>4, <5>5
      <4> QED
        BY <4>1, <4>6, <4>7, <4>8 DEF Once
    <3> QED
      BY <3>1, <3>2
  <2> QED
    BY <2>6 DEF Good, new
<1>7. Good(Len(s))
  <2> HIDE DEF Good
  <2>1. CASE Bad = {}
    BY <1>3, <2>1
  <2>2. CASE Bad # {}
    <3>0. Bad \subseteq Nat
      BY <1>3
    <3>1. PICK m \in Bad : \A k \in Bad : m <= k
      BY <2>2, <3>0, LeastNumber
    <3>2. m # 0 /\ m \in 0..Len(s)
      BY <1>5, <3>1
    <3>3. m \in 1..Len(s) /\ m - 1 \in 0..Len(s) /\ ~(m <= m - 1)
      BY <1>3, <3>2
    <3>4. Good(m - 1)
      BY <3>1, <3>3
    <3> QED
      BY <1>6, <3>1, <3>3, <3>4
  <2> QED
    BY <2>1, <2>2
<1> QED
  BY <1>2, <1>3, <1>7

-----------------------------------------------------------------------------
(***************************************************************************)
(* The types of OffersPage.  That the list shows every offer once is what  *)
(* sorting has to keep: it takes the offers still open out of one list and *)
(* the others out of another.                                              *)
(***************************************************************************)
IsListing(s) ==
  s \in Seq(OfferIds) /\ Len(s) = Cardinality(OfferIds) /\ {s[i] : i \in DOMAIN s} = OfferIds

\* As long as there are offers, a sequence of all of them names each once.
LEMMA AllOnce ==
  ASSUME OffersAssumption, NEW s \in Seq(OfferIds), DOMAIN s = 1..Cardinality(OfferIds),
         {s[i] : i \in DOMAIN s} = OfferIds
  PROVE  Once(s)
<1> DEFINE n == Cardinality(OfferIds)
<1>1. IsFiniteSet(OfferIds) /\ n \in Nat
  BY FS_CardinalityType DEF OffersAssumption
<1> HIDE DEF n
<1>2. IsFiniteSet(1..n) /\ Cardinality(1..n) = n
  BY <1>1, FS_Interval
<1>3. s \in [1..n -> OfferIds]
  BY LenProperties DEF n
<1>4. s \in Surjection(1..n, OfferIds)
  BY <1>3 DEF Surjection, n
<1>5. s \in Injection(1..n, OfferIds)
  BY <1>2, <1>4, FS_SurjSameCardinalityImpliesInj DEF n
<1> QED
  BY <1>3, <1>5 DEF Injection, IsInjective, Once

\* And the other way round.
LEMMA OnceAll ==
  ASSUME OffersAssumption, NEW s \in Seq(OfferIds), Once(s), \A o \in OfferIds : \E i \in DOMAIN s : s[i] = o
  PROVE  IsListing(s)
<1> DEFINE n == Len(s)
<1>1. n \in Nat /\ DOMAIN s = 1..n /\ s \in [1..n -> OfferIds]
  BY LenProperties
<1>5. {s[i] : i \in DOMAIN s} = OfferIds
  BY <1>1
<1> HIDE DEF n
<1>2. IsFiniteSet(1..n) /\ Cardinality(1..n) = n
  BY <1>1, FS_Interval
<1>3. s \in Bijection(1..n, OfferIds)
  BY <1>1 DEF Bijection, Injection, Surjection, IsInjective, Once
<1>4. Cardinality(OfferIds) = n
  BY <1>2, <1>3, FS_Bijection DEF ExistsBijection
<1> QED
  BY <1>4, <1>5 DEF IsListing, n

LEMMA UnorderedIsAListing ==
  ASSUME OffersAssumption
  PROVE  IsListing(Unordered)
<1> DEFINE n == Cardinality(OfferIds)
<1>1. n \in Nat /\ ExistsBijection(1..n, OfferIds)
  BY FS_CardinalityType DEF OffersAssumption
<1> HIDE DEF n
<1>2. PICK g \in [1..n -> OfferIds] : \A o \in OfferIds : \E i \in 1..n : g[i] = o
  BY <1>1 DEF ExistsBijection, Bijection, Surjection
<1>3. {g[i] : i \in DOMAIN g} = OfferIds
  BY <1>2
<1>4. Unordered \in [1..n -> OfferIds] /\ {Unordered[i] : i \in DOMAIN Unordered} = OfferIds
  BY <1>2, <1>3 DEF Unordered, n
<1>5. Unordered \in Seq(OfferIds) /\ Len(Unordered) = n
  BY <1>1, <1>4
<1> QED
  BY <1>4, <1>5 DEF IsListing, n

LEMMA SortingKeepsAll ==
  ASSUME OffersAssumption, IsListing(order), NEW ranked \in [DOMAIN order -> OfferIds],
         {ranked[i] : i \in DOMAIN ranked} = OfferIds
  PROVE  IsListing(SortedOffers(ranked))
<1> DEFINE top == Filtered(ranked, ActiveOffers)
           rest == Filtered(order, OfferIds \ ActiveOffers)
           n == Cardinality(OfferIds)
<1>1. n \in Nat /\ order \in Seq(OfferIds) /\ DOMAIN order = 1..n
      /\ {order[i] : i \in DOMAIN order} = OfferIds
  BY FS_CardinalityType, LenProperties DEF OffersAssumption, IsListing
<1> HIDE DEF n
<1>2. ranked \in Seq(OfferIds) /\ DOMAIN ranked = 1..n
  <2>1. ranked \in [1..n -> OfferIds]
    BY <1>1
  <2>2. n \in Nat
    BY <1>1
  <2> QED
    BY <2>1, <2>2
<1>3. Once(ranked) /\ Once(order)
  BY <1>1, <1>2, AllOnce DEF n
<1>4. /\ top \in Seq(OfferIds) /\ Once(top)
      /\ \A i \in DOMAIN top : top[i] \in ActiveOffers
      /\ \A j \in DOMAIN ranked : ranked[j] \in ActiveOffers => \E i \in DOMAIN top : top[i] = ranked[j]
  <2> HIDE DEF top
  <2>1. Filtered(ranked, ActiveOffers) = top
    BY DEF top
  <2>2. ranked \in Seq(OfferIds)
    BY <1>2
  <2> QED
    BY ONLY <1>3, <2>1, <2>2, FilteredIs
<1>5. /\ rest \in Seq(OfferIds) /\ Once(rest)
      /\ \A i \in DOMAIN rest : rest[i] \in OfferIds \ ActiveOffers
      /\ \A j \in DOMAIN order :
           order[j] \in OfferIds \ ActiveOffers => \E i \in DOMAIN rest : rest[i] = order[j]
  <2> HIDE DEF rest
  <2>1. Filtered(order, OfferIds \ ActiveOffers) = rest
    BY DEF rest
  <2>2. order \in Seq(OfferIds)
    BY <1>1
  <2> QED
    BY ONLY <1>3, <2>1, <2>2, FilteredIs
<1>6. SortedOffers(ranked) = top \o rest
  BY DEF SortedOffers
<1> HIDE DEF top, rest
<1> DEFINE all == top \o rest
<1>7. /\ all \in Seq(OfferIds) /\ Len(all) = Len(top) + Len(rest)
      /\ \A i \in 1..(Len(top) + Len(rest)) :
           all[i] = IF i <= Len(top) THEN top[i] ELSE rest[i - Len(top)]
  BY <1>4, <1>5, ConcatProperties
<1>8. /\ Len(top) \in Nat /\ DOMAIN top = 1..Len(top)
      /\ Len(rest) \in Nat /\ DOMAIN rest = 1..Len(rest)
      /\ DOMAIN all = 1..(Len(top) + Len(rest))
  BY <1>4, <1>5, <1>7, LenProperties
<1> HIDE DEF all
<1>9. ASSUME NEW o \in OfferIds PROVE \E i \in DOMAIN all : all[i] = o
  <2>1. CASE o \in ActiveOffers
    <3>1. PICK j \in DOMAIN ranked : ranked[j] = o
      OBVIOUS
    <3>2. PICK i \in DOMAIN top : top[i] = o
      BY <1>4, <2>1, <3>1
    <3>3. i \in DOMAIN all /\ i <= Len(top)
      BY <1>8, <3>2
    <3> QED
      BY <1>7, <1>8, <3>2, <3>3
  <2>2. CASE o \notin ActiveOffers
    <3>1. PICK j \in DOMAIN order : order[j] = o
      BY <1>1
    <3>2. PICK i \in DOMAIN rest : rest[i] = o
      BY <1>5, <2>2, <3>1
    <3>3. i + Len(top) \in DOMAIN all /\ ~(i + Len(top) <= Len(top)) /\ (i + Len(top)) - Len(top) = i
      BY <1>8, <3>2
    <3> QED
      BY <1>7, <1>8, <3>2, <3>3
  <2> QED
    BY <2>1, <2>2
<1>10. ASSUME NEW i \in DOMAIN all, NEW j \in DOMAIN all, all[i] = all[j] PROVE i = j
  <2>1. CASE i <= Len(top) /\ j <= Len(top)
    <3>1. i \in DOMAIN top /\ j \in DOMAIN top /\ top[i] = top[j]
      BY <1>7, <1>8, <1>10, <2>1
    <3> QED
      BY <1>4, <3>1 DEF Once
  <2>2. CASE ~(i <= Len(top)) /\ ~(j <= Len(top))
    <3>1. i - Len(top) \in DOMAIN rest /\ j - Len(top) \in DOMAIN rest
      BY <1>8, <2>2
    <3>2. rest[i - Len(top)] = rest[j - Len(top)]
      BY <1>7, <1>8, <1>10, <2>2
    <3>3. i - Len(top) = j - Len(top)
      BY <1>5, <3>1, <3>2 DEF Once
    <3> QED
      BY <1>8, <3>3
  <2>3. ASSUME NEW k \in DOMAIN all, NEW h \in DOMAIN all, k <= Len(top), ~(h <= Len(top))
        PROVE  all[k] # all[h]
    <3>1. k \in DOMAIN top /\ h - Len(top) \in DOMAIN rest
      BY <1>8, <2>3
    <3>2. all[k] = top[k] /\ all[h] = rest[h - Len(top)]
      BY <1>7, <1>8, <2>3
    <3>3. all[k] \in ActiveOffers /\ all[h] \notin ActiveOffers
      BY <1>4, <1>5, <3>1, <3>2
    <3> QED
      BY <3>3
  <2> QED
    BY <1>10, <2>1, <2>2, <2>3
<1>11. Once(all)
  BY <1>10 DEF Once
<1>12. IsListing(all)
  BY <1>7, <1>9, <1>11, OnceAll
<1> QED
  BY <1>6, <1>12 DEF all

OffersRest ==
  /\ offers \in [OfferIds -> [Sides -> Contents]]
  /\ read \in [offers : {"page", "asked", "done", "failed"}, floats : {"no", "asked", "done"}]
  /\ DOMAIN priced \subseteq Tiles /\ DOMAIN floats \subseteq Tiles
  /\ requests \in [OfferIds -> [Deals -> 0..MaxRequests]]
  /\ IsListing(order)

LEMMA OffersRestBegins == OffersAssumption /\ OffersInit => OffersRest
<1> SUFFICES ASSUME OffersAssumption, OffersInit PROVE OffersRest
  OBVIOUS
<1>1. <<>> \in Contents
  <2>1. <<>> \in [1..0 -> Kinds]
    OBVIOUS
  <2>2. 0 \in 0..MaxItems
    BY DEF OffersAssumption
  <2> QED
    BY <2>1, <2>2 DEF Contents
<1>2. offers \in [OfferIds -> [Sides -> Contents]]
  BY <1>1 DEF OffersInit, NotLoaded
<1>3. DOMAIN priced \subseteq Tiles /\ DOMAIN floats \subseteq Tiles
  BY DEF OffersInit
<1>4. requests \in [OfferIds -> [Deals -> 0..MaxRequests]]
  BY DEF OffersInit, Deals, OffersAssumption
<1>5. IsListing(order)
  BY UnorderedIsAListing DEF OffersInit
<1>6. read \in [offers : {"page", "asked", "done", "failed"}, floats : {"no", "asked", "done"}]
  BY DEF OffersInit
<1> QED
  BY <1>2, <1>3, <1>4, <1>5, <1>6 DEF OffersRest

\* The floats are put where the answer's items lie.
LEMMA FloatsLieOnTiles ==
  ASSUME OffersAssumption, offers \in [OfferIds -> [Sides -> Contents]], FloatsRead
  PROVE  DOMAIN floats' \subseteq Tiles
<1>1. PICK known \in SUBSET {item \in OfferedItems : item.side = "your" /\ item.kind = "skin"} :
        floats' = [t \in {[offer |-> i.offer, side |-> "your", at |-> i.position] : i \in known} |->
                     TileOf(CHOOSE i \in known : i.offer = t.offer /\ i.position = t.at)]
  BY DEF FloatsRead
<1>2. ASSUME NEW k \in known PROVE [offer |-> k.offer, side |-> "your", at |-> k.position] \in Tiles
  <2>1. PICK o \in OfferIds, s \in Sides : k \in RowsOfSide(o, s)
    BY <1>1, <1>2 DEF OfferedItems
  <2>2. PICK i \in DOMAIN offers[o][s] :
          k = [offer |-> o, side |-> s, kind |-> offers[o][s][i], position |-> i, row |-> i]
    BY <2>1 DEF RowsOfSide
  <2>3. offers[o][s] \in Contents
    OBVIOUS
  <2>4. PICK n \in 0..MaxItems : offers[o][s] \in [1..n -> Kinds]
    BY <2>3 DEF Contents
  <2>5. i \in 1..MaxItems
    BY <2>2, <2>4 DEF OffersAssumption
  <2> QED
    BY <2>2, <2>5 DEF Tiles, Sides
<1>3. \A t \in DOMAIN floats' : \E k \in known : t = [offer |-> k.offer, side |-> "your", at |-> k.position]
  BY <1>1
<1> QED
  BY <1>2, <1>3

LEMMA OffersRestStep ==
  ASSUME OffersAssumption, OffersRest, [OffersNext]_offersVars
  PROVE  OffersRest'
<1>0. ASSUME UNCHANGED <<offers, read, marks, order>>,
             requests' \in [OfferIds -> [Deals -> 0..MaxRequests]]
      PROVE  OffersRest'
  BY <1>0 DEF OffersRest, marks, IsListing
<1>1. CASE PageLoads
  <2>1. read' = [read EXCEPT !.offers = "asked"] /\ offers' \in [OfferIds -> [Sides -> Contents]]
    BY <1>1 DEF PageLoads
  <2>2. UNCHANGED <<priced, floats, requests, order>>
    BY <1>1 DEF PageLoads, marks, deals
  <2> QED
    BY <2>1, <2>2 DEF OffersRest, IsListing
<1>2. CASE OffersRead
  <2>1. read' = [offers |-> "done", floats |-> "asked"] /\ DOMAIN priced' \subseteq Tiles
    BY <1>2 DEF OffersRead, ActiveTiles
  <2>2. UNCHANGED <<offers, floats, requests, order>>
    BY <1>2 DEF OffersRead, deals
  <2> QED
    BY <2>1, <2>2 DEF OffersRest, IsListing
<1>3. CASE OffersReadFails
  <2>1. read' = [read EXCEPT !.offers = "failed"]
    BY <1>3 DEF OffersReadFails
  <2>2. UNCHANGED <<offers, priced, floats, requests, order>>
    BY <1>3 DEF OffersReadFails, marks, deals
  <2> QED
    BY <2>1, <2>2 DEF OffersRest, IsListing
<1>4. CASE FloatsRead
  <2>1. read' = [read EXCEPT !.floats = "done"]
    BY <1>4 DEF FloatsRead
  <2>2. DOMAIN floats' \subseteq Tiles
    BY <1>4, FloatsLieOnTiles DEF OffersRest
  <2>3. UNCHANGED <<offers, priced, requests, order>>
    BY <1>4 DEF FloatsRead, deals
  <2> QED
    BY <2>1, <2>2, <2>3 DEF OffersRest, IsListing
<1>5. CASE SortOffers
  <2>1. PICK ranked \in [DOMAIN order -> OfferIds] :
          {ranked[i] : i \in DOMAIN ranked} = OfferIds /\ order' = SortedOffers(ranked)
    BY <1>5 DEF SortOffers
  <2>2. IsListing(order) /\ IsListing(SortedOffers(ranked))
    BY <2>1, SortingKeepsAll DEF OffersRest
  <2>3. IsListing(order)'
    BY <2>1, <2>2 DEF IsListing
  <2>4. UNCHANGED <<offers, read, priced, floats, requests>>
    BY <1>5 DEF SortOffers, marks, deals
  <2> QED
    BY <2>3, <2>4 DEF OffersRest
<1>6. ASSUME NEW o \in OfferIds, NEW w \in Deals, Click(o, w) PROVE OffersRest'
  <2>1. requests[o] \in [Deals -> 0..MaxRequests] /\ requests[o][w] < MaxRequests
    BY <1>6 DEF Click, OffersRest
  <2>2. requests[o][w] + 1 \in 0..MaxRequests
    BY <2>1 DEF OffersAssumption
  <2>3. requests' = [requests EXCEPT ![o][w] = requests[o][w] + 1]
    BY <1>6 DEF Click
  <2>4. requests' \in [OfferIds -> [Deals -> 0..MaxRequests]]
    BY <2>1, <2>2, <2>3 DEF OffersRest
  <2> QED
    BY <1>0, <1>6, <2>4 DEF Click
<1>7. ASSUME NEW o \in OfferIds, NEW w \in Deals, SteamDecides(o, w) PROVE OffersRest'
  <2>1. requests[o] \in [Deals -> 0..MaxRequests] /\ requests[o][w] > 0
    BY <1>7 DEF SteamDecides, OffersRest
  <2>2. requests[o][w] - 1 \in 0..MaxRequests
    BY <2>1 DEF OffersAssumption
  <2>3. requests' = [requests EXCEPT ![o][w] = requests[o][w] - 1]
    BY <1>7 DEF SteamDecides
  <2>4. requests' \in [OfferIds -> [Deals -> 0..MaxRequests]]
    BY <2>1, <2>2, <2>3 DEF OffersRest
  <2> QED
    BY <1>0, <1>7, <2>4 DEF SteamDecides
<1>8. ASSUME NEW o \in OfferIds, NEW w \in Deals, Answered(o, w) PROVE OffersRest'
  BY <1>0, <1>8 DEF Answered, OffersRest
<1>9. CASE UNCHANGED offersVars
  BY <1>0, <1>9 DEF offersVars, marks, OffersRest
<1> QED
  BY <1>1, <1>2, <1>3, <1>4, <1>5, <1>6, <1>7, <1>8, <1>9 DEF OffersNext, Deals

\* Every variable of the list of offers keeps its type; the list shows every offer, and once,
\* however often it is sorted: for any number of offers, of items and of requests.
THEOREM OffersKeepTypes == OffersSpec => []OffersTypeOK
<1>1. OffersInit => OffersInductive /\ OffersRest
  BY OffersBegin, OffersRestBegins, OffersAssumption
<1>2. OffersInductive /\ OffersRest /\ [OffersNext]_offersVars => (OffersInductive /\ OffersRest)'
  BY OffersStep, OffersRestStep, OffersAssumption
<1>3. OffersInductive /\ OffersRest => OffersTypeOK
  <2> SUFFICES ASSUME OffersShapes, OffersRest PROVE OffersTypeOK
    BY DEF OffersInductive
  <2>1. \A o \in OfferIds, w \in {"accept", "decline"} :
          requests[o][w] \in 0..MaxRequests /\ answers[o][w] \subseteq BOOLEAN
    BY DEF OffersShapes, OffersRest, Deals
  <2> QED
    BY <2>1 DEF OffersShapes, OffersRest, IsListing, Ends, OffersTypeOK
<1> QED
  BY <1>1, <1>2, <1>3, PTL DEF OffersSpec

-----------------------------------------------------------------------------
(***************************************************************************)
(* The types of TradeOfferTags, which are inductive by themselves.         *)
(***************************************************************************)
Currencies == 0..MaxCurrencies
TagEntries == [currency : Currencies, float : {"none", "page", "answer"}]
TagLabels == [currency : Currencies, floatOf : OfferItems \cup {NoItem}]

\* entries is what is known of some items, labels are on elements of the page.
AreEntries(known) ==
  DOMAIN known \subseteq OfferItems /\ \A a \in DOMAIN known : known[a] \in TagEntries
AreLabels(tags) == DOMAIN tags \subseteq present /\ \A a \in DOMAIN tags : tags[a] \in TagLabels

LEMMA TagTypes ==
  TagsTypeOK <=>
    /\ present \subseteq OfferItems /\ AreEntries(entries) /\ AreLabels(labels)
    /\ totals.sign \in Currencies /\ totals.summed \subseteq Currencies
    /\ enrich \in [at : {"waiting", "own", "partner", "over"}, fresh : BOOLEAN]
    /\ engine \in Currencies /\ chosen \in Currencies /\ reads \in 0..MaxReads
BY DEF TagsTypeOK, AreEntries, AreLabels, TagEntries, TagLabels, Currencies

\* The tags made of entries are tags.
LEMMA TagsAreLabels ==
  ASSUME NEW known, AreEntries(known), NEW currency \in Currencies, NEW old, AreLabels(old),
         NEW tags \in Labelled(known, currency, old)
  PROVE  AreLabels(tags)
<1>1. PICK those \in Untagged(known, old) : tags \in {TagsAs(as, known, currency, old) : as \in LookedUp(those, known)}
  BY DEF Labelled
<1>2. PICK as \in LookedUp(those, known) : tags = TagsAs(as, known, currency, old)
  BY <1>1
<1>3. those \subseteq present
  BY DEF Untagged
<1>4. /\ as \in [those -> OfferItems \cup {NoItem}]
      /\ \A a \in those : as[a] \in Lookups(a, known) \/ as[a] = NoItem
  BY DEF LookedUp
<1>5. ASSUME NEW a \in those PROVE LabelFrom(as[a], known, currency) \in TagLabels
  <2>1. CASE as[a] = NoItem
    BY <2>1 DEF LabelFrom, TagLabels
  <2>2. CASE as[a] # NoItem
    <3>1. as[a] \in DOMAIN known /\ as[a] \in OfferItems
      BY <1>4, <2>2 DEF Lookups, AreEntries
    <3>2. known[as[a]].currency \in Currencies
      BY <3>1 DEF AreEntries, TagEntries
    <3> QED
      BY <2>2, <3>1, <3>2 DEF LabelFrom, TagLabels
  <2> QED
    BY <2>1, <2>2
<1>6. /\ DOMAIN tags = DOMAIN old \cup those
      /\ \A a \in DOMAIN tags :
           tags[a] = IF a \in DOMAIN old THEN old[a] ELSE LabelFrom(as[a], known, currency)
  BY <1>2, <1>4 DEF TagsAs
<1> QED
  BY <1>3, <1>5, <1>6 DEF AreLabels

LEMMA NoLabels == AreLabels(<<>>)
BY DEF AreLabels

LEMMA TotalsAreTyped ==
  ASSUME NEW those, NEW known, AreEntries(known), NEW sign \in Currencies
  PROVE  /\ TotalsOf(those, known, sign).sign \in Currencies
         /\ TotalsOf(those, known, sign).summed \subseteq Currencies
<1>1. \A a \in DOMAIN known : known[a].currency \in Currencies
  BY DEF AreEntries, TagEntries
<1> QED
  BY <1>1 DEF TotalsOf

LEMMA MergedAreEntries ==
  ASSUME AreEntries(entries), NEW those
  PROVE  AreEntries(Merged(those))
<1>1. ASSUME NEW a \in DOMAIN entries PROVE Merged(those)[a] \in TagEntries
  <2>1. entries[a] \in TagEntries
    BY DEF AreEntries
  <2>2. [entries[a] EXCEPT !.float = "answer"] \in TagEntries
    BY <2>1 DEF TagEntries
  <2> QED
    BY <2>1, <2>2 DEF Merged
<1>2. DOMAIN Merged(those) = DOMAIN entries
  BY DEF Merged
<1> QED
  BY <1>1, <1>2 DEF AreEntries

LEMMA ReadAreEntries ==
  ASSUME AreEntries(entries), engine \in Currencies, NEW those \in SUBSET OfferItems, NEW found
  PROVE  AreEntries(WithRead(those, found))
<1>1. [currency |-> engine, float |-> "page"] \in TagEntries
      /\ [currency |-> engine, float |-> "none"] \in TagEntries
  BY DEF TagEntries
<1>2. DOMAIN WithRead(those, found) = DOMAIN entries \cup those
  BY DEF WithRead
<1>3. ASSUME NEW a \in DOMAIN entries \cup those PROVE WithRead(those, found)[a] \in TagEntries
  BY <1>1 DEF WithRead, AreEntries
<1> QED
  BY <1>2, <1>3 DEF AreEntries

LEMMA TagTypesStep ==
  ASSUME TagsAssumption, TagsTypeOK, [TagsNext]_tagsVars
  PROVE  TagsTypeOK'
<1> DEFINE Bounds == /\ totals.sign \in Currencies /\ totals.summed \subseteq Currencies
                     /\ enrich \in [at : {"waiting", "own", "partner", "over"}, fresh : BOOLEAN]
                     /\ engine \in Currencies /\ chosen \in Currencies /\ reads \in 0..MaxReads
<1>0. present \subseteq OfferItems /\ AreEntries(entries) /\ AreLabels(labels) /\ Bounds
  BY TagTypes
<1>00. MaxCurrencies \in Nat /\ MaxReads \in Nat
  BY DEF TagsAssumption
<1>1. ASSUME present' \subseteq OfferItems, AreEntries(entries'), AreLabels(labels)', Bounds'
      PROVE  TagsTypeOK'
  BY <1>1 DEF TagsTypeOK, AreEntries, AreLabels, TagEntries, TagLabels, Currencies
<1>2. ASSUME present' = present, NEW tags, labels' = tags, AreLabels(tags) PROVE AreLabels(labels)'
  BY <1>2 DEF AreLabels
<1>3. CASE SteamRenders
  <2>1. present' \subseteq OfferItems /\ labels' = [a \in DOMAIN labels \cap present' |-> labels[a]]
    BY <1>3 DEF SteamRenders
  <2>2. AreLabels(labels)'
    BY <1>0, <2>1 DEF AreLabels
  <2> QED
    BY <1>0, <1>1, <1>3, <2>1, <2>2 DEF SteamRenders
<1>4. CASE Reprocess
  <2>1. labels' \in Labelled(entries, engine, labels)
    BY <1>4 DEF Reprocess
  <2>2. AreLabels(labels')
    BY <1>0, <2>1, TagsAreLabels
  <2>3. UNCHANGED <<present, entries, totals, enrich, engine, chosen, reads>>
    BY <1>4 DEF Reprocess
  <2> QED
    BY <1>0, <1>1, <1>2, <2>2, <2>3
<1>5. CASE ReadInventories
  <2>1. PICK those \in {OfferItems, OwnItems, PartnerItems, {}} : \E found \in SUBSET OfferItems :
          entries' = WithRead(those, found) /\ labels' \in Labelled(WithRead(those, found), engine, labels)
    BY <1>5 DEF ReadInventories
  <2>2. PICK found \in SUBSET OfferItems :
          entries' = WithRead(those, found) /\ labels' \in Labelled(WithRead(those, found), engine, labels)
    BY <2>1
  <2>3. those \in SUBSET OfferItems
    BY <2>1 DEF OfferItems
  <2>4. AreEntries(WithRead(those, found)) /\ AreEntries(entries')
    BY <1>0, <2>2, <2>3, ReadAreEntries
  <2>5. AreLabels(labels')
    BY <1>0, <2>2, <2>4, TagsAreLabels
  <2>6. totals'.sign \in Currencies /\ totals'.summed \subseteq Currencies
    BY <1>0, <1>5, <2>4, TotalsAreTyped DEF ReadInventories
  <2>7. reads' \in 0..MaxReads
    BY <1>0, <1>00, <1>5 DEF ReadInventories
  <2>8. UNCHANGED <<present, enrich, engine, chosen>>
    BY <1>5 DEF ReadInventories
  <2> QED
    BY <1>0, <1>1, <1>2, <2>4, <2>5, <2>6, <2>7, <2>8
<1>6. CASE Tick
  <2>1. totals'.sign \in Currencies /\ totals'.summed \subseteq Currencies
    BY <1>0, <1>6, TotalsAreTyped DEF Tick
  <2>2. UNCHANGED <<present, entries, labels, enrich, engine, chosen, reads>>
    BY <1>6 DEF Tick
  <2> QED
    BY <1>0, <1>1, <1>2, <2>1, <2>2
<1>7. CASE EnrichStarts
  <2>1. enrich' \in [at : {"waiting", "own", "partner", "over"}, fresh : BOOLEAN]
    BY <1>0, <1>7 DEF EnrichStarts
  <2>2. UNCHANGED <<present, entries, labels, totals, engine, chosen, reads>>
    BY <1>7 DEF EnrichStarts
  <2> QED
    BY <1>0, <1>1, <1>2, <2>1, <2>2
<1>8. CASE OwnAnswer
  <2>1. PICK those \in SUBSET OwnItems :
          entries' = Merged(those) /\ enrich' = [at |-> "partner", fresh |-> FoundNew(those)]
    BY <1>8 DEF OwnAnswer
  <2>2. FoundNew(those) \in BOOLEAN
    BY <1>0 DEF FoundNew
  <2>3. AreEntries(entries')
    BY <1>0, <2>1, MergedAreEntries
  <2>4. UNCHANGED <<present, labels, totals, engine, chosen, reads>>
    BY <1>8 DEF OwnAnswer
  <2> QED
    BY <1>0, <1>1, <1>2, <2>1, <2>2, <2>3, <2>4
<1>9. CASE PartnerAnswer
  <2>1. PICK those \in SUBSET PartnerItems :
          /\ entries' = Merged(those)
          /\ enrich' = [at |-> "over", fresh |-> FoundNew(those)]
          /\ labels' \in IF FoundNew(those) THEN Labelled(Merged(those), engine, <<>>) ELSE {labels}
    BY <1>9 DEF PartnerAnswer
  <2>2. FoundNew(those) \in BOOLEAN
    BY <1>0 DEF FoundNew
  <2>3. AreEntries(Merged(those)) /\ AreEntries(entries')
    BY <1>0, <2>1, MergedAreEntries
  <2>4. AreLabels(labels')
    <3>1. CASE labels' \in Labelled(Merged(those), engine, <<>>)
      BY <1>0, <2>3, <3>1, NoLabels, TagsAreLabels
    <3>2. CASE labels' = labels
      BY <1>0, <3>2
    <3> QED
      BY <2>1, <3>1, <3>2
  <2>5. UNCHANGED <<present, totals, engine, chosen, reads>>
    BY <1>9 DEF PartnerAnswer
  <2> QED
    BY <1>0, <1>1, <1>2, <2>1, <2>2, <2>3, <2>4, <2>5
<1>10. CASE ChooseCurrency
  <2>1. chosen' \in Currencies
    BY <1>0, <1>00, <1>10 DEF ChooseCurrency, Currencies
  <2>2. UNCHANGED <<present, entries, labels, totals, enrich, engine, reads>>
    BY <1>10 DEF ChooseCurrency
  <2> QED
    BY <1>0, <1>1, <1>2, <2>1, <2>2
<1>11. CASE SettingsShown
  <2>1. labels' \in Labelled(entries, chosen, <<>>)
    BY <1>11 DEF SettingsShown
  <2>2. AreLabels(labels')
    BY <1>0, <2>1, NoLabels, TagsAreLabels
  <2>3. totals'.sign \in Currencies /\ totals'.summed \subseteq Currencies
    BY <1>0, <1>11, TotalsAreTyped DEF SettingsShown
  <2>4. engine' = chosen /\ UNCHANGED <<present, entries, enrich, chosen, reads>>
    BY <1>11 DEF SettingsShown
  <2> QED
    BY <1>0, <1>1, <1>2, <2>2, <2>3, <2>4
<1>12. CASE UNCHANGED tagsVars
  BY <1>0, <1>1, <1>2, <1>12 DEF tagsVars
<1> QED
  BY <1>3, <1>4, <1>5, <1>6, <1>7, <1>8, <1>9, <1>10, <1>11, <1>12 DEF TagsNext

\* Every variable of the tags keeps its type: for any items, reads and changes of the currency.
THEOREM TagsKeepTypes == TagsSpec => []TagsTypeOK
<1>1. ASSUME TagsInit PROVE TagsTypeOK
  <2>1. 0 \in Currencies /\ 0 \in 0..MaxReads
    BY TagsAssumption DEF TagsAssumption, Currencies
  <2>2. AreEntries(entries) /\ AreLabels(labels)
    BY <1>1 DEF TagsInit, AreEntries, AreLabels
  <2>3. totals = [sign |-> 0, summed |-> {}] /\ enrich = [at |-> "waiting", fresh |-> FALSE]
        /\ present = {} /\ engine = 0 /\ chosen = 0 /\ reads = 0
    BY <1>1 DEF TagsInit
  <2> QED
    BY <2>1, <2>2, <2>3, TagTypes
<1>2. TagsTypeOK /\ [TagsNext]_tagsVars => TagsTypeOK'
  BY TagTypesStep, TagsAssumption
<1> QED
  BY <1>1, <1>2, PTL DEF TagsSpec

-----------------------------------------------------------------------------
(***************************************************************************)
(* The types of InventoryPage, which are inductive by themselves: what the *)
(* list and the tiles hold is always something the page has loaded.        *)
(***************************************************************************)
Extractors == [at : {"polling", "hooked", "stopped"}, last : 0..Cardinality(Stock), again : BOOLEAN]
TilesOf(t, list) ==
  t.there \subseteq list /\ t.tagged \subseteq t.there /\ t.retry \in BOOLEAN
  /\ t = [there |-> t.there, tagged |-> t.tagged, retry |-> t.retry]
SortingOf(s) ==
  s.asked \in BOOLEAN /\ s.of \subseteq Stock /\ s = [asked |-> s.asked, of |-> s.of]

InventoryShapes ==
  /\ loaded \subseteq Stock /\ items \subseteq loaded
  /\ contexts \in [Contexts -> {"page", "asked", "full"}]
  /\ allLoaded \in BOOLEAN /\ loading \in BOOLEAN /\ rechecks \in 0..MaxRechecks
  /\ extractor \in Extractors
  /\ \A r \in sent : r \subseteq loaded
  /\ TilesOf(tiles, loaded) /\ SortingOf(sorting)
  /\ tabs \in [clicks : 0..MaxTabs, due : BOOLEAN]

LEMMA InventoryShapesAreTypes == InventoryShapes => InventoryTypeOK
BY DEF InventoryShapes, InventoryTypeOK, Extractors, TilesOf, SortingOf

LEMMA CountOfStock ==
  ASSUME InventoryAssumption, NEW S \in SUBSET Stock
  PROVE  Cardinality(S) \in 0..Cardinality(Stock)
<1>1. IsFiniteSet(Stock) /\ IsFiniteSet(S) /\ Cardinality(S) <= Cardinality(Stock)
  BY FS_Subset DEF InventoryAssumption
<1>2. Cardinality(S) \in Nat /\ Cardinality(Stock) \in Nat
  BY <1>1, FS_CardinalityType
<1> QED
  BY <1>1, <1>2

LEMMA TaggedAreTiles ==
  ASSUME NEW seen, TilesOf(tiles, seen), NEW list, NEW old, old \subseteq tiles.there
  PROVE  TilesOf(Tagged(list, old), seen) /\ Tagged(list, old).there = tiles.there
<1> DEFINE new == Tagged(list, old)
<1>1. /\ new.there = tiles.there /\ new.tagged = old \cup (tiles.there \cap list)
      /\ new.retry = (tiles.retry \/ tiles.there = {})
      /\ new = [there |-> new.there, tagged |-> new.tagged, retry |-> new.retry]
  <2>1. tiles = [there |-> tiles.there, tagged |-> tiles.tagged, retry |-> tiles.retry]
    BY DEF TilesOf
  <2> QED
    <3> DEFINE d == (tiles.retry \/ tiles.there = {})
    <3> HIDE DEF d
    <3>1. new = [tiles EXCEPT !.tagged = old \cup (tiles.there \cap list), !.retry = d]
      BY DEF Tagged, d
    <3>2. new = [there |-> tiles.there, tagged |-> old \cup (tiles.there \cap list), retry |-> d]
      BY <2>1, <3>1
    <3> HIDE DEF new
    <3> QED
      BY <3>2 DEF d
<1> HIDE DEF new
<1> QED
  BY <1>1 DEF TilesOf, new

\* A list that takes the place of the old one, if it does, is of loaded items and tags those.
LEMMA TakingKeepsShapes ==
  ASSUME TilesOf(tiles, loaded), items \subseteq loaded, NEW list \in SUBSET loaded, TakeIfMore(list)
  PROVE  items' \subseteq loaded /\ TilesOf(tiles', loaded)
<1>1. tiles.tagged \subseteq tiles.there
  BY DEF TilesOf
<1>2. TilesOf(Tagged(list, {}), loaded) /\ TilesOf(Tagged(items, tiles.tagged), loaded)
  BY <1>1, TaggedAreTiles
<1> QED
  BY <1>2 DEF TakeIfMore

\* What was loaded stays loaded.
LEMMA MoreIsLoaded ==
  ASSUME InventoryShapes, loaded' \subseteq Stock, loaded \subseteq loaded',
         contexts' \in [Contexts -> {"page", "asked", "full"}], allLoaded' \in BOOLEAN,
         extractor' \in Extractors, UNCHANGED <<items, loading, rechecks, sent, tiles, sorting, tabs>>
  PROVE  InventoryShapes'
BY DEF InventoryShapes, TilesOf, SortingOf, Extractors

\* A step of the tiles and the list alone.
LEMMA TilesChange ==
  ASSUME InventoryShapes, items' \subseteq loaded, TilesOf(tiles', loaded), SortingOf(sorting'),
         UNCHANGED <<loaded, contexts, allLoaded, loading, rechecks, extractor, sent, tabs>>
  PROVE  InventoryShapes'
<1>1. TilesOf(tiles, loaded)' /\ SortingOf(sorting)'
  BY DEF TilesOf, SortingOf
<1> QED
  BY <1>1 DEF InventoryShapes, Extractors

\* A step of the extractor and of what it has sent.
LEMMA ExtractorChanges ==
  ASSUME InventoryShapes, extractor' \in Extractors, \A r \in sent' : r \subseteq loaded,
         UNCHANGED <<loaded, contexts, allLoaded, loading, items, rechecks, tiles, sorting, tabs>>
  PROVE  InventoryShapes'
<1>1. TilesOf(tiles, loaded)' /\ SortingOf(sorting)'
  BY DEF InventoryShapes, TilesOf, SortingOf
<1> QED
  BY <1>1 DEF InventoryShapes, Extractors

LEMMA WakingIsAnExtractor ==
  ASSUME extractor \in Extractors
  PROVE  Wake \in Extractors
<1>1. (extractor.again \/ extractor.at = "hooked") \in BOOLEAN
  OBVIOUS
<1> QED
  BY <1>1 DEF Wake, Extractors

LEMMA SendingIsLoaded ==
  ASSUME InventoryShapes, NEW last, Send(last)
  PROVE  \A r \in sent' : r \subseteq loaded
<1>1. Extracted \subseteq loaded
  BY DEF Extracted
<1> QED
  BY <1>1 DEF Send, InventoryShapes

LEMMA InventoryStep ==
  ASSUME InventoryAssumption, InventoryShapes, [InventoryNext]_inventoryVars
  PROVE  InventoryShapes'
<1>0. /\ loaded \subseteq Stock /\ items \subseteq loaded /\ TilesOf(tiles, loaded)
      /\ SortingOf(sorting) /\ extractor \in Extractors /\ rechecks \in 0..MaxRechecks
      /\ contexts \in [Contexts -> {"page", "asked", "full"}] /\ allLoaded \in BOOLEAN
      /\ \A r \in sent : r \subseteq loaded
      /\ tabs \in [clicks : 0..MaxTabs, due : BOOLEAN] /\ loading \in BOOLEAN
  BY DEF InventoryShapes
<1>00. /\ tiles.tagged \subseteq tiles.there /\ tiles.there \subseteq loaded /\ tiles.retry \in BOOLEAN
       /\ tiles = [there |-> tiles.there, tagged |-> tiles.tagged, retry |-> tiles.retry]
  BY <1>0 DEF TilesOf
<1>000. Cardinality(Extracted) \in 0..Cardinality(Stock)
  <2>1. Extracted \subseteq Stock
    BY <1>0 DEF Extracted
  <2> QED
    BY <2>1, CountOfStock
<1>1. CASE RetryTags
  <2> DEFINE new == Tagged(items, tiles.tagged)
  <2>1. TilesOf(new, loaded)
    BY <1>0, <1>00, TaggedAreTiles
  <2>2. tiles' = [new EXCEPT !.retry = tiles.there = {}]
    BY <1>1 DEF RetryTags
  <2> HIDE DEF new
  <2>3. TilesOf(tiles', loaded)
    BY <2>1, <2>2 DEF TilesOf
  <2> QED
    BY <1>0, <1>1, <2>3, TilesChange DEF RetryTags
<1>2. CASE SteamShowsPage
  <2>1. PICK more \in {loaded \cap Tradable, loaded} :
          /\ tiles.there \subseteq more
          /\ tiles' \in {[tiles EXCEPT !.there = more],
                         [tiles EXCEPT !.there = more, !.tagged = @ \cup (more \cap items)]}
    BY <1>2 DEF SteamShowsPage
  <2>2. more \subseteq loaded
    OBVIOUS
  <2>3. tiles' \in {[there |-> more, tagged |-> tiles.tagged, retry |-> tiles.retry],
                    [there |-> more, tagged |-> tiles.tagged \cup (more \cap items), retry |-> tiles.retry]}
    BY <1>00, <2>1
  <2>4. TilesOf(tiles', loaded)
    BY <1>00, <2>1, <2>2, <2>3 DEF TilesOf
  <2> QED
    BY <1>0, <1>2, <2>4, TilesChange DEF SteamShowsPage
<1>3. CASE SortSaved \/ ChooseOrder
  <2>1. tiles' = Tagged(items, {}) /\ sorting' = [sorting EXCEPT !.of = tiles.there]
    BY <1>3 DEF SortSaved, ChooseOrder
  <2>2. TilesOf(tiles', loaded)
    BY <1>0, <2>1, TaggedAreTiles
  <2>3. SortingOf(sorting')
    BY <1>0, <1>00, <2>1 DEF SortingOf
  <2> QED
    BY <1>0, <1>3, <2>2, <2>3, TilesChange DEF SortSaved, ChooseOrder
<1>4. ASSUME NEW c \in Contexts, SteamLoads(c) PROVE InventoryShapes'
  <2>1. loaded \subseteq loaded' /\ loaded' \subseteq Stock
    BY <1>0, <1>4 DEF SteamLoads, StockOf, Stock
  <2> QED
    BY <1>0, <1>4, <2>1, MoreIsLoaded DEF SteamLoads
<1>5. ASSUME NEW c \in Contexts, ContextDone(c) PROVE InventoryShapes'
  <2>1. loaded \subseteq loaded' /\ loaded' \subseteq Stock
    BY <1>0, <1>5 DEF ContextDone, StockOf, Stock
  <2>2. contexts' \in [Contexts -> {"page", "asked", "full"}]
    BY <1>0, <1>5 DEF ContextDone
  <2>3. allLoaded' \in BOOLEAN /\ extractor' \in Extractors
    BY <1>0, <1>5, WakingIsAnExtractor DEF ContextDone
  <2>4. UNCHANGED <<loading, items, rechecks, sent, tiles, sorting, tabs>>
    BY <1>5 DEF ContextDone
  <2> QED
    BY <2>1, <2>2, <2>3, <2>4, MoreIsLoaded
<1>6. CASE LoadFullDone
  <2>1. loading' = FALSE /\ TakeIfMore(loaded) /\ sorting' = [sorting EXCEPT !.asked = TRUE]
    BY <1>6 DEF LoadFullDone, FullLoad, AskSorting, ReadAllContexts
  <2>2. items' \subseteq loaded /\ TilesOf(tiles', loaded)
    BY <1>0, <2>1, TakingKeepsShapes
  <2>3. SortingOf(sorting')
    BY <1>0, <2>1 DEF SortingOf
  <2>4. extractor' \in Extractors
    BY <1>0, <1>6, WakingIsAnExtractor DEF LoadFullDone
  <2>5. contexts' \in [Contexts -> {"page", "asked", "full"}]
    BY <1>0, <1>6 DEF LoadFullDone
  <2>6. UNCHANGED <<loaded, allLoaded, rechecks, sent, tabs>>
    BY <1>6 DEF LoadFullDone
  <2>7. TilesOf(tiles, loaded)' /\ SortingOf(sorting)'
    BY <2>2, <2>3, <2>6 DEF TilesOf, SortingOf
  <2> QED
    BY <1>0, <2>1, <2>2, <2>4, <2>5, <2>6, <2>7 DEF InventoryShapes, Extractors
<1>7. CASE LoadFullPending
  <2>1. contexts' \in [Contexts -> {"page", "asked", "full"}]
    BY <1>0, <1>7 DEF LoadFullPending
  <2> QED
    BY <1>0, <1>7, <2>1, MoreIsLoaded DEF LoadFullPending
<1>8. CASE Recheck
  <2>1. items' \subseteq loaded /\ TilesOf(tiles', loaded)
    BY <1>0, <1>8, TakingKeepsShapes DEF Recheck, ReadAllContexts
  <2>2. rechecks' \in 0..MaxRechecks
    BY <1>0, <1>8 DEF Recheck, InventoryAssumption
  <2>3. UNCHANGED <<loaded, contexts, allLoaded, loading, extractor, sent, sorting, tabs>>
    BY <1>8 DEF Recheck
  <2>4. TilesOf(tiles, loaded)' /\ SortingOf(sorting)'
    BY <1>0, <2>1, <2>3 DEF TilesOf, SortingOf
  <2> QED
    BY <1>0, <2>1, <2>2, <2>3, <2>4 DEF InventoryShapes, Extractors
<1>9. CASE Poll
  <2>1. extractor' \in Extractors
    BY <1>0, <1>000, <1>9 DEF Poll, Extractors
  <2>2. \A r \in sent' : r \subseteq loaded
    BY <1>0, <1>9, SendingIsLoaded DEF Poll
  <2> QED
    BY <1>9, <2>1, <2>2, ExtractorChanges DEF Poll
<1>10. CASE SendAgain
  <2>1. extractor' \in Extractors
    BY <1>0, <1>000, <1>10 DEF SendAgain, Extractors
  <2>2. \A r \in sent' : r \subseteq loaded
    BY <1>10, SendingIsLoaded DEF SendAgain
  <2> QED
    BY <1>10, <2>1, <2>2, ExtractorChanges DEF SendAgain
<1>11. CASE GameSelected
  <2>1. extractor' \in Extractors
    BY <1>0, <1>000, <1>11 DEF GameSelected, Extractors
  <2>2. \A r \in sent' : r \subseteq loaded
    BY <1>11, SendingIsLoaded DEF GameSelected
  <2> QED
    BY <1>11, <2>1, <2>2, ExtractorChanges DEF GameSelected
<1>12. CASE Receive
  <2>1. PICK r \in sent : sent' = sent \ {r} /\ TakeIfMore(r)
    BY <1>12 DEF Receive
  <2>2. items' \subseteq loaded /\ TilesOf(tiles', loaded)
    BY <1>0, <2>1, TakingKeepsShapes
  <2>3. UNCHANGED <<loaded, contexts, allLoaded, loading, rechecks, extractor, sorting, tabs>>
    BY <1>12 DEF Receive
  <2>4. TilesOf(tiles, loaded)' /\ SortingOf(sorting)'
    BY <1>0, <2>2, <2>3 DEF TilesOf, SortingOf
  <2> QED
    BY <1>0, <2>1, <2>2, <2>3, <2>4 DEF InventoryShapes, Extractors
<1>13. CASE ClickGame
  <2>1. tabs' \in [clicks : 0..MaxTabs, due : BOOLEAN]
    BY <1>0, <1>13 DEF ClickGame, InventoryAssumption
  <2>2. UNCHANGED <<loaded, contexts, allLoaded, loading, items, rechecks, extractor, sent, tiles, sorting>>
    BY <1>13 DEF ClickGame
  <2>3. TilesOf(tiles, loaded)' /\ SortingOf(sorting)'
    BY <1>0, <2>2 DEF TilesOf, SortingOf
  <2> QED
    BY <1>0, <2>1, <2>2, <2>3 DEF InventoryShapes, Extractors
<1>14. CASE GameShown
  <2>1. tabs' \in [clicks : 0..MaxTabs, due : BOOLEAN]
    BY <1>0, <1>14 DEF GameShown
  <2>2. extractor' \in Extractors
    <3>1. 0 \in 0..Cardinality(Stock)
      <4>1. Cardinality(Stock) \in Nat
        BY FS_CardinalityType DEF InventoryAssumption
      <4> QED
        BY <4>1
    <3> QED
      BY <1>0, <1>14, <3>1 DEF GameShown, Extractors
  <2>3. items' = {} /\ loading' = TRUE /\ tiles' = [tiles EXCEPT !.tagged = {}]
    BY <1>14 DEF GameShown
  <2>4. UNCHANGED <<loaded, contexts, allLoaded, rechecks, sent, sorting>>
    BY <1>14 DEF GameShown
  <2>5. tiles' = [there |-> tiles.there, tagged |-> {}, retry |-> tiles.retry]
    BY <1>00, <2>3
  <2>6. TilesOf(tiles, loaded)' /\ SortingOf(sorting)'
    BY <1>0, <1>00, <2>4, <2>5 DEF TilesOf, SortingOf
  <2> QED
    BY <1>0, <2>1, <2>2, <2>3, <2>4, <2>6 DEF InventoryShapes, Extractors
<1>15. CASE SettingsRepaint
  <2>1. items' \subseteq loaded
    BY <1>0, <1>15 DEF SettingsRepaint, ReadAllContexts
  <2>2. tiles' = Tagged(items', {}) /\ UNCHANGED <<loaded, contexts, allLoaded, loading, rechecks, extractor, sent, sorting, tabs>>
    BY <1>15 DEF SettingsRepaint
  <2>3. \A list : TilesOf(Tagged(list, {}), loaded)
    BY <1>0, TaggedAreTiles
  <2>4. TilesOf(tiles', loaded)
    BY <2>2, <2>3
  <2> QED
    BY <1>0, <2>1, <2>2, <2>4, TilesChange
<1>16. CASE UNCHANGED inventoryVars
  <2>1. UNCHANGED <<loaded, contexts, allLoaded, loading, items, rechecks, extractor, sent, tiles, sorting, tabs>>
    BY <1>16 DEF inventoryVars
  <2> QED
    BY <1>0, <2>1, TilesChange
<1> QED
  BY <1>1, <1>2, <1>3, <1>4, <1>5, <1>6, <1>7, <1>8, <1>9, <1>10, <1>11, <1>12, <1>13, <1>14, <1>15,
     <1>16 DEF InventoryNext

\* Every variable of the inventory page keeps its type, and its list and its tags are of items the
\* page has loaded: for any inventory, number of rechecks and of clicks on a game, and whether or
\* not the timers ring.
THEOREM InventoryStaysTyped ==
  InventoryInit /\ [][InventoryNext]_inventoryVars => []InventoryTypeOK
<1>1. ASSUME InventoryInit PROVE InventoryShapes
  <2>1. 0 \in 0..MaxRechecks /\ 0 \in 0..MaxTabs /\ 0 \in 0..Cardinality(Stock)
    <3>1. Cardinality(Stock) \in Nat
      BY InventoryAssumption, FS_CardinalityType DEF InventoryAssumption
    <3> QED
      BY <3>1, InventoryAssumption DEF InventoryAssumption
  <2>2. tiles = [there |-> {}, tagged |-> {}, retry |-> FALSE] /\ sorting = [asked |-> FALSE, of |-> {}]
    BY <1>1 DEF InventoryInit
  <2>3. TilesOf(tiles, loaded) /\ SortingOf(sorting)
    BY <2>2 DEF TilesOf, SortingOf
  <2>4. extractor \in Extractors /\ tabs \in [clicks : 0..MaxTabs, due : BOOLEAN]
    BY <1>1, <2>1 DEF InventoryInit, Extractors
  <2> QED
    BY <1>1, <2>1, <2>3, <2>4 DEF InventoryInit, InventoryShapes
<1>2. InventoryShapes /\ [InventoryNext]_inventoryVars => InventoryShapes'
  BY InventoryStep, InventoryAssumption
<1> QED
  BY <1>1, <1>2, InventoryShapesAreTypes, PTL

-----------------------------------------------------------------------------
(***************************************************************************)
(* The types of BuffPage.  The inductive invariant has those of the        *)
(* settings; a panel is on a row the page has, and the script hears of     *)
(* every change and reads once for each.                                   *)
(***************************************************************************)
\* The rows of a view with a panel, after one more of its orders.
NextPaired(f, v, n) ==
  IF n = 0 THEN <<>>
  ELSE LET row == RowFor(v, OrdersIn[v][n], RowsFor(KindOf[v]) \ DOMAIN f[n - 1]) IN
       [i \in DOMAIN f[n - 1] \cup row |-> IF i \in row THEN OrdersIn[v][n] ELSE f[n - 1][i]]

LEMMA RowIsFree ==
  ASSUME NEW v, NEW o, NEW free
  PROVE  RowFor(v, o, free) \subseteq free
BY DEF RowFor, Earliest, RowsOfOrder, RowsOfGoods

LEMMA PairingExists ==
  ASSUME BuffAssumption, NEW v \in Views
  PROVE  \E f : f = [n \in 0..Len(OrdersIn[v]) |-> NextPaired(f, v, n)]
<1> DEFINE s == OrdersIn[v]
           R == RowsFor(KindOf[v])
           O == DOMAIN GoodsOf
           Pairs(D) == [D -> O]
           X == UNION {Pairs(D) : D \in SUBSET R}
           RowOf(k, g) == RowFor(v, s[k], R \ DOMAIN g)
           More(k, g) == [i \in DOMAIN g \cup RowOf(k, g) |-> IF i \in RowOf(k, g) THEN s[k] ELSE g[i]]
           step == [p \in (1..Len(s)) \X X |-> More(p[1], p[2])]
<1>1. s \in Seq(O)
  BY DEF BuffAssumption
<1>2. Len(s) \in Nat /\ \A k \in 1..Len(s) : s[k] \in O
  <2> HIDE DEF O, s
  <2> QED
    BY <1>1, LenProperties
<1>3. <<>> \in X
  <2>1. <<>> \in [{} -> O]
    OBVIOUS
  <2>2. {} \in SUBSET R
    OBVIOUS
  <2> QED
    BY <2>1, <2>2
<1>4. ASSUME NEW k \in 1..Len(s), NEW g \in X PROVE More(k, g) \in X
  <2>1. PICK D \in SUBSET R : g \in [D -> O]
    OBVIOUS
  <2>2. RowOf(k, g) \subseteq R
    BY RowIsFree
  <2>3. s[k] \in O
    BY <1>2
  <2> DEFINE row == RowOf(k, g)
  <2> HIDE DEF row, s, O, R
  <2>4. [i \in D \cup row |-> IF i \in row THEN s[k] ELSE g[i]] \in [D \cup row -> O]
    BY <2>1, <2>3
  <2>5. D \cup row \in SUBSET R
    BY <2>1, <2>2 DEF row
  <2>6. DOMAIN g = D
    BY <2>1
  <2> QED
    BY <2>4, <2>5, <2>6 DEF row
<1> HIDE DEF X, More, s
<1>5. step \in [(1..Len(s)) \X X -> X]
  <2>1. ASSUME NEW p \in (1..Len(s)) \X X PROVE More(p[1], p[2]) \in X
    <3>1. p[1] \in 1..Len(s) /\ p[2] \in X
      BY <2>1
    <3> QED
      BY <1>4, <3>1
  <2> QED
    BY <2>1
<1>6. \A k \in 1..Len(s) : \A g \in X : step[<<k, g>>] = More(k, g)
  OBVIOUS
<1> HIDE DEF step
<1>7. PICK f \in [0..Len(s) -> X] : Recursive(f, Len(s), <<>>, step)
  BY <1>2, <1>3, <1>5, RecursionExists
<1>8. ASSUME NEW k \in 0..Len(s) PROVE f[k] = NextPaired(f, v, k)
  <2>1. f[k] = IF k = 0 THEN <<>> ELSE step[<<k, f[k - 1]>>]
    BY <1>7 DEF Recursive
  <2>2. CASE k = 0
    BY <2>1, <2>2 DEF NextPaired
  <2>3. CASE k # 0
    <3>1. k \in 1..Len(s) /\ k - 1 \in 0..Len(s)
      BY <1>2, <2>3
    <3>2. f[k - 1] \in X
      BY <1>7, <3>1
    <3>3. f[k] = More(k, f[k - 1])
      BY <1>6, <2>1, <2>3, <3>1, <3>2
    <3> QED
      BY <2>3, <3>3 DEF NextPaired, More, s
  <2> QED
    BY <2>2, <2>3
<1>9. f = [k \in 0..Len(s) |-> NextPaired(f, v, k)]
  BY <1>7, <1>8
<1> QED
  BY <1>9 DEF s

\* An order has its panel on a row of the page.
LEMMA PairsAreRows ==
  ASSUME BuffAssumption, NEW v \in Views
  PROVE  DOMAIN PairedRows(v) \subseteq RowsIn(shown.rows)
<1> DEFINE F == CHOOSE f : f = [n \in 0..Len(OrdersIn[v]) |-> NextPaired(f, v, n)]
           R == RowsFor(KindOf[v])
           N == Len(OrdersIn[v])
<1>1. F = [n \in 0..N |-> NextPaired(F, v, n)]
  BY PairingExists
<1>2. PairedRows(v) = F[N]
  BY DEF PairedRows, F, NextPaired
<1>3. N \in Nat
  <2>1. OrdersIn[v] \in Seq(DOMAIN GoodsOf)
    BY DEF BuffAssumption
  <2> QED
    BY <2>1
<1> HIDE DEF F, N, R
<1> DEFINE Bad == {n \in 0..N : ~(DOMAIN F[n] \subseteq R)}
<1>4. DOMAIN F[0] \subseteq R
  <2>1. F[0] = <<>>
    BY <1>1, <1>3 DEF NextPaired
  <2> QED
    BY <2>1
<1>5. ASSUME NEW n \in 1..N, DOMAIN F[n - 1] \subseteq R PROVE DOMAIN F[n] \subseteq R
  <2> DEFINE row == RowFor(v, OrdersIn[v][n], R \ DOMAIN F[n - 1])
  <2>1. row \subseteq R
    BY RowIsFree
  <2>2. n \in 0..N /\ n # 0
    BY <1>3
  <2>3. F[n] = NextPaired(F, v, n)
    BY <1>1, <2>2
  <2>4. DOMAIN F[n] = DOMAIN F[n - 1] \cup row
    BY <2>2, <2>3 DEF NextPaired, R
  <2> HIDE DEF row
  <2> QED
    BY <1>5, <2>1, <2>4
<1>6. DOMAIN F[N] \subseteq R
  <2>1. CASE Bad = {}
    <3>1. N \in 0..N
      BY <1>3
    <3> QED
      BY <2>1, <3>1
  <2>2. CASE Bad # {}
    <3>0. Bad \subseteq Nat
      BY <1>3
    <3>1. PICK m \in Bad : \A k \in Bad : m <= k
      BY <2>2, <3>0, LeastNumber
    <3>2. m # 0 /\ m \in 0..N
      BY <1>4, <3>1
    <3>3. m \in 1..N /\ m - 1 \in 0..N /\ ~(m <= m - 1)
      BY <1>3, <3>2
    <3>4. DOMAIN F[m - 1] \subseteq R
      BY <3>1, <3>3
    <3> QED
      BY <1>5, <3>1, <3>3, <3>4
  <2> QED
    BY <2>1, <2>2
<1>7. R \subseteq RowsIn(shown.rows)
  BY DEF R, RowsFor
<1> QED
  BY <1>2, <1>6, <1>7

LEMMA PanelsAreOnRows ==
  ASSUME BuffAssumption, data \in Seq(Views)
  PROVE  DOMAIN ApiPanels \subseteq RowsIn(shown.rows) /\ DOMAIN StaticPanels \subseteq RowsIn(shown.rows)
<1>1. \A n \in DOMAIN data : data[n] \in Views
  BY LenProperties
<1>2. DOMAIN ApiPanels \subseteq RowsIn(shown.rows)
  <2> DEFINE by == [n \in DOMAIN data |-> PairedRows(data[n])]
  <2>1. DOMAIN ApiPanels = UNION {DOMAIN by[n] : n \in DOMAIN by}
    BY DEF ApiPanels
  <2>2. ASSUME NEW n \in DOMAIN by PROVE DOMAIN by[n] \subseteq RowsIn(shown.rows)
    BY <1>1, PairsAreRows
  <2> HIDE DEF by
  <2> QED
    BY <2>1, <2>2
<1>3. DOMAIN StaticPanels \subseteq RowsIn(shown.rows)
  BY DEF StaticPanels, RowsIn
<1> QED
  BY <1>2, <1>3

BuffResponses == [view : Views, left : SUBSET {"page", "bridge"}]

BuffRest ==
  /\ stored.version \in 0..MaxSettings /\ generation >= 1
  /\ events + generation = stored.version + 1
  /\ \A r \in openReads : r.generation >= 1
  /\ data \in Seq(Views)
  /\ DOMAIN nodes.panels \subseteq RowsIn(shown.rows) /\ nodes.toolbar \subseteq Settings
  /\ shown.view \in Views /\ shown = [view |-> shown.view, rows |-> shown.rows]
  /\ moves \in 0..MaxMoves /\ responses \subseteq BuffResponses

\* The page's nodes stay, or some of them go.
NodesStay ==
  DOMAIN nodes'.panels \subseteq RowsIn(shown.rows) /\ nodes'.toolbar \subseteq Settings

LEMMA ClearedNodes == Cleared => data' \in Seq(Views) /\ NodesStay
BY EmptySeq DEF Cleared, NoNodes, NodesStay

\* A step that leaves the page's side alone, but for the nodes and the data.
LEMMA ScriptsStep ==
  ASSUME BuffRest, stored'.version \in 0..MaxSettings, generation' >= 1,
         events' + generation' = stored'.version + 1, \A r \in openReads' : r.generation >= 1,
         data' \in Seq(Views), NodesStay, UNCHANGED buffPageVars
  PROVE  BuffRest'
BY DEF BuffRest, NodesStay, RowsIn, buffPageVars

\* A step of the page leaves the settings and their reads alone.
LEMMA PagesStep ==
  ASSUME BuffRest, UNCHANGED storageVars, data' \in Seq(Views),
         DOMAIN nodes'.panels \subseteq RowsIn(shown'.rows), nodes'.toolbar \subseteq Settings,
         shown'.view \in Views, shown' = [view |-> shown'.view, rows |-> shown'.rows],
         moves' \in 0..MaxMoves, responses' \subseteq BuffResponses
  PROVE  BuffRest'
BY DEF BuffRest, RowsIn, storageVars

LEMMA SeenIsAResponse ==
  ASSUME BuffRest, NEW r \in responses, NEW by, Seen(r, by)
  PROVE  responses' \subseteq BuffResponses
<1>1. r \in BuffResponses
  BY DEF BuffRest
<1>2. [r EXCEPT !.left = @ \ {by}] \in BuffResponses
  BY <1>1 DEF BuffResponses
<1> QED
  BY <1>2 DEF Seen, BuffRest

\* Turning the enhancements on or off, or leaving them as they are, and what it does to the page.
LEMMA TurningStays ==
  ASSUME BuffRest, NEW s,
         Enable(s) \/ Disable(s) \/ UNCHANGED <<script, data, nodes, bridge>>
  PROVE  data' \in Seq(Views) /\ NodesStay
<1>1. Cleared \/ UNCHANGED <<data, nodes>>
  BY DEF Enable, Disable
<1> QED
  BY <1>1, ClearedNodes DEF BuffRest, NodesStay

LEMMA BuffRestStep ==
  ASSUME BuffAssumption, BuffShapes, BuffRest, [BuffNext]_buffVars
  PROVE  BuffRest'
<1>0. /\ stored.version \in 0..MaxSettings /\ generation >= 1 /\ generation \in Nat /\ events \in Nat
      /\ events + generation = stored.version + 1 /\ \A r \in openReads : r.generation >= 1
      /\ data \in Seq(Views) /\ DOMAIN nodes.panels \subseteq RowsIn(shown.rows)
      /\ nodes.toolbar \subseteq Settings /\ shown.view \in Views
      /\ shown = [view |-> shown.view, rows |-> shown.rows]
      /\ moves \in 0..MaxMoves /\ responses \subseteq BuffResponses
  BY DEF BuffRest, BuffShapes
<1>00. /\ NodesStay \/ nodes' # nodes
       /\ MaxSettings \in Nat /\ MaxMoves \in Nat
       /\ nodes = [panels |-> nodes.panels, toolbar |-> nodes.toolbar, history |-> nodes.history]
       /\ \A v \in Views : OrdersIn[v] \in Seq(DOMAIN GoodsOf)
  BY <1>0 DEF NodesStay, BuffAssumption, BuffShapes
<1>1. CASE SettingsChange
  <2>1. PICK on \in BOOLEAN : stored' = [on |-> on, version |-> stored.version + 1]
    BY <1>1 DEF SettingsChange
  <2>2. stored'.version = stored.version + 1
    BY <2>1
  <2>3. UNCHANGED <<openReads, generation, data, nodes, buffPageVars>> /\ events' = events + 1
        /\ stored.version < MaxSettings
    BY <1>1 DEF SettingsChange
  <2>4. stored'.version \in 0..MaxSettings /\ events' + generation' = stored'.version + 1
    BY <1>0, <1>00, <2>2, <2>3
  <2> QED
    BY <1>0, <1>00, <2>3, <2>4, ScriptsStep
<1>2. CASE ChangeHeard
  <2>1. events' = events - 1 /\ generation' = generation + 1 /\ stored' = stored
        /\ openReads' = openReads \cup {[generation |-> generation + 1, found |-> {}]}
        /\ UNCHANGED <<data, nodes, buffPageVars>>
    BY <1>2 DEF ChangeHeard
  <2>2. stored'.version \in 0..MaxSettings /\ events' + generation' = stored'.version + 1
        /\ generation' >= 1
    <3>1. (events - 1) + (generation + 1) = events + generation /\ generation + 1 >= 1
      BY <1>0
    <3>2. stored'.version = stored.version
      BY <2>1
    <3> QED
      BY <1>0, <2>1, <3>1, <3>2
  <2>3. \A r \in openReads' : r.generation >= 1
    BY <1>0, <2>1
  <2> QED
    BY <1>0, <1>00, <2>1, <2>2, <2>3, ScriptsStep
<1>3. CASE StorageRead
  <2>1. PICK r \in openReads : openReads' = (openReads \ {r}) \cup {[r EXCEPT !.found = {stored}]}
    BY <1>3 DEF StorageRead
  <2>2. r = [generation |-> r.generation, found |-> r.found]
    BY DEF BuffShapes
  <2>3. [r EXCEPT !.found = {stored}].generation = r.generation
    BY <2>2
  <2>4. \A q \in openReads' : q.generation >= 1
    BY <1>0, <2>1, <2>3
  <2>5. UNCHANGED <<stored, events, generation, data, nodes, buffPageVars>>
    BY <1>3 DEF StorageRead
  <2> QED
    BY <1>0, <1>00, <2>4, <2>5, ScriptsStep
<1>4. CASE ReadAnswered \/ StorageReadFails
  <2>1. openReads' \subseteq openReads /\ UNCHANGED <<stored, events, generation, buffPageVars>>
    BY <1>4 DEF ReadAnswered, StorageReadFails
  <2>2. \E s : Enable(s) \/ Disable(s) \/ UNCHANGED <<script, data, nodes, bridge>>
    BY <1>4 DEF ReadAnswered, StorageReadFails
  <2>3. data' \in Seq(Views) /\ NodesStay
    BY <2>2, TurningStays
  <2> QED
    BY <1>0, <2>1, <2>3, ScriptsStep
<1>5. CASE BridgeLoads
  <2>1. UNCHANGED <<storageVars, buffPageVars>> /\ (Cleared \/ UNCHANGED <<data, nodes>>)
    BY <1>5 DEF BridgeLoads
  <2>2. data' \in Seq(Views) /\ NodesStay
    BY <1>0, <1>00, <2>1, ClearedNodes
  <2>3. UNCHANGED <<stored, events, generation, openReads>>
    BY <2>1 DEF storageVars
  <2> QED
    BY <1>0, <2>1, <2>2, <2>3, ScriptsStep
<1>6. CASE Render
  <2>1. /\ nodes'.panels = Over(ApiPanels, Over(nodes.panels, StaticPanels))
        /\ nodes'.toolbar = {script.settings}
        /\ UNCHANGED <<storageVars, data, buffPageVars>>
    BY <1>6 DEF Render
  <2>2. \A f, g : DOMAIN Over(f, g) = DOMAIN f \cup DOMAIN g
    BY DEF Over
  <2>3. DOMAIN nodes'.panels = DOMAIN ApiPanels \cup (DOMAIN nodes.panels \cup DOMAIN StaticPanels)
    <3> DEFINE old == Over(nodes.panels, StaticPanels)
    <3>1. DOMAIN old = DOMAIN nodes.panels \cup DOMAIN StaticPanels
      BY <2>2
    <3> HIDE DEF old
    <3>2. DOMAIN Over(ApiPanels, old) = DOMAIN ApiPanels \cup DOMAIN old
      BY <2>2
    <3>3. nodes'.panels = Over(ApiPanels, old)
      BY <2>1 DEF old
    <3> QED
      BY <3>1, <3>2, <3>3
  <2>4. DOMAIN nodes'.panels \subseteq RowsIn(shown.rows)
    BY <1>0, <2>3, PanelsAreOnRows
  <2>5. script.settings \in Settings
    BY DEF BuffShapes, Scripts
  <2>6. UNCHANGED <<stored, events, generation, openReads>>
    BY <2>1 DEF storageVars
  <2> QED
    BY <1>0, <2>1, <2>4, <2>5, <2>6, ScriptsStep DEF NodesStay
<1>7. ASSUME NEW v \in Views, MoveTo(v) PROVE BuffRest'
  <2>1. moves' \in 0..MaxMoves
    BY <1>0, <1>00, <1>7 DEF MoveTo
  <2>2. shown' = [view |-> v, rows |-> <<>>] /\ UNCHANGED storageVars
    BY <1>7 DEF MoveTo
  <2>3. responses' \subseteq BuffResponses
    <3>1. PICK watched : responses' = responses \cup
            {[view |-> v, left |-> {"page"} \cup (IF watched THEN {"bridge"} ELSE {})]}
      BY <1>7 DEF MoveTo
    <3>2. [view |-> v, left |-> {"page"} \cup (IF watched THEN {"bridge"} ELSE {})] \in BuffResponses
      BY DEF BuffResponses
    <3> QED
      BY <1>0, <3>1, <3>2
  <2>4. \/ Cleared
        \/ nodes' = [nodes EXCEPT !.panels = <<>>, !.history = FALSE] /\ data' = data
    BY <1>7 DEF MoveTo
  <2>5. data' \in Seq(Views) /\ DOMAIN nodes'.panels = {} /\ nodes'.toolbar \subseteq Settings
    <3>1. CASE Cleared
      BY <3>1, EmptySeq DEF Cleared, NoNodes
    <3>2. CASE nodes' = [nodes EXCEPT !.panels = <<>>, !.history = FALSE] /\ data' = data
      <4>1. nodes' = [panels |-> <<>>, toolbar |-> nodes.toolbar, history |-> FALSE]
        BY <1>00, <3>2
      <4> QED
        BY <1>0, <3>2, <4>1
    <3> QED
      BY <2>4, <3>1, <3>2
  <2> QED
    BY <2>1, <2>2, <2>3, <2>5, PagesStep
<1>8. ASSUME NEW r \in responses, PageShows(r) PROVE BuffRest'
  <2>1. responses' \subseteq BuffResponses
    BY <1>8, SeenIsAResponse DEF PageShows
  <2>2. UNCHANGED <<storageVars, data, moves>>
    BY <1>8 DEF PageShows
  <2>3. CASE r.view = shown.view
    <3>1. shown' = [view |-> shown.view, rows |-> OrdersIn[r.view]]
      BY <1>0, <1>8, <2>3 DEF PageShows
    <3>2. nodes' = [panels |-> <<>>, toolbar |-> nodes.toolbar, history |-> FALSE]
      BY <1>00, <1>8, <2>3 DEF PageShows
    <3>3. DOMAIN nodes'.panels = {} /\ nodes'.toolbar \subseteq Settings
      BY <1>0, <3>2
    <3> QED
      BY <1>0, <2>1, <2>2, <3>1, <3>3, PagesStep
  <2>4. CASE r.view # shown.view
    <3>1. UNCHANGED <<shown, nodes>>
      BY <1>8, <2>4 DEF PageShows
    <3> QED
      BY <1>0, <2>1, <2>2, <3>1, PagesStep
  <2> QED
    BY <2>3, <2>4
<1>9. ASSUME NEW r \in responses, BridgeShows(r) PROVE BuffRest'
  <2>1. responses' \subseteq BuffResponses
    BY <1>9, SeenIsAResponse DEF BridgeShows
  <2>2. UNCHANGED <<storageVars, nodes, shown, moves>>
    BY <1>9 DEF BridgeShows
  <2>3. r.view \in Views
    BY <1>0 DEF BuffResponses
  <2>4. data' \in Seq(Views)
    <3>1. Filtered(data, {v \in Views : KindOf[v] # KindOf[r.view]}) \in Seq(Views)
      <4> DEFINE S == {v \in Views : KindOf[v] # KindOf[r.view]}
      <4> HIDE DEF S
      <4>1. Filtered(data, S) \in Seq(Views)
        BY <1>0, FilteredIs
      <4> QED
        BY <4>1 DEF S
    <3>2. Append(Filtered(data, {v \in Views : KindOf[v] # KindOf[r.view]}), r.view) \in Seq(Views)
      BY <2>3, <3>1, AppendProperties
    <3> QED
      BY <1>0, <1>9, <3>2 DEF BridgeShows
  <2> QED
    BY <1>0, <2>1, <2>2, <2>4, PagesStep
<1>10. CASE UNCHANGED buffVars
  <2>1. UNCHANGED <<stored, events, generation, openReads, data, nodes, buffPageVars>>
    BY <1>10 DEF buffVars, buffPageVars
  <2> QED
    BY <1>0, <1>00, <2>1, ScriptsStep
<1> QED
  BY <1>1, <1>2, <1>3, <1>4, <1>5, <1>6, <1>7, <1>8, <1>9, <1>10 DEF BuffNext

\* Every variable of the Buff page keeps its type, and a panel is on a row that is there: for any
\* views, orders, changes of the settings and moves.
THEOREM BuffKeepsTypes == BuffSpec => []BuffTypeOK
<1>1. ASSUME BuffInit PROVE BuffRest
  <2>1. stored.version = 0 /\ events = 0 /\ generation = 1
        /\ openReads = {[generation |-> 1, found |-> {}]} /\ data = <<>> /\ nodes = NoNodes
        /\ responses = {} /\ moves = 0
    BY <1>1 DEF BuffInit
  <2>2. PICK v \in Views : shown = [view |-> v, rows |-> <<>>]
    BY <1>1 DEF BuffInit
  <2>3. 0 \in 0..MaxSettings /\ 0 \in 0..MaxMoves
    BY BuffAssumption DEF BuffAssumption
  <2>4. nodes.toolbar = {} /\ DOMAIN nodes.panels = {}
    BY <2>1 DEF NoNodes
  <2>5. data \in Seq(Views)
    BY <2>1, EmptySeq
  <2> QED
    BY <2>1, <2>2, <2>3, <2>4, <2>5 DEF BuffRest
<1>2. BuffInit => BuffInductive /\ BuffRest
  BY <1>1, BuffBegins
<1>3. BuffInductive /\ BuffRest /\ [BuffNext]_buffVars => (BuffInductive /\ BuffRest)'
  BY BuffStep, BuffRestStep, BuffAssumption DEF BuffInductive
<1>4. BuffInductive /\ BuffRest => BuffTypeOK
  <2> SUFFICES ASSUME BuffShapes, BuffRest PROVE BuffTypeOK
    BY DEF BuffInductive
  <2>1. events \in 0..MaxSettings /\ generation \in 1..(MaxSettings + 1)
    BY BuffAssumption DEF BuffShapes, BuffRest, BuffAssumption
  <2>2. \A r \in openReads : r.generation \in 1..generation /\ r.found \subseteq Settings
    <3>1. \A r \in openReads : r.generation \in Nat /\ r.found \in SUBSET Settings
      BY DEF BuffShapes
    <3> QED
      BY <3>1 DEF BuffShapes, BuffRest
  <2>3. \A i \in DOMAIN data : data[i] \in Views
    BY LenProperties DEF BuffRest
  <2>4. \A r \in responses : r.view \in Views /\ r.left \subseteq {"page", "bridge"}
    BY DEF BuffRest, BuffResponses
  <2> QED
    BY <2>1, <2>2, <2>3, <2>4 DEF BuffShapes, BuffRest, BuffTypeOK, Scripts
<1> QED
  BY <1>2, <1>3, <1>4, PTL DEF BuffSpec

-----------------------------------------------------------------------------
(***************************************************************************)
(* The types of CSFloatPage.  The inductive invariant has their shapes,    *)
(* and that no more changes were heard than were made; the bound on what   *)
(* is written then bounds every version that is read, sent or painted.     *)
(***************************************************************************)
Versions == 0..MaxWrites
Spots == FloatListings \cup {Nowhere}
CardOf(c) ==
  c.line \subseteq FloatListings /\ c.panel \subseteq Panels
  /\ c = [key |-> c.key, line |-> c.line, panel |-> c.panel]

FloatRest ==
  /\ storage.prices >= 1 /\ storage.settings + storage.prices <= MaxWrites + 1
  /\ \A i \in DOMAIN asked : asked[i].asOf \in Versions
  /\ \A i \in DOMAIN readings : readings[i] \in ReadResults
  /\ \A i \in DOMAIN changes : changes[i] \in Changed
  /\ priceEngine.settings \in Versions /\ prices \in 0..(MaxWrites + 1)
  /\ booting \in {"engine", "panel", "prices", "done"} /\ overtaken \in BOOLEAN
  /\ popupItem \in Spots /\ page \in [route : Spots, card : Spots, visits : 0..MaxVisits]
  /\ CardOf(card)

LEMMA StoredIsBounded ==
  ASSUME CSFloatAssumption, storage \in FloatStored, FloatRest
  PROVE  storage \in Stored
<1>1. /\ storage.settings \in Nat /\ storage.prices \in Nat /\ storage.show \in BOOLEAN
      /\ storage = [show |-> storage.show, settings |-> storage.settings, prices |-> storage.prices]
  BY DEF FloatStored
<1>2. MaxWrites \in Nat /\ storage.prices >= 1 /\ storage.settings + storage.prices <= MaxWrites + 1
  BY DEF CSFloatAssumption, FloatRest
<1>3. storage.settings \in 0..MaxWrites /\ storage.prices \in 1..(MaxWrites + 1)
  BY <1>1, <1>2
<1> QED
  BY <1>1, <1>3 DEF Stored

\* The card that is synced shows a listing that is on the page or was answered.
LEMMA SyncedIsACard ==
  ASSUME page.card \in Spots, NEW answered \in Spots, NEW old, CardOf(old), NEW useIt,
         CSFloatAssumption,
         NEW p \in 0..(MaxWrites + 1), NEW e, e.settings \in Versions
  PROVE  CardOf(SyncedWith(answered, old, useIt, p, e))
<1>1. CASE page.card = Nowhere \/ old.key = {Detail(answered)}
  BY <1>1 DEF SyncedWith
<1>2. CASE ~(page.card = Nowhere \/ old.key = {Detail(answered)})
  <2> DEFINE of == Detail(answered).of
             new == SyncedWith(answered, old, useIt, p, e)
             painted == PanelOf(of, useIt, p, e)
  <2>1. of \in FloatListings
    <3>1. page.card \in FloatListings
      BY <1>2 DEF Spots
    <3>2. Fits(answered) => answered \in FloatListings
      BY DEF Fits, Spots
    <3> QED
      BY <3>1, <3>2 DEF Detail
  <2>2. painted \subseteq Panels
    <3>1. SUFFICES ASSUME NEW x \in painted PROVE x \in Panels
      OBVIOUS
    <3>2. p # 0 /\ x = [of |-> of, settings |-> e.settings, prices |-> p]
      BY <3>1 DEF PanelOf
    <3>3. p \in 1..(MaxWrites + 1)
      BY <3>2 DEF CSFloatAssumption
    <3> HIDE DEF of, painted
    <3> QED
      BY <2>1, <3>2, <3>3 DEF Panels, Versions
  <2>3. new = [key |-> {Detail(answered)}, line |-> {of}, panel |-> painted]
    BY <1>2 DEF SyncedWith
  <2> HIDE DEF of, new, painted
  <2>4. CardOf(new)
    BY <2>1, <2>2, <2>3 DEF CardOf
  <2> QED
    BY <2>4 DEF new
<1> QED
  BY <1>1, <1>2

LEMMA WithoutPanel ==
  ASSUME NEW c, NEW k, NEW l, NEW p, c = [key |-> k, line |-> l, panel |-> p]
  PROVE  [c EXCEPT !.panel = {}] = [key |-> k, line |-> l, panel |-> {}]
OBVIOUS

LEMMA RepaintedIsACard ==
  ASSUME CSFloatAssumption, page.card \in Spots, popupItem \in Spots, CardOf(card), NEW useIt,
         NEW p \in 0..(MaxWrites + 1), NEW e, e.settings \in Versions
  PROVE  CardOf(Repainted(useIt, p, e))
<1> DEFINE bare == [card EXCEPT !.panel = {}]
           blank == [bare EXCEPT !.key = {}]
<1>1. PICK k, l, q : card = [key |-> k, line |-> l, panel |-> q] /\ l \subseteq FloatListings
  BY DEF CardOf
<1>2. bare = [key |-> k, line |-> l, panel |-> {}] /\ blank = [key |-> {}, line |-> l, panel |-> {}]
  <2>1. card = [key |-> k, line |-> l, panel |-> q]
    BY <1>1
  <2>3. bare = [key |-> k, line |-> l, panel |-> {}]
    BY ONLY <2>1, WithoutPanel DEF bare
  <2> HIDE DEF bare
  <2>2. blank = [key |-> {}, line |-> l, panel |-> {}]
    BY <2>3
  <2> QED
    BY <2>2, <2>3
<1>3. Repainted(useIt, p, e) = IF ~useIt THEN bare ELSE SyncedWith(popupItem, blank, TRUE, p, e)
  BY DEF Repainted, Synced
<1> HIDE DEF bare, blank
<1>4. CardOf(bare) /\ CardOf(blank)
  BY <1>1, <1>2 DEF CardOf
<1>5. CardOf(SyncedWith(popupItem, blank, TRUE, p, e))
  BY <1>4, SyncedIsACard
<1> QED
  BY <1>3, <1>4, <1>5

\* A sequence of members of S has members of S behind its head, and with one more.
LEMMA TailIsOf ==
  ASSUME NEW R, NEW s \in Seq(R), s # <<>>, NEW S, \A i \in DOMAIN s : s[i] \in S
  PROVE  Head(s) \in S /\ \A i \in DOMAIN Tail(s) : Tail(s)[i] \in S
<1>1. /\ Len(s) \in Nat /\ Len(s) > 0 /\ DOMAIN s = 1..Len(s) /\ DOMAIN Tail(s) = 1..(Len(s) - 1)
      /\ \A i \in 1..(Len(s) - 1) : Tail(s)[i] = s[i + 1]
      /\ Head(s) = s[1]
  OBVIOUS
<1>2. \A i \in 1..(Len(s) - 1) : i + 1 \in 1..Len(s)
  BY <1>1
<1>3. 1 \in 1..Len(s)
  BY <1>1
<1> QED
  BY <1>1, <1>2, <1>3

LEMMA AppendIsOf ==
  ASSUME NEW R, NEW s \in Seq(R), NEW x \in R, NEW S, \A i \in DOMAIN s : s[i] \in S, x \in S
  PROVE  \A i \in DOMAIN Append(s, x) : Append(s, x)[i] \in S
<1>1. /\ Len(s) \in Nat /\ DOMAIN s = 1..Len(s) /\ DOMAIN Append(s, x) = 1..(Len(s) + 1)
      /\ \A i \in 1..Len(s) : Append(s, x)[i] = s[i]
      /\ Append(s, x)[Len(s) + 1] = x
  BY AppendProperties
<1>2. \A i \in 1..(Len(s) + 1) : i \in 1..Len(s) \/ i = Len(s) + 1
  BY <1>1
<1> QED
  BY <1>1, <1>2

\* What CSFloat does and the syncing of the card.
LEMMA SyncingKeepsTypes ==
  ASSUME CSFloatAssumption, FloatRest, NEW l \in FloatListings, SyncTick \/ ListingAnswered(l)
  PROVE  FloatRest'
<1>0. /\ page.card \in Spots /\ popupItem \in Spots /\ CardOf(card)
      /\ prices \in 0..(MaxWrites + 1) /\ priceEngine.settings \in Versions
      /\ l \in Spots
  BY DEF FloatRest, Spots
<1>1. CASE SyncTick
  <2> DEFINE useIt == ready /\ show
  <2>1. card' = SyncedWith(popupItem, card, useIt, prices, priceEngine)
    BY <1>1 DEF SyncTick, Synced
  <2> HIDE DEF useIt
  <2>2. CardOf(card')
    BY <1>0, <2>1, SyncedIsACard
  <2> QED
    BY <1>1, <2>2 DEF SyncTick, FloatRest, scriptVars, panelVars, siteVars
<1>2. CASE ListingAnswered(l)
  <2> DEFINE useIt == ready /\ show
  <2>1. card' = SyncedWith(l, card, useIt, prices, priceEngine)
    BY <1>2 DEF ListingAnswered
  <2> HIDE DEF useIt
  <2>2. CardOf(card')
    BY <1>0, <2>1, SyncedIsACard
  <2> QED
    BY <1>0, <1>2, <2>2 DEF ListingAnswered, FloatRest, scriptVars, panelVars
<1> QED
  BY <1>1, <1>2

LEMMA VisitingKeepsTypes ==
  ASSUME CSFloatAssumption, FloatRest, NEW l \in FloatListings, Visit(l) \/ CardShows(l)
  PROVE  FloatRest'
<1>0. /\ page \in [route : Spots, card : Spots, visits : 0..MaxVisits]
      /\ page.visits \in 0..MaxVisits /\ MaxVisits \in Nat /\ l \in Spots /\ Nowhere \in Spots
  BY DEF FloatRest, Spots, CSFloatAssumption
<1>1. page' \in [route : Spots, card : Spots, visits : 0..MaxVisits]
  <2>1. CASE CardShows(l)
    BY <1>0, <2>1 DEF CardShows
  <2>2. CASE Visit(l)
    <3>1. page.visits + 1 \in 0..MaxVisits
      BY <1>0, <2>2 DEF Visit
    <3>2. PICK route \in {l, Nowhere} : page' = [page EXCEPT !.route = route, !.visits = @ + 1]
      BY <2>2 DEF Visit
    <3>3. route \in Spots
      BY <1>0
    <3> QED
      BY <1>0, <3>1, <3>2, <3>3
  <2> QED
    BY <2>1, <2>2
<1>2. UNCHANGED <<storage, asked, readings, changes, scriptVars, popupItem, card>>
  BY DEF Visit, CardShows
<1> QED
  BY <1>1, <1>2 DEF FloatRest, scriptVars, panelVars

\* What is written, and what the storage answers.
LEMMA WritingKeepsTypes ==
  ASSUME CSFloatAssumption, FloatRest, FloatShapes, FloatShapes', SettingsWritten \/ PricesWritten
  PROVE  FloatRest'
<1>0. /\ changes \in Seq(FloatChanges) /\ storage \in FloatStored /\ storage' \in FloatStored
      /\ storage.settings \in Nat /\ storage.prices \in Nat /\ storage.prices >= 1
      /\ MaxWrites \in Nat /\ storage.settings + storage.prices <= MaxWrites
  BY DEF FloatShapes, FloatRest, FloatStored, CSFloatAssumption, SettingsWritten, PricesWritten
<1>1. storage'.prices >= 1 /\ storage'.settings + storage'.prices <= MaxWrites + 1
  <2>1. CASE SettingsWritten
    <3>1. storage'.settings = storage.settings + 1 /\ storage'.prices = storage.prices
      BY <1>0, <2>1 DEF SettingsWritten, FloatStored
    <3> QED
      BY <1>0, <3>1
  <2>2. CASE PricesWritten
    <3>1. storage'.settings = storage.settings /\ storage'.prices = storage.prices + 1
      BY <1>0, <2>2 DEF PricesWritten, FloatStored
    <3> QED
      BY <1>0, <3>1
  <2> QED
    BY <2>1, <2>2
<1>2. storage' \in Stored
  <2>1. storage'.settings \in Nat /\ storage'.prices \in Nat /\ storage'.show \in BOOLEAN
        /\ storage' = [show |-> storage'.show, settings |-> storage'.settings, prices |-> storage'.prices]
    BY <1>0 DEF FloatStored
  <2>2. storage'.settings \in 0..MaxWrites /\ storage'.prices \in 1..(MaxWrites + 1)
    BY <1>0, <1>1, <2>1
  <2> QED
    BY <2>1, <2>2 DEF Stored
<1>3. PICK what \in {"settings", "prices"} : changes' = Append(changes, [what |-> what, value |-> storage'])
  BY DEF SettingsWritten, PricesWritten
<1> DEFINE entry == [what |-> what, value |-> storage']
<1>4. entry \in FloatChanges /\ entry \in Changed
  BY <1>0, <1>2 DEF FloatChanges, Changed
<1>5. changes' = Append(changes, entry) /\ \A i \in DOMAIN changes : changes[i] \in Changed
  BY <1>3 DEF FloatRest
<1> HIDE DEF entry
<1>6. \A i \in DOMAIN changes' : changes'[i] \in Changed
  BY <1>0, <1>4, <1>5, AppendIsOf
<1>7. UNCHANGED <<asked, readings, scriptVars, siteVars, card>>
  BY DEF SettingsWritten, PricesWritten
<1> QED
  BY <1>1, <1>6, <1>7 DEF FloatRest, scriptVars, panelVars, siteVars

LEMMA AnsweringReadsKeepsTypes ==
  ASSUME CSFloatAssumption, FloatRest, FloatShapes, StorageAnswers
  PROVE  FloatRest'
<1>0. /\ asked \in Seq(FloatReads) /\ readings \in Seq(FloatReadings) /\ asked # <<>>
      /\ asked' = Tail(asked) /\ storage \in FloatStored /\ storage \in Stored
  BY StoredIsBounded DEF FloatShapes, StorageAnswers
<1>1. PICK ok \in BOOLEAN :
        readings' = Append(readings, [what |-> Head(asked).what, asOf |-> Head(asked).asOf,
                                      value |-> storage, ok |-> ok])
  BY DEF StorageAnswers
<1> DEFINE entry == [what |-> Head(asked).what, asOf |-> Head(asked).asOf, value |-> storage, ok |-> ok]
           bounded == [what : {"engine", "panel", "prices"}, asOf : Versions]
<1>2. \A i \in DOMAIN asked : asked[i] \in bounded
  <2> SUFFICES ASSUME NEW i \in DOMAIN asked PROVE asked[i] \in bounded
    OBVIOUS
  <2>1. asked[i] \in FloatReads
    BY <1>0
  <2>2. asked[i].asOf \in Versions
    BY DEF FloatRest
  <2> QED
    BY <2>1, <2>2 DEF FloatReads
<1> HIDE DEF bounded
<1>3. Head(asked) \in bounded /\ \A i \in DOMAIN asked' : asked'[i] \in bounded
  BY <1>0, <1>2, TailIsOf
<1>4. entry \in FloatReadings /\ entry \in ReadResults
  BY <1>0, <1>1, <1>3 DEF bounded, FloatReadings, ReadResults, Versions, CSFloatAssumption
<1>5. readings' = Append(readings, entry) /\ \A i \in DOMAIN readings : readings[i] \in ReadResults
  BY <1>1 DEF FloatRest
<1> HIDE DEF entry
<1>6. \A i \in DOMAIN readings' : readings'[i] \in ReadResults
  BY <1>0, <1>4, <1>5, AppendIsOf
<1>7. \A i \in DOMAIN asked' : asked'[i].asOf \in Versions
  BY <1>3 DEF bounded
<1>8. UNCHANGED <<storage, changes, scriptVars, siteVars, card>>
  BY DEF StorageAnswers
<1> QED
  BY <1>6, <1>7, <1>8 DEF FloatRest, scriptVars, panelVars, siteVars

\* The page hears of changes.
LEMMA HearingKeepsTypes ==
  ASSUME CSFloatAssumption, FloatRest, FloatShapes, FloatShapes', ChangesInOrder',
         SettingsHeard \/ PricesHeard
  PROVE  FloatRest'
<1>0. /\ changes # <<>> /\ changes' = Tail(changes) /\ changes \in Seq(FloatChanges)
      /\ \A i \in DOMAIN changes : changes[i] \in Changed
      /\ page.card \in Spots /\ popupItem \in Spots /\ CardOf(card) /\ priceEngine.settings \in Versions
      /\ storage \in Stored
  BY StoredIsBounded DEF SettingsHeard, PricesHeard, Announced, FloatShapes, FloatRest
<1> DEFINE first == Head(changes)
<1>1. first \in Changed /\ \A i \in DOMAIN changes' : changes'[i] \in Changed
  BY <1>0, TailIsOf
<1>2. CASE SettingsHeard
  <2> DEFINE request == [what |-> "engine", asOf |-> panelRevision + 1]
  <2>1. /\ card' = Repainted(FALSE, prices, priceEngine) /\ asked' = Append(asked, request)
        /\ panelRevision' = panelRevision + 1 /\ asked \in Seq(FloatReads) /\ prices \in 0..(MaxWrites + 1)
        /\ storage' = storage /\ panelRevision \in Nat
        /\ \A i \in DOMAIN asked : asked[i].asOf \in Versions
    BY <1>2 DEF SettingsHeard, FloatShapes, FloatRest
  <2>2. CardOf(card')
    BY <1>0, <2>1, RepaintedIsACard
  <2>3. panelRevision + 1 \in Versions
    <3>1. panelRevision + 1 <= storage.settings /\ storage.settings \in 0..MaxWrites
      BY <1>0, <2>1 DEF ChangesInOrder, Stored
    <3> QED
      BY <2>1, <3>1 DEF Versions, CSFloatAssumption
  <2>4. request \in FloatReads /\ request.asOf \in Versions
    BY <2>1, <2>3 DEF FloatReads
  <2> HIDE DEF request
  <2>5. \A i \in DOMAIN asked' : asked'[i].asOf \in Versions
    <3> DEFINE bounded == {r \in FloatReads : r.asOf \in Versions}
    <3>1. request \in bounded /\ \A i \in DOMAIN asked : asked[i] \in bounded
      BY <2>1, <2>4
    <3> HIDE DEF bounded
    <3>2. \A i \in DOMAIN asked' : asked'[i] \in bounded
      BY <2>1, <2>4, <3>1, AppendIsOf
    <3> QED
      BY <3>2 DEF bounded
  <2> QED
    BY <1>1, <1>2, <2>2, <2>5 DEF SettingsHeard, FloatRest, siteVars
<1>3. CASE PricesHeard
  <2> DEFINE useIt == ready /\ show
             p == first.value.prices
  <2>1. card' = Repainted(useIt, p, priceEngine) /\ prices' = p
    BY <1>3 DEF PricesHeard
  <2>2. p \in 0..(MaxWrites + 1)
    BY <1>1 DEF Changed, Stored, CSFloatAssumption
  <2> HIDE DEF useIt, p, first
  <2>3. CardOf(card')
    BY <1>0, <2>1, <2>2, RepaintedIsACard
  <2> QED
    BY <1>1, <1>3, <2>1, <2>2, <2>3 DEF PricesHeard, FloatRest, siteVars, panelVars
<1> QED
  BY <1>2, <1>3

\* The page gets what it read.
LEMMA ReadingKeepsTypes ==
  ASSUME CSFloatAssumption, FloatRest, FloatShapes,
         EngineReloaded \/ EngineLoaded \/ PanelSettingsLoaded \/ PricesLoaded
  PROVE  FloatRest'
<1> DEFINE first == Head(readings)
<1>0. /\ readings # <<>> /\ readings' = Tail(readings) /\ readings \in Seq(FloatReadings)
      /\ \A i \in DOMAIN readings : readings[i] \in ReadResults
      /\ page.card \in Spots /\ popupItem \in Spots /\ CardOf(card) /\ priceEngine.settings \in Versions
      /\ prices \in 0..(MaxWrites + 1) /\ priceEngine \in [settings : Nat, failed : BOOLEAN]
      /\ asked \in Seq(FloatReads) /\ MaxWrites \in Nat
      /\ \A i \in DOMAIN asked : asked[i].asOf \in Versions
  BY DEF EngineReloaded, EngineLoaded, PanelSettingsLoaded, PricesLoaded, Replied, FloatShapes, FloatRest,
         CSFloatAssumption
<1>1. first \in ReadResults /\ \A i \in DOMAIN readings' : readings'[i] \in ReadResults
  BY <1>0, TailIsOf
<1>2. first.value \in Stored /\ first.value.settings \in Versions /\ first.value.prices \in 0..(MaxWrites + 1)
  BY <1>0, <1>1 DEF ReadResults, Stored, Versions
<1>3. EngineWith(first).settings \in Versions
  BY <1>0, <1>2 DEF EngineWith
<1> HIDE DEF first
<1>4. ASSUME NEW what \in {"panel", "prices"}, Asks(what)
      PROVE  \A i \in DOMAIN asked' : asked'[i].asOf \in Versions
  <2> DEFINE request == [what |-> what, asOf |-> 0]
             bounded == {r \in FloatReads : r.asOf \in Versions}
  <2>1. request \in FloatReads /\ request \in bounded /\ asked' = Append(asked, request)
    BY <1>0, <1>4 DEF FloatReads, Versions, Asks
  <2>2. \A i \in DOMAIN asked : asked[i] \in bounded
    BY <1>0
  <2> HIDE DEF bounded, request
  <2>3. \A i \in DOMAIN asked' : asked'[i] \in bounded
    BY <1>0, <2>1, <2>2, AppendIsOf
  <2> QED
    BY <2>3 DEF bounded
<1>5. CASE EngineReloaded
  <2>1. priceEngine' = EngineWith(first)
    BY <1>5 DEF EngineReloaded, first
  <2>2. CardOf(card')
    <3>1. card' = card \/ card' = Repainted(show, prices, priceEngine')
      BY <1>5 DEF EngineReloaded
    <3>2. CardOf(Repainted(show, prices, EngineWith(first)))
      BY <1>0, <1>3, RepaintedIsACard
    <3> QED
      BY <1>0, <2>1, <3>1, <3>2
  <2> QED
    BY <1>1, <1>3, <1>5, <2>1, <2>2 DEF EngineReloaded, FloatRest, siteVars
<1>6. CASE EngineLoaded
  <2>1. priceEngine' = EngineWith(first) /\ Asks("panel") /\ booting' = "panel"
    BY <1>6 DEF EngineLoaded, first
  <2>2. \A i \in DOMAIN asked' : asked'[i].asOf \in Versions
    BY <1>4, <2>1
  <2> QED
    BY <1>1, <1>3, <1>6, <2>1, <2>2 DEF EngineLoaded, FloatRest, siteVars, panelVars
<1>7. CASE PanelSettingsLoaded
  <2>1. Asks("prices") /\ booting' = "prices" /\ overtaken' \in BOOLEAN
    BY <1>7 DEF PanelSettingsLoaded
  <2>2. \A i \in DOMAIN asked' : asked'[i].asOf \in Versions
    BY <1>4, <2>1
  <2> QED
    BY <1>1, <1>7, <2>1, <2>2 DEF PanelSettingsLoaded, FloatRest, siteVars
<1>8. CASE PricesLoaded
  <2> DEFINE useIt == ready /\ show
  <2>1. /\ prices' = IF first.ok THEN first.value.prices ELSE prices
        /\ card' = Repainted(useIt, prices', priceEngine) /\ booting' = "done"
    BY <1>8 DEF PricesLoaded, first
  <2>2. prices' \in 0..(MaxWrites + 1)
    BY <1>0, <1>2, <2>1
  <2> HIDE DEF useIt
  <2>3. PICK p \in 0..(MaxWrites + 1) : p = prices'
    BY <2>2
  <2>4. CardOf(Repainted(useIt, p, priceEngine))
    BY <1>0, RepaintedIsACard
  <2>5. CardOf(card')
    BY <2>1, <2>3, <2>4
  <2> QED
    BY <1>1, <1>8, <2>1, <2>2, <2>5 DEF PricesLoaded, FloatRest, siteVars, panelVars
<1> QED
  BY <1>5, <1>6, <1>7, <1>8

LEMMA FloatRestStep ==
  ASSUME CSFloatAssumption, FloatInductive, FloatInductive', FloatRest, [CSFloatNext]_csfloatVars
  PROVE  FloatRest'
<1>0. FloatShapes /\ FloatShapes' /\ ChangesInOrder'
  BY DEF FloatInductive
<1>1. CASE SyncTick \/ \E l \in FloatListings : ListingAnswered(l)
  <2>1. CASE \E l \in FloatListings : ListingAnswered(l)
    BY <2>1, SyncingKeepsTypes
  <2>2. CASE SyncTick
    <3> DEFINE useIt == ready /\ show
    <3>1. /\ page.card \in Spots /\ popupItem \in Spots /\ CardOf(card)
          /\ prices \in 0..(MaxWrites + 1) /\ priceEngine.settings \in Versions
          /\ card' = SyncedWith(popupItem, card, useIt, prices, priceEngine)
      BY <2>2 DEF FloatRest, SyncTick, Synced
    <3> HIDE DEF useIt
    <3>2. CardOf(card')
      BY <3>1, SyncedIsACard
    <3> QED
      BY <2>2, <3>2 DEF SyncTick, FloatRest, scriptVars, panelVars, siteVars
  <2> QED
    BY <1>1, <2>1, <2>2
<1>2. CASE \E l \in FloatListings : Visit(l) \/ CardShows(l)
  BY <1>2, VisitingKeepsTypes
<1>3. CASE SettingsWritten \/ PricesWritten
  BY <1>0, <1>3, WritingKeepsTypes
<1>4. CASE StorageAnswers
  BY <1>0, <1>4, AnsweringReadsKeepsTypes
<1>5. CASE SettingsHeard \/ PricesHeard
  BY <1>0, <1>5, HearingKeepsTypes
<1>6. CASE EngineReloaded \/ EngineLoaded \/ PanelSettingsLoaded \/ PricesLoaded
  BY <1>0, <1>6, ReadingKeepsTypes
<1>7. CASE UNCHANGED csfloatVars
  BY <1>7 DEF csfloatVars, scriptVars, panelVars, siteVars, FloatRest
<1> QED
  BY <1>1, <1>2, <1>3, <1>4, <1>5, <1>6, <1>7 DEF CSFloatNext

LEMMA FloatTypesFollow ==
  ASSUME CSFloatAssumption, FloatInductive, FloatRest
  PROVE  CSFloatTypeOK
<1>0. FloatShapes /\ ChangesInOrder
  BY DEF FloatInductive
<1>1. storage \in Stored
  BY <1>0, StoredIsBounded DEF FloatShapes
<1>2. priceEngine \in [settings : 0..MaxWrites, failed : BOOLEAN]
  <2>1. priceEngine \in [settings : Nat, failed : BOOLEAN] /\ priceEngine.settings \in 0..MaxWrites
    BY <1>0 DEF FloatShapes, FloatRest, Versions
  <2> QED
    BY <2>1
<1>3. \A i \in DOMAIN asked : asked[i] \in [what : {"engine", "panel", "prices"}, asOf : 0..MaxWrites]
  <2> SUFFICES ASSUME NEW i \in DOMAIN asked
               PROVE asked[i] \in [what : {"engine", "panel", "prices"}, asOf : 0..MaxWrites]
    OBVIOUS
  <2>1. asked[i] \in FloatReads
    BY <1>0 DEF FloatShapes
  <2>2. asked[i].asOf \in 0..MaxWrites
    BY DEF FloatRest, Versions
  <2> QED
    BY <2>1, <2>2 DEF FloatReads
<1>4. panelRevision \in 0..MaxWrites
  <2>1. panelRevision \in Nat /\ panelRevision <= storage.settings /\ storage.settings \in 0..MaxWrites
    BY <1>0, <1>1 DEF FloatShapes, ChangesInOrder, Stored
  <2> QED
    BY <2>1 DEF CSFloatAssumption
<1>5. page.visits \in 0..MaxVisits /\ {page.route, page.card} \subseteq FloatListings \cup {Nowhere}
  BY DEF FloatRest, Spots
<1> QED
  BY <1>0, <1>1, <1>2, <1>3, <1>4, <1>5 DEF CSFloatTypeOK, FloatShapes, FloatRest, CardOf, Spots

LEMMA FloatRestBegins ==
  ASSUME CSFloatAssumption, CSFloatInit PROVE FloatRest
<1>0. MaxWrites \in Nat /\ MaxVisits \in Nat /\ storage.settings = 0 /\ storage.prices = 1
  BY DEF CSFloatAssumption, CSFloatInit
<1>1. asked = <<[what |-> "engine", asOf |-> 0]>> /\ readings = <<>> /\ changes = <<>>
  BY DEF CSFloatInit
<1>2. \A i \in DOMAIN asked : asked[i].asOf \in Versions
  BY <1>0, <1>1 DEF Versions
<1>3. card = Bare /\ CardOf(card)
  <2>1. card = [key |-> {}, line |-> {}, panel |-> {}]
    BY DEF CSFloatInit, Bare
  <2> QED
    BY <2>1 DEF Bare, CardOf
<1>4. page \in [route : Spots, card : Spots, visits : 0..MaxVisits] /\ popupItem \in Spots
  BY <1>0 DEF CSFloatInit, Spots
<1>5. /\ priceEngine.settings \in Versions /\ prices \in 0..(MaxWrites + 1)
      /\ booting \in {"engine", "panel", "prices", "done"} /\ overtaken \in BOOLEAN
  <2>1. priceEngine.settings = 0 /\ prices = 0
    BY DEF CSFloatInit
  <2>2. booting \in {"engine", "panel", "prices", "done"} /\ overtaken \in BOOLEAN
    BY DEF CSFloatInit
  <2> QED
    BY <1>0, <2>1, <2>2 DEF Versions
<1> QED
  BY <1>0, <1>1, <1>2, <1>3, <1>4, <1>5 DEF FloatRest

THEOREM CSFloatKeepsTypes == CSFloatSpec => []CSFloatTypeOK
<1> USE CSFloatAssumption
<1>1. CSFloatInit => FloatInductive /\ FloatRest
  BY FloatBegins, FloatRestBegins
<1>2. (FloatInductive /\ FloatRest) /\ [CSFloatNext]_csfloatVars => (FloatInductive /\ FloatRest)'
  BY FloatStep, FloatRestStep
<1>3. FloatInductive /\ FloatRest => CSFloatTypeOK
  BY FloatTypesFollow
<1> QED
  BY <1>1, <1>2, <1>3, PTL DEF CSFloatSpec

-----------------------------------------------------------------------------
(***************************************************************************)
(* The parts together.                                                     *)
(***************************************************************************)
\* The variables of SyncSchedule keep their types.
LEMMA ScheduleKeepsTypes == ScheduleSpec => []ScheduleTypeOK
<1>1. BackInv => ScheduleTypeOK
  BY DEF BackInv
<1> QED
  BY <1>1, BackInvariant, PTL

\* A step of the whole is a step of one part, and leaves the others as they are.
LEMMA PartsStep ==
  ASSUME [Next]_vars
  PROVE  /\ [ListingNext]_listingVars
         /\ [FeeNext]_feeVars
         /\ [SaleNext]_saleVars
         /\ [HomeNext]_homeVars
         /\ [OffersNext]_offersVars
         /\ [TagsNext]_tagsVars
         /\ [InventoryNext]_inventoryVars
         /\ [BuffNext]_buffVars
         /\ [CSFloatNext]_csfloatVars
         /\ [ScheduleNext]_scheduleVars
         /\ UNCHANGED part
<1>1. [ListingNext]_listingVars
  BY DEF Next, vars, Listing, Fees, Sale, Home, OffersList, Tags,
         Inventory, Buff, CSFloat, Schedule, PriceFeeds
<1>2. [FeeNext]_feeVars
  BY DEF Next, vars, Listing, Fees, Sale, Home, OffersList, Tags,
         Inventory, Buff, CSFloat, Schedule, PriceFeeds
<1>3. [SaleNext]_saleVars
  BY DEF Next, vars, Listing, Fees, Sale, Home, OffersList, Tags,
         Inventory, Buff, CSFloat, Schedule, PriceFeeds
<1>4. [HomeNext]_homeVars
  BY DEF Next, vars, Listing, Fees, Sale, Home, OffersList, Tags,
         Inventory, Buff, CSFloat, Schedule, PriceFeeds
<1>5. [OffersNext]_offersVars
  BY DEF Next, vars, Listing, Fees, Sale, Home, OffersList, Tags,
         Inventory, Buff, CSFloat, Schedule, PriceFeeds
<1>6. [TagsNext]_tagsVars
  BY DEF Next, vars, Listing, Fees, Sale, Home, OffersList, Tags,
         Inventory, Buff, CSFloat, Schedule, PriceFeeds
<1>7. [InventoryNext]_inventoryVars
  BY DEF Next, vars, Listing, Fees, Sale, Home, OffersList, Tags,
         Inventory, Buff, CSFloat, Schedule, PriceFeeds
<1>8. [BuffNext]_buffVars
  BY DEF Next, vars, Listing, Fees, Sale, Home, OffersList, Tags,
         Inventory, Buff, CSFloat, Schedule, PriceFeeds
<1>9. [CSFloatNext]_csfloatVars
  BY DEF Next, vars, Listing, Fees, Sale, Home, OffersList, Tags,
         Inventory, Buff, CSFloat, Schedule, PriceFeeds
<1>10. [ScheduleNext]_scheduleVars
  BY DEF Next, vars, Listing, Fees, Sale, Home, OffersList, Tags,
         Inventory, Buff, CSFloat, Schedule, PriceFeeds
<1>11. UNCHANGED part
  BY DEF Next, vars, Listing, Fees, Sale, Home, OffersList, Tags,
         Inventory, Buff, CSFloat, Schedule, PriceFeeds
<1> QED
  BY <1>1, <1>2, <1>3, <1>4, <1>5, <1>6, <1>7, <1>8, <1>9, <1>10, <1>11

\* So a behaviour of the whole is one of every part but for what that part's timers owe, and what
\* is proved of a part holds in it.
THEOREM PartsRun ==
  Spec => /\ ListingSpec
          /\ FeeSpec
          /\ SaleSpec
          /\ HomeSpec
          /\ OffersSpec
          /\ TagsSpec
          /\ InventoryInit /\ [][InventoryNext]_inventoryVars
          /\ BuffSpec
          /\ CSFloatSpec
          /\ ScheduleSpec
          /\ [](part \in Parts)
<1>1. Init => /\ ListingInit /\ FeeInit /\ SaleInit /\ HomeInit /\ OffersInit /\ TagsInit
              /\ InventoryInit /\ BuffInit /\ CSFloatInit /\ ScheduleInit /\ part \in Parts
  BY DEF Init
<1>2. Spec => ListingSpec
  BY <1>1, PartsStep, PTL DEF Spec, ListingSpec
<1>3. Spec => FeeSpec
  BY <1>1, PartsStep, PTL DEF Spec, FeeSpec
<1>4. Spec => SaleSpec
  BY <1>1, PartsStep, PTL DEF Spec, SaleSpec
<1>5. Spec => HomeSpec
  BY <1>1, PartsStep, PTL DEF Spec, HomeSpec
<1>6. Spec => OffersSpec
  BY <1>1, PartsStep, PTL DEF Spec, OffersSpec
<1>7. Spec => TagsSpec
  BY <1>1, PartsStep, PTL DEF Spec, TagsSpec
<1>8. Spec => InventoryInit /\ [][InventoryNext]_inventoryVars
  BY <1>1, PartsStep, PTL DEF Spec
<1>9. Spec => BuffSpec
  BY <1>1, PartsStep, PTL DEF Spec, BuffSpec
<1>10. Spec => CSFloatSpec
  BY <1>1, PartsStep, PTL DEF Spec, CSFloatSpec
<1>11. Spec => ScheduleSpec
  BY <1>1, PartsStep, PTL DEF Spec, ScheduleSpec
<1>12. part \in Parts /\ UNCHANGED part => (part \in Parts)'
  OBVIOUS
<1>13. Spec => [](part \in Parts)
  BY <1>1, <1>12, PartsStep, PTL DEF Spec
<1> QED
  BY <1>2, <1>3, <1>4, <1>5, <1>6, <1>7, <1>8, <1>9, <1>10, <1>11, <1>13

\* Every variable of every part keeps its type.
THEOREM PartsTypes == Spec => []PartsTypeOK
<1>1. /\ part \in Parts /\ ListingTypeOK /\ SaleTypeOK /\ HomeTypeOK /\ OffersTypeOK
      /\ TagsTypeOK /\ InventoryTypeOK /\ BuffTypeOK /\ CSFloatTypeOK /\ ScheduleTypeOK
      => PartsTypeOK
  BY DEF PartsTypeOK
<1> QED
  BY <1>1, PartsRun, ListingTypes, SaleKeepsTypes, HomeKeepsTypes, OffersKeepTypes,
     TagsKeepTypes, InventoryStaysTyped, BuffKeepsTypes, CSFloatKeepsTypes, ScheduleKeepsTypes, PTL
=============================================================================
