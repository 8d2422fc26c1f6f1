------------------------- MODULE SyncOutbox_proofs -------------------------
(***************************************************************************)
(* The invariants of SyncOutbox, for every capacity, delay, life and       *)
(* number of attempts.  What a record may look like is a set, Sound, and   *)
(* what it looks like once it was tried a smaller one, Tried: time keeps a *)
(* record in either, and a pass keeps only what is in the second.  That a  *)
(* run with the verdict "ok" leaves only tried records is then a matter of *)
(* which sequence the outbox is of.                                        *)
(***************************************************************************)
EXTENDS SyncOutbox, TLAPS

\* A record that was tried waits for less than it lives; one that was not does not wait.
Sound ==
  {r \in Record : /\ r.attempts > 0 => r.wait < r.left \/ r.left = 0
                  /\ r.attempts = 0 => r.wait = 0}
Tried == {r \in Sound : r.attempts > 0}

RunShape ==
  run \in [pc : {"idle", "enqueue", "drain"}, todo : 0..MaxChunks,
           elapsed : 0..MaxElapsed, result : {"none", "ok", "failed"}]

PassShape ==
  /\ pass = [read |-> pass.read, remaining |-> pass.remaining, delivered |-> pass.delivered,
             failed |-> pass.failed, since |-> pass.since]
  /\ pass.read \in Seq(Sound) /\ pass.remaining \in Seq(Tried)
  /\ pass.delivered \in Nat /\ pass.failed \in Nat /\ pass.since \in 0..run.elapsed

OutboxShape == outbox \in Seq(Sound) /\ Len(outbox) <= Capacity

Accounted ==
  run.pc = "drain" =>
    Len(pass.read) + pass.delivered + pass.failed + Len(pass.remaining) = Len(outbox)

OnlyTried == run.result = "ok" => run.pc = "idle" /\ outbox \in Seq(Tried)

IdlePass == run.pc # "drain" => pass = NoPass

OutboxInv ==
  /\ IdlePass /\ RunShape /\ PassShape /\ OutboxShape /\ Accounted /\ OnlyTried
  /\ reachable \in BOOLEAN /\ stops \in 0..MaxStops

-----------------------------------------------------------------------------
\* Time makes a sound record no less sound, and does not untry it.
LEMMA RecordAges ==
  ASSUME NEW r \in Record, NEW d \in Nat
  PROVE  LET a == [r EXCEPT !.wait = Minus(@, d), !.left = Minus(@, d)]
         IN /\ r \in Sound => a \in Sound
            /\ r \in Tried => a \in Tried
<1> DEFINE a == [r EXCEPT !.wait = Minus(@, d), !.left = Minus(@, d)]
<1>1. Minus(r.wait, d) \in 0..Ttl /\ Minus(r.left, d) \in 0..Ttl
  BY LimitsAssumption DEF Record, Minus
<1>2. ASSUME NEW x \in 0..Ttl, NEW y \in 0..Ttl
      PROVE  LET b == [r EXCEPT !.wait = x, !.left = y]
             IN b \in Record /\ b.wait = x /\ b.left = y /\ b.attempts = r.attempts
  BY DEF Record
<1>3. /\ a \in Record /\ a.attempts = r.attempts
      /\ a.wait = Minus(r.wait, d) /\ a.left = Minus(r.left, d)
  BY <1>1, <1>2
<1>4. r.wait < r.left => a.wait < a.left \/ a.left = 0
  BY <1>3, LimitsAssumption DEF Record, Minus
<1>5. (r.left = 0 => a.left = 0) /\ (r.wait = 0 => a.wait = 0)
  BY <1>3, LimitsAssumption DEF Record, Minus
<1>6. r \in Sound => a \in Sound
  BY <1>3, <1>4, <1>5 DEF Sound
<1> QED
  BY <1>3, <1>6 DEF Tried

LEMMA RecordsAge ==
  ASSUME NEW s, NEW d \in Nat
  PROVE  /\ s \in Seq(Sound) => Aged(s, d) \in Seq(Sound) /\ Len(Aged(s, d)) = Len(s)
         /\ s \in Seq(Tried) => Aged(s, d) \in Seq(Tried) /\ Len(Aged(s, d)) = Len(s)
<1>1. ASSUME NEW S, S \in {Sound, Tried}, s \in Seq(S)
      PROVE  Aged(s, d) \in Seq(S) /\ Len(Aged(s, d)) = Len(s)
  <2>1. Len(s) \in Nat /\ DOMAIN s = 1..Len(s) /\ \A i \in 1..Len(s) : s[i] \in S
    BY <1>1
  <2>2. ASSUME NEW i \in 1..Len(s)
        PROVE  [s[i] EXCEPT !.wait = Minus(@, d), !.left = Minus(@, d)] \in S
    BY <1>1, <2>1, RecordAges DEF Sound, Tried
  <2>3. Aged(s, d) \in [1..Len(s) -> S]
    BY <2>1, <2>2 DEF Aged
  <2> QED
    BY <2>1, <2>3
<1> QED
  BY <1>1

\* A tried sequence is a sound one.
LEMMA TriedAreSound == ASSUME NEW s \in Seq(Tried) PROVE s \in Seq(Sound)
BY DEF Tried

\* A fresh envelope is sound; one kept for another attempt is a tried one.
LEMMA FreshIsSound == Fresh \in Sound
BY LimitsAssumption DEF Fresh, Sound, Record

LEMMA SafeDelayIsSafe ==
  ASSUME NEW requested \in Int
  PROVE  SafeDelay(requested) \in Nat
BY LimitsAssumption DEF SafeDelay

LEMMA RetryDelayIsANumber ==
  ASSUME NEW attempts \in Nat \ {0}
  PROVE  RetryDelay(attempts) \in Int
<1>1. 2 ^ (attempts - 1) \in Int
  OBVIOUS
<1> QED
  BY <1>1, LimitsAssumption DEF RetryDelay

LEMMA RetriedIsTried ==
  ASSUME NEW r \in Sound, NEW delay \in Nat, ~Hopeless(r, delay)
  PROVE  Retried(r, delay) \in Tried
<1> DEFINE b == Retried(r, delay)
<1>0. r \in Record
  BY DEF Sound
<1>2. r.attempts + 1 \in 0..MaxAttempts - 1 /\ delay \in 0..Ttl /\ delay < r.left
  BY LimitsAssumption DEF Hopeless, Sound, Record
<1>3. ASSUME NEW x \in 0..MaxAttempts - 1, NEW y \in 0..Ttl
      PROVE  LET c == [r EXCEPT !.attempts = x, !.wait = y]
             IN c \in Record /\ c.attempts = x /\ c.wait = y /\ c.left = r.left
  BY <1>0 DEF Record
<1>4. b \in Record /\ b.attempts = r.attempts + 1 /\ b.wait = delay /\ b.left = r.left
  BY <1>2, <1>3 DEF Retried
<1>5. r.attempts \in Nat
  BY <1>0, LimitsAssumption DEF Record
<1> QED
  BY <1>2, <1>4, <1>5 DEF Tried, Sound

-----------------------------------------------------------------------------
\* A record leaves the pass: it is counted, or it goes to what remains.
LEMMA RecordIsDone ==
  ASSUME OutboxInv, Draining, PassMoves,
         \/ pass' = Delivered(pass) \/ pass' = Dropped(pass)
         \/ \E r \in Tried : pass' = Kept(pass, r)
  PROVE  OutboxInv'
<1>1. pass.read \in Seq(Sound) /\ pass.read # <<>> /\ pass.remaining \in Seq(Tried)
  BY DEF OutboxInv, PassShape, Draining
<1>2. Tail(pass.read) \in Seq(Sound) /\ Len(Tail(pass.read)) = Len(pass.read) - 1
  BY <1>1
<1>3. Len(pass.read) \in Nat /\ Len(pass.remaining) \in Nat
  BY <1>1
<1>4. UNCHANGED <<outbox, run, reachable, stops>>
  BY DEF PassMoves
<1>5. ASSUME PassShape',
             run.pc = "drain" =>
               Len(pass'.read) + pass'.delivered + pass'.failed + Len(pass'.remaining)
                 = Len(outbox)
      PROVE  OutboxInv'
  BY <1>4, <1>5 DEF OutboxInv, IdlePass, Draining, RunShape, OutboxShape, Accounted, OnlyTried
<1>6. CASE pass' = Delivered(pass)
  <2>1. pass' = [read |-> Tail(pass.read), remaining |-> pass.remaining,
                 delivered |-> pass.delivered + 1, failed |-> pass.failed, since |-> pass.since]
    BY <1>6 DEF Delivered, OutboxInv, PassShape
  <2> QED
    BY <1>1, <1>2, <1>3, <1>4, <1>5, <2>1 DEF OutboxInv, PassShape, Accounted
<1>7. CASE pass' = Dropped(pass)
  <2>1. pass' = [read |-> Tail(pass.read), remaining |-> pass.remaining,
                 delivered |-> pass.delivered, failed |-> pass.failed + 1, since |-> pass.since]
    BY <1>7 DEF Dropped, OutboxInv, PassShape
  <2> QED
    BY <1>1, <1>2, <1>3, <1>4, <1>5, <2>1 DEF OutboxInv, PassShape, Accounted
<1>8. ASSUME NEW r \in Tried, pass' = Kept(pass, r)
      PROVE  OutboxInv'
  <2>1. pass' = [read |-> Tail(pass.read), remaining |-> Append(pass.remaining, r),
                 delivered |-> pass.delivered, failed |-> pass.failed, since |-> pass.since]
    BY <1>8 DEF Kept, OutboxInv, PassShape
  <2>2. /\ Append(pass.remaining, r) \in Seq(Tried)
        /\ Len(Append(pass.remaining, r)) = Len(pass.remaining) + 1
    BY <1>1
  <2> QED
    BY <1>1, <1>2, <1>3, <1>4, <1>5, <2>1, <2>2 DEF OutboxInv, PassShape, Accounted
<1> QED
  BY <1>6, <1>7, <1>8

\* A run ends without a verdict on the outbox.
LEMMA RunIsOver ==
  ASSUME OutboxInv, NEW result \in {"none", "failed"}, run' = Ended(result),
         (pass' = pass /\ run.pc # "drain") \/ pass' = NoPass, UNCHANGED <<outbox, reachable>>,
         stops' \in 0..MaxStops
  PROVE  OutboxInv'
<1>1. run' = [pc |-> "idle", todo |-> 0, elapsed |-> 0, result |-> result]
  BY DEF Ended
<1>2. RunShape' /\ Accounted' /\ OnlyTried'
  BY <1>1, LimitsAssumption, EnvironmentAssumption DEF RunShape, Accounted, OnlyTried
<1>3. CASE pass' = NoPass
  <2>1. PassShape'
    BY <1>1, <1>3 DEF PassShape, NoPass
  <2> QED
    BY <1>1, <1>2, <1>3, <2>1 DEF OutboxInv, IdlePass, OutboxShape
<1>4. CASE pass' = pass /\ run.pc # "drain"
  <2>1. pass.since = 0
    BY <1>4 DEF OutboxInv, IdlePass, NoPass
  <2>2. PassShape'
    BY <1>1, <1>4, <2>1 DEF OutboxInv, PassShape
  <2> QED
    BY <1>1, <1>2, <1>4, <2>2 DEF OutboxInv, IdlePass, OutboxShape
<1> QED
  BY <1>3, <1>4

-----------------------------------------------------------------------------
\* The invariant: where records come from, how they age and where a pass puts them.
THEOREM OutboxInvariant == Spec => []OutboxInv
<1>1. Init => OutboxInv
  <2> SUFFICES ASSUME Init PROVE OutboxInv
    OBVIOUS
  <2>1. run = [pc |-> "idle", todo |-> 0, elapsed |-> 0, result |-> "none"] /\ outbox = <<>>
    BY DEF Init, Ended
  <2>2. PassShape
    BY <2>1 DEF Init, NoPass, PassShape
  <2> QED
    BY <2>1, <2>2, LimitsAssumption, EnvironmentAssumption
    DEF Init, OutboxInv, IdlePass, RunShape, OutboxShape, Accounted, OnlyTried
<1>2. OutboxInv /\ [Next]_vars => OutboxInv'
  <2> SUFFICES ASSUME OutboxInv, [Next]_vars
               PROVE  OutboxInv'
    OBVIOUS
  <2>1. CASE RunStarts
    <3>1. PICK n \in 1..MaxChunks :
            run' = [pc |-> "enqueue", todo |-> n, elapsed |-> 0, result |-> "none"]
      BY <2>1 DEF RunStarts
    <3>2. pass = NoPass /\ pass' = pass /\ UNCHANGED <<outbox, reachable, stops>>
      BY <2>1 DEF RunStarts, OutboxInv, IdlePass
    <3>3. RunShape' /\ IdlePass' /\ Accounted' /\ OnlyTried'
      BY <3>1, <3>2, LimitsAssumption, EnvironmentAssumption
      DEF RunShape, IdlePass, Accounted, OnlyTried
    <3>4. PassShape'
      BY <3>1, <3>2 DEF PassShape, NoPass
    <3> QED
      BY <3>2, <3>3, <3>4 DEF OutboxInv, OutboxShape
  <2>2. CASE RunFails
    BY <2>2, RunIsOver DEF RunFails, OutboxInv
  <2>3. CASE EnqueueFull
    BY <2>3, RunIsOver DEF EnqueueFull, OutboxInv
  <2>4. CASE Enqueue
    <3>1. /\ run' = [run EXCEPT !.todo = run.todo - 1] /\ run.pc = "enqueue" /\ run.todo > 0
          /\ outbox' = Append(outbox, Fresh) /\ ~(Len(outbox) >= Capacity)
          /\ UNCHANGED <<pass, reachable, stops>>
      BY <2>4 DEF Enqueue, Full
    <3>2. RunShape' /\ run'.pc = "enqueue" /\ run'.elapsed = run.elapsed /\ run'.result = run.result
      BY <3>1, LimitsAssumption DEF OutboxInv, RunShape
    <3>3. OutboxShape'
      BY <3>1, FreshIsSound, LimitsAssumption DEF OutboxInv, OutboxShape
    <3> QED
      BY <3>1, <3>2, <3>3 DEF OutboxInv, IdlePass, PassShape, Accounted, OnlyTried
  <2>5. CASE DrainStarts
    <3>1. /\ run' = [run EXCEPT !.pc = "drain"] /\ run.pc = "enqueue"
          /\ pass' = [NoPass EXCEPT !.read = outbox] /\ UNCHANGED <<outbox, reachable, stops>>
      BY <2>5 DEF DrainStarts
    <3>2. RunShape' /\ run'.pc = "drain" /\ run'.elapsed = run.elapsed /\ run'.result = run.result
      BY <3>1 DEF OutboxInv, RunShape
    <3>3. pass' = [read |-> outbox, remaining |-> <<>>, delivered |-> 0, failed |-> 0, since |-> 0]
      BY <3>1 DEF NoPass
    <3>4. PassShape'
      BY <3>2, <3>3 DEF OutboxInv, OutboxShape, PassShape, RunShape
    <3>5. Accounted'
      BY <3>1, <3>3 DEF OutboxInv, OutboxShape, Accounted
    <3> QED
      BY <3>1, <3>2, <3>4, <3>5 DEF OutboxInv, IdlePass, OutboxShape, OnlyTried
  <2>6. CASE DropExpired
    BY <2>6, RecordIsDone DEF DropExpired
  <2>7. CASE KeepWaiting
    <3>1. Current \in Sound
      BY <2>7 DEF KeepWaiting, Draining, Current, OutboxInv, PassShape
    <3>2. Current \in Tried
      BY <2>7, <3>1, LimitsAssumption
      DEF KeepWaiting, Due, Expired, Tried, Sound, Record
    <3> QED
      BY <2>7, <3>2, RecordIsDone DEF KeepWaiting
  <2>8. CASE SendAccepted
    BY <2>8, RecordIsDone DEF SendAccepted
  <2>9. CASE SendRefused
    BY <2>9, RecordIsDone DEF SendRefused
  <2>10. CASE SendUnanswered
    <3>1. Current \in Sound /\ Current.attempts \in Nat
      BY <2>10, LimitsAssumption
      DEF SendUnanswered, Draining, Current, OutboxInv, PassShape, Sound, Record
    <3>2. PICK requested \in RetryAfters \cup {RetryDelay(Current.attempts + 1)} :
            \/ pass' = Dropped(pass)
            \/ /\ ~Hopeless(Current, SafeDelay(requested))
               /\ pass' = Kept(pass, Retried(Current, SafeDelay(requested)))
      BY <2>10 DEF SendUnanswered
    <3>3. requested \in Int
      BY <3>1, RetryDelayIsANumber, EnvironmentAssumption
    <3>4. SafeDelay(requested) \in Nat
      BY <3>3, SafeDelayIsSafe
    <3>5. ~Hopeless(Current, SafeDelay(requested)) =>
            Retried(Current, SafeDelay(requested)) \in Tried
      BY <3>1, <3>4, RetriedIsTried
    <3>6. Draining /\ PassMoves
      BY <2>10 DEF SendUnanswered
    <3> QED
      BY <3>2, <3>5, <3>6, RecordIsDone
  <2>11. CASE DrainWrites
    <3>1. /\ run.pc = "drain" /\ pass.read = <<>>
          /\ outbox' = Aged(pass.remaining, pass.since)
          /\ run' = [pc |-> "idle", todo |-> 0, elapsed |-> 0, result |-> Verdict]
          /\ pass' = NoPass /\ UNCHANGED <<reachable, stops>>
      BY <2>11 DEF DrainWrites, Ended
    <3>2. pass.remaining \in Seq(Tried) /\ pass.since \in Nat
      BY EnvironmentAssumption DEF OutboxInv, PassShape, RunShape
    <3>3. outbox' \in Seq(Tried) /\ Len(outbox') = Len(pass.remaining)
      BY <3>1, <3>2, RecordsAge
    <3>4. outbox' \in Seq(Sound)
      BY <3>3, TriedAreSound
    <3>5. Len(pass.remaining) <= Len(outbox)
      BY <3>1, <3>2 DEF OutboxInv, PassShape, OutboxShape, Accounted
    <3>6. RunShape' /\ Accounted' /\ OnlyTried' /\ IdlePass'
      BY <3>1, <3>3, LimitsAssumption, EnvironmentAssumption
      DEF RunShape, Verdict, Accounted, OnlyTried, IdlePass
    <3>7. PassShape'
      BY <3>1 DEF PassShape, NoPass
    <3>8. OutboxShape'
      BY <3>2, <3>3, <3>4, <3>5, LimitsAssumption DEF OutboxInv, OutboxShape
    <3> QED
      BY <3>1, <3>6, <3>7, <3>8 DEF OutboxInv
  <2>12. CASE TimePasses
    <3> DEFINE e == IF run.pc = "idle" THEN 0 ELSE run.elapsed + 1
               t == IF run.pc = "drain" THEN pass.since + 1 ELSE 0
    <3>1. /\ run' = [run EXCEPT !.elapsed = e] /\ (run.pc # "idle" => run.elapsed < MaxElapsed)
          /\ pass' = [pass EXCEPT !.since = t]
          /\ outbox' = Aged(outbox, 1) /\ UNCHANGED <<reachable, stops>>
      BY <2>12 DEF TimePasses
    <3>2. e \in 0..MaxElapsed
      BY <3>1, EnvironmentAssumption DEF OutboxInv, RunShape
    <3>3. /\ RunShape' /\ run'.pc = run.pc /\ run'.result = run.result /\ run'.elapsed = e
      BY <3>1, <3>2 DEF OutboxInv, RunShape
    <3>4. t \in 0..e
      BY EnvironmentAssumption DEF OutboxInv, RunShape, PassShape
    <3>5. pass' = [read |-> pass.read, remaining |-> pass.remaining,
                   delivered |-> pass.delivered, failed |-> pass.failed, since |-> t]
      BY <3>1 DEF OutboxInv, PassShape
    <3>6. PassShape'
      BY <3>3, <3>4, <3>5 DEF OutboxInv, PassShape
    <3>7. OutboxShape' /\ Len(outbox') = Len(outbox)
      BY <3>1, RecordsAge DEF OutboxInv, OutboxShape
    <3>8. outbox \in Seq(Tried) => outbox' \in Seq(Tried)
      BY <3>1, RecordsAge
    <3>9. Accounted' /\ OnlyTried'
      BY <3>3, <3>5, <3>7, <3>8 DEF OutboxInv, Accounted, OnlyTried
    <3>10. IdlePass'
      BY <3>3, <3>5 DEF OutboxInv, IdlePass, NoPass
    <3> QED
      BY <3>1, <3>3, <3>6, <3>7, <3>9, <3>10 DEF OutboxInv
  <2>13. CASE WorkerStops
    <3>1. stops' \in 0..MaxStops
      BY <2>13, EnvironmentAssumption DEF WorkerStops, OutboxInv
    <3> QED
      BY <2>13, <3>1, RunIsOver DEF WorkerStops
  <2>14. CASE Clear
    BY <2>14, LimitsAssumption
    DEF Clear, OutboxInv, IdlePass, RunShape, PassShape, OutboxShape, Accounted, OnlyTried
  <2>15. CASE ReachabilityChanges
    BY <2>15
    DEF ReachabilityChanges, OutboxInv, IdlePass, RunShape, PassShape, OutboxShape, Accounted,
        OnlyTried
  <2>16. CASE UNCHANGED vars
    BY <2>16
    DEF vars, OutboxInv, IdlePass, RunShape, PassShape, OutboxShape, Accounted, OnlyTried
  <2> QED
    BY <2>1, <2>2, <2>3, <2>4, <2>5, <2>6, <2>7, <2>8, <2>9, <2>10, <2>11, <2>12, <2>13, <2>14,
       <2>15, <2>16 DEF Next, RunStep
<1> QED
  BY <1>1, <1>2, PTL DEF Spec

\* Every variable has its type; the outbox never holds more than its limit.
THEOREM OutboxTypes == Spec => []TypeOK
<1>1. OutboxInv => TypeOK
  <2> SUFFICES ASSUME OutboxInv PROVE TypeOK
    OBVIOUS
  <2>1. \A s \in Seq(Sound) : s \in Seq(Record)
    BY DEF Sound
  <2>2. \A s \in Seq(Tried) : s \in Seq(Record)
    BY DEF Tried, Sound
  <2>3. pass.since \in 0..MaxElapsed
    BY EnvironmentAssumption DEF OutboxInv, PassShape, RunShape
  <2>4. pass \in [read : {pass.read}, remaining : {pass.remaining}, delivered : Nat, failed : Nat,
                  since : 0..MaxElapsed]
    BY <2>3 DEF OutboxInv, PassShape
  <2> QED
    BY <2>1, <2>2, <2>4 DEF OutboxInv, PassShape, OutboxShape, RunShape, TypeOK
<1> QED
  BY <1>1, OutboxInvariant, PTL

\* Whatever the delays and the gateway's wishes, a record kept for another attempt can make it
\* before it expires.
THEOREM RetriesComeInTime == Spec => []RetryBeforeExpiry
<1>1. OutboxInv => RetryBeforeExpiry
  BY DEF OutboxInv, OutboxShape, Sound, RetryBeforeExpiry
<1> QED
  BY <1>1, OutboxInvariant, PTL

\* A pass accounts for every record it read, and a run that reports success leaves only
\* envelopes that were tried.
THEOREM PassesAccount == Spec => []PassAccounts
<1>1. OutboxInv => PassAccounts
  <2> SUFFICES ASSUME OutboxInv PROVE PassAccounts
    OBVIOUS
  <2>1. \A s \in Seq(Tried) : \A i \in DOMAIN s : s[i].attempts > 0
    BY DEF Tried
  <2> QED
    BY <2>1 DEF OutboxInv, Accounted, OnlyTried, PassAccounts
<1> QED
  BY <1>1, OutboxInvariant, PTL
=============================================================================
