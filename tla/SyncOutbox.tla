----------------------------- MODULE SyncOutbox -----------------------------
(***************************************************************************)
(* The encrypted outbox (background/sync-outbox.ts) with a clock, under    *)
(* the runs that use it (gateway-controller.ts, runSync): a run enqueues   *)
(* one envelope per chunk and then makes one delivery pass over everything *)
(* stored.  GatewayController has the interleavings with pairing and       *)
(* unpairing and chooses freely what happens to an envelope; here runs     *)
(* come one after the other, as proved there, and age, retry delay and     *)
(* capacity decide.                                                        *)
(*                                                                         *)
(* Times are relative: `wait` until nextAttemptAt and `left` until         *)
(* expiresAt, both 0 once reached.                                         *)
(***************************************************************************)
EXTENDS Integers, Sequences

CONSTANTS
  Capacity,     \* MAX_OUTBOX_ENTRIES
  MaxChunks,    \* MAX_GATEWAY_CHUNKS_PER_RUN
  Ttl,          \* DEFAULT_GATEWAY_TTL_SECONDS
  BaseDelay,    \* BASE_RETRY_DELAY_MS
  MaxDelay,     \* MAX_RETRY_DELAY_MS
  MaxAttempts,  \* MAX_ATTEMPTS
  RetryAfters,  \* the delays a gateway may ask for
  MaxElapsed,   \* bound: time one run may take
  MaxStops      \* bound: stops of the worker during a run

ASSUME LimitsAssumption ==
  /\ Capacity \in Nat \ {0} /\ MaxChunks \in 1..Capacity
  /\ Ttl \in Nat \ {0} /\ BaseDelay \in Nat \ {0} /\ MaxDelay \in Nat
  /\ BaseDelay <= MaxDelay /\ MaxAttempts \in Nat \ {0}
ASSUME EnvironmentAssumption ==
  /\ RetryAfters \subseteq Nat \ {0}
  /\ MaxElapsed \in Nat /\ MaxElapsed < Ttl /\ MaxStops \in Nat

VARIABLES
  outbox,     \* chrome.storage: the records in the order they were enqueued
  run,        \* memory: the run in flight, or the result of the last one
  pass,       \* memory: the locals of drainGatewayOutbox
  reachable,  \* external: Steam and the gateway answer and accept
  stops       \* history: stops of the worker

vars == <<outbox, run, pass, reachable, stops>>

Record == [attempts : 0..MaxAttempts - 1, wait : 0..Ttl, left : 0..Ttl]
Fresh == [attempts |-> 0, wait |-> 0, left |-> Ttl]

Ended(result) == [pc |-> "idle", todo |-> 0, elapsed |-> 0, result |-> result]
NoPass == [read |-> <<>>, remaining |-> <<>>, delivered |-> 0, failed |-> 0, since |-> 0]

TypeOK ==
  /\ outbox \in Seq(Record) /\ Len(outbox) <= Capacity
  /\ run \in [pc : {"idle", "enqueue", "drain"}, todo : 0..MaxChunks,
              elapsed : 0..MaxElapsed, result : {"none", "ok", "failed"}]
  /\ pass.read \in Seq(Record) /\ pass.remaining \in Seq(Record)
  /\ pass \in [read : {pass.read}, remaining : {pass.remaining},
               delivered : Nat, failed : Nat, since : 0..MaxElapsed]
  /\ reachable \in BOOLEAN
  /\ stops \in 0..MaxStops

Init ==
  /\ outbox = <<>> /\ run = Ended("none") /\ pass = NoPass
  /\ reachable = TRUE /\ stops = 0

(***************************************************************************)
(* Time                                                                    *)
(***************************************************************************)
Minus(t, d) == IF t > d THEN t - d ELSE 0

Aged(records, d) ==
  [i \in DOMAIN records |->
     [records[i] EXCEPT !.wait = Minus(@, d), !.left = Minus(@, d)]]

\* The copy a pass works on does not age: drainGatewayOutbox reads the clock once.
TimePasses ==
  /\ run.pc # "idle" => run.elapsed < MaxElapsed
  /\ outbox' = Aged(outbox, 1)
  /\ run' = [run EXCEPT !.elapsed = IF run.pc = "idle" THEN 0 ELSE @ + 1]
  /\ pass' = [pass EXCEPT !.since = IF run.pc = "drain" THEN @ + 1 ELSE 0]
  /\ UNCHANGED <<reachable, stops>>

(***************************************************************************)
(* A run: every chunk is sealed and enqueued before the pass begins.  The  *)
(* request id and idempotency key of a chunk are new, so the duplicate     *)
(* test of the enqueue never hits.                                         *)
(***************************************************************************)
Full == Len(outbox) >= Capacity

RunStarts ==
  /\ run.pc = "idle"
  /\ \E n \in 1..MaxChunks :
       run' = [pc |-> "enqueue", todo |-> n, elapsed |-> 0, result |-> "none"]
  /\ UNCHANGED <<outbox, pass, reachable, stops>>

\* Collecting or sealing fails.
RunFails ==
  /\ run.pc = "enqueue" /\ run.todo > 0 /\ ~reachable
  /\ run' = Ended("failed")
  /\ UNCHANGED <<outbox, pass, reachable, stops>>

Enqueue ==
  /\ run.pc = "enqueue" /\ run.todo > 0 /\ ~Full
  /\ outbox' = Append(outbox, Fresh)
  /\ run' = [run EXCEPT !.todo = @ - 1]
  /\ UNCHANGED <<pass, reachable, stops>>

\* 'outbox-full' ends the run where it is: no pass is made.
EnqueueFull ==
  /\ run.pc = "enqueue" /\ run.todo > 0 /\ Full
  /\ run' = Ended("failed")
  /\ UNCHANGED <<outbox, pass, reachable, stops>>

DrainStarts ==
  /\ run.pc = "enqueue" /\ run.todo = 0
  /\ run' = [run EXCEPT !.pc = "drain"]
  /\ pass' = [NoPass EXCEPT !.read = outbox]
  /\ UNCHANGED <<outbox, reachable, stops>>

(***************************************************************************)
(* The pass: what becomes of the next record that was read.  `deferred` is *)
(* the length of `remaining`, as the two always change together.           *)
(***************************************************************************)
Draining == run.pc = "drain" /\ pass.read # <<>>
Current == Head(pass.read)
Expired == Current.left = 0
Due == ~Expired /\ Current.wait = 0

DroppedUncounted(p) == [p EXCEPT !.read = Tail(@)]   \* mutant
DroppedYetKept(p) ==   \* mutant
  [p EXCEPT !.read = Tail(@), !.failed = @ + 1, !.remaining = Append(@, Head(p.read))]
Delivered(p) == [p EXCEPT !.read = Tail(@), !.delivered = @ + 1]
Dropped(p) == [p EXCEPT !.read = Tail(@), !.failed = @ + 1]
Kept(p, record) == [p EXCEPT !.read = Tail(@), !.remaining = Append(@, record)]

RetryDelay(attempts) ==
  LET doubled == BaseDelay * 2 ^ (attempts - 1)
  IN IF doubled < MaxDelay THEN doubled ELSE MaxDelay

SafeDelay(requested) ==
  LET capped == IF requested < MaxDelay THEN requested ELSE MaxDelay
  IN IF capped > BaseDelay THEN capped ELSE BaseDelay

Retried(record, delay) == [record EXCEPT !.attempts = @ + 1, !.wait = delay]

HopelessByCountOnly(record, delay) == record.attempts + 1 >= MaxAttempts   \* mutant
\* Another attempt is not allowed, or would come after the envelope expired.
Hopeless(record, delay) ==
  record.attempts + 1 >= MaxAttempts \/ delay >= record.left

PassMoves == UNCHANGED <<outbox, run, reachable, stops>>

DropExpired == Draining /\ Expired /\ pass' = Dropped(pass) /\ PassMoves

KeepWaiting ==
  /\ Draining /\ ~Expired /\ ~Due
  /\ pass' = Kept(pass, Current)
  /\ PassMoves

SendAccepted == Draining /\ Due /\ reachable /\ pass' = Delivered(pass) /\ PassMoves

\* A terminal refusal: also what an envelope gets that expired while the pass went on.
SendRefused ==
  /\ Draining /\ Due
  /\ ~reachable \/ pass.since >= Current.left
  /\ pass' = Dropped(pass)
  /\ PassMoves

\* No answer, 429 or 5xx; the last two may name the delay.
SendUnanswered ==
  /\ Draining /\ Due /\ ~reachable
  /\ \E requested \in RetryAfters \cup {RetryDelay(Current.attempts + 1)} :
       LET delay == SafeDelay(requested) IN
       \/ Hopeless(Current, delay) /\ pass' = Dropped(pass)
       \/ ~Hopeless(Current, delay) /\ pass' = Kept(pass, Retried(Current, delay))
  /\ PassMoves

Verdict ==
  IF pass.failed > 0 \/ (pass.delivered = 0 /\ pass.remaining # <<>>)
  THEN "failed" ELSE "ok"

DrainWrites ==
  /\ run.pc = "drain" /\ pass.read = <<>>
  /\ outbox' = Aged(pass.remaining, pass.since)
  /\ run' = Ended(Verdict)
  /\ pass' = NoPass
  /\ UNCHANGED <<reachable, stops>>

(***************************************************************************)
(* The browser, the user and the network.                                  *)
(***************************************************************************)
WorkerStops ==
  /\ run.pc # "idle" /\ stops < MaxStops
  /\ run' = Ended("none") /\ pass' = NoPass
  /\ stops' = stops + 1
  /\ UNCHANGED <<outbox, reachable>>

\* Pairing and unpairing clear the outbox, never during a run.
Clear ==
  /\ run.pc = "idle" /\ outbox' = <<>>
  /\ UNCHANGED <<run, pass, reachable, stops>>

ReachabilityChanges ==
  /\ reachable' = ~reachable
  /\ UNCHANGED <<outbox, run, pass, stops>>

RunStep ==
  \/ RunFails \/ Enqueue \/ EnqueueFull \/ DrainStarts
  \/ DropExpired \/ KeepWaiting \/ SendAccepted \/ SendRefused \/ SendUnanswered
  \/ DrainWrites

Next ==
  \/ RunStarts \/ RunStep
  \/ TimePasses \/ WorkerStops \/ Clear \/ ReachabilityChanges

Spec == Init /\ [][Next]_vars

\* The alarm and the user keep asking for runs, a run goes on, and time passes.
FairSpec ==
  Spec /\ WF_vars(RunStarts) /\ WF_vars(RunStep) /\ WF_vars(TimePasses)

(***************************************************************************)
(* Properties                                                              *)
(***************************************************************************)
\* A record that is kept for another attempt can make it: as long as it is alive its next
\* attempt comes before its expiry (the test against expiresAt after a failed send).
RetryBeforeExpiry ==
  \A i \in DOMAIN outbox :
    outbox[i].attempts > 0 => outbox[i].wait < outbox[i].left \/ outbox[i].left = 0

\* A pass accounts for every record it read, exactly once: still to look at, delivered, given
\* up or kept; so a run's verdict is about everything that was stored.  And a run that reports
\* success leaves in the outbox only envelopes that were tried: what it made itself is delivered
\* or has failed once and waits for its next attempt.
PassAccounts ==
  /\ run.pc = "drain" =>
       Len(pass.read) + pass.delivered + pass.failed + Len(pass.remaining) = Len(outbox)
  /\ run.result = "ok" => \A i \in DOMAIN outbox : outbox[i].attempts > 0

HasRoom == run.pc = "idle" /\ Len(outbox) + MaxChunks <= Capacity
Succeeds == run.result = "ok"

\* Once Steam and the gateway answer again and the outbox has room for one run, runs go on
\* succeeding: what an outage left behind is delivered or dropped (no more stops of the worker).
RoomToRecover ==
  []((HasRoom /\ stops = MaxStops /\ []reachable) => []<>Succeeds)

\* docs/releases/STORE-LISTING-1.1.0.md, lines 86-88: the outbox bridges "a temporary gateway
\* failure", so after it runs succeed again.  An outbox left full refuses every enqueue before
\* the pass that would empty it.
OutageIsTemporary == <>[]reachable => []<>Succeeds

=============================================================================
