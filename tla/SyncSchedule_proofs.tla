------------------------ MODULE SyncSchedule_proofs ------------------------
(***************************************************************************)
(* Two properties of the schedule.  The credentials of Steam pages start   *)
(* no two runs within an hour: the claim that is stored is never older     *)
(* than the last run it was made for, so a page that finds it an hour old  *)
(* finds the run an hour old; what lies between that look and the run      *)
(* takes no time and cannot be overtaken, and a run that is waited for     *)
(* moves neither clock.  And the attempts come back: as long as nothing is *)
(* suspended, the hold and the time since the last attempt add up to a     *)
(* bound, whatever failed in between.                                      *)
(***************************************************************************)
EXTENDS SyncSchedule, TLAPS

Clocks ==
  /\ claimed \in 0..PerHour
  /\ began \in [well : 0..PerHour, page : 0..PerHour]

CredShape == cred = [pc |-> cred.pc, seen |-> cred.seen]

ClaimIsNoOlder == ~misread => claimed <= began.page

OnItsWay ==
  ~misread /\ cred.pc \in {"claim", "overlap", "claimed"} => began.page = PerHour

ClaimedNow == ~misread /\ cred.pc = "claimed" => claimed = 0

ShutIsIdle == ~open => Idle

HourlyInv ==
  /\ Clocks /\ CredShape /\ ClaimIsNoOlder /\ OnItsWay /\ ClaimedNow /\ ShutIsIdle

-----------------------------------------------------------------------------
(***************************************************************************)
(* Of what a step does to the clocks and to the credential's run there are *)
(* few kinds: nothing, a claim, a start, the end of a run, an hour's unit. *)
(***************************************************************************)
\* A step that leaves the clocks, the credential's run and what may be read of the claim alone.
LEMMA Untouched ==
  ASSUME HourlyInv, UNCHANGED <<claimed, began, cred, misread>>, ShutIsIdle'
  PROVE  HourlyInv'
BY DEF HourlyInv, Clocks, CredShape, ClaimIsNoOlder, OnItsWay, ClaimedNow

\* The claim stays no older than the run it was made for, and what is on its way to a run finds
\* the last one an hour old.
THEOREM HourlyInvariant == ScheduleSpec => []HourlyInv
<1>1. ScheduleInit => HourlyInv
  BY ScheduleAssumption
  DEF ScheduleInit, HourlyInv, Clocks, CredShape, ClaimIsNoOlder, OnItsWay, ClaimedNow, ShutIsIdle,
      AtRest
<1>2. HourlyInv /\ [ScheduleNext]_scheduleVars => HourlyInv'
  <2> SUFFICES ASSUME HourlyInv, [ScheduleNext]_scheduleVars
               PROVE  HourlyInv'
    OBVIOUS
  <2> USE ScheduleAssumption
  <2>1. CASE ManualStarts
    BY <2>1, Untouched DEF ManualStarts, ShutIsIdle
  <2>2. CASE SyncAlarm
    BY <2>2, Untouched DEF SyncAlarm, ShutIsIdle
  <2>3. CASE AlarmIsHeldBack
    BY <2>3, Untouched DEF AlarmIsHeldBack, HourlyInv, ShutIsIdle, Idle, AtRest
  <2>4. CASE AlarmStarts
    BY <2>4, Untouched DEF AlarmStarts, Starts, HourlyInv, ShutIsIdle, Idle, AtRest
  <2>5. CASE CredentialOffered
    BY <2>5
    DEF CredentialOffered, HourlyInv, Clocks, CredShape, ClaimIsNoOlder, OnItsWay, ClaimedNow,
        ShutIsIdle, AtRest
  <2>6. CASE CredentialReads
    <3>1. PICK unread \in BOOLEAN :
            /\ misread' = (misread \/ unread)
            /\ cred' = IF Throttled(IF unread THEN PerHour ELSE claimed) THEN AtRest
                       ELSE [AtRest EXCEPT !.pc = IF running THEN "overlap" ELSE "claim"]
      BY <2>6 DEF CredentialReads
    <3>2. \/ cred' = [pc |-> "idle", seen |-> 0]
          \/ /\ cred' \in {[pc |-> "overlap", seen |-> 0], [pc |-> "claim", seen |-> 0]}
             /\ unread \/ claimed = PerHour
      BY <3>1 DEF Throttled, AtRest, HourlyInv, Clocks
    <3>3. ~misread' => ~misread /\ ~unread
      BY <3>1
    <3>4. UNCHANGED <<claimed, began, open>> /\ open
      BY <2>6 DEF CredentialReads, HourlyInv, ShutIsIdle, Idle, AtRest
    <3> QED
      BY <3>2, <3>3, <3>4
      DEF HourlyInv, Clocks, CredShape, ClaimIsNoOlder, OnItsWay, ClaimedNow, ShutIsIdle
  <2>7. CASE CredentialClaims
    BY <2>7
    DEF CredentialClaims, Claimed, HourlyInv, Clocks, CredShape, ClaimIsNoOlder, OnItsWay,
        ClaimedNow, ShutIsIdle, Idle, AtRest
  <2>8. CASE CredentialStarts
    BY <2>8
    DEF CredentialStarts, Starts, HourlyInv, Clocks, CredShape, ClaimIsNoOlder, OnItsWay,
        ClaimedNow, ShutIsIdle, Idle, AtRest
  <2>9. CASE SyncStopped
    BY <2>9
    DEF SyncStopped, HourlyInv, Clocks, CredShape, ClaimIsNoOlder, OnItsWay, ClaimedNow,
        ShutIsIdle, Idle, AtRest
  <2>10. CASE BrowserCloses
    BY <2>10, Untouched DEF BrowserCloses, ShutIsIdle, Idle
  <2>11. CASE BrowserStarts
    BY <2>11, Untouched DEF BrowserStarts, ShutIsIdle
  <2>12. CASE PairsAgain
    BY <2>12
    DEF PairsAgain, HourlyInv, Clocks, CredShape, ClaimIsNoOlder, OnItsWay, ClaimedNow,
        ShutIsIdle, Idle, AtRest
  <2>13. CASE TimePasses
    BY <2>13
    DEF TimePasses, HourlyInv, Clocks, CredShape, ClaimIsNoOlder, OnItsWay, ClaimedNow,
        ShutIsIdle, Idle, AtRest
  <2>14. ASSUME NEW outcome, SyncEnds(outcome)
         PROVE  HourlyInv'
    <3>1. UNCHANGED <<open, misread>> /\ open
      BY <2>14 DEF SyncEnds, HourlyInv, ShutIsIdle, Idle
    <3>2. began' \in [well : 0..PerHour, page : 0..PerHour] /\ began'.page = began.page
      <4>1. began' = began \/ began' = [began EXCEPT !.well = 0]
        BY <2>14 DEF SyncEnds
      <4>2. began \in [well : 0..PerHour, page : 0..PerHour]
        BY DEF HourlyInv, Clocks
      <4>3. 0 \in 0..PerHour
        OBVIOUS
      <4> QED
        BY <4>1, <4>2, <4>3
    <3>3. CASE cred.pc = "overlap" /\ outcome = "no session"
      <4>1. cred' = [pc |-> "claim", seen |-> cred.seen] /\ claimed' = claimed
        BY <2>14, <3>3 DEF SyncEnds, HourlyInv, CredShape
      <4> QED
        BY <3>1, <3>2, <3>3, <4>1
        DEF HourlyInv, Clocks, CredShape, ClaimIsNoOlder, OnItsWay, ClaimedNow, ShutIsIdle
    <3>4. CASE cred.pc = "overlap" /\ outcome # "no session"
      <4>1. cred' = [pc |-> "idle", seen |-> 0] /\ claimed' = 0
        BY <2>14, <3>4 DEF SyncEnds, AtRest
      <4>2. 0 \in 0..PerHour /\ 0 <= began'.page
        BY <3>2
      <4> QED
        BY <3>1, <3>2, <4>1, <4>2
        DEF HourlyInv, Clocks, CredShape, ClaimIsNoOlder, OnItsWay, ClaimedNow, ShutIsIdle
    <3>5. CASE cred.pc # "overlap"
      <4>1. cred' \in {[pc |-> "idle", seen |-> 0], cred} /\ claimed' = claimed
        BY <2>14, <3>5 DEF SyncEnds, AtRest
      <4>2. CredShape' /\ Clocks'
        BY <3>2, <4>1 DEF HourlyInv, Clocks, CredShape
      <4>3. cred'.pc \in {"idle", cred.pc}
        BY <4>1
      <4>4. ClaimIsNoOlder'
        BY <3>1, <3>2, <4>1 DEF HourlyInv, ClaimIsNoOlder
      <4>5. OnItsWay'
        BY <3>1, <3>2, <4>3 DEF HourlyInv, OnItsWay
      <4>6. ClaimedNow'
        BY <3>1, <4>1, <4>3 DEF HourlyInv, ClaimedNow
      <4> QED
        BY <3>1, <4>2, <4>4, <4>5, <4>6 DEF HourlyInv, ShutIsIdle
    <3> QED
      BY <3>3, <3>4, <3>5
  <2>15. CASE UNCHANGED scheduleVars
    BY <2>15, Untouched DEF scheduleVars, HourlyInv, ShutIsIdle, Idle
  <2> QED
    BY <2>1, <2>2, <2>3, <2>4, <2>5, <2>6, <2>7, <2>8, <2>9, <2>10, <2>11, <2>12, <2>13, <2>14,
       <2>15 DEF ScheduleNext
<1> QED
  BY <1>1, <1>2, PTL DEF ScheduleSpec

\* The credentials of however many pages start no two runs of a pairing within an hour, for any
\* unit of time and wherever the worker is stopped.
THEOREM PagesReadHourly == ScheduleSpec => PageRunsAreHourly
<1>1. HourlyInv /\ [ScheduleNext]_scheduleVars =>
        [cred.pc = "claimed" /\ cred'.pc = "waiting" /\ ~running /\ ~misread
           => began.page = PerHour]_scheduleVars
  BY DEF HourlyInv, OnItsWay
<1> QED
  BY <1>1, HourlyInvariant, PTL DEF ScheduleSpec, PageRunsAreHourly

-----------------------------------------------------------------------------
(***************************************************************************)
(* The next automatic attempt comes in time.  Unless a run is waited for,  *)
(* which ends with a new count, either the next alarm finds no hold (one   *)
(* too far off is none), or the first alarm after the hold is less than an *)
(* hour behind it.                                                         *)
(***************************************************************************)
RunShapes == auto = [pc |-> auto.pc, seen |-> auto.seen] /\ CredShape /\ cred.seen \in 0..MaxFailures

AutoRests == auto.pc = "idle" => auto = AtRest

\* While the alarm's run reads what holds it no time has passed since the alarm.
ReadsOnTheHour == auto.pc = "reading" => alarm = PerHour

Unawaited == auto.pc # "waiting" /\ cred.pc \notin {"waiting", "overlap"}

RingsInTime ==
  Unawaited /\ ~hold.suspended /\ auto.pc # "reading" =>
    IF alarm < hold.left /\ hold.left <= alarm + LongestHold
    THEN since + hold.left <= LongestHold + PerHour
    ELSE since + alarm < LongestHold + 2 * PerHour

ReadInTime ==
  Unawaited /\ ~hold.suspended /\ auto.pc = "reading" =>
    /\ since < LongestHold + 2 * PerHour
    /\ 0 < hold.left /\ hold.left <= LongestHold => since + hold.left <= LongestHold + PerHour

AttemptIsDue == RingsInTime /\ ReadInTime

BackInv ==
  /\ ScheduleTypeOK /\ RunShapes /\ AutoRests /\ ReadsOnTheHour /\ ShutIsIdle /\ AttemptIsDue

\* The hold after a failure is between one hour and six.
LEMMA BackoffIsBounded ==
  ASSUME NEW failures \in Nat
  PROVE  Backoff(failures) \in 0..LongestHold
<1>0. PerHour \in Nat
  BY ScheduleAssumption
<1>1. CASE failures > 3
  BY <1>0, <1>1 DEF Backoff, LongestHold
<1>2. CASE failures = 3
  <2>1. Backoff(failures) = PerHour * 4
    BY <1>2 DEF Backoff
  <2> QED
    BY <1>0, <2>1 DEF LongestHold
<1>3. CASE failures = 2
  <2>1. Backoff(failures) = PerHour * 2
    BY <1>3 DEF Backoff
  <2> QED
    BY <1>0, <2>1 DEF LongestHold
<1>4. CASE failures = 1
  <2>1. Backoff(failures) = PerHour * 1
    BY <1>4 DEF Backoff
  <2> QED
    BY <1>0, <2>1 DEF LongestHold
<1>5. CASE failures = 0
  <2>1. Backoff(failures) = PerHour * 1
    BY <1>5 DEF Backoff
  <2> QED
    BY <1>0, <2>1 DEF LongestHold
<1> QED
  BY <1>1, <1>2, <1>3, <1>4, <1>5

\* What is stored after a failure.
LEMMA FailureIsAHold ==
  ASSUME NEW seen \in 0..MaxFailures, NEW outcome
  PROVE  FailedOnce(seen, outcome) \in [failures : 0..MaxFailures, left : 0..TooFar, suspended : BOOLEAN]
<1>1. Counted(seen) \in 0..MaxFailures
  BY ScheduleAssumption DEF Counted
<1>2. Backoff(Counted(seen)) \in 0..TooFar
  <2>1. Counted(seen) \in Nat
    BY <1>1, ScheduleAssumption
  <2> QED
    BY <2>1, BackoffIsBounded, ScheduleAssumption DEF LongestHold, TooFar
<1>3. 0 \in 0..TooFar
  BY ScheduleAssumption DEF TooFar
<1>4. (outcome = "revoked") \in BOOLEAN
  OBVIOUS
<1> QED
  BY <1>1, <1>2, <1>3, <1>4 DEF FailedOnce

\* After an attempt, a pairing or a start the count is new.
LEMMA FreshCount ==
  ASSUME ScheduleTypeOK', since' = 0
  PROVE  AttemptIsDue'
<1>1. alarm' \in 0..PerHour /\ hold'.left \in Nat /\ PerHour \in Nat \ {0}
  BY ScheduleAssumption DEF ScheduleTypeOK, TooFar
<1>2. ReadInTime'
  BY <1>1 DEF ReadInTime, LongestHold
<1>3. IF alarm' < hold'.left /\ hold'.left <= alarm' + LongestHold
      THEN since' + hold'.left <= LongestHold + PerHour
      ELSE since' + alarm' < LongestHold + 2 * PerHour
  <2>1. \A h, a, l \in Nat :
          h > 0 /\ a <= h =>
            IF a < l /\ l <= a + 6 * h THEN 0 + l <= 6 * h + h ELSE 0 + a < 6 * h + 2 * h
    OBVIOUS
  <2>2. alarm' \in Nat /\ alarm' <= PerHour /\ hold'.left \in Nat /\ PerHour \in Nat /\ PerHour > 0
    BY <1>1
  <2> QED
    BY <2>1, <2>2, Zenon DEF LongestHold
<1> QED
  BY <1>2, <1>3 DEF AttemptIsDue, RingsInTime

\* So is it when a run ends that somebody waits for, and else the failure of a run changes nothing.
LEMMA RunEndsInTime ==
  ASSUME BackInv, NEW outcome, SyncEnds(outcome)
  PROVE  BackInv'
<1>0. ScheduleTypeOK /\ RunShapes /\ AutoRests
  BY DEF BackInv
<1>1. UNCHANGED <<open, alarm, misread>> /\ running' = FALSE
  BY DEF SyncEnds
<1>2. auto' \in {AtRest, auto} /\ (auto.pc = "waiting" => auto' = AtRest)
  BY DEF SyncEnds
<1>3. cred' \in {AtRest, cred, [cred EXCEPT !.pc = "claim"]}
  BY DEF SyncEnds
<1>4. AutoRests' /\ RunShapes' /\ cred'.pc \in {"idle", "claim", cred.pc} /\ auto'.pc \in {"idle", auto.pc}
      /\ auto'.seen \in 0..MaxFailures
  <2>1. 0 \in 0..MaxFailures
    BY ScheduleAssumption
  <2>2. cred' \in {[pc |-> "idle", seen |-> 0], cred, [pc |-> "claim", seen |-> cred.seen]}
    BY <1>0, <1>3 DEF RunShapes, CredShape, AtRest
  <2> QED
    BY <1>0, <1>2, <2>1, <2>2 DEF RunShapes, CredShape, AutoRests, AtRest, ScheduleTypeOK
<1>5. hold' \in [failures : 0..MaxFailures, left : 0..TooFar, suspended : BOOLEAN]
  <2>1. CASE hold' = hold
    BY <1>0, <2>1 DEF ScheduleTypeOK
  <2>2. CASE hold' = NoHold
    BY <2>2, ScheduleAssumption DEF NoHold, TooFar
  <2>3. CASE \E r \in AwaitingRuns : hold' = FailedOnce(r.seen, outcome)
    <3>1. PICK r \in AwaitingRuns : hold' = FailedOnce(r.seen, outcome)
      BY <2>3
    <3>2. r.seen \in 0..MaxFailures
      BY <1>0 DEF AwaitingRuns, ScheduleTypeOK, RunShapes
    <3> QED
      BY <3>1, <3>2, FailureIsAHold
  <2> QED
    BY <2>1, <2>2, <2>3 DEF SyncEnds
<1>6. claimed' \in 0..PerHour /\ began' \in [well : 0..PerHour, page : 0..PerHour]
  <2>1. 0 \in 0..PerHour
    BY ScheduleAssumption
  <2>2. claimed' \in {0, claimed} /\ began' \in {began, [began EXCEPT !.well = 0]}
    BY DEF SyncEnds
  <2> QED
    BY <1>0, <2>1, <2>2 DEF ScheduleTypeOK
<1>7. since' \in {0, since}
  BY DEF SyncEnds
<1>8. ScheduleTypeOK'
  <2>1. 0 \in 0..TooFar
    BY ScheduleAssumption DEF TooFar
  <2> QED
    BY <1>0, <1>1, <1>4, <1>5, <1>6, <1>7, <2>1 DEF ScheduleTypeOK
<1>9. ShutIsIdle' /\ ReadsOnTheHour'
  <2>1. open
    BY DEF BackInv, ShutIsIdle, Idle, SyncEnds
  <2>2. auto'.pc = "reading" => auto.pc = "reading"
    BY <1>4
  <2> QED
    BY <1>1, <2>1, <2>2 DEF BackInv, ShutIsIdle, ReadsOnTheHour
<1>10. AttemptIsDue'
  <2>1. CASE since' = 0
    BY <1>8, <2>1, FreshCount
  <2>2. CASE since' # 0
    <3>1. AwaitingRuns = {} /\ cred.pc # "overlap" /\ outcome # "ok" /\ since' = since
      BY <2>2 DEF SyncEnds
    <3>2. hold' = hold
      BY <3>1 DEF SyncEnds
    <3>3. auto.pc # "waiting" /\ cred.pc # "waiting"
      BY <3>1 DEF AwaitingRuns
    <3>4. auto' = auto /\ cred' = cred
      BY <3>1, <3>3 DEF SyncEnds
    <3> QED
      BY <1>1, <3>1, <3>2, <3>4 DEF BackInv, AttemptIsDue, RingsInTime, ReadInTime, Unawaited
  <2> QED
    BY <2>1, <2>2
<1> QED
  BY <1>4, <1>8, <1>9, <1>10 DEF BackInv

\* An hour's unit brings the attempt as much nearer as the last one is left behind.
LEMMA TimePassesInTime ==
  ASSUME BackInv, TimePasses
  PROVE  BackInv'
<1> DEFINE Sooner(t) == IF t = 0 THEN 0 ELSE t - 1
           Later(t, most) == IF t = most THEN most ELSE t + 1
<1>0. ScheduleTypeOK /\ RunShapes /\ AutoRests /\ ShutIsIdle
  BY DEF BackInv
<1>1. /\ UNCHANGED <<open, auto, cred, running, misread>>
      /\ open => alarm > 0 /\ auto.pc # "reading"
      /\ alarm' = Sooner(alarm)
      /\ hold' = [hold EXCEPT !.left = Sooner(hold.left)]
      /\ claimed' = Later(claimed, PerHour)
      /\ began' = [well |-> Later(began.well, PerHour), page |-> Later(began.page, PerHour)]
      /\ since' = IF open THEN Later(since, TooFar) ELSE 0
  BY DEF TimePasses
<1>2. PerHour \in Nat /\ TooFar \in Nat /\ PerHour > 0
  BY ScheduleAssumption DEF TooFar
<1>3. ASSUME NEW most \in Nat, NEW t \in 0..most
      PROVE  Sooner(t) \in 0..most /\ Later(t, most) \in 0..most
  BY <1>3
<1>4. alarm \in 0..PerHour /\ claimed \in 0..PerHour /\ since \in 0..TooFar /\ hold.left \in 0..TooFar
      /\ began.well \in 0..PerHour /\ began.page \in 0..PerHour
  BY <1>0 DEF ScheduleTypeOK
<1>5. alarm' \in 0..PerHour /\ claimed' \in 0..PerHour /\ Sooner(hold.left) \in 0..TooFar
      /\ Later(since, TooFar) \in 0..TooFar
      /\ Later(began.well, PerHour) \in 0..PerHour /\ Later(began.page, PerHour) \in 0..PerHour
  BY <1>1, <1>2, <1>3, <1>4
<1>6. /\ began' \in [well : 0..PerHour, page : 0..PerHour]
      /\ hold' \in [failures : 0..MaxFailures, left : 0..TooFar, suspended : BOOLEAN]
      /\ hold'.left = Sooner(hold.left) /\ hold'.suspended = hold.suspended
  <2> HIDE DEF Sooner, Later
  <2> QED
    BY <1>0, <1>1, <1>5 DEF ScheduleTypeOK
<1>7. since' \in 0..TooFar
  BY <1>1, <1>2, <1>5
<1>8. ScheduleTypeOK'
  <2> HIDE DEF Sooner, Later
  <2> QED
    BY <1>0, <1>1, <1>5, <1>6, <1>7 DEF ScheduleTypeOK
<1>9. RunShapes' /\ AutoRests' /\ ShutIsIdle' /\ ReadsOnTheHour'
  <2>1. ~open => auto.pc # "reading"
    BY <1>0 DEF ShutIsIdle, Idle, AtRest
  <2> QED
    BY <1>0, <1>1, <2>1 DEF RunShapes, CredShape, AutoRests, ShutIsIdle, Idle, ReadsOnTheHour
<1>10. AttemptIsDue'
  <2>1. CASE ~open
    BY <1>1, <1>8, <2>1, FreshCount
  <2>2. CASE open
    <3>1. alarm' = alarm - 1 /\ alarm > 0 /\ auto'.pc # "reading"
      BY <1>1, <1>4, <2>2
    <3>2. since' <= since + 1
      BY <1>1, <1>4, <1>2, <2>2
    <3>3. \/ hold.left = 0 /\ hold'.left = 0
          \/ hold.left > 0 /\ hold'.left = hold.left - 1
      BY <1>4, <1>6
    <3>4. Unawaited' = Unawaited
      BY <1>1 DEF Unawaited
    <3>5. RingsInTime
      BY DEF BackInv, AttemptIsDue
    <3>6. RingsInTime'
      <4> SUFFICES ASSUME Unawaited', ~hold'.suspended
                   PROVE  IF alarm' < hold'.left /\ hold'.left <= alarm' + LongestHold
                          THEN since' + hold'.left <= LongestHold + PerHour
                          ELSE since' + alarm' < LongestHold + 2 * PerHour
        BY DEF RingsInTime
      <4>1. IF alarm < hold.left /\ hold.left <= alarm + LongestHold
            THEN since + hold.left <= LongestHold + PerHour
            ELSE since + alarm < LongestHold + 2 * PerHour
        BY <1>1, <1>6, <2>2, <3>4, <3>5 DEF RingsInTime
      <4>2. \A h, a, s, l, t, m \in Nat :
              /\ IF a < l /\ l <= a + 6 * h THEN s + l <= 6 * h + h ELSE s + a < 6 * h + 2 * h
              /\ a > 0 /\ t <= s + 1 /\ ((l = 0 /\ m = 0) \/ (l > 0 /\ m = l - 1))
              => IF a - 1 < m /\ m <= (a - 1) + 6 * h THEN t + m <= 6 * h + h
                 ELSE t + (a - 1) < 6 * h + 2 * h
        OBVIOUS
      <4>3. alarm \in Nat /\ since \in Nat /\ hold.left \in Nat /\ since' \in Nat /\ hold'.left \in Nat
        BY <1>2, <1>4, <1>5, <1>6, <1>7
      <4> QED
        BY <1>2, <3>1, <3>2, <3>3, <4>1, <4>2, <4>3 DEF LongestHold
    <3> QED
      BY <3>1, <3>6 DEF AttemptIsDue, ReadInTime
  <2> QED
    BY <2>1, <2>2
<1> QED
  BY <1>8, <1>9, <1>10 DEF BackInv

\* The alarm rings for another hour; its run looks at the hold before time passes.
LEMMA AlarmsInTime ==
  ASSUME BackInv, SyncAlarm \/ AlarmIsHeldBack \/ AlarmStarts
  PROVE  BackInv'
<1> USE ScheduleAssumption DEF BackInv
<1>0. RunShapes /\ AutoRests
  OBVIOUS
<1>1. CASE SyncAlarm
  <2>1. /\ alarm = 0 /\ alarm' = PerHour /\ open
        /\ UNCHANGED <<open, hold, claimed, cred, running, began, since, misread>>
        /\ \/ auto = AtRest /\ auto' = [AtRest EXCEPT !.pc = "reading"]
           \/ auto # AtRest /\ auto' = auto
    BY <1>1 DEF SyncAlarm
  <2>2. auto.pc # "reading"
    BY <2>1 DEF ReadsOnTheHour
  <2>3. \/ auto.pc = "idle" /\ auto' = [pc |-> "reading", seen |-> 0]
        \/ auto.pc = "waiting" /\ auto' = auto
    BY <2>1, <2>2 DEF AutoRests, AtRest, ScheduleTypeOK
  <2>4. ScheduleTypeOK' /\ RunShapes' /\ AutoRests' /\ ReadsOnTheHour' /\ ShutIsIdle'
    BY <2>1, <2>3 DEF ScheduleTypeOK, RunShapes, CredShape, AutoRests, ReadsOnTheHour, ShutIsIdle
  <2>5. AttemptIsDue'
    BY <2>1, <2>3
    DEF AttemptIsDue, RingsInTime, ReadInTime, Unawaited, ScheduleTypeOK, LongestHold, TooFar
  <2> QED
    BY <2>4, <2>5
<1>2. CASE AlarmIsHeldBack
  <2>1. /\ auto.pc = "reading" /\ auto' = [pc |-> "idle", seen |-> 0]
        /\ UNCHANGED <<open, alarm, hold, claimed, cred, running, began, since, misread>>
    BY <1>2 DEF AlarmIsHeldBack, AtRest
  <2>2. hold.suspended \/ (0 < hold.left /\ hold.left <= LongestHold)
    <3>1. hold.left \in Nat
      BY DEF ScheduleTypeOK, TooFar
    <3>2. CASE hold.left > LongestHold
      <4>1. ReadHold(hold) = [hold EXCEPT !.left = 0]
        BY <3>2 DEF ReadHold
      <4>2. ReadHold(hold).left = 0 /\ ReadHold(hold).suspended = hold.suspended
        BY <4>1 DEF ScheduleTypeOK
      <4> QED
        BY <1>2, <4>2 DEF AlarmIsHeldBack, HeldBack
    <3>3. CASE ~(hold.left > LongestHold)
      BY <1>2, <3>1, <3>3 DEF AlarmIsHeldBack, HeldBack, ReadHold, LongestHold
    <3> QED
      BY <3>2, <3>3
  <2>3. ScheduleTypeOK' /\ RunShapes' /\ AutoRests' /\ ReadsOnTheHour' /\ ShutIsIdle'
    BY <2>1
    DEF ScheduleTypeOK, RunShapes, CredShape, AutoRests, ReadsOnTheHour, ShutIsIdle, Idle, AtRest
  <2>4. AttemptIsDue'
    BY <2>1, <2>2
    DEF AttemptIsDue, RingsInTime, ReadInTime, Unawaited, ScheduleTypeOK, ReadsOnTheHour, LongestHold, TooFar
  <2> QED
    BY <2>3, <2>4
<1>3. CASE AlarmStarts
  <2>1. /\ auto.pc = "reading" /\ auto' = [pc |-> "waiting", seen |-> hold.failures]
        /\ running' = TRUE /\ since' = 0
        /\ UNCHANGED <<open, alarm, hold, claimed, cred, began, misread>>
    BY <1>3 DEF AlarmStarts, Starts
  <2>2. ScheduleTypeOK'
    BY <2>1 DEF ScheduleTypeOK, TooFar
  <2>3. RunShapes' /\ AutoRests' /\ ReadsOnTheHour'
    BY <2>1 DEF RunShapes, CredShape, AutoRests, ReadsOnTheHour
  <2>4. ShutIsIdle'
    BY <2>1 DEF ShutIsIdle, Idle, AtRest
  <2> QED
    BY <2>1, <2>2, <2>3, <2>4, FreshCount
<1> QED
  BY <1>1, <1>2, <1>3

\* A page's credential starts an attempt or changes nothing of the alarm's.
LEMMA CredentialsInTime ==
  ASSUME BackInv, CredentialOffered \/ CredentialReads \/ CredentialClaims \/ CredentialStarts
  PROVE  BackInv'
<1> USE ScheduleAssumption DEF BackInv
<1>1. CASE CredentialOffered \/ CredentialReads \/ CredentialClaims
  <2>1. /\ UNCHANGED <<open, alarm, hold, auto, running, began, since>>
        /\ claimed' \in 0..PerHour /\ misread' \in BOOLEAN
    BY <1>1 DEF CredentialOffered, CredentialReads, CredentialClaims, Claimed, ScheduleTypeOK
  <2>2. cred' = [pc |-> cred'.pc, seen |-> cred'.seen] /\ cred'.seen \in 0..MaxFailures
        /\ cred'.pc \in {"idle", "reading", "overlap", "claim", "claimed"}
        /\ cred.pc \in {"idle", "reading", "claim"} /\ open
    <3>1. 0 \in 0..MaxFailures
      OBVIOUS
    <3>2. CASE CredentialOffered
      BY <3>1, <3>2 DEF CredentialOffered, AtRest
    <3>3. CASE CredentialReads
      <4>1. cred.pc = "reading" /\ open
        BY <3>3 DEF CredentialReads, ShutIsIdle, Idle, AtRest
      <4>2. cred' \in {[pc |-> "idle", seen |-> 0], [pc |-> "overlap", seen |-> 0], [pc |-> "claim", seen |-> 0]}
        BY <3>3 DEF CredentialReads, AtRest
      <4> QED
        BY <3>1, <4>1, <4>2
    <3>4. CASE CredentialClaims
      <4>1. cred' = [pc |-> "claimed", seen |-> cred.seen] /\ cred.pc = "claim"
        BY <3>4 DEF CredentialClaims, RunShapes, CredShape
      <4> QED
        BY <4>1 DEF RunShapes, ShutIsIdle, Idle, AtRest
    <3> QED
      BY <1>1, <3>2, <3>3, <3>4
  <2>3. ScheduleTypeOK'
    BY <2>1, <2>2 DEF ScheduleTypeOK
  <2>4. RunShapes' /\ AutoRests' /\ ReadsOnTheHour' /\ ShutIsIdle'
    BY <2>1, <2>2 DEF RunShapes, CredShape, AutoRests, ReadsOnTheHour, ShutIsIdle
  <2>5. AttemptIsDue'
    BY <2>1, <2>2 DEF AttemptIsDue, RingsInTime, ReadInTime, Unawaited
  <2> QED
    BY <2>3, <2>4, <2>5
<1>2. CASE CredentialStarts
  <2>1. /\ cred.pc = "claimed" /\ cred' = [pc |-> "waiting", seen |-> hold.failures]
        /\ running' = TRUE /\ began' \in {began, [began EXCEPT !.page = 0]} /\ since' = 0
        /\ UNCHANGED <<open, alarm, hold, claimed, auto, misread>>
    BY <1>2 DEF CredentialStarts, Starts
  <2>2. 0 \in 0..PerHour /\ 0 \in 0..TooFar
    BY DEF TooFar
  <2>3. ScheduleTypeOK'
    BY <2>1, <2>2 DEF ScheduleTypeOK
  <2>4. RunShapes' /\ AutoRests' /\ ReadsOnTheHour'
    BY <2>1 DEF RunShapes, CredShape, AutoRests, ReadsOnTheHour, ScheduleTypeOK
  <2>5. ShutIsIdle'
    BY <2>1 DEF ShutIsIdle, Idle, AtRest
  <2> QED
    BY <2>1, <2>3, <2>4, <2>5, FreshCount
<1> QED
  BY <1>1, <1>2

\* The user, the worker and the browser: what starts anew starts a new count.
LEMMA OthersInTime ==
  ASSUME BackInv, ManualStarts \/ SyncStopped \/ BrowserCloses \/ BrowserStarts \/ PairsAgain
  PROVE  BackInv'
<1> USE ScheduleAssumption DEF BackInv
<1>0. 0 \in 0..PerHour /\ PerHour \in 0..PerHour /\ 0 \in 0..TooFar /\ 0 \in 0..MaxFailures
  BY DEF TooFar
<1>1. CASE ManualStarts \/ BrowserCloses
  <2>1. /\ UNCHANGED <<alarm, hold, claimed, auto, cred, began, since, misread>>
        /\ open' \in BOOLEAN /\ running' \in BOOLEAN
        /\ open' \/ (Idle /\ ~running')
    <3>1. CASE ManualStarts
      BY <3>1 DEF ManualStarts, ScheduleTypeOK
    <3>2. CASE BrowserCloses
      BY <3>2 DEF BrowserCloses, ScheduleTypeOK, Idle
    <3> QED
      BY <1>1, <3>1, <3>2
  <2>2. ShutIsIdle'
    BY <2>1 DEF ShutIsIdle, Idle
  <2> QED
    BY <2>1, <2>2
    DEF ScheduleTypeOK, RunShapes, CredShape, AutoRests, ReadsOnTheHour, AttemptIsDue, RingsInTime,
        ReadInTime, Unawaited
<1>2. CASE SyncStopped \/ BrowserStarts \/ PairsAgain
  <2>1. /\ since' = 0 /\ running' \in BOOLEAN /\ open' \in BOOLEAN /\ misread' = misread
        /\ alarm' \in {0, alarm} /\ claimed' \in {claimed, PerHour}
        /\ began' \in {began, [well |-> PerHour, page |-> PerHour]} /\ hold' \in {hold, NoHold}
    BY <1>2 DEF SyncStopped, BrowserStarts, PairsAgain, ScheduleTypeOK
  <2>2. \/ auto' = AtRest /\ cred' = AtRest /\ running' = FALSE
        \/ UNCHANGED <<auto, cred, running>> /\ open' /\ (UNCHANGED alarm \/ Idle)
    BY <1>2 DEF SyncStopped, BrowserStarts, PairsAgain, ShutIsIdle
  <2>3. hold' \in [failures : 0..MaxFailures, left : 0..TooFar, suspended : BOOLEAN]
    <3>1. NoHold \in [failures : 0..MaxFailures, left : 0..TooFar, suspended : BOOLEAN]
      BY <1>0 DEF NoHold
    <3> QED
      BY <2>1, <3>1 DEF ScheduleTypeOK
  <2>4. began' \in [well : 0..PerHour, page : 0..PerHour]
    BY <1>0, <2>1 DEF ScheduleTypeOK
  <2>5. ScheduleTypeOK' /\ RunShapes' /\ AutoRests'
    BY <1>0, <2>1, <2>2, <2>3, <2>4 DEF ScheduleTypeOK, RunShapes, CredShape, AutoRests, AtRest
  <2>6. ReadsOnTheHour' /\ ShutIsIdle'
    BY <2>2 DEF ReadsOnTheHour, ShutIsIdle, Idle, AtRest
  <2> QED
    BY <2>1, <2>5, <2>6, FreshCount
<1> QED
  BY <1>1, <1>2

\* Neither of the two kinds of attempt is ever overdue.
THEOREM BackInvariant == ScheduleSpec => []BackInv
<1>1. ScheduleInit => BackInv
  <2> SUFFICES ASSUME ScheduleInit PROVE BackInv
    OBVIOUS
  <2>0. 0 \in 0..PerHour /\ PerHour \in 0..PerHour /\ 0 \in 0..TooFar /\ 0 \in 0..MaxFailures
        /\ 1 \in 0..MaxFailures /\ PerHour \in 0..TooFar /\ TooFar \in 0..TooFar
    BY ScheduleAssumption DEF TooFar
  <2>1. hold \in [failures : 0..MaxFailures, left : 0..TooFar, suspended : BOOLEAN]
    <3>1. hold \in {[failures |-> 0, left |-> 0, suspended |-> FALSE],
                    [failures |-> 1, left |-> PerHour, suspended |-> FALSE],
                    [failures |-> 1, left |-> TooFar, suspended |-> FALSE]}
      BY DEF ScheduleInit, NoHold
    <3>2. \A f \in 0..MaxFailures, l \in 0..TooFar :
            [failures |-> f, left |-> l, suspended |-> FALSE]
              \in [failures : 0..MaxFailures, left : 0..TooFar, suspended : BOOLEAN]
      OBVIOUS
    <3> QED
      BY <2>0, <3>1, <3>2
  <2>2. ScheduleTypeOK /\ RunShapes /\ AutoRests /\ ReadsOnTheHour /\ ShutIsIdle
    BY <2>0, <2>1
    DEF ScheduleInit, ScheduleTypeOK, RunShapes, CredShape, AutoRests, ReadsOnTheHour, ShutIsIdle, AtRest
  <2>3. AttemptIsDue
    BY <2>2, ScheduleAssumption
    DEF ScheduleInit, ScheduleTypeOK, AttemptIsDue, RingsInTime, ReadInTime, AtRest, LongestHold, TooFar
  <2> QED
    BY <2>2, <2>3 DEF BackInv
<1>2. BackInv /\ [ScheduleNext]_scheduleVars => BackInv'
  <2> SUFFICES ASSUME BackInv, [ScheduleNext]_scheduleVars PROVE BackInv'
    OBVIOUS
  <2>1. CASE UNCHANGED scheduleVars
    BY <2>1
    DEF scheduleVars, BackInv, ScheduleTypeOK, RunShapes, CredShape, AutoRests, ReadsOnTheHour,
        ShutIsIdle, Idle, AttemptIsDue, RingsInTime, ReadInTime, Unawaited
  <2> QED
    BY <2>1, AlarmsInTime, CredentialsInTime, OthersInTime, TimePassesInTime, RunEndsInTime
    DEF ScheduleNext
<1> QED
  BY <1>1, <1>2, PTL DEF ScheduleSpec

\* There is an automatic attempt within eight hours of the last one, for every unit of time, every
\* bound on the count of failures and whatever storage held.
THEOREM AttemptsComeBack == ScheduleSpec => []SyncsComeBack
<1>1. BackInv => SyncsComeBack
  BY ScheduleAssumption
  DEF BackInv, ScheduleTypeOK, AttemptIsDue, RingsInTime, Unawaited, SyncsComeBack, Idle, AtRest,
      LongestHold, TooFar
<1> QED
  BY <1>1, BackInvariant, PTL
=============================================================================
