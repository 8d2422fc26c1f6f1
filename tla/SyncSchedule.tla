---------------------------- MODULE SyncSchedule ----------------------------
(***************************************************************************)
(* When the portfolio of a paired device that may upload is synced without *)
(* being asked (background/service-worker.ts): an alarm rings every hour   *)
(* unless a failure holds it back, and a Steam page that offers its        *)
(* credential starts a run at once, but once an hour; both keep their      *)
(* times in storage, and all share one run.  PortfolioService has the      *)
(* fences of these runs and no time; this module has the time and no       *)
(* fences.  External: chrome.alarms, chrome.storage and the run itself.    *)
(***************************************************************************)
EXTENDS Naturals

CONSTANTS
  PerHour,     \* the units of time in an hour; what takes seconds takes none
  MaxFailures  \* how far failures are counted: PORTFOLIO_AUTO_SYNC_MAX_FAILURES

ASSUME ScheduleAssumption == PerHour \in Nat \ {0} /\ MaxFailures \in Nat \ 0..3

VARIABLES
  open,      \* the browser runs
  alarm,     \* the time until the alarm rings next
  hold,      \* stored: the failures in a row, the time until the next run may be, or that none may
  claimed,   \* stored: the time since a page's credential claimed the hour; past it all is one
  auto,      \* the run behind portfolioAutomaticSyncInFlight
  cred,      \* the run behind portfolioCredentialSyncInFlight
  running,   \* portfolioSyncInFlight is set
  began,     \* the time since a run nobody asked for went well, and since a page's credential
             \* began one
  since,     \* the time since the last automatic attempt, success, pairing or start
  misread    \* the stored claim could not be read once

scheduleVars == <<open, alarm, hold, claimed, auto, cred, running, began, since, misread>>

LongestHold == 6 * PerHour
TooFar == 12 * PerHour
NoHold == [failures |-> 0, left |-> 0, suspended |-> FALSE]
AtRest == [pc |-> "idle", seen |-> 0]
Idle == auto = AtRest /\ cred = AtRest /\ ~running

ScheduleTypeOK ==
  /\ alarm \in 0..PerHour /\ claimed \in 0..PerHour /\ since \in 0..TooFar
  /\ began \in [well : 0..PerHour, page : 0..PerHour]
  /\ hold \in [failures : 0..MaxFailures, left : 0..TooFar, suspended : BOOLEAN]
  /\ auto.pc \in {"idle", "reading", "waiting"} /\ auto.seen \in 0..MaxFailures
  /\ cred.pc \in {"idle", "reading", "overlap", "claim", "claimed", "waiting"}
  /\ {open, running, misread} \subseteq BOOLEAN

\* What an earlier version, or a clock that was wrong, may have left in storage is there too.
ScheduleInit ==
  /\ open = TRUE /\ alarm = 0 /\ claimed = PerHour /\ began = [well |-> PerHour, page |-> PerHour]
  /\ hold \in {NoHold, [NoHold EXCEPT !.failures = 1, !.left = PerHour],
               [NoHold EXCEPT !.failures = 1, !.left = TooFar]}
  /\ auto = AtRest /\ cred = AtRest /\ running = FALSE /\ since = 0 /\ misread = FALSE

\* portfolioAutoSyncBackoffMs.
Backoff(failures) ==
  IF failures > 3 THEN LongestHold ELSE PerHour * 2 ^ (IF failures = 0 THEN 0 ELSE failures - 1)

AsStored(h) == h   \* mutant
\* readPortfolioAutoSyncState: a time too far off is none.
ReadHold(h) == IF h.left > LongestHold THEN [h EXCEPT !.left = 0] ELSE h

Counted(seen) == IF seen = MaxFailures THEN MaxFailures ELSE seen + 1

\* portfolioAutoSyncFailureState.
FailedOnce(seen, outcome) ==
  LET failures == Counted(seen)
      suspended == outcome = "revoked"
  IN [failures |-> failures, suspended |-> suspended,
      left |-> IF suspended THEN 0 ELSE Backoff(failures)]

Starts(page) ==
  /\ running' = TRUE
  /\ began' = IF page /\ ~running THEN [began EXCEPT !.page = 0] ELSE began

\* RUN_MANUAL_SYNC.
ManualStarts ==
  /\ open /\ ~running /\ running' = TRUE
  /\ UNCHANGED <<open, alarm, hold, claimed, auto, cred, began, since, misread>>

(***************************************************************************)
(* The alarm.                                                              *)
(***************************************************************************)
SyncAlarm ==
  /\ open /\ alarm = 0 /\ alarm' = PerHour
  /\ auto' = IF auto = AtRest THEN [AtRest EXCEPT !.pc = "reading"] ELSE auto
  /\ UNCHANGED <<open, hold, claimed, cred, running, began, since, misread>>

HeldBack(h) == h.suspended \/ h.left > 0

AlarmIsHeldBack ==
  /\ auto.pc = "reading" /\ HeldBack(ReadHold(hold)) /\ auto' = AtRest
  /\ UNCHANGED <<open, alarm, hold, claimed, cred, running, began, since, misread>>

AlarmStarts ==
  /\ auto.pc = "reading" /\ ~HeldBack(ReadHold(hold))
  /\ auto' = [pc |-> "waiting", seen |-> hold.failures]
  /\ Starts(FALSE) /\ since' = 0
  /\ UNCHANGED <<open, alarm, hold, claimed, cred, misread>>

(***************************************************************************)
(* A page's credential.                                                    *)
(***************************************************************************)
\* runCredentialAssistedPortfolioSync; another tab's is joined.
CredentialOffered ==
  /\ open /\ cred = AtRest /\ cred' = [AtRest EXCEPT !.pc = "reading"]
  /\ UNCHANGED <<open, alarm, hold, claimed, auto, running, began, since, misread>>

Throttled(ago) == ago < PerHour

\* A claim that cannot be read counts as none; a run in progress is waited for.
CredentialReads ==
  /\ cred.pc = "reading"
  /\ \E unread \in BOOLEAN :
       LET ago == IF unread THEN PerHour ELSE claimed
       IN /\ misread' = (misread \/ unread)
          /\ cred' = IF Throttled(ago) THEN AtRest
                     ELSE [AtRest EXCEPT !.pc = IF running THEN "overlap" ELSE "claim"]
  /\ UNCHANGED <<open, alarm, hold, claimed, auto, running, began, since>>

Unclaimed == claimed   \* mutant: the hour is not claimed before the run
Claimed == 0

CredentialClaims ==
  /\ cred.pc = "claim" /\ claimed' = Claimed /\ cred' = [cred EXCEPT !.pc = "claimed"]
  /\ UNCHANGED <<open, alarm, hold, auto, running, began, since, misread>>

\* A hold does not keep it; a run that began meanwhile is joined.
CredentialStarts ==
  /\ cred.pc = "claimed" /\ cred' = [pc |-> "waiting", seen |-> hold.failures]
  /\ Starts(TRUE) /\ since' = 0
  /\ UNCHANGED <<open, alarm, hold, claimed, auto, misread>>

(***************************************************************************)
(* The run ends, and each of those that wait for it keeps its books; the   *)
(* last to write a failure wins.  What waits for a run it did not start    *)
(* goes on only where a credential is what was missing, and has the hour   *)
(* otherwise.                                                              *)
(***************************************************************************)
AwaitingRuns == {r \in {auto, cred} : r.pc = "waiting"}

SyncEnds(outcome) ==
  /\ running /\ running' = FALSE /\ auto' = IF auto.pc = "waiting" THEN AtRest ELSE auto
  /\ cred' = CASE cred.pc = "waiting" -> AtRest
               [] cred.pc = "overlap" -> IF outcome = "no session" THEN [cred EXCEPT !.pc = "claim"]
                                         ELSE AtRest
               [] OTHER -> cred
  /\ claimed' = IF cred.pc = "overlap" /\ outcome # "no session" THEN 0 ELSE claimed
  /\ \/ UNCHANGED hold   \* nothing to write, or it could not be
     \/ outcome = "ok" /\ hold' = NoHold
     \/ outcome # "ok" /\ \E r \in AwaitingRuns : hold' = FailedOnce(r.seen, outcome)
  /\ since' = IF AwaitingRuns = {} /\ cred.pc # "overlap" /\ outcome # "ok" THEN since ELSE 0
  /\ began' = IF outcome = "ok" /\ AwaitingRuns # {} THEN [began EXCEPT !.well = 0] ELSE began
  /\ UNCHANGED <<open, alarm, misread>>

(***************************************************************************)
(* The rest of the world.                                                  *)
(***************************************************************************)
\* The worker forgets what was in progress; its alarm stays.
SyncStopped ==
  /\ ~Idle /\ auto' = AtRest /\ cred' = AtRest /\ running' = FALSE /\ since' = 0
  /\ UNCHANGED <<open, alarm, hold, claimed, began, misread>>

BrowserCloses ==
  /\ open /\ Idle /\ open' = FALSE
  /\ UNCHANGED <<alarm, hold, claimed, auto, cred, running, began, since, misread>>
\* registerAlarms, five minutes from the start: within a unit.
BrowserStarts ==
  /\ ~open /\ open' = TRUE /\ alarm' = 0 /\ since' = 0
  /\ UNCHANGED <<hold, claimed, auto, cred, running, began, misread>>

\* UNPAIR_DEVICE and a pairing after it: a claim from before it is none.
PairsAgain ==
  /\ open /\ Idle /\ hold' = NoHold /\ since' = 0
  /\ claimed' = PerHour /\ began' = [well |-> PerHour, page |-> PerHour]
  /\ UNCHANGED <<open, alarm, auto, cred, running, misread>>

\* An alarm is not late while the browser runs, and storage takes no time.
TimePasses ==
  LET Sooner(t) == IF t = 0 THEN 0 ELSE t - 1
      Later(t, most) == IF t = most THEN most ELSE t + 1
  IN /\ open => alarm > 0 /\ auto.pc # "reading" /\ cred.pc \notin {"reading", "claim", "claimed"}
     /\ alarm' = Sooner(alarm) /\ hold' = [hold EXCEPT !.left = Sooner(@)]
     /\ claimed' = Later(claimed, PerHour)
     /\ began' = [well |-> Later(began.well, PerHour), page |-> Later(began.page, PerHour)]
     /\ since' = IF open THEN Later(since, TooFar) ELSE 0
     /\ UNCHANGED <<open, auto, cred, running, misread>>

ScheduleNext ==
  \/ ManualStarts \/ SyncAlarm \/ AlarmIsHeldBack \/ AlarmStarts \/ CredentialOffered
  \/ CredentialReads \/ CredentialClaims \/ CredentialStarts
  \/ SyncStopped \/ BrowserCloses \/ BrowserStarts \/ PairsAgain \/ TimePasses
  \/ \E outcome \in {"ok", "no session", "revoked", "other"} : SyncEnds(outcome)

ScheduleSpec == ScheduleInit /\ [][ScheduleNext]_scheduleVars

\* The credentials of however many pages, of workers however often stopped, start no two runs of one
\* pairing within an hour, as long as the stored claim can be read.
PageRunsAreHourly ==
  [][cred.pc = "claimed" /\ cred'.pc = "waiting" /\ ~running /\ ~misread
       => began.page = PerHour]_scheduleVars

\* While the browser runs and the device is not revoked there is an automatic attempt within eight
\* hours of the last one, whatever failed, whatever storage held and wherever the worker stopped.
SyncsComeBack == Idle /\ ~hold.suspended => since < LongestHold + 2 * PerHour

\* (Violated.) After a run that went well nothing is read again within the hour without being asked
\* for.
ReadsAreHourly ==
  [][~running /\ running' /\ (auto'.pc = "waiting" \/ cred'.pc = "waiting")
       => began.well = PerHour]_scheduleVars
=============================================================================
