-------------------------- MODULE PortfolioService --------------------------
(***************************************************************************)
(* The portfolio side of background/service-worker.ts: who may start a     *)
(* sync, a pairing or an unpair, and what each records.  It is composed    *)
(* with the controller's contract (GatewayContract).                       *)
(*                                                                         *)
(* One action is the code from one `await` to the next; what follows the   *)
(* settling of a shared promise without another await is part of the step  *)
(* that settles it.  `enabled` stands for portfolioSyncEnabled with at     *)
(* least one visible source; the popup status for the kind of its last     *)
(* verdict; the scheduler's state for whether it holds back.               *)
(***************************************************************************)
EXTENDS GatewayContract, Integers

CONSTANT Budgets   \* bounds: a behaviour has one of these budgets of operations

Operations == {"syncs", "settings", "unpairs", "pairs", "activations", "writes",
               "alarms", "credentials", "failures", "stops"}

ASSUME BudgetsAssumption == Budgets \subseteq [Operations -> Nat]

VARIABLES
  \* chrome.storage
  enabled,     \* settings: uploads are enabled and a source is chosen
  status,      \* the popup's portfolio status
  backoff,     \* the scheduler's state
  \* the worker's memory
  epoch,       \* portfolioSyncEpoch
  unpairFlag,  \* portfolioUnpairing
  blocked,     \* portfolioUploadsBlocked
  svc,         \* performPortfolioSync, the run behind portfolioSyncInFlight
  manual,      \* RUN_MANUAL_SYNC waits for it
  auto,        \* the run behind portfolioAutomaticSyncInFlight
  cred,        \* the run behind portfolioCredentialSyncInFlight
  pair,        \* performPortfolioPairing, behind portfolioPairingInFlight
  unpair,      \* the UNPAIR_DEVICE handler
  change,      \* the UPDATE_EXTENSION_SETTINGS handler
  act,         \* the activation CSFolder asked for
  writer,      \* another settings update that has read the settings
  \* bookkeeping
  optedOut,    \* history: the user was told that uploads have stopped
  undercut,    \* history: a failed activation destroyed the pairing a run was bound to
  left         \* operations left of the behaviour's budget

durable  == <<enabled, status, backoff>>
fences   == <<epoch, unpairFlag, blocked>>
syncs    == <<svc, manual, auto, cred>>
handlers == <<pair, unpair, change, act, writer>>
ghosts   == <<optedOut, undercut, left>>
vars     == <<contractVars, durable, fences, syncs, handlers, ghosts>>

IdleSvc    == [pc |-> "idle", epoch |-> 0, enabled |-> FALSE, code |-> "none"]
IdleAuto   == [pc |-> "idle", epoch |-> 0]
IdlePair   == [pc |-> "idle", epoch |-> 0]
IdleUnpair == [pc |-> "idle", epoch |-> 0, disable |-> "none", remote |-> "none",
               pending |-> {}, failed |-> FALSE]
IdleWriter == [pc |-> "idle", saw |-> FALSE]
Codes      == {"revoked", "session", "failed"}   \* how a run fails
Artifacts  == {"queue", "identity", "state"}

SvcRuns == [pc : {"idle", "settings", "attempt", "start", "run", "success", "failed"},
            epoch : Nat, enabled : BOOLEAN, code : Codes \cup {"none"}]
AutoRuns == [pc : {"idle", "settings", "paired", "state", "waiting"}, epoch : Nat]
CredRuns == [pc : {"idle", "throttle", "overlap", "claim", "waiting"}, epoch : Nat]
PairRuns == [pc : {"idle", "check", "disable", "clear", "queue", "start", "running", "status"},
             epoch : Nat]
UnpairRuns == [pc : {"idle", "stopping", "cleanup"}, epoch : Nat,
               disable : {"none", "todo", "done"}, remote : {"none", "todo", "running", "done"},
               pending : SUBSET Artifacts, failed : BOOLEAN]
Writers == [pc : {"idle", "write"}, saw : BOOLEAN]

TypeOK ==
  /\ ContractTypeOK
  /\ enabled \in BOOLEAN
  /\ status \in {"empty", "attempt", "ok", "failed"}
  /\ backoff \in {"none", "hold", "suspended"}
  /\ epoch \in Nat /\ unpairFlag \in BOOLEAN /\ blocked \in BOOLEAN
  /\ svc \in SvcRuns /\ manual \in BOOLEAN /\ auto \in AutoRuns /\ cred \in CredRuns
  /\ pair \in PairRuns /\ unpair \in UnpairRuns
  /\ change \in {"idle", "enable", "disable"}
  /\ act \in {"idle", "pairing", "enable", "write", "trigger", "forget", "destroying"}
  /\ writer \in Writers
  /\ optedOut \in BOOLEAN /\ undercut \in BOOLEAN
  /\ left \in [Operations -> Nat]

\* The worker starts after installation, or with a device paired and uploads enabled.
Init ==
  /\ ContractInit
  /\ enabled = (registration # NoKey) /\ status = "empty" /\ backoff = "none"
  /\ epoch = 0 /\ unpairFlag = FALSE /\ blocked = FALSE
  /\ svc = IdleSvc /\ manual = FALSE /\ auto = IdleAuto /\ cred = IdleAuto
  /\ pair = IdlePair /\ unpair = IdleUnpair /\ change = "idle"
  /\ act = "idle" /\ writer = IdleWriter
  /\ optedOut = FALSE /\ undercut = FALSE /\ left \in Budgets

Spend(op) == left[op] > 0 /\ left' = [left EXCEPT ![op] = @ - 1]

\* A storage operation sets what it should, or fails.
Stores(effect, failure) ==
  \/ effect  /\ UNCHANGED left
  \/ failure /\ Spend("failures")

(***************************************************************************)
(* The fences.                                                             *)
(***************************************************************************)
Stale(e) == unpairFlag \/ blocked \/ e # epoch     \* assertPortfolioSyncEpoch
StalePair(e) == unpairFlag \/ e # epoch            \* assertPortfolioPairingEpoch

RaiseUnpairFence == epoch' = epoch + 1 /\ unpairFlag' = TRUE /\ blocked' = TRUE
BlockUploads == epoch' = epoch + 1 /\ blocked' = TRUE /\ UNCHANGED unpairFlag
AllowUploads ==
  /\ epoch' = IF blocked THEN epoch + 1 ELSE epoch
  /\ blocked' = FALSE
  /\ UNCHANGED unpairFlag

(***************************************************************************)
(* runPortfolioSync: refused when stale; a second caller joins the run in  *)
(* flight.  Its settling carries the callers that wait for it on: the      *)
(* button and the scheduler clear or write the scheduler's state, and the  *)
(* credential's caller decides whether to try again.                       *)
(***************************************************************************)
RunPortfolioSync(e) ==
  /\ ~Stale(e)
  /\ \/ svc.pc # "idle" /\ UNCHANGED <<svc, left>>
     \/ svc.pc = "idle" /\ svc' = [IdleSvc EXCEPT !.pc = "settings", !.epoch = e] /\ Spend("syncs")

AutoListens == auto.pc = "waiting" /\ ~Stale(auto.epoch)
CredListens == cred.pc = "waiting" /\ ~Stale(cred.epoch)

SettleCred(outcome) ==
  IF cred.pc = "overlap" /\ outcome = "session" /\ ~Stale(cred.epoch)
  THEN cred' = [cred EXCEPT !.pc = "claim"]
  ELSE cred' = IF cred.pc \in {"overlap", "waiting"} THEN IdleAuto ELSE cred

Listens(outcome) ==
  IF outcome = "ok"
  THEN manual \/ AutoListens \/ cred.pc = "waiting" \/ (cred.pc = "overlap" /\ ~Stale(cred.epoch))
  ELSE outcome \in Codes /\ (AutoListens \/ CredListens)

SettleBackoff(outcome) ==
  backoff' = IF ~Listens(outcome) THEN backoff
             ELSE IF outcome = "ok" THEN "none"
             ELSE IF outcome = "revoked" THEN "suspended" ELSE "hold"

SettleSvc(outcome) ==
  /\ svc' = IdleSvc /\ manual' = FALSE
  /\ auto' = IF auto.pc = "waiting" THEN IdleAuto ELSE auto
  /\ SettleCred(outcome)
  /\ SettleBackoff(outcome)

SvcReadSettings ==
  /\ svc.pc = "settings" /\ ~Stale(svc.epoch)
  /\ svc' = [svc EXCEPT !.pc = "attempt", !.enabled = enabled]
  /\ UNCHANGED <<contractVars, durable, fences, manual, auto, cred, handlers, ghosts>>

\* A write that was issued lands, even if a fence has been raised since.
SvcAttempt ==
  /\ svc.pc = "attempt"
  /\ Stores(status' = "attempt" /\ svc' = [svc EXCEPT !.pc = "start"]
                                /\ UNCHANGED <<backoff, manual, auto, cred>>,
            UNCHANGED status /\ SettleSvc("failed"))
  /\ UNCHANGED <<contractVars, enabled, fences, handlers, optedOut, undercut>>

SvcNotEnabled ==
  /\ svc.pc = "start" /\ ~Stale(svc.epoch) /\ ~svc.enabled
  /\ Stores(status' = "failed", UNCHANGED status)
  /\ SettleSvc("failed")
  /\ UNCHANGED <<contractVars, enabled, fences, handlers, optedOut, undercut>>

SvcStartRun ==
  /\ svc.pc = "start" /\ ~Stale(svc.epoch) /\ svc.enabled
  /\ StartRun
  /\ svc' = [svc EXCEPT !.pc = "run"]
  /\ UNCHANGED <<durable, fences, manual, auto, cred, handlers, ghosts>>

\* The controller cannot be built, or refuses because an unpair is in flight.
SvcStartFails ==
  /\ svc.pc = "start" /\ ~Stale(svc.epoch) /\ svc.enabled
  /\ IF unpairing.phase # "idle" THEN UNCHANGED left ELSE Spend("failures")
  /\ svc' = [svc EXCEPT !.pc = "failed", !.code = "failed"]
  /\ UNCHANGED <<contractVars, durable, fences, manual, auto, cred, handlers, optedOut, undercut>>

\* Which of the other codes a failed run gets is the environment's choice.
SvcRunEnds ==
  /\ svc.pc = "run" /\ ~run.on /\ ~Stale(svc.epoch)
  /\ IF run.result = "ok" THEN svc' = [svc EXCEPT !.pc = "success"]
     ELSE \E code \in IF run.result = "revoked" THEN {"revoked"} ELSE {"session", "failed"} :
            svc' = [svc EXCEPT !.pc = "failed", !.code = code]
  /\ UNCHANGED <<contractVars, durable, fences, manual, auto, cred, handlers, ghosts>>

SvcSucceeds ==
  /\ svc.pc = "success"
  /\ Stores(status' = "ok" /\ SettleSvc(IF Stale(svc.epoch) THEN "cancelled" ELSE "ok"),
            /\ svc' = [svc EXCEPT !.pc = "failed", !.code = "failed"]
            /\ UNCHANGED <<status, backoff, manual, auto, cred>>)
  /\ UNCHANGED <<contractVars, enabled, fences, handlers, optedOut, undercut>>

SvcFails ==
  /\ svc.pc = "failed"
  /\ Stores(status' = "failed" /\ SettleSvc(IF Stale(svc.epoch) THEN "cancelled" ELSE svc.code),
            UNCHANGED status /\ SettleSvc("failed"))
  /\ UNCHANGED <<contractVars, enabled, fences, handlers, optedOut, undercut>>

SvcFencedHangs ==
  /\ svc.pc \in {"settings", "attempt", "start"} /\ Stale(svc.epoch)
  /\ SettleSvc("cancelled")
  /\ UNCHANGED <<contractVars, enabled, status, fences, handlers, ghosts>>

SvcFenced ==
  /\ svc.pc \in {"settings", "attempt", "start", "run", "failed"} /\ Stale(svc.epoch)
  /\ svc.pc = "run" => ~run.on
  /\ SettleSvc("cancelled")
  /\ UNCHANGED <<contractVars, enabled, status, fences, handlers, ghosts>>

SvcStep ==
  \/ SvcReadSettings \/ SvcAttempt \/ SvcNotEnabled \/ SvcStartRun \/ SvcStartFails
  \/ SvcRunEnds \/ SvcSucceeds \/ SvcFails \/ SvcFenced

(***************************************************************************)
(* Who asks for a sync: the button, the hourly alarm, and a Steam page     *)
(* that offers its credential.                                             *)
(***************************************************************************)
ManualSync ==
  /\ ~manual
  /\ RunPortfolioSync(epoch)
  /\ manual' = TRUE
  /\ UNCHANGED <<contractVars, durable, fences, auto, cred, handlers, optedOut, undercut>>

AutoTick ==
  /\ auto.pc = "idle"
  /\ Spend("alarms")
  /\ auto' = [pc |-> "settings", epoch |-> epoch]
  /\ UNCHANGED <<contractVars, durable, fences, svc, manual, cred, handlers, optedOut, undercut>>

AutoReads(next, go) ==
  /\ auto' = IF ~Stale(auto.epoch) /\ go THEN [auto EXCEPT !.pc = next] ELSE IdleAuto
  /\ UNCHANGED <<contractVars, durable, fences, svc, manual, cred, handlers, ghosts>>

AutoReadSettings == auto.pc = "settings" /\ AutoReads("paired", enabled)
AutoReadRegistration == auto.pc = "paired" /\ AutoReads("state", registration # NoKey)
AutoHoldsBack ==
  auto.pc = "state" /\ (Stale(auto.epoch) \/ backoff # "none") /\ AutoReads("idle", FALSE)

\* A hold may have run out; a suspension does not.  Without budget the alarm does nothing.
AutoProceeds ==
  /\ auto.pc = "state" /\ backoff # "suspended" /\ ~Stale(auto.epoch)
  /\ \/ RunPortfolioSync(auto.epoch) /\ auto' = [auto EXCEPT !.pc = "waiting"]
     \/ left["syncs"] = 0 /\ auto' = IdleAuto /\ UNCHANGED <<svc, left>>
  /\ UNCHANGED <<contractVars, durable, fences, manual, cred, handlers, optedOut, undercut>>

AutoStep == AutoReadSettings \/ AutoReadRegistration \/ AutoHoldsBack \/ AutoProceeds

CredOffer ==
  /\ cred.pc = "idle" /\ registration # NoKey /\ enabled
  /\ Spend("credentials")
  /\ cred' = IF Stale(epoch) THEN IdleAuto ELSE [pc |-> "throttle", epoch |-> epoch]
  /\ UNCHANGED <<contractVars, durable, fences, svc, manual, auto, handlers, optedOut, undercut>>

\* The hourly throttle may refuse; a run in flight is waited for.
CredThrottle ==
  /\ cred.pc = "throttle"
  /\ \/ cred' = IdleAuto
     \/ /\ ~Stale(cred.epoch)
        /\ cred' = [cred EXCEPT !.pc = IF svc.pc = "idle" THEN "claim" ELSE "overlap"]
  /\ UNCHANGED <<contractVars, durable, fences, svc, manual, auto, handlers, ghosts>>

CredClaim ==
  /\ cred.pc = "claim"
  /\ \/ RunPortfolioSync(cred.epoch) /\ cred' = [cred EXCEPT !.pc = "waiting"]
     \/ (Stale(cred.epoch) \/ left["syncs"] = 0) /\ cred' = IdleAuto /\ UNCHANGED <<svc, left>>
  /\ UNCHANGED <<contractVars, durable, fences, manual, auto, handlers, optedOut, undercut>>

(***************************************************************************)
(* PAIR_DEVICE, from the popup or from CSFolder.                           *)
(***************************************************************************)
PairStart ==
  /\ pair.pc = "idle" /\ ~unpairFlag
  /\ Spend("pairs")
  /\ pair' = [pc |-> "check", epoch |-> epoch]
  /\ act' \in {act} \cup {a \in {"pairing"} : act = "idle"}
  /\ UNCHANGED <<contractVars, durable, fences, syncs, unpair, change, writer, optedOut, undercut>>

PairSettles(ok) ==
  /\ pair' = IdlePair
  /\ act' = IF act # "pairing" THEN act ELSE IF ok THEN "enable" ELSE "idle"

PairGoes(next) == pair' = [pair EXCEPT !.pc = next] /\ UNCHANGED act
PairFrame == UNCHANGED <<fences, syncs, unpair, change, writer, optedOut, undercut>>

PairCheck ==
  /\ pair.pc = "check"
  /\ IF StalePair(pair.epoch) \/ registration # NoKey
     THEN PairSettles(FALSE) /\ UNCHANGED left
     ELSE Stores(PairGoes("disable"), PairSettles(FALSE))
  /\ PairFrame /\ UNCHANGED <<contractVars, durable>>

\* preparePortfolioPairing: the three writes check no fence between them.
PairDisable ==
  /\ pair.pc = "disable"
  /\ Stores(enabled' = FALSE /\ PairGoes("clear"), UNCHANGED enabled /\ PairSettles(FALSE))
  /\ PairFrame /\ UNCHANGED <<contractVars, status, backoff>>

PairClear ==
  /\ pair.pc = "clear"
  /\ Stores(backoff' = "none" /\ PairGoes("queue"), UNCHANGED backoff /\ PairSettles(FALSE))
  /\ PairFrame /\ UNCHANGED <<contractVars, enabled, status>>

PairKeepsQueue ==
  /\ pair.pc = "queue"
  /\ PairGoes("start")
  /\ PairFrame /\ UNCHANGED <<contractVars, durable, left>>

PairQueue ==
  /\ pair.pc = "queue"
  /\ Stores(queued' = {} /\ PairGoes("start"), UNCHANGED queued /\ PairSettles(FALSE))
  /\ PairFrame /\ UNCHANGED <<registration, sending, run, pairing, unpairing, durable>>

PairBegin ==
  /\ pair.pc = "start"
  /\ \/ ~StalePair(pair.epoch) /\ StartPairing /\ PairGoes("running")
     \/ /\ StalePair(pair.epoch) \/ unpairing.phase # "idle"
        /\ PairSettles(FALSE) /\ UNCHANGED contractVars
  /\ PairFrame /\ UNCHANGED <<durable, left>>

PairRegistered ==
  /\ pair.pc = "running" /\ ~pairing.on
  /\ IF pairing.result = "ok" /\ ~StalePair(pair.epoch)
     THEN PairGoes("status") ELSE PairSettles(FALSE)
  /\ PairFrame /\ UNCHANGED <<contractVars, durable, left>>

PairEnds ==
  /\ pair.pc = "status"
  /\ Stores(status' = "empty" /\ PairSettles(~StalePair(pair.epoch)),
            UNCHANGED status /\ PairSettles(FALSE))
  /\ PairFrame /\ UNCHANGED <<contractVars, enabled, backoff>>

PairStep ==
  \/ PairCheck \/ PairDisable \/ PairClear \/ PairQueue \/ PairBegin \/ PairRegistered \/ PairEnds

(***************************************************************************)
(* UNPAIR_DEVICE: the fence goes up first; the settings are switched off   *)
(* and the controller unpaired side by side; what was in flight is waited  *)
(* for; then what is stored is destroyed.                                  *)
(***************************************************************************)
UnpairStart ==
  /\ unpair.pc = "idle"
  /\ Spend("unpairs")
  /\ RaiseUnpairFence
  /\ unpair' = [IdleUnpair EXCEPT !.pc = "stopping", !.epoch = epoch + 1,
                                  !.disable = "todo", !.remote = "todo"]
  /\ UNCHANGED <<contractVars, durable, syncs, pair, change, act, writer, optedOut, undercut>>

UnpairDisable ==
  /\ unpair.disable = "todo"
  /\ Stores(enabled' = FALSE /\ unpair' = [unpair EXCEPT !.disable = "done"],
            UNCHANGED enabled /\ unpair' = [unpair EXCEPT !.disable = "done", !.failed = TRUE])
  /\ UNCHANGED <<contractVars, status, backoff, fences, syncs, pair, change, act, writer,
                 optedOut, undercut>>

CallUnpair == IF unpairing.phase = "idle" THEN StartUnpair ELSE UNCHANGED contractVars

UnpairRemote ==
  /\ unpair.remote = "todo"
  /\ Stores(CallUnpair /\ unpair' = [unpair EXCEPT !.remote = "running"],
            UNCHANGED contractVars /\ unpair' = [unpair EXCEPT !.remote = "done", !.failed = TRUE])
  /\ UNCHANGED <<durable, fences, syncs, pair, change, act, writer, optedOut, undercut>>

UnpairAnswered ==
  /\ unpair.remote = "running" /\ unpairing.phase = "idle"
  /\ unpair' = [unpair EXCEPT !.remote = "done", !.failed = @ \/ unpairing.result # "ok"]
  /\ UNCHANGED <<contractVars, durable, fences, syncs, pair, change, act, writer, ghosts>>

UnpairAwaitsNothing ==
  /\ unpair.pc = "stopping" /\ unpair.disable = "done" /\ unpair.remote = "done"
  /\ unpair' = [unpair EXCEPT !.pc = "cleanup", !.pending = Artifacts]
  /\ UNCHANGED <<contractVars, durable, fences, syncs, pair, change, act, writer, ghosts>>

UnpairAwaits ==
  /\ unpair.pc = "stopping" /\ unpair.disable = "done" /\ unpair.remote = "done"
  /\ svc.pc = "idle" /\ pair.pc = "idle"
  /\ auto.pc = "idle" \/ auto.epoch >= unpair.epoch
  /\ unpair' = [unpair EXCEPT !.pc = "cleanup", !.pending = Artifacts]
  /\ UNCHANGED <<contractVars, durable, fences, syncs, pair, change, act, writer, ghosts>>

Destroy(a) ==
  /\ queued' = IF a = "queue" THEN {} ELSE queued
  /\ registration' = IF a = "identity" THEN NoKey ELSE registration
  /\ IF a = "state" THEN status' = "empty" /\ backoff' = "none" ELSE UNCHANGED <<status, backoff>>

UnpairDestroys ==
  /\ \E a \in unpair.pending :
       Stores(/\ Destroy(a)
              /\ unpair' = [unpair EXCEPT !.pending = @ \ {a}],
              /\ UNCHANGED <<queued, registration, status, backoff>>
              /\ unpair' = [unpair EXCEPT !.pending = @ \ {a}, !.failed = TRUE])
  /\ UNCHANGED <<sending, run, pairing, unpairing, enabled, fences, syncs, pair, change, act,
                 writer, optedOut, undercut>>

UnpairEnds ==
  /\ unpair.pc = "cleanup" /\ unpair.pending = {}
  /\ unpairFlag' = FALSE
  /\ unpair' = [IdleUnpair EXCEPT !.failed = unpair.failed]
  /\ optedOut' = (optedOut \/ ~unpair.failed)
  /\ UNCHANGED <<contractVars, durable, epoch, blocked, syncs, pair, change, act, writer,
                 undercut, left>>

UnpairStep ==
  \/ UnpairDisable \/ UnpairRemote \/ UnpairAnswered \/ UnpairAwaits \/ UnpairDestroys \/ UnpairEnds

(***************************************************************************)
(* UPDATE_EXTENSION_SETTINGS, switching uploads on or off.                 *)
(***************************************************************************)
ChangeBegins(kind) ==
  /\ change = "idle"
  /\ Spend("settings")
  /\ IF kind = "disable" THEN BlockUploads ELSE ~unpairFlag /\ UNCHANGED fences
  /\ change' = kind
  /\ UNCHANGED <<contractVars, durable, syncs, pair, unpair, act, writer, optedOut, undercut>>

ChangeLands ==
  /\ change # "idle"
  /\ enabled' = (change = "enable")
  /\ IF change = "enable" THEN AllowUploads /\ UNCHANGED backoff
                          ELSE UNCHANGED fences /\ backoff' = "none"
  /\ optedOut' = (change = "disable")
  /\ change' = "idle"
  /\ UNCHANGED <<contractVars, status, syncs, pair, unpair, act, writer, undercut, left>>

ChangeFails ==
  /\ change # "idle"
  /\ Spend("failures")
  /\ change' = "idle"
  /\ UNCHANGED <<contractVars, durable, fences, syncs, pair, unpair, act, writer,
                 optedOut, undercut>>

(***************************************************************************)
(* Activation from CSFolder: after a pairing it asked for, or of a device  *)
(* that is already paired.  On any error it fails closed.                  *)
(***************************************************************************)
ActFrame == UNCHANGED <<syncs, pair, unpair, change, writer>>

Reactivate ==
  /\ act = "idle" /\ ~unpairFlag /\ registration # NoKey
  /\ Spend("activations")
  /\ act' = "enable"
  /\ UNCHANGED <<contractVars, durable, fences, optedOut, undercut>> /\ ActFrame

ActFailClosed == BlockUploads /\ act' = "forget"

ActEnable ==
  /\ act = "enable"
  /\ IF unpairFlag THEN ActFailClosed /\ UNCHANGED <<backoff, left>>
     ELSE Stores(backoff' = "none" /\ act' = "write" /\ UNCHANGED fences,
                 ActFailClosed /\ UNCHANGED backoff)
  /\ UNCHANGED <<contractVars, enabled, status, optedOut, undercut>> /\ ActFrame

ActWrite ==
  /\ act = "write"
  /\ Stores(enabled' = TRUE /\ AllowUploads /\ optedOut' = FALSE /\ act' = "trigger",
            ActFailClosed /\ UNCHANGED <<enabled, optedOut>>)
  /\ UNCHANGED <<contractVars, status, backoff, undercut>> /\ ActFrame

ActTrigger ==
  /\ act = "trigger"
  /\ \/ RunPortfolioSync(epoch)
     \/ (Stale(epoch) \/ left["syncs"] = 0) /\ UNCHANGED <<svc, left>>
  /\ act' = "idle"
  /\ UNCHANGED <<contractVars, durable, fences, manual, auto, cred, pair, unpair, change, writer,
                 optedOut, undercut>>

ActForget ==
  /\ act = "forget"
  /\ Stores(/\ enabled' = FALSE /\ backoff' = "none" /\ optedOut' = TRUE
            /\ act' = "idle" /\ UNCHANGED contractVars,
            /\ enabled' \in {enabled, FALSE} /\ UNCHANGED <<backoff, optedOut>>
            /\ act' = "destroying" /\ CallUnpair)
  /\ UNCHANGED <<status, fences, undercut>> /\ ActFrame

ActDestroy ==
  /\ act = "destroying" /\ unpairing.phase = "idle"
  /\ queued' = {} /\ registration' = NoKey
  /\ undercut' = (undercut \/ run.device # NoKey)
  /\ act' = "idle"
  /\ UNCHANGED <<sending, run, pairing, unpairing, durable, fences, optedOut, left>> /\ ActFrame

ActStep == ActEnable \/ ActWrite \/ ActTrigger \/ ActForget \/ ActDestroy

(***************************************************************************)
(* Every other update of the settings reads them whole and writes them     *)
(* back: storage.ts, the price engine, the settings of csboard.com.  One   *)
(* from the popup while uploads are off also raises the fence.             *)
(***************************************************************************)
WriterReads ==
  /\ writer.pc = "idle"
  /\ Spend("writes")
  /\ writer' = [pc |-> "write", saw |-> enabled]
  /\ UNCHANGED fences \/ (~enabled /\ BlockUploads)
  /\ UNCHANGED <<contractVars, durable, syncs, pair, unpair, change, act, optedOut, undercut>>

WriterWrites ==
  /\ writer.pc = "write"
  /\ enabled' = writer.saw
  /\ backoff' \in {backoff} \cup {b \in {"none"} : ~writer.saw}
  /\ writer' = IdleWriter
  /\ UNCHANGED <<contractVars, status, fences, syncs, pair, unpair, change, act, ghosts>>

(***************************************************************************)
(* The browser stops the worker: its memory goes.                          *)
(***************************************************************************)
WorkerStops ==
  /\ Spend("stops")
  /\ StopController
  /\ epoch' = 0 /\ unpairFlag' = FALSE /\ blocked' = FALSE
  /\ svc' = IdleSvc /\ manual' = FALSE /\ auto' = IdleAuto /\ cred' = IdleAuto
  /\ pair' = IdlePair /\ unpair' = IdleUnpair /\ change' = "idle"
  /\ act' = "idle" /\ writer' = IdleWriter
  /\ UNCHANGED <<durable, optedOut, undercut>>

NeverAsksAgain == AllowRun
\* The controller asks whether uploads are enabled before it collects anything.
GetEnabledSources == AllowRun /\ enabled

Next ==
  \/ SvcStep \/ ManualSync \/ AutoTick \/ AutoStep \/ CredOffer \/ CredThrottle \/ CredClaim
  \/ PairStart \/ PairStep \/ UnpairStart \/ UnpairStep
  \/ (\E kind \in {"enable", "disable"} : ChangeBegins(kind)) \/ ChangeLands \/ ChangeFails
  \/ Reactivate \/ ActStep \/ WriterReads \/ WriterWrites \/ WorkerStops
  \/ (GetEnabledSources \/ ControllerStep) /\ UNCHANGED <<durable, fences, syncs, handlers, ghosts>>

(***************************************************************************)
(* Fairness: the worker runs what it has started, storage answers, the     *)
(* browser ends a network request that gets no answer (the code sets no    *)
(* timeout on those to the gateway and to Steam), and syncNow, pair and    *)
(* unpair of the controller settle (GatewayController!CallsSettle).  None  *)
(* for users, alarms, pages, failures and the browser's stops.             *)
(***************************************************************************)
ControllerFairness ==
  /\ WF_vars(EndUpload /\ UNCHANGED <<durable, fences, syncs, handlers, ghosts>>)
  /\ SF_vars((\E r \in {"ok", "cancelled", "revoked", "failed"} : EndRun(r))
              /\ UNCHANGED <<durable, fences, syncs, handlers, ghosts>>)
  /\ WF_vars((SavePairing \/ FailPairing) /\ UNCHANGED <<durable, fences, syncs, handlers, ghosts>>)
  /\ WF_vars((UnpairAlone \/ \E r \in {"ok", "failed"} : EndUnpair(r))
              /\ UNCHANGED <<durable, fences, syncs, handlers, ghosts>>)

Fairness ==
  /\ WF_vars(SvcStep) /\ WF_vars(AutoStep) /\ WF_vars(PairStep) /\ WF_vars(UnpairStep)
  /\ ControllerFairness

Spec == Init /\ [][Next]_vars
FairSpec == Spec /\ Fairness

(***************************************************************************)
(* Properties.                                                             *)
(***************************************************************************)

\* preparePortfolioPairing clears the outbox, so a registration never has to share it
\* with envelopes of another device, whatever an earlier unpair failed to destroy.  (Unless an
\* opt-in lifted the fence of a failing activation and let a run start that its clean-up, which
\* waits for no run, then undercut: that run goes on queueing for the device that is gone.)
NoRevivedEnvelopes == registration # NoKey /\ ~undercut => queued \subseteq {registration}

\* When UNPAIR_DEVICE is about to report success there is no registration, no envelope, no
\* verdict and no scheduler state left: nothing that was in flight wrote any of it back.
UnpairLeavesNoTrace ==
  unpair.pc = "cleanup" /\ unpair.pending = {} /\ ~unpair.failed =>
    registration = NoKey /\ queued = {} /\ status = "empty" /\ backoff = "none"

\* Once the user has been told that uploads have stopped, no run gets past the controller's
\* own question whether they are enabled until the user opts in again: whichever handler
\* stopped them, whoever lifted the fence meanwhile, and across a restart of the worker.
\* (This is the last line of defence.  An opt-in that overlaps the opt-out lifts its fence,
\* and a run that read the settings before is then still started.)
\* It is checked without another writer of the settings: that one can write the consent
\* back, see NoNewRunAfterOptOut.
NoRunAfterOptOut == [][~run.allowed /\ run'.allowed => ~optedOut]_vars

\* "Disabling portfolio uploads stops all new manual and automatic uploads" (PRIVACY.md): no
\* run of a paired device starts.
NoNewRunAfterOptOut == [][~run.on /\ run'.on /\ registration # NoKey => ~optedOut]_vars

\* The fence is raised to stop uploads: while it is up none begins.
OptOutStopsUploads == [][blocked => sending' \subseteq sending]_vars

\* Revocation is terminal: a suspension is lifted, never replaced by a backoff that
\* runs out.
SuspensionIsTerminal == [][backoff = "suspended" => backoff' # "hold"]_vars

\* UNPAIR_DEVICE answers, whatever it finds in flight and whatever fails.
UnpairAnswers == unpair.pc # "idle" ~> unpair.pc = "idle"
=============================================================================
