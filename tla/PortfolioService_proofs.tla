----------------------- MODULE PortfolioService_proofs -----------------------
(***************************************************************************)
(* The safety of the portfolio side of the service worker, for every set   *)
(* of keys and every budget of operations: no envelope of another device   *)
(* is revived, UNPAIR_DEVICE leaves no trace, and, without another writer  *)
(* of the settings, no run gets past the controller's question after an    *)
(* opt-out.                                                                *)
(***************************************************************************)
EXTENDS PortfolioService, TLAPS

(***************************************************************************)
(* The inductive invariant.                                                *)
(***************************************************************************)
\* A run of the controller is a run of the service; a pairing of the controller is a pairing of
\* the service; and the controller's unpair destroys only when it is alone.
CallsAreTheirs ==
  /\ run.on => svc.pc = "run"
  /\ ~run.on => run.device = NoKey /\ ~run.live
  /\ run.device = NoKey => ~run.allowed /\ run.seen = {}
  /\ pairing.on => pair.pc = "running"
  /\ unpairing.phase = "alone" => ~run.on /\ ~pairing.on

\* No registration is stored while one is being prepared.
PairsWhenFree ==
  pair.pc \in {"disable", "clear", "queue", "start"} \/ pairing.on => registration = NoKey

\* A run reads and writes envelopes of its own device, and a pairing begins with an empty outbox.
QueuesForItself ==
  ~undercut =>
    /\ run.device # NoKey => registration = run.device /\ run.seen \subseteq {run.device}
    /\ pair.pc = "start" \/ pairing.on => queued = {}

\* While UNPAIR_DEVICE runs its fence is up; its clean-up finds no run and no pairing.
UnpairIsAlone ==
  /\ unpair.pc # "idle" => unpairFlag
  /\ unpair.pc # "cleanup" => unpair.pending = {}
  /\ unpair.pc # "stopping" => unpair.disable # "todo" /\ unpair.remote \notin {"todo", "running"}
  /\ unpair.pc = "cleanup" => svc.pc = "idle" /\ pair.pc = "idle"

\* What the clean-up has destroyed stays destroyed.
CleanedUp ==
  unpair.pc = "cleanup" /\ ~unpair.failed =>
     /\ "queue" \notin unpair.pending => queued = {}
     /\ "identity" \notin unpair.pending => registration = NoKey
     /\ "state" \notin unpair.pending => status = "empty" /\ backoff = "none"

Safe ==
  /\ CallsAreTheirs /\ PairsWhenFree /\ QueuesForItself /\ NoRevivedEnvelopes
  /\ UnpairIsAlone /\ CleanedUp
Inductive == TypeOK /\ Safe

(***************************************************************************)
(* Who writes what.                                                        *)
(***************************************************************************)
Controller == (GetEnabledSources \/ ControllerStep)
                /\ UNCHANGED <<durable, fences, syncs, handlers, ghosts>>
Asks == ManualSync \/ AutoTick \/ AutoStep \/ CredOffer \/ CredThrottle \/ CredClaim
Changes == (\E kind \in {"enable", "disable"} : ChangeBegins(kind)) \/ ChangeLands \/ ChangeFails
Writes == WriterReads \/ WriterWrites

\* The actors of the worker.
LEMMA Actors ==
  ASSUME Next
  PROVE  \/ Controller \/ SvcStep \/ Asks \/ PairStart \/ PairStep \/ UnpairStart \/ UnpairStep
         \/ Changes \/ Writes \/ Reactivate \/ ActStep \/ WorkerStops
BY DEF Next, Controller, Asks, Changes, Writes

\* A run of the service starts a run of the controller and records how it ended.
LEMMA SvcFrame ==
  ASSUME SvcStep
  PROVE  /\ svc.pc # "idle" /\ (svc.pc = "run" => ~run.on)
         /\ UNCHANGED <<registration, queued, sending, pairing, unpairing, enabled, fences, handlers,
                        optedOut, undercut>>
         /\ run' # run => SvcStartRun
<1> USE DEF contractVars, durable, ghosts
<1>1. CASE SvcReadSettings \/ SvcRunEnds \/ SvcStartFails
  BY <1>1 DEF SvcReadSettings, SvcRunEnds, SvcStartFails
<1>2. CASE SvcAttempt \/ SvcNotEnabled
  BY <1>2 DEF SvcAttempt, SvcNotEnabled, Stores
<1>3. CASE SvcSucceeds
  BY <1>3 DEF SvcSucceeds, Stores
<1>4. CASE SvcFails \/ SvcFenced
  BY <1>4 DEF SvcFails, SvcFenced, Stores
<1>5. CASE SvcStartRun
  BY <1>5 DEF SvcStartRun, StartRun
<1> QED
  BY <1>1, <1>2, <1>3, <1>4, <1>5 DEF SvcStep

\* Asking for a sync joins the run of the service or starts one, but not while its fence is up.
LEMMA RunStarts ==
  ASSUME NEW e, RunPortfolioSync(e) PROVE UNCHANGED svc \/ (~unpairFlag /\ svc.pc = "idle")
BY DEF RunPortfolioSync, Stale

\* Whoever asks for a sync does nothing else to the service.
LEMMA AskFrame ==
  ASSUME Asks
  PROVE  /\ UNCHANGED <<contractVars, durable, fences, handlers, optedOut, undercut>>
         /\ UNCHANGED svc \/ (~unpairFlag /\ svc.pc = "idle")
<1>1. UNCHANGED <<contractVars, durable, fences, handlers, optedOut, undercut>>
  BY DEF Asks, ManualSync, AutoTick, AutoStep, AutoReadSettings, AutoReadRegistration, AutoHoldsBack,
         AutoProceeds, AutoReads, CredOffer, CredThrottle, CredClaim, ghosts
<1>2. UNCHANGED svc \/ RunPortfolioSync(epoch) \/ RunPortfolioSync(auto.epoch) \/ RunPortfolioSync(cred.epoch)
  BY DEF Asks, ManualSync, AutoTick, AutoStep, AutoReadSettings, AutoReadRegistration, AutoHoldsBack,
         AutoProceeds, AutoReads, CredOffer, CredThrottle, CredClaim
<1> QED
  BY <1>1, <1>2, RunStarts

\* A pairing leaves the runs, the unpair and the registration alone: that one is the controller's.
LEMMA PairFrames ==
  ASSUME PairStart \/ PairStep
  PROVE  UNCHANGED <<registration, sending, run, unpairing, fences, syncs, unpair, change, writer,
                     optedOut, undercut>>
BY DEF PairStart, PairStep, PairCheck, PairDisable, PairClear, PairQueue, PairBegin, PairRegistered,
       PairEnds, PairFrame, StartPairing, contractVars, durable

\* An unpair fences runs and destroys what is stored; it starts nothing.
LEMMA UnpairFrame ==
  ASSUME UnpairStart \/ UnpairStep
  PROVE  UNCHANGED <<sending, pairing, syncs, pair, change, act, writer, undercut>>
BY DEF UnpairStart, UnpairStep, UnpairDisable, UnpairRemote, UnpairAnswered, UnpairAwaits,
       UnpairDestroys, UnpairEnds, CallUnpair, Stores, StartUnpair, contractVars, ghosts, fences, durable

\* Settings updates know nothing of the controller.
LEMMA SettingsFrame ==
  ASSUME Changes \/ Writes
  PROVE  /\ UNCHANGED <<contractVars, status, unpairFlag, syncs, pair, unpair, act, undercut>>
         /\ backoff' \in {backoff, "none"}
BY DEF Changes, ChangeBegins, ChangeLands, ChangeFails, Writes, WriterReads, WriterWrites, BlockUploads,
       AllowUploads, durable, fences, ghosts

\* An activation may start a run, not while the fence of an unpair is up, and when it fails
\* destroys what is stored.
LEMMA ActFrames ==
  ASSUME Reactivate \/ ActStep
  PROVE  /\ UNCHANGED <<sending, pairing, status, unpairFlag, pair, unpair, change, writer>>
         /\ backoff' \in {backoff, "none"}
         /\ UNCHANGED svc \/ (~unpairFlag /\ svc.pc = "idle")
<1> USE DEF contractVars, durable, syncs, fences, ActFrame, Stores
<1>1. CASE Reactivate
  BY <1>1 DEF Reactivate
<1>2. CASE ActEnable \/ ActWrite
  BY <1>2 DEF ActEnable, ActWrite, ActFailClosed, BlockUploads, AllowUploads
<1>3. CASE ActTrigger
  BY <1>3, RunStarts DEF ActTrigger
<1>4. CASE ActForget \/ ActDestroy
  BY <1>4 DEF ActForget, ActDestroy, CallUnpair, StartUnpair
<1> QED
  BY <1>1, <1>2, <1>3, <1>4 DEF ActStep

(***************************************************************************)
(* Types.                                                                  *)
(***************************************************************************)
\* The records of handlers that are not running have their types.
LEMMA IdleTypes ==
  /\ IdleSvc \in SvcRuns /\ IdleAuto \in AutoRuns /\ IdleAuto \in CredRuns
  /\ IdlePair \in PairRuns /\ IdleUnpair \in UnpairRuns /\ IdleWriter \in Writers
  /\ \A r \in {"none", "ok", "cancelled", "revoked", "failed"} : Ended(r) \in RunStates
BY DEF IdleSvc, SvcRuns, IdleAuto, AutoRuns, CredRuns, IdlePair, PairRuns, IdleUnpair, UnpairRuns,
       IdleWriter, Writers, Ended, RunStates

\* A fresh worker satisfies the invariant.
LEMMA InitInductive == Init => Inductive
<1> SUFFICES ASSUME Init PROVE Inductive
  OBVIOUS
<1>1. ContractTypeOK /\ left \in [Operations -> Nat]
  BY BudgetsAssumption, IdleTypes
  DEF Init, ContractInit, ContractTypeOK, PairingStates, UnpairingStates
<1>2. TypeOK
  BY <1>1, IdleTypes DEF Init, TypeOK
<1>3. Safe
  BY DEF Init, ContractInit, Ended, IdleSvc, IdlePair, IdleUnpair, Safe, CallsAreTheirs, PairsWhenFree,
     QueuesForItself, NoRevivedEnvelopes, UnpairIsAlone, CleanedUp
<1> QED
  BY <1>2, <1>3 DEF Inductive

\* Spending from the budget keeps it one.
LEMMA SpendType ==
  ASSUME left \in [Operations -> Nat], NEW op \in Operations, Spend(op)
  PROVE  left' \in [Operations -> Nat]
BY DEF Spend

\* Each variable of the contract keeps its type when the contract takes a step.
LEMMA ContractTypes ==
  ASSUME ContractTypeOK, run.allowed => run.device # NoKey,
         \/ StartRun \/ StartPairing \/ StartUnpair \/ AllowRun \/ ControllerStep \/ StopController
  PROVE  ContractTypeOK'
<1> USE IdleTypes DEF ContractTypeOK, PairingStates, UnpairingStates
<1>1. CASE StartRun
  <2> DEFINE ended == Ended("none")
  <2>1. ended \in RunStates
    OBVIOUS
  <2>2. [ended EXCEPT !.on = TRUE, !.live = TRUE] \in RunStates
    <3> HIDE DEF ended
    <3> QED
      BY <2>1 DEF RunStates
  <2> QED
    BY <1>1, <2>2 DEF StartRun
<1>2. CASE BindRun \/ AllowRun \/ ReadQueue
  BY <1>2 DEF BindRun, AllowRun, ReadQueue, RunStates
<1>3. CASE WriteQueue
  BY <1>3 DEF WriteQueue, RunStates
<1>4. CASE StartUpload
  BY <1>4 DEF StartUpload, RunStates
<1>5. CASE EndUpload
  BY <1>5 DEF EndUpload, RunStates
<1>6. CASE \E r \in {"ok", "cancelled", "revoked", "failed"} : EndRun(r)
  BY <1>6 DEF EndRun
<1>7. CASE StartPairing \/ SavePairing \/ FailPairing
  <2>1. pairing' \in PairingStates
    <3>1. CASE StartPairing
      BY <3>1 DEF StartPairing
    <3>2. CASE SavePairing
      BY <3>2 DEF SavePairing
    <3>3. CASE FailPairing
      BY <3>3 DEF FailPairing
    <3> QED
      BY <1>7, <3>1, <3>2, <3>3
  <2>3. registration' \in Keys \cup {NoKey}
    BY <1>7 DEF StartPairing, SavePairing, FailPairing
  <2>2. UNCHANGED <<queued, sending, run, unpairing>>
    BY <1>7 DEF StartPairing, SavePairing, FailPairing
  <2> QED
    BY <2>1, <2>2, <2>3
<1>8. CASE StartUnpair
  BY <1>8 DEF StartUnpair, RunStates
<1>9. CASE UnpairAlone \/ ClearQueue \/ ForgetRegistration \/ \E r \in {"ok", "failed"} : EndUnpair(r)
  BY <1>9 DEF UnpairAlone, ClearQueue, ForgetRegistration, EndUnpair
<1>10. CASE StopController
  BY <1>10 DEF StopController
<1> QED
  BY <1>1, <1>2, <1>3, <1>4, <1>5, <1>6, <1>7, <1>8, <1>9, <1>10 DEF ControllerStep

\* The settling of a run keeps the types of those it carries on.
LEMMA SettleTypes ==
  ASSUME TypeOK, NEW outcome, SettleSvc(outcome)
  PROVE  /\ svc' = IdleSvc /\ svc' \in SvcRuns /\ manual' \in BOOLEAN
         /\ auto' \in AutoRuns /\ cred' \in CredRuns
         /\ backoff' \in {"none", "hold", "suspended"}
<1>1. cred' \in CredRuns
  BY IdleTypes DEF SettleSvc, SettleCred, TypeOK, CredRuns
<1> QED
  BY <1>1, IdleTypes DEF SettleSvc, SettleBackoff, TypeOK

\* Asking for a sync keeps the service's run typed.
LEMMA RunTypes ==
  ASSUME TypeOK, NEW e \in Nat, RunPortfolioSync(e)
  PROVE  svc' \in SvcRuns /\ left' \in [Operations -> Nat]
BY SpendType DEF RunPortfolioSync, TypeOK, SvcRuns, IdleSvc, Operations

\* Steps keep the types.
LEMMA TypeStep == Inductive /\ Next => TypeOK'
<1> SUFFICES ASSUME Inductive, Next PROVE TypeOK'
  OBVIOUS
<1>0. TypeOK /\ ContractTypeOK /\ (run.allowed => run.device # NoKey)
  BY DEF Inductive, TypeOK, Safe, CallsAreTheirs
<1>a. UNCHANGED contractVars => ContractTypeOK'
  BY <1>0 DEF ContractTypeOK, contractVars
<1>b. UNCHANGED handlers => /\ pair' \in PairRuns /\ unpair' \in UnpairRuns /\ writer' \in Writers
                            /\ change' \in {"idle", "enable", "disable"}
                            /\ act' \in {"idle", "pairing", "enable", "write", "trigger", "forget",
                                         "destroying"}
  BY <1>0 DEF TypeOK, handlers
<1>c. UNCHANGED syncs => svc' \in SvcRuns /\ manual' \in BOOLEAN /\ auto' \in AutoRuns /\ cred' \in CredRuns
  BY <1>0 DEF TypeOK, syncs
<1>d. UNCHANGED fences => epoch' \in Nat /\ unpairFlag' \in BOOLEAN /\ blocked' \in BOOLEAN
  BY <1>0 DEF TypeOK, fences
<1>e. UNCHANGED durable => /\ enabled' \in BOOLEAN /\ status' \in {"empty", "attempt", "ok", "failed"}
                           /\ backoff' \in {"none", "hold", "suspended"}
  BY <1>0 DEF TypeOK, durable
<1>f. ASSUME NEW op \in Operations, Spend(op) PROVE left' \in [Operations -> Nat]
  BY <1>0, <1>f, SpendType DEF TypeOK
<1>g. BlockUploads \/ AllowUploads \/ UNCHANGED fences => epoch' \in Nat /\ blocked' \in BOOLEAN
  <2>1. BlockUploads => epoch' \in Nat /\ blocked' \in BOOLEAN
    BY <1>0 DEF BlockUploads, TypeOK
  <2>2. epoch \in Nat /\ epoch + 1 \in Nat
    BY <1>0 DEF TypeOK
  <2>3. AllowUploads => epoch' \in {epoch, epoch + 1} /\ blocked' \in BOOLEAN
    BY Zenon DEF AllowUploads
  <2> QED
    BY <1>d, <2>1, <2>2, <2>3
<1>1. CASE Controller
  <2>1. ContractTypeOK'
    BY <1>0, <1>1, ContractTypes DEF Controller, GetEnabledSources
  <2> QED
    BY <1>0, <1>1, <1>b, <1>c, <1>d, <1>e, <2>1 DEF Controller, ghosts, TypeOK
<1>2. CASE SvcStep
  <2>0. ASSUME ContractTypeOK', svc' \in SvcRuns, manual' \in BOOLEAN, auto' \in AutoRuns,
               cred' \in CredRuns, status' \in {"empty", "attempt", "ok", "failed"},
               backoff' \in {"none", "hold", "suspended"}, left' \in [Operations -> Nat]
        PROVE  TypeOK'
    BY <1>0, <1>2, <1>b, <1>d, <2>0, SvcFrame DEF TypeOK
  <2>a. UNCHANGED contractVars /\ UNCHANGED <<manual, auto, cred>> /\ svc' \in SvcRuns
          /\ status' \in {"empty", "attempt", "ok", "failed"} /\ backoff' = backoff
          /\ left' \in [Operations -> Nat] => TypeOK'
    BY <1>0, <1>a, <2>0 DEF TypeOK
  <2>b. ASSUME UNCHANGED contractVars, NEW outcome, SettleSvc(outcome), left' \in [Operations -> Nat],
               status' \in {"empty", "attempt", "ok", "failed"}
        PROVE  TypeOK'
    BY <1>0, <1>a, <2>0, <2>b, SettleTypes
  <2>c. Spend("failures") => left' \in [Operations -> Nat]
    BY <1>f DEF Operations
  <2>d. left \in [Operations -> Nat] /\ status \in {"empty", "attempt", "ok", "failed"}
    BY <1>0 DEF TypeOK
  <2>1. CASE SvcReadSettings
    <3>1. svc' \in SvcRuns
      BY <1>0, <2>1 DEF SvcReadSettings, TypeOK, SvcRuns
    <3> QED
      BY <2>1, <2>a, <2>d, <3>1 DEF SvcReadSettings, durable, ghosts
  <2>2. CASE SvcAttempt
    <3>1. CASE status' = "attempt" /\ svc' = [svc EXCEPT !.pc = "start"]
                 /\ UNCHANGED <<backoff, manual, auto, cred, left>>
      <4>1. svc' \in SvcRuns
        BY <1>0, <3>1 DEF TypeOK, SvcRuns
      <4> QED
        BY <2>2, <2>a, <2>d, <3>1, <4>1 DEF SvcAttempt
    <3>2. CASE UNCHANGED status /\ SettleSvc("failed") /\ Spend("failures")
      BY <2>2, <2>b, <2>c, <2>d, <3>2 DEF SvcAttempt
    <3> QED
      BY <2>2, <3>1, <3>2 DEF SvcAttempt, Stores
  <2>3. CASE SvcNotEnabled
    <3>1. status' \in {"empty", "attempt", "ok", "failed"} /\ left' \in [Operations -> Nat]
      BY <2>3, <2>c, <2>d DEF SvcNotEnabled, Stores
    <3> QED
      BY <2>3, <2>b, <3>1 DEF SvcNotEnabled
  <2>4. CASE SvcStartRun
    <3>1. svc' \in SvcRuns
      BY <1>0, <2>4 DEF SvcStartRun, TypeOK, SvcRuns
    <3>2. ContractTypeOK'
      BY <1>0, <2>4, ContractTypes DEF SvcStartRun
    <3> QED
      BY <1>0, <2>0, <2>4, <3>1, <3>2 DEF SvcStartRun, TypeOK, durable, ghosts
  <2>5. CASE SvcStartFails
    <3>1. svc' \in SvcRuns /\ left' \in [Operations -> Nat]
      BY <1>0, <2>5, <2>c DEF SvcStartFails, TypeOK, SvcRuns, Codes
    <3> QED
      BY <2>5, <2>a, <2>d, <3>1 DEF SvcStartFails, durable
  <2>6. CASE SvcRunEnds
    <3>1. svc' \in SvcRuns
      BY <1>0, <2>6 DEF SvcRunEnds, TypeOK, SvcRuns, Codes
    <3> QED
      BY <2>6, <2>a, <2>d, <3>1 DEF SvcRunEnds, durable, ghosts
  <2>7. CASE SvcSucceeds
    <3>1. CASE /\ svc' = [svc EXCEPT !.pc = "failed", !.code = "failed"] /\ Spend("failures")
               /\ UNCHANGED <<status, backoff, manual, auto, cred>>
      <4>1. svc' \in SvcRuns
        BY <1>0, <3>1 DEF TypeOK, SvcRuns, Codes
      <4> QED
        BY <2>7, <2>a, <2>c, <2>d, <3>1, <4>1 DEF SvcSucceeds
    <3>2. CASE \E outcome : status' = "ok" /\ SettleSvc(outcome) /\ UNCHANGED left
      BY <2>7, <2>b, <2>d, <3>2 DEF SvcSucceeds
    <3> QED
      BY <2>7, <3>1, <3>2 DEF SvcSucceeds, Stores
  <2>8. CASE SvcFails
    <3>1. \E outcome : SettleSvc(outcome)
      BY <2>8 DEF SvcFails, Stores
    <3>2. status' \in {"empty", "attempt", "ok", "failed"} /\ left' \in [Operations -> Nat]
      BY <2>8, <2>c, <2>d DEF SvcFails, Stores
    <3> QED
      BY <2>8, <2>b, <3>1, <3>2 DEF SvcFails
  <2>9. CASE SvcFenced
    BY <2>9, <2>b, <2>d DEF SvcFenced, ghosts
  <2> QED
    BY <1>2, <2>1, <2>2, <2>3, <2>4, <2>5, <2>6, <2>7, <2>8, <2>9 DEF SvcStep
<1>3. CASE Asks
  <2>0. ASSUME svc' \in SvcRuns, manual' \in BOOLEAN, auto' \in AutoRuns, cred' \in CredRuns,
               left' \in [Operations -> Nat]
        PROVE  TypeOK'
    BY <1>0, <1>3, <1>a, <1>b, <1>d, <1>e, <2>0, AskFrame DEF TypeOK
  <2>a. svc \in SvcRuns /\ manual \in BOOLEAN /\ auto \in AutoRuns /\ cred \in CredRuns
        /\ epoch \in Nat /\ left \in [Operations -> Nat]
    BY <1>0 DEF TypeOK
  <2>1. CASE ManualSync
    BY <1>0, <2>0, <2>1, <2>a, RunTypes DEF ManualSync
  <2>2. CASE AutoTick
    BY <1>f, <2>0, <2>2, <2>a DEF AutoTick, AutoRuns, Operations
  <2>3. CASE AutoReadSettings \/ AutoReadRegistration \/ AutoHoldsBack
    <3>1. auto' \in AutoRuns
      BY <2>3, <2>a, IdleTypes
      DEF AutoReadSettings, AutoReadRegistration, AutoHoldsBack, AutoReads, AutoRuns
    <3> QED
      BY <2>0, <2>3, <2>a, <3>1
      DEF AutoReadSettings, AutoReadRegistration, AutoHoldsBack, AutoReads, ghosts
  <2>4. CASE AutoProceeds
    <3>1. auto' \in AutoRuns /\ auto.epoch \in Nat
      BY <2>4, <2>a, IdleTypes DEF AutoProceeds, AutoRuns
    <3> QED
      BY <1>0, <2>0, <2>4, <2>a, <3>1, RunTypes DEF AutoProceeds
  <2>5. CASE CredOffer
    <3>1. cred' \in CredRuns
      BY <2>5, <2>a, IdleTypes DEF CredOffer, CredRuns
    <3> QED
      BY <1>f, <2>0, <2>5, <2>a, <3>1 DEF CredOffer, Operations
  <2>6. CASE CredThrottle
    <3>1. cred' \in CredRuns
      BY <2>6, <2>a, IdleTypes DEF CredThrottle, CredRuns
    <3> QED
      BY <2>0, <2>6, <2>a, <3>1 DEF CredThrottle, ghosts
  <2>7. CASE CredClaim
    <3>1. cred' \in CredRuns /\ cred.epoch \in Nat
      BY <2>7, <2>a, IdleTypes DEF CredClaim, CredRuns
    <3> QED
      BY <1>0, <2>0, <2>7, <2>a, <3>1, RunTypes DEF CredClaim
  <2> QED
    BY <1>3, <2>1, <2>2, <2>3, <2>4, <2>5, <2>6, <2>7 DEF Asks, AutoStep
<1>4. CASE PairStart \/ PairStep
  <2>0. ASSUME registration' \in Keys \cup {NoKey}, queued' \subseteq Keys, pairing' \in PairingStates,
               enabled' \in BOOLEAN, status' \in {"empty", "attempt", "ok", "failed"},
               backoff' \in {"none", "hold", "suspended"}, pair' \in PairRuns,
               act' \in {"idle", "pairing", "enable", "write", "trigger", "forget", "destroying"},
               left' \in [Operations -> Nat]
        PROVE  TypeOK'
    BY <1>0, <1>4, <1>c, <1>d, <2>0, PairFrames DEF TypeOK, ContractTypeOK
  <2>a. registration \in Keys \cup {NoKey} /\ queued \subseteq Keys /\ pairing \in PairingStates
        /\ enabled \in BOOLEAN /\ status \in {"empty", "attempt", "ok", "failed"}
        /\ backoff \in {"none", "hold", "suspended"} /\ pair \in PairRuns /\ epoch \in Nat
        /\ act \in {"idle", "pairing", "enable", "write", "trigger", "forget", "destroying"}
        /\ left \in [Operations -> Nat]
    BY <1>0 DEF TypeOK, ContractTypeOK
  <2>b. Spend("failures") \/ Spend("pairs") => left' \in [Operations -> Nat]
    BY <1>f DEF Operations
  <2>c. ASSUME NEW next \in {"disable", "clear", "queue", "start", "running", "status"}, PairGoes(next)
        PROVE  pair' \in PairRuns /\ UNCHANGED act
    BY <2>a, <2>c DEF PairGoes, PairRuns
  <2>d. ASSUME NEW ok, PairSettles(ok)
        PROVE  /\ pair' \in PairRuns
               /\ act' \in {"idle", "pairing", "enable", "write", "trigger", "forget", "destroying"}
    BY <2>a, <2>d, IdleTypes DEF PairSettles
  <2>1. CASE PairStart
    <3>1. pair' \in PairRuns
      BY <2>1, <2>a DEF PairStart, PairRuns
    <3> QED
      BY <2>0, <2>1, <2>a, <2>b, <3>1 DEF PairStart, contractVars, durable
  <2>2. CASE PairCheck
    BY <2>0, <2>2, <2>a, <2>b, <2>c, <2>d DEF PairCheck, Stores, contractVars, durable
  <2>3. CASE PairDisable
    BY <2>0, <2>3, <2>a, <2>b, <2>c, <2>d DEF PairDisable, Stores, contractVars
  <2>4. CASE PairClear
    BY <2>0, <2>4, <2>a, <2>b, <2>c, <2>d DEF PairClear, Stores, contractVars
  <2>5. CASE PairQueue
    BY <2>0, <2>5, <2>a, <2>b, <2>c, <2>d DEF PairQueue, Stores, durable
  <2>6. CASE PairBegin
    <3>1. CASE StartPairing /\ PairGoes("running")
      BY <2>0, <2>6, <2>a, <2>c, <3>1 DEF PairBegin, StartPairing, PairingStates, durable
    <3>2. CASE PairSettles(FALSE) /\ UNCHANGED contractVars
      BY <2>0, <2>6, <2>a, <2>d, <3>2 DEF PairBegin, contractVars, durable
    <3> QED
      BY <2>6, <3>1, <3>2 DEF PairBegin
  <2>7. CASE PairRegistered
    BY <2>0, <2>7, <2>a, <2>c, <2>d DEF PairRegistered, contractVars, durable
  <2>8. CASE PairEnds
    BY <2>0, <2>8, <2>a, <2>b, <2>d DEF PairEnds, Stores, contractVars
  <2> QED
    BY <1>4, <2>1, <2>2, <2>3, <2>4, <2>5, <2>6, <2>7, <2>8 DEF PairStep
<1>5. CASE UnpairStart \/ UnpairStep
  <2>0. ASSUME ContractTypeOK', enabled' \in BOOLEAN, status' \in {"empty", "attempt", "ok", "failed"},
               backoff' \in {"none", "hold", "suspended"}, epoch' \in Nat, unpairFlag' \in BOOLEAN,
               blocked' \in BOOLEAN, unpair' \in UnpairRuns, optedOut' \in BOOLEAN,
               left' \in [Operations -> Nat]
        PROVE  TypeOK'
    BY <1>0, <1>5, <1>c, <2>0, UnpairFrame DEF TypeOK
  <2>a. enabled \in BOOLEAN /\ status \in {"empty", "attempt", "ok", "failed"}
        /\ backoff \in {"none", "hold", "suspended"} /\ epoch \in Nat /\ unpairFlag \in BOOLEAN
        /\ blocked \in BOOLEAN /\ unpair \in UnpairRuns /\ optedOut \in BOOLEAN
        /\ left \in [Operations -> Nat]
    BY <1>0 DEF TypeOK
  <2>b. Spend("failures") \/ Spend("unpairs") => left' \in [Operations -> Nat]
    BY <1>f DEF Operations
  <2>c. CallUnpair => ContractTypeOK'
    BY <1>0, <1>a, ContractTypes DEF CallUnpair
  <2>1. CASE UnpairStart
    <3>1. unpair' = [pc |-> "stopping", epoch |-> epoch + 1, disable |-> "todo", remote |-> "todo",
                     pending |-> {}, failed |-> FALSE]
      BY <2>1 DEF UnpairStart, IdleUnpair
    <3>2. unpair' \in UnpairRuns
      BY <2>a, <3>1 DEF UnpairRuns
    <3> QED
      BY <1>a, <2>0, <2>1, <2>a, <2>b, <3>2 DEF UnpairStart, RaiseUnpairFence, durable
  <2>2. CASE UnpairDisable
    <3>1. unpair' \in UnpairRuns
      BY <2>2, <2>a DEF UnpairDisable, Stores, UnpairRuns
    <3> QED
      BY <1>a, <2>0, <2>2, <2>a, <2>b, <3>1 DEF UnpairDisable, Stores, fences
  <2>3. CASE UnpairRemote
    <3>1. unpair' \in UnpairRuns
      BY <2>3, <2>a DEF UnpairRemote, Stores, UnpairRuns
    <3> QED
      BY <1>a, <2>0, <2>3, <2>a, <2>b, <2>c, <3>1 DEF UnpairRemote, Stores, durable, fences
  <2>4. CASE UnpairAnswered \/ UnpairAwaits
    <3>1. unpair' \in UnpairRuns
      BY <2>4, <2>a DEF UnpairAnswered, UnpairAwaits, UnpairRuns, Artifacts
    <3> QED
      BY <1>a, <2>0, <2>4, <2>a, <3>1 DEF UnpairAnswered, UnpairAwaits, durable, fences, ghosts
  <2>5. CASE UnpairDestroys
    <3>1. PICK a \in unpair.pending :
            Stores(/\ Destroy(a)
                   /\ unpair' = [unpair EXCEPT !.pending = @ \ {a}],
                   /\ UNCHANGED <<queued, registration, status, backoff>>
                   /\ unpair' = [unpair EXCEPT !.pending = @ \ {a}, !.failed = TRUE])
      BY <2>5 DEF UnpairDestroys
    <3>2. unpair.pending \ {a} \in SUBSET Artifacts
      BY <2>a DEF UnpairRuns
    <3>3. unpair' \in UnpairRuns
      BY <2>a, <3>1, <3>2 DEF Stores, UnpairRuns
    <3>4. queued' \subseteq Keys /\ registration' \in Keys \cup {NoKey}
      BY <1>0, <3>1 DEF Stores, Destroy, ContractTypeOK
    <3>5. status' \in {"empty", "attempt", "ok", "failed"} /\ backoff' \in {"none", "hold", "suspended"}
          /\ left' \in [Operations -> Nat]
      BY <2>a, <2>b, <3>1 DEF Stores, Destroy
    <3>6. ContractTypeOK'
      BY <1>0, <2>5, <3>4 DEF UnpairDestroys, ContractTypeOK
    <3> QED
      BY <2>0, <2>5, <2>a, <3>3, <3>5, <3>6 DEF UnpairDestroys, fences
  <2>6. CASE UnpairEnds
    <3>1. unpair' \in UnpairRuns
      BY <2>6, <2>a, IdleTypes DEF UnpairEnds, UnpairRuns
    <3> QED
      BY <1>a, <2>0, <2>6, <2>a, <3>1 DEF UnpairEnds, durable, UnpairRuns
  <2> QED
    BY <1>5, <2>1, <2>2, <2>3, <2>4, <2>5, <2>6 DEF UnpairStep
<1>6. CASE Changes \/ Writes
  <2>0. ASSUME enabled' \in BOOLEAN, epoch' \in Nat, blocked' \in BOOLEAN,
               change' \in {"idle", "enable", "disable"}, writer' \in Writers,
               optedOut' \in BOOLEAN, left' \in [Operations -> Nat]
        PROVE  TypeOK'
    BY <1>0, <1>6, <1>a, <1>c, <2>0, SettingsFrame DEF TypeOK
  <2>a. enabled \in BOOLEAN /\ epoch \in Nat /\ blocked \in BOOLEAN /\ writer \in Writers
        /\ change \in {"idle", "enable", "disable"} /\ optedOut \in BOOLEAN
        /\ left \in [Operations -> Nat]
    BY <1>0 DEF TypeOK
  <2>b. Spend("failures") \/ Spend("settings") \/ Spend("writes") => left' \in [Operations -> Nat]
    BY <1>f DEF Operations
  <2>c. BlockUploads \/ AllowUploads \/ UNCHANGED fences => epoch' \in Nat /\ blocked' \in BOOLEAN
    BY <1>g
  <2>1. ASSUME NEW kind \in {"enable", "disable"}, ChangeBegins(kind) PROVE TypeOK'
    BY <2>0, <2>1, <2>a, <2>b, <2>c DEF ChangeBegins, durable
  <2>2. CASE ChangeLands
    BY <2>0, <2>2, <2>a, <2>c DEF ChangeLands
  <2>3. CASE ChangeFails
    BY <2>0, <2>3, <2>a, <2>b, <2>c DEF ChangeFails, durable
  <2>4. CASE WriterReads
    <3>1. writer' \in Writers
      BY <2>4, <2>a DEF WriterReads, Writers
    <3> QED
      BY <2>0, <2>4, <2>a, <2>b, <2>c, <3>1 DEF WriterReads, durable
  <2>5. CASE WriterWrites
    <3>1. enabled' \in BOOLEAN
      BY <2>5, <2>a DEF WriterWrites, Writers
    <3> QED
      BY <2>0, <2>5, <2>a, <2>c, <3>1, IdleTypes DEF WriterWrites, ghosts
  <2> QED
    BY <1>6, <2>1, <2>2, <2>3, <2>4, <2>5 DEF Changes, Writes
<1>8. CASE Reactivate \/ ActStep
  <2>0. ASSUME ContractTypeOK', enabled' \in BOOLEAN, epoch' \in Nat, blocked' \in BOOLEAN,
               svc' \in SvcRuns, optedOut' \in BOOLEAN, undercut' \in BOOLEAN,
               act' \in {"idle", "pairing", "enable", "write", "trigger", "forget", "destroying"},
               left' \in [Operations -> Nat]
        PROVE  TypeOK'
    <3>1. UNCHANGED <<manual, auto, cred>>
      BY <1>8 DEF Reactivate, ActStep, ActEnable, ActWrite, ActTrigger, ActForget, ActDestroy, ActFrame, syncs
    <3> QED
      BY <1>0, <1>8, <2>0, <3>1, ActFrames DEF TypeOK
  <2>a. enabled \in BOOLEAN /\ epoch \in Nat /\ blocked \in BOOLEAN /\ svc \in SvcRuns
        /\ optedOut \in BOOLEAN /\ undercut \in BOOLEAN /\ left \in [Operations -> Nat]
    BY <1>0 DEF TypeOK
  <2>b. Spend("failures") \/ Spend("activations") => left' \in [Operations -> Nat]
    BY <1>f DEF Operations
  <2>1. CASE Reactivate
    BY <1>a, <2>0, <2>1, <2>a, <2>b DEF Reactivate, ActFrame, syncs, durable, fences
  <2>2. CASE ActEnable
    <3>1. ActFailClosed \/ UNCHANGED fences => epoch' \in Nat /\ blocked' \in BOOLEAN
      BY <1>g DEF ActFailClosed
    <3>2. ActFailClosed => act' = "forget"
      BY DEF ActFailClosed
    <3> QED
      BY <1>a, <2>0, <2>2, <2>a, <2>b, <3>1, <3>2 DEF ActEnable, Stores, ActFrame, syncs
  <2>3. CASE ActWrite
    <3>1. ActFailClosed \/ AllowUploads => epoch' \in Nat /\ blocked' \in BOOLEAN
      BY <1>g DEF ActFailClosed
    <3>2. ActFailClosed => act' = "forget"
      BY DEF ActFailClosed
    <3> QED
      BY <1>a, <2>0, <2>3, <2>a, <2>b, <3>1, <3>2 DEF ActWrite, Stores, ActFrame, syncs
  <2>4. CASE ActTrigger
    BY <1>0, <1>a, <2>0, <2>4, <2>a, RunTypes DEF ActTrigger, durable, fences
  <2>5. CASE ActForget
    <3>1. CallUnpair \/ UNCHANGED contractVars => ContractTypeOK'
      BY <1>0, <1>a, ContractTypes DEF CallUnpair
    <3> QED
      BY <2>0, <2>5, <2>a, <2>b, <3>1 DEF ActForget, Stores, ActFrame, syncs, fences
  <2>6. CASE ActDestroy
    <3>1. ContractTypeOK'
      BY <1>0, <2>6 DEF ActDestroy, ContractTypeOK
    <3> QED
      BY <2>0, <2>6, <2>a, <3>1 DEF ActDestroy, ActFrame, syncs, fences, durable
  <2> QED
    BY <1>8, <2>1, <2>2, <2>3, <2>4, <2>5, <2>6 DEF ActStep
<1>9. CASE WorkerStops
  <2>1. ContractTypeOK'
    BY <1>0, <1>9, ContractTypes DEF WorkerStops
  <2> QED
    BY <1>0, <1>9, <1>f, <2>1, IdleTypes DEF WorkerStops, TypeOK, durable, Operations
<1> QED
  BY <1>1, <1>2, <1>3, <1>4, <1>5, <1>6, <1>8, <1>9, Actors

(***************************************************************************)
(* Steps keep the rest of the invariant.                                   *)
(***************************************************************************)
\* The controller's own steps.
LEMMA ControllerSafe == Inductive /\ Controller => Safe'
<1> SUFFICES ASSUME Inductive, Controller PROVE Safe'
  OBVIOUS
<1>0. /\ CallsAreTheirs /\ PairsWhenFree /\ QueuesForItself /\ NoRevivedEnvelopes
      /\ UnpairIsAlone /\ CleanedUp
      /\ UNCHANGED <<svc, pair, unpair, unpairFlag, status, backoff, undercut>>
  BY DEF Inductive, Safe, Controller, durable, fences, syncs, handlers, ghosts
<1>t. run \in RunStates /\ pairing \in PairingStates /\ unpairing \in UnpairingStates
  BY DEF Inductive, TypeOK, ContractTypeOK
<1>a. UnpairIsAlone'
  BY <1>0 DEF UnpairIsAlone
<1>1. CASE BindRun
  <2>1. /\ run.on /\ run.device = NoKey /\ run' = [run EXCEPT !.device = registration]
        /\ UNCHANGED <<registration, queued, pairing, unpairing>>
    BY <1>1 DEF BindRun
  <2>2. run'.on = run.on /\ run'.live = run.live /\ run'.allowed = run.allowed /\ run'.seen = run.seen
        /\ run'.device = registration
    BY <1>t, <2>1 DEF RunStates
  <2> QED
    BY <1>0, <1>a, <2>1, <2>2
    DEF Safe, CallsAreTheirs, PairsWhenFree, QueuesForItself, NoRevivedEnvelopes, CleanedUp
<1>2. CASE GetEnabledSources
  <2>1. /\ run.on /\ run.device # NoKey /\ run' = [run EXCEPT !.allowed = TRUE]
        /\ UNCHANGED <<registration, queued, pairing, unpairing>>
    BY <1>2 DEF GetEnabledSources, AllowRun
  <2>2. run'.on = run.on /\ run'.live = run.live /\ run'.seen = run.seen /\ run'.device = run.device
    BY <1>t, <2>1 DEF RunStates
  <2> QED
    BY <1>0, <1>a, <2>1, <2>2
    DEF Safe, CallsAreTheirs, PairsWhenFree, QueuesForItself, NoRevivedEnvelopes, CleanedUp
<1>3. CASE ReadQueue
  <2>1. /\ run.allowed /\ run' = [run EXCEPT !.seen = queued]
        /\ UNCHANGED <<registration, queued, pairing, unpairing>>
    BY <1>3 DEF ReadQueue
  <2>2. run'.on = run.on /\ run'.live = run.live /\ run'.allowed = run.allowed
        /\ run'.device = run.device /\ run'.seen = queued
    BY <1>t, <2>1 DEF RunStates
  <2> QED
    BY <1>0, <1>a, <2>1, <2>2
    DEF Safe, CallsAreTheirs, PairsWhenFree, QueuesForItself, NoRevivedEnvelopes, CleanedUp
<1>4. CASE WriteQueue
  <2>1. PICK kept \in SUBSET run.seen : run' = [run EXCEPT !.seen = kept]
    BY <1>4 DEF WriteQueue
  <2>2. run'.on = run.on /\ run'.live = run.live /\ run'.allowed = run.allowed
        /\ run'.device = run.device /\ run'.seen = kept
    BY <1>t, <2>1 DEF RunStates
  <2>3. /\ run.allowed /\ queued' \subseteq run.seen \cup {run.device}
        /\ UNCHANGED <<registration, pairing, unpairing>>
    BY <1>4 DEF WriteQueue
  <2>4. run.device # NoKey /\ unpair.pc # "cleanup"
    BY <1>0, <2>3 DEF CallsAreTheirs, UnpairIsAlone
  <2>5. ~undercut => registration = run.device /\ queued' \subseteq {run.device}
    BY <1>0, <2>3, <2>4 DEF QueuesForItself
  <2> QED
    BY <1>0, <1>a, <2>2, <2>3, <2>4, <2>5
    DEF Safe, CallsAreTheirs, PairsWhenFree, QueuesForItself, NoRevivedEnvelopes, CleanedUp
<1>5. CASE StartUpload
  <2>1. UNCHANGED <<registration, queued, run, pairing, unpairing>>
    BY <1>5 DEF StartUpload
  <2> QED
    BY <1>0, <1>a, <2>1
    DEF Safe, CallsAreTheirs, PairsWhenFree, QueuesForItself, NoRevivedEnvelopes, CleanedUp
<1>6. CASE EndUpload
  <2>1. PICK kept \in SUBSET run.seen : run' = [run EXCEPT !.seen = kept]
    BY <1>6 DEF EndUpload
  <2>2. run'.on = run.on /\ run'.live = run.live /\ run'.allowed = run.allowed
        /\ run'.device = run.device /\ run'.seen = kept
    BY <1>t, <2>1 DEF RunStates
  <2>3. UNCHANGED <<registration, queued, pairing, unpairing>>
    BY <1>6 DEF EndUpload
  <2> QED
    BY <1>0, <1>a, <2>2, <2>3
    DEF Safe, CallsAreTheirs, PairsWhenFree, QueuesForItself, NoRevivedEnvelopes, CleanedUp
<1>7. CASE \E r \in {"ok", "cancelled", "revoked", "failed"} : EndRun(r)
  <2>1. ~run'.on /\ ~run'.live /\ ~run'.allowed /\ run'.device = NoKey /\ run'.seen = {}
        /\ UNCHANGED <<registration, queued, pairing, unpairing>>
    BY <1>7 DEF EndRun, Ended
  <2> QED
    BY <1>0, <1>a, <2>1
    DEF Safe, CallsAreTheirs, PairsWhenFree, QueuesForItself, NoRevivedEnvelopes, CleanedUp
<1>8. CASE SavePairing
  <2>1. /\ pairing.on /\ registration = NoKey /\ ~pairing'.on
        /\ UNCHANGED <<queued, run, unpairing>>
    BY <1>8 DEF SavePairing
  <2>2. pair.pc = "running" /\ unpair.pc # "cleanup"
    BY <1>0, <2>1 DEF CallsAreTheirs, UnpairIsAlone
  <2> QED
    BY <1>0, <1>a, <2>1, <2>2
    DEF Safe, CallsAreTheirs, PairsWhenFree, QueuesForItself, NoRevivedEnvelopes, CleanedUp
<1>9. CASE FailPairing
  <2>1. ~pairing'.on /\ UNCHANGED <<registration, queued, run, unpairing>>
    BY <1>9 DEF FailPairing
  <2> QED
    BY <1>0, <1>a, <2>1
    DEF Safe, CallsAreTheirs, PairsWhenFree, QueuesForItself, NoRevivedEnvelopes, CleanedUp
<1>10. CASE UnpairAlone \/ \E r \in {"ok", "failed"} : EndUnpair(r)
  <2>1. UNCHANGED <<registration, queued, run, pairing>>
        /\ (unpairing'.phase = "alone" => ~run.on /\ ~pairing.on)
    BY <1>10 DEF UnpairAlone, EndUnpair
  <2> QED
    BY <1>0, <1>a, <2>1
    DEF Safe, CallsAreTheirs, PairsWhenFree, QueuesForItself, NoRevivedEnvelopes, CleanedUp
<1>11. CASE ClearQueue \/ ForgetRegistration
  <2>1. /\ unpairing.phase = "alone" /\ UNCHANGED <<run, pairing, unpairing>>
        /\ registration' \in {registration, NoKey} /\ queued' \in {queued, {}}
    BY <1>11 DEF ClearQueue, ForgetRegistration
  <2>2. run.device = NoKey
    BY <1>0, <2>1 DEF CallsAreTheirs
  <2> QED
    BY <1>0, <1>a, <2>1, <2>2
    DEF Safe, CallsAreTheirs, PairsWhenFree, QueuesForItself, NoRevivedEnvelopes, CleanedUp
<1> QED
  BY <1>1, <1>2, <1>3, <1>4, <1>5, <1>6, <1>7, <1>8, <1>9, <1>10, <1>11 DEF Controller, ControllerStep

\* The service's run and those who ask for one.
LEMMA RunSafe == Inductive /\ (SvcStep \/ Asks) => Safe'
<1> SUFFICES ASSUME Inductive, SvcStep \/ Asks PROVE Safe'
  OBVIOUS
<1>0. /\ CallsAreTheirs /\ PairsWhenFree /\ QueuesForItself /\ NoRevivedEnvelopes
      /\ UnpairIsAlone /\ CleanedUp
  BY DEF Inductive, Safe
<1>1. CASE SvcStep
  <2>1. /\ svc.pc # "idle" /\ (svc.pc = "run" => ~run.on) /\ (run' # run => SvcStartRun)
        /\ UNCHANGED <<registration, queued, pairing, unpairing, unpairFlag, pair, unpair, undercut>>
    BY <1>1, SvcFrame DEF fences, handlers
  <2>2. unpair.pc # "cleanup"
    BY <1>0, <2>1 DEF UnpairIsAlone
  <2>3. ~run.on
    BY <1>0, <2>1 DEF CallsAreTheirs
  <2>4. CASE UNCHANGED run
    BY <1>0, <2>1, <2>2, <2>3, <2>4
    DEF Safe, CallsAreTheirs, PairsWhenFree, QueuesForItself, NoRevivedEnvelopes, UnpairIsAlone, CleanedUp
  <2>5. CASE SvcStartRun
    <3>1. svc'.pc = "run"
      BY <2>5 DEF SvcStartRun, Inductive, TypeOK, SvcRuns
    <3>2. unpairing.phase = "idle" /\ run' = [Ended("none") EXCEPT !.on = TRUE, !.live = TRUE]
      BY <2>5 DEF SvcStartRun, StartRun
    <3>3. run'.on /\ ~run'.allowed /\ run'.device = NoKey /\ run'.seen = {}
      BY <3>2 DEF Ended
    <3> QED
      BY <1>0, <2>1, <2>2, <3>1, <3>2, <3>3
      DEF Safe, CallsAreTheirs, PairsWhenFree, QueuesForItself, NoRevivedEnvelopes, UnpairIsAlone, CleanedUp
  <2> QED
    BY <2>1, <2>4, <2>5
<1>2. CASE Asks
  <2>1. UNCHANGED <<registration, queued, run, pairing, unpairing, status, backoff, unpairFlag, pair,
                    unpair, undercut>>
    BY <1>2, AskFrame DEF contractVars, durable, fences, handlers
  <2>2. UNCHANGED svc \/ (~unpairFlag /\ svc.pc = "idle")
    BY <1>2, AskFrame
  <2> QED
    BY <1>0, <2>1, <2>2
    DEF Safe, CallsAreTheirs, PairsWhenFree, QueuesForItself, NoRevivedEnvelopes, UnpairIsAlone, CleanedUp
<1> QED
  BY <1>1, <1>2

\* The pairing handler.
LEMMA PairSafe == Inductive /\ (PairStart \/ PairStep) => Safe'
<1> SUFFICES ASSUME Inductive, PairStart \/ PairStep PROVE Safe'
  OBVIOUS
<1>0. /\ CallsAreTheirs /\ PairsWhenFree /\ QueuesForItself /\ NoRevivedEnvelopes
      /\ UnpairIsAlone /\ CleanedUp /\ pair \in PairRuns
  BY DEF Inductive, Safe, TypeOK
<1>1. UNCHANGED <<registration, run, unpairing, unpairFlag, svc, unpair, undercut>>
  BY PairFrames DEF fences, syncs
<1>2. ~unpairFlag \/ pair.pc # "idle"
  BY DEF PairStart, PairStep, PairCheck, PairDisable, PairClear, PairQueue, PairBegin, PairRegistered, PairEnds
<1>3. unpair.pc # "cleanup"
  BY <1>0, <1>2 DEF UnpairIsAlone
<1>4. UnpairIsAlone' /\ CleanedUp'
  BY <1>0, <1>1, <1>3 DEF UnpairIsAlone, CleanedUp
<1>5. ASSUME NEW next, PairGoes(next) PROVE pair'.pc = next
  BY <1>0, <1>5 DEF PairGoes, PairRuns
<1>6. ASSUME NEW ok, PairSettles(ok) PROVE pair'.pc = "idle"
  BY <1>6 DEF PairSettles, IdlePair
<1>a. ASSUME UNCHANGED <<queued, pairing>>, ~pairing.on,
             pair'.pc \in {"disable", "clear", "queue"} => registration = NoKey,
             pair'.pc \in {"idle", "check", "disable", "clear", "queue", "status"}
      PROVE  Safe'
  BY <1>0, <1>1, <1>4, <1>a
  DEF Safe, CallsAreTheirs, PairsWhenFree, QueuesForItself, NoRevivedEnvelopes
<1>b. pairing.on => pair.pc = "running"
  BY <1>0 DEF CallsAreTheirs
<1>c. pair.pc \in {"disable", "clear", "queue", "start"} => registration = NoKey
  BY <1>0 DEF PairsWhenFree
<1>7. CASE PairStart
  <2>1. pair.pc = "idle" /\ pair'.pc = "check" /\ UNCHANGED <<queued, pairing>>
    BY <1>7 DEF PairStart, contractVars
  <2> QED
    BY <1>a, <1>b, <2>1
<1>8. CASE PairCheck
  <2>1. pair.pc = "check" /\ UNCHANGED <<queued, pairing>>
    BY <1>8 DEF PairCheck, contractVars
  <2>2. pair'.pc = "idle" \/ (pair'.pc = "disable" /\ registration = NoKey)
    <3>1. CASE PairSettles(FALSE)
      BY <3>1 DEF PairSettles, IdlePair
    <3>2. CASE PairGoes("disable") /\ registration = NoKey
      BY <1>5, <3>2
    <3> QED
      BY <1>8, <3>1, <3>2 DEF PairCheck, Stores
  <2> QED
    BY <1>a, <1>b, <2>1, <2>2
<1>9. CASE PairDisable \/ PairClear
  <2>1. pair.pc \in {"disable", "clear"} /\ UNCHANGED <<queued, pairing>>
    BY <1>9 DEF PairDisable, PairClear, contractVars
  <2>2. pair'.pc \in {"idle", "clear", "queue"}
    BY <1>5, <1>6, <1>9 DEF PairDisable, PairClear, Stores
  <2> QED
    BY <1>a, <1>b, <1>c, <2>1, <2>2
<1>10. CASE PairQueue
  <2>1. pair.pc = "queue" /\ UNCHANGED pairing
    BY <1>10 DEF PairQueue
  <2>2. CASE UNCHANGED queued /\ pair'.pc = "idle"
    BY <1>a, <1>b, <2>1, <2>2
  <2>3. CASE queued' = {} /\ pair'.pc = "start"
    BY <1>0, <1>1, <1>4, <1>b, <1>c, <2>1, <2>3
    DEF Safe, CallsAreTheirs, PairsWhenFree, QueuesForItself, NoRevivedEnvelopes
  <2> QED
    BY <1>5, <1>6, <1>10, <2>2, <2>3 DEF PairQueue, Stores
<1>11. CASE PairBegin
  <2>1. pair.pc = "start" /\ ~pairing.on
    BY <1>11, <1>b DEF PairBegin
  <2>2. CASE StartPairing /\ PairGoes("running")
    <3>1. pair'.pc = "running" /\ unpairing.phase = "idle" /\ UNCHANGED queued
      BY <1>5, <2>2 DEF StartPairing
    <3> QED
      BY <1>0, <1>1, <1>4, <1>c, <2>1, <3>1
      DEF Safe, CallsAreTheirs, PairsWhenFree, QueuesForItself, NoRevivedEnvelopes
  <2>3. CASE PairSettles(FALSE) /\ UNCHANGED contractVars
    BY <1>6, <1>a, <2>1, <2>3 DEF contractVars
  <2> QED
    BY <1>11, <2>2, <2>3 DEF PairBegin
<1>12. CASE PairRegistered \/ PairEnds
  <2>1. ~pairing.on /\ UNCHANGED <<queued, pairing>>
    BY <1>12, <1>b DEF PairRegistered, PairEnds, contractVars
  <2>2. pair'.pc \in {"idle", "status"}
    BY <1>5, <1>6, <1>12 DEF PairRegistered, PairEnds, Stores
  <2> QED
    BY <1>a, <2>1, <2>2
<1> QED
  BY <1>7, <1>8, <1>9, <1>10, <1>11, <1>12 DEF PairStep

\* The unpair handler.
LEMMA UnpairSafe == Inductive /\ (UnpairStart \/ UnpairStep) => Safe'
<1> SUFFICES ASSUME Inductive, UnpairStart \/ UnpairStep PROVE Safe'
  OBVIOUS
<1>0. /\ CallsAreTheirs /\ PairsWhenFree /\ QueuesForItself /\ NoRevivedEnvelopes
      /\ UnpairIsAlone /\ CleanedUp /\ unpair \in UnpairRuns /\ run \in RunStates
  BY DEF Inductive, Safe, TypeOK, ContractTypeOK
<1>1. UNCHANGED <<pairing, svc, pair, undercut>>
  BY UnpairFrame DEF syncs
<1>a. ASSUME UNCHANGED contractVars, UnpairIsAlone', CleanedUp' PROVE Safe'
  BY <1>0, <1>1, <1>a
  DEF Safe, CallsAreTheirs, PairsWhenFree, QueuesForItself, NoRevivedEnvelopes, contractVars
<1>2. CASE UnpairStart
  <2>1. unpair'.pc = "stopping" /\ unpair'.pending = {} /\ unpairFlag' /\ UNCHANGED contractVars
    BY <1>2 DEF UnpairStart, IdleUnpair, RaiseUnpairFence
  <2> QED
    BY <1>a, <2>1 DEF UnpairIsAlone, CleanedUp
<1>3. CASE UnpairDisable
  <2>1. unpair.disable = "todo" /\ UNCHANGED <<contractVars, unpairFlag>>
    BY <1>3 DEF UnpairDisable, fences
  <2>2. unpair.pc = "stopping"
    BY <1>0, <2>1 DEF UnpairIsAlone
  <2>3. unpair'.pc = unpair.pc /\ unpair'.pending = unpair.pending
    BY <1>0, <1>3 DEF UnpairDisable, Stores, UnpairRuns
  <2> QED
    BY <1>0, <1>a, <2>1, <2>2, <2>3 DEF UnpairIsAlone, CleanedUp
<1>4. CASE UnpairRemote
  <2>1. unpair.remote = "todo" /\ UNCHANGED <<unpairFlag, status, backoff>>
    BY <1>4 DEF UnpairRemote, fences, durable
  <2>2. unpair.pc = "stopping"
    BY <1>0, <2>1 DEF UnpairIsAlone
  <2>3. unpair'.pc = unpair.pc /\ unpair'.pending = unpair.pending
    BY <1>0, <1>4 DEF UnpairRemote, Stores, UnpairRuns
  <2>4. UnpairIsAlone' /\ CleanedUp'
    BY <1>0, <2>1, <2>2, <2>3 DEF UnpairIsAlone, CleanedUp
  <2>5. CASE StartUnpair
    <3>1. unpairing'.phase = "waiting" /\ run' = [run EXCEPT !.live = FALSE]
          /\ UNCHANGED <<registration, queued, pairing>>
      BY <2>5 DEF StartUnpair
    <3>2. run'.on = run.on /\ ~run'.live /\ run'.allowed = run.allowed /\ run'.seen = run.seen
          /\ run'.device = run.device
      BY <1>0, <3>1 DEF RunStates
    <3> QED
      BY <1>0, <1>1, <2>4, <3>1, <3>2
      DEF Safe, CallsAreTheirs, PairsWhenFree, QueuesForItself, NoRevivedEnvelopes
  <2> QED
    BY <1>4, <1>a, <2>4, <2>5 DEF UnpairRemote, Stores, CallUnpair
<1>5. CASE UnpairAnswered
  <2>1. unpair.remote = "running" /\ UNCHANGED <<contractVars, unpairFlag>>
    BY <1>5 DEF UnpairAnswered, fences
  <2>2. unpair.pc = "stopping"
    BY <1>0, <2>1 DEF UnpairIsAlone
  <2>3. unpair'.pc = unpair.pc /\ unpair'.pending = unpair.pending
    BY <1>0, <1>5 DEF UnpairAnswered, UnpairRuns
  <2> QED
    BY <1>0, <1>a, <2>1, <2>2, <2>3 DEF UnpairIsAlone, CleanedUp
<1>6. CASE UnpairAwaits
  <2>1. /\ svc.pc = "idle" /\ pair.pc = "idle" /\ UNCHANGED <<contractVars, unpairFlag>>
        /\ unpair.pc = "stopping" /\ unpair.disable = "done" /\ unpair.remote = "done"
        /\ unpair' = [unpair EXCEPT !.pc = "cleanup", !.pending = Artifacts]
    BY <1>6 DEF UnpairAwaits, fences
  <2>2. unpair'.pc = "cleanup" /\ unpair'.pending = Artifacts /\ unpair'.disable = "done"
        /\ unpair'.remote = "done"
    BY <1>0, <2>1 DEF UnpairRuns
  <2>3. UnpairIsAlone' /\ CleanedUp'
    BY <1>0, <1>1, <2>1, <2>2 DEF UnpairIsAlone, CleanedUp, Artifacts
  <2> QED
    BY <1>a, <2>1, <2>3
<1>7. CASE UnpairDestroys
  <2>1. PICK a \in unpair.pending :
          Stores(/\ Destroy(a)
                 /\ unpair' = [unpair EXCEPT !.pending = @ \ {a}],
                 /\ UNCHANGED <<queued, registration, status, backoff>>
                 /\ unpair' = [unpair EXCEPT !.pending = @ \ {a}, !.failed = TRUE])
    BY <1>7 DEF UnpairDestroys
  <2>2. UNCHANGED <<run, pairing, unpairing, unpairFlag>>
    BY <1>7 DEF UnpairDestroys, fences
  <2>3. unpair.pc = "cleanup" /\ svc.pc = "idle" /\ pair.pc = "idle"
    BY <1>0, <2>1 DEF UnpairIsAlone
  <2>4. ~run.on /\ ~pairing.on /\ run.device = NoKey
    BY <1>0, <2>3 DEF CallsAreTheirs
  <2>5. unpair'.pc = "cleanup" /\ unpair'.disable = unpair.disable /\ unpair'.remote = unpair.remote
        /\ unpair'.pending = unpair.pending \ {a}
    BY <1>0, <2>1, <2>3 DEF Stores, UnpairRuns
  <2>6. UnpairIsAlone'
    BY <1>0, <1>1, <2>2, <2>3, <2>5 DEF UnpairIsAlone
  <2>7. registration' \in {registration, NoKey} /\ queued' \in {queued, {}}
    BY <2>1 DEF Stores, Destroy
  <2>8. CleanedUp'
    <3>1. CASE Destroy(a) /\ unpair' = [unpair EXCEPT !.pending = @ \ {a}]
      <4>1. unpair'.failed = unpair.failed
        BY <1>0, <3>1 DEF UnpairRuns
      <4> QED
        BY <1>0, <2>3, <2>5, <3>1, <4>1 DEF CleanedUp, Destroy
    <3>2. CASE unpair' = [unpair EXCEPT !.pending = @ \ {a}, !.failed = TRUE]
      BY <1>0, <3>2 DEF CleanedUp, UnpairRuns
    <3> QED
      BY <2>1, <3>1, <3>2 DEF Stores
  <2> QED
    BY <1>0, <1>1, <2>2, <2>3, <2>4, <2>6, <2>7, <2>8
    DEF Safe, CallsAreTheirs, PairsWhenFree, QueuesForItself, NoRevivedEnvelopes
<1>8. CASE UnpairEnds
  <2>1. unpair'.pc = "idle" /\ unpair'.pending = {} /\ unpair'.disable = "none" /\ unpair'.remote = "none"
        /\ UNCHANGED contractVars
    BY <1>8 DEF UnpairEnds, IdleUnpair
  <2> QED
    BY <1>a, <2>1 DEF UnpairIsAlone, CleanedUp
<1> QED
  BY <1>2, <1>3, <1>4, <1>5, <1>6, <1>7, <1>8 DEF UnpairStep

\* Settings, activations, and the end of the worker.
LEMMA OthersSafe ==
  Inductive /\ (Changes \/ Writes \/ Reactivate \/ ActStep \/ WorkerStops) => Safe'
<1> SUFFICES ASSUME Inductive, Changes \/ Writes \/ Reactivate \/ ActStep \/ WorkerStops PROVE Safe'
  OBVIOUS
<1>0. /\ CallsAreTheirs /\ PairsWhenFree /\ QueuesForItself /\ NoRevivedEnvelopes
      /\ UnpairIsAlone /\ CleanedUp /\ run \in RunStates
  BY DEF Inductive, Safe, TypeOK, ContractTypeOK
<1>1. CASE Changes \/ Writes
  BY <1>0, <1>1, SettingsFrame
  DEF Safe, CallsAreTheirs, PairsWhenFree, QueuesForItself, NoRevivedEnvelopes, UnpairIsAlone, CleanedUp,
      contractVars, syncs
<1>2. CASE Reactivate \/ ActStep
  <2>1. UNCHANGED <<pairing, status, unpairFlag, pair, unpair>> /\ backoff' \in {backoff, "none"}
    BY <1>2, ActFrames
  <2>2. UNCHANGED svc \/ (~unpairFlag /\ svc.pc = "idle")
    BY <1>2, ActFrames
  <2>3. UnpairIsAlone'
    BY <1>0, <2>1, <2>2 DEF UnpairIsAlone
  <2>a. ASSUME UNCHANGED contractVars, UNCHANGED undercut PROVE Safe'
    BY <1>0, <2>1, <2>2, <2>3, <2>a
    DEF Safe, CallsAreTheirs, PairsWhenFree, QueuesForItself, NoRevivedEnvelopes, CleanedUp, contractVars
  <2>4. CASE Reactivate \/ ActEnable \/ ActWrite \/ ActTrigger
    BY <2>4, <2>a DEF Reactivate, ActEnable, ActWrite, ActTrigger
  <2>5. CASE ActForget
    <3>1. CASE StartUnpair
      <4>1. unpairing'.phase = "waiting" /\ run' = [run EXCEPT !.live = FALSE]
            /\ UNCHANGED <<registration, queued, pairing>>
        BY <3>1 DEF StartUnpair
      <4>2. run'.on = run.on /\ ~run'.live /\ run'.allowed = run.allowed /\ run'.seen = run.seen
            /\ run'.device = run.device
        BY <1>0, <4>1 DEF RunStates
      <4>3. UNCHANGED <<svc, undercut>>
        BY <2>5 DEF ActForget, ActFrame, syncs
      <4> QED
        BY <1>0, <2>1, <2>3, <4>1, <4>2, <4>3
        DEF Safe, CallsAreTheirs, PairsWhenFree, QueuesForItself, NoRevivedEnvelopes, CleanedUp
    <3> QED
      BY <2>5, <2>a, <3>1 DEF ActForget, Stores, CallUnpair
  <2>6. CASE ActDestroy
    <3>1. /\ UNCHANGED <<svc, run, unpairing>> /\ registration' = NoKey /\ queued' = {}
          /\ (~undercut' => ~undercut /\ run.device = NoKey)
      BY <2>6 DEF ActDestroy, ActFrame, syncs
    <3> QED
      BY <1>0, <2>1, <2>3, <3>1
      DEF Safe, CallsAreTheirs, PairsWhenFree, QueuesForItself, NoRevivedEnvelopes, CleanedUp
  <2> QED
    BY <1>2, <2>4, <2>5, <2>6 DEF ActStep
<1>3. CASE WorkerStops
  <2>1. /\ UNCHANGED <<registration, queued, undercut>>
        /\ svc' = IdleSvc /\ pair' = IdlePair /\ unpair' = IdleUnpair
        /\ run' = Ended("none") /\ ~pairing'.on /\ unpairing'.phase = "idle"
    BY <1>3 DEF WorkerStops, StopController
  <2> QED
    BY <1>0, <2>1
    DEF Safe, CallsAreTheirs, PairsWhenFree, QueuesForItself, NoRevivedEnvelopes, UnpairIsAlone, CleanedUp,
        Ended, IdlePair, IdleUnpair
<1> QED
  BY <1>1, <1>2, <1>3

LEMMA InductiveStep == Inductive /\ [Next]_vars => Inductive'
<1> SUFFICES ASSUME Inductive, [Next]_vars PROVE Inductive'
  OBVIOUS
<1>1. CASE Next
  BY <1>1, Actors, TypeStep, ControllerSafe, RunSafe, PairSafe, UnpairSafe, OthersSafe DEF Inductive
<1>2. CASE UNCHANGED vars
  BY <1>2
  DEF vars, contractVars, durable, fences, syncs, handlers, ghosts, Inductive, TypeOK, ContractTypeOK, Safe,
      CallsAreTheirs, PairsWhenFree, QueuesForItself, NoRevivedEnvelopes, UnpairIsAlone, CleanedUp
<1> QED
  BY <1>1, <1>2

THEOREM InductiveInvariant == Spec => []Inductive
BY InitInductive, InductiveStep, PTL DEF Spec

\* Every variable of the worker and of the storage keeps its type.
THEOREM TypeCorrect == Spec => []TypeOK
BY InductiveInvariant, PTL DEF Inductive

\* preparePortfolioPairing makes sure that a registration never shares the outbox with envelopes
\* of another device, whatever an earlier unpair failed to destroy: for every set of devices and
\* any number of operations and failures.
THEOREM EnvelopesAreNotRevived == Spec => []NoRevivedEnvelopes
BY InductiveInvariant, PTL DEF Inductive, Safe

\* When UNPAIR_DEVICE is about to report success nothing is left: the runs and the pairing it waited
\* for can no longer write, and its fence, which lasts until the answer, lets no other begin.
THEOREM UnpairLeavesNothing == Spec => []UnpairLeavesNoTrace
<1>1. Inductive => UnpairLeavesNoTrace
  BY DEF Inductive, Safe, CleanedUp, UnpairLeavesNoTrace
<1> QED
  BY <1>1, InductiveInvariant, PTL

(***************************************************************************)
(* The opt-out.  Uploads can be enabled after an opt-out without a new     *)
(* opt-in only where there is no device to upload for: an opt-in that      *)
(* lands while UNPAIR_DEVICE runs.  A new pairing switches them off before *)
(* it stores anything.                                                     *)
(***************************************************************************)
OptOutHolds ==
  /\ left["writes"] = 0 /\ writer.pc = "idle"
  /\ optedOut /\ enabled =>
       /\ registration = NoKey /\ run.device = NoKey
       /\ pair.pc \notin {"clear", "queue", "start"} /\ ~pairing.on

\* Without a budget for them no other update of the settings begins.
LEMMA WritesSpent ==
  ASSUME left \in [Operations -> Nat], left["writes"] = 0, [Next]_vars
  PROVE  left'["writes"] = 0 /\ ~WriterReads
<1>0. \A op \in Operations : Spend(op) => left'["writes"] = 0 /\ op # "writes"
  BY DEF Spend, Operations
<1>1. ~WriterReads
  BY <1>0 DEF WriterReads, Operations
<1>2. (\E op \in Operations : Spend(op)) \/ UNCHANGED left
  <2> USE DEF Operations, ghosts, Stores
  <2>1. CASE Controller \/ SvcStep
    BY <2>1
    DEF Controller, SvcStep, SvcReadSettings, SvcAttempt, SvcNotEnabled, SvcStartRun, SvcStartFails, SvcRunEnds,
        SvcSucceeds, SvcFails, SvcFenced
  <2>2. CASE Asks
    BY <2>2
    DEF Asks, ManualSync, AutoTick, AutoStep, AutoReadSettings, AutoReadRegistration, AutoHoldsBack,
        AutoProceeds, AutoReads, CredOffer, CredThrottle, CredClaim, RunPortfolioSync
  <2>3. CASE PairStart \/ PairStep
    BY <2>3
    DEF PairStart, PairStep, PairCheck, PairDisable, PairClear, PairQueue, PairBegin, PairRegistered, PairEnds
  <2>4. CASE UnpairStart \/ UnpairStep
    BY <2>4
    DEF UnpairStart, UnpairStep, UnpairDisable, UnpairRemote, UnpairAnswered, UnpairAwaits, UnpairDestroys,
        UnpairEnds
  <2>5. CASE Changes \/ Writes
    BY <2>5 DEF Changes, ChangeBegins, ChangeLands, ChangeFails, Writes, WriterReads, WriterWrites
  <2>6. CASE Reactivate \/ ActStep
    BY <2>6
    DEF Reactivate, ActStep, ActEnable, ActWrite, ActTrigger, ActForget, ActDestroy, RunPortfolioSync
  <2>7. CASE WorkerStops \/ UNCHANGED vars
    BY <2>7 DEF WorkerStops, vars
  <2> QED
    BY <2>1, <2>2, <2>3, <2>4, <2>5, <2>6, <2>7, Actors
<1> QED
  BY <1>0, <1>1, <1>2

\* Steps keep it.
LEMMA OptOutStep == Inductive /\ OptOutHolds /\ [Next]_vars => OptOutHolds'
<1> SUFFICES ASSUME Inductive, OptOutHolds, [Next]_vars PROVE OptOutHolds'
  OBVIOUS
<1>0. /\ CallsAreTheirs /\ PairsWhenFree /\ UnpairIsAlone /\ CleanedUp
      /\ run \in RunStates /\ pair \in PairRuns /\ left \in [Operations -> Nat]
  BY DEF Inductive, Safe, TypeOK, ContractTypeOK
<1>1. left'["writes"] = 0 /\ ~WriterReads
  BY <1>0, WritesSpent DEF OptOutHolds
<1>2. ~Writes
  BY <1>1 DEF Writes, WriterWrites, OptOutHolds
<1>a. ASSUME writer' \in {writer, IdleWriter}, UNCHANGED <<registration, pairing, pair>>,
             optedOut' /\ enabled' => optedOut /\ enabled, run'.device \in {run.device, NoKey}
      PROVE  OptOutHolds'
  BY <1>1, <1>a DEF OptOutHolds, IdleWriter
<1>3. CASE Controller
  <2>0. UNCHANGED <<writer, enabled, pair, optedOut>>
    BY <1>3 DEF Controller, handlers, durable, ghosts
  <2>1. registration' \in {registration, NoKey} \/ pairing.on
    BY <1>3 DEF Controller, GetEnabledSources, AllowRun, ControllerStep, BindRun, ReadQueue, WriteQueue,
       StartUpload, EndUpload, EndRun, SavePairing, FailPairing, UnpairAlone, ClearQueue,
       ForgetRegistration, EndUnpair
  <2>2. pairing'.on => pairing.on
    BY <1>3 DEF Controller, GetEnabledSources, AllowRun, ControllerStep, BindRun, ReadQueue, WriteQueue,
       StartUpload, EndUpload, EndRun, SavePairing, FailPairing, UnpairAlone, ClearQueue,
       ForgetRegistration, EndUnpair
  <2>3. run'.device \in {run.device, registration, NoKey}
    BY <1>0, <1>3 DEF Controller, GetEnabledSources, AllowRun, ControllerStep, BindRun, ReadQueue, WriteQueue,
       StartUpload, EndUpload, EndRun, SavePairing, FailPairing, UnpairAlone, ClearQueue,
       ForgetRegistration, EndUnpair, RunStates, Ended
  <2> QED
    BY <1>1, <2>0, <2>1, <2>2, <2>3 DEF OptOutHolds
<1>4. CASE SvcStep
  <2>1. UNCHANGED <<registration, pairing, pair, writer, enabled, optedOut>>
    BY <1>4, SvcFrame DEF handlers
  <2>2. SvcStartRun => run'.device = NoKey
    BY DEF SvcStartRun, StartRun, Ended
  <2>3. run'.device \in {run.device, NoKey}
    BY <1>4, <2>2, SvcFrame
  <2> QED
    BY <1>a, <2>1, <2>3
<1>5. CASE Asks
  BY <1>5, <1>a, AskFrame DEF contractVars, durable, handlers
<1>6. CASE PairStart \/ PairStep
  <2>1. UNCHANGED <<registration, run, writer, optedOut>>
    BY <1>6, PairFrames
  <2>2. ASSUME NEW next, PairGoes(next) PROVE pair'.pc = next
    BY <1>0, <2>2 DEF PairGoes, PairRuns
  <2>3. ASSUME NEW ok, PairSettles(ok) PROVE pair'.pc = "idle"
    BY <2>3 DEF PairSettles, IdlePair
  <2>b. PairSettles(FALSE) => pair'.pc = "idle"
    BY DEF PairSettles, IdlePair
  <2>a. ASSUME UNCHANGED enabled, UNCHANGED pairing \/ pair.pc = "start",
               pair'.pc \in {"clear", "queue", "start"} => pair.pc \in {"clear", "queue", "start"}
        PROVE  OptOutHolds'
    BY <1>1, <2>1, <2>a DEF OptOutHolds
  <2>4. CASE PairStart
    BY <2>4, <2>a DEF PairStart, contractVars, durable
  <2>5. CASE PairCheck
    <3>1. pair'.pc \in {"idle", "disable"}
      BY <2>5, <2>2, <2>b DEF PairCheck, Stores
    <3> QED
      BY <2>5, <2>a, <3>1 DEF PairCheck, contractVars, durable
  <2>6. CASE PairDisable
    <3>1. (~enabled' /\ UNCHANGED pairing) \/ (UNCHANGED <<enabled, pairing>> /\ pair'.pc = "idle")
      BY <2>6, <2>b DEF PairDisable, Stores, contractVars
    <3> QED
      BY <1>1, <2>1, <2>a, <3>1 DEF OptOutHolds
  <2>7. CASE PairClear \/ PairQueue
    <3>1. pair.pc \in {"clear", "queue"}
      BY <2>7 DEF PairClear, PairQueue
    <3> QED
      BY <2>7, <2>a, <3>1 DEF PairClear, PairQueue, contractVars, durable
  <2>8. CASE PairBegin
    BY <2>8, <2>a DEF PairBegin, durable
  <2>9. CASE PairRegistered \/ PairEnds
    <3>1. pair'.pc \in {"idle", "status"}
      BY <2>9, <2>2, <2>3, <2>b DEF PairRegistered, PairEnds, Stores
    <3> QED
      BY <2>9, <2>a, <3>1 DEF PairRegistered, PairEnds, contractVars, durable
  <2> QED
    BY <1>6, <2>4, <2>5, <2>6, <2>7, <2>8, <2>9 DEF PairStep
<1>7. CASE UnpairStart \/ UnpairStep
  <2>0. UNCHANGED <<pairing, pair, writer>>
    BY <1>7, UnpairFrame
  <2>1. CASE UnpairStart \/ UnpairAnswered \/ UnpairAwaits
    BY <1>a, <2>0, <2>1 DEF UnpairStart, UnpairAnswered, UnpairAwaits, contractVars, durable, ghosts
  <2>2. CASE UnpairDisable
    BY <1>a, <2>0, <2>2 DEF UnpairDisable, Stores, contractVars
  <2>3. CASE UnpairRemote
    <3>1. UNCHANGED registration /\ (run' = run \/ run' = [run EXCEPT !.live = FALSE])
      BY <2>3 DEF UnpairRemote, Stores, CallUnpair, StartUnpair, contractVars
    <3>2. run'.device = run.device
      BY <1>0, <3>1 DEF RunStates
    <3> QED
      BY <1>a, <2>0, <2>3, <3>1, <3>2 DEF UnpairRemote, durable
  <2>4. CASE UnpairDestroys
    <3>1. registration' \in {registration, NoKey}
      BY <2>4 DEF UnpairDestroys, Stores, Destroy
    <3> QED
      BY <1>1, <2>0, <2>4, <3>1 DEF UnpairDestroys, OptOutHolds
  <2>5. CASE UnpairEnds
    <3>1. unpair.pc = "cleanup" /\ unpair.pending = {} /\ UNCHANGED <<registration, run, enabled>>
          /\ optedOut' = (optedOut \/ ~unpair.failed)
      BY <2>5 DEF UnpairEnds, contractVars, durable
    <3>2. pair.pc = "idle" /\ ~pairing.on /\ run.device = NoKey
      BY <1>0, <3>1 DEF UnpairIsAlone, CallsAreTheirs
    <3>3. ~unpair.failed => registration = NoKey
      BY <1>0, <3>1 DEF CleanedUp
    <3>4. optedOut' => optedOut \/ ~unpair.failed
      BY <3>1, Zenon
    <3> QED
      BY <1>1, <2>0, <3>1, <3>2, <3>3, <3>4 DEF OptOutHolds
  <2> QED
    BY <1>7, <2>1, <2>2, <2>3, <2>4, <2>5 DEF UnpairStep
<1>8. CASE Changes
  <2>1. UNCHANGED <<registration, run, pairing, pair>>
    BY <1>8, SettingsFrame DEF contractVars
  <2>2. ASSUME NEW kind \in {"enable", "disable"}, ChangeBegins(kind) PROVE OptOutHolds'
    BY <1>a, <2>1, <2>2 DEF ChangeBegins, durable
  <2>3. CASE ChangeLands
    <3>1. change = "enable" => ~optedOut'
      BY <2>3, Zenon DEF ChangeLands
    <3>2. change # "enable" => ~enabled'
      BY <2>3, Zenon DEF ChangeLands
    <3> QED
      BY <1>a, <2>1, <2>3, <3>1, <3>2 DEF ChangeLands
  <2>4. CASE ChangeFails
    BY <1>a, <2>1, <2>4 DEF ChangeFails, durable
  <2> QED
    BY <1>8, <2>2, <2>3, <2>4 DEF Changes
<1>9. CASE Reactivate \/ ActStep
  <2>0. UNCHANGED <<pairing, pair, writer>>
    BY <1>9, ActFrames
  <2>1. CASE Reactivate \/ ActEnable \/ ActTrigger
    BY <1>a, <2>0, <2>1 DEF Reactivate, ActEnable, ActTrigger, contractVars, durable
  <2>2. CASE ActWrite
    BY <1>a, <2>0, <2>2 DEF ActWrite, Stores, contractVars
  <2>3. CASE ActForget
    <3>1. UNCHANGED registration /\ (run' = run \/ run' = [run EXCEPT !.live = FALSE])
      BY <2>3 DEF ActForget, Stores, CallUnpair, StartUnpair, contractVars
    <3>2. run'.device = run.device
      BY <1>0, <3>1 DEF RunStates
    <3>3. optedOut' /\ enabled' => optedOut /\ enabled
      BY <2>3 DEF ActForget, Stores
    <3> QED
      BY <1>a, <2>0, <3>1, <3>2, <3>3
  <2>4. CASE ActDestroy
    BY <1>1, <2>0, <2>4 DEF ActDestroy, OptOutHolds, durable
  <2> QED
    BY <1>9, <2>1, <2>2, <2>3, <2>4 DEF ActStep
<1>10. CASE WorkerStops
  <2>1. /\ UNCHANGED <<registration, enabled, optedOut>> /\ run' = Ended("none") /\ ~pairing'.on
        /\ pair' = IdlePair /\ writer' = IdleWriter
    BY <1>10 DEF WorkerStops, StopController, durable
  <2> QED
    BY <1>1, <2>1 DEF OptOutHolds, Ended, IdlePair, IdleWriter
<1>11. CASE UNCHANGED vars
  BY <1>a, <1>11 DEF vars, contractVars, durable, handlers, ghosts
<1> QED
  BY <1>2, <1>3, <1>4, <1>5, <1>6, <1>7, <1>8, <1>9, <1>10, <1>11, Actors

\* Only the controller's own question lets a run through, and it is asked for a device.
LEMMA RunsAsk ==
  Inductive /\ OptOutHolds /\ [Next]_vars => (~run.allowed /\ run'.allowed => ~optedOut)
<1> SUFFICES ASSUME Inductive, OptOutHolds, [Next]_vars, ~run.allowed, run'.allowed PROVE ~optedOut
  OBVIOUS
<1>0. run \in RunStates
  BY DEF Inductive, TypeOK, ContractTypeOK
<1>1. run' # [run EXCEPT !.live = FALSE] /\ run' # run
  BY <1>0 DEF RunStates
<1>2. Controller
  <2>1. ~SvcStep
    <3>1. ~SvcStartRun
      BY DEF SvcStartRun, StartRun, Ended
    <3> QED
      BY <1>1, <3>1, SvcFrame
  <2>2. ~Asks /\ ~PairStart /\ ~PairStep /\ ~Changes /\ ~Writes
    BY <1>1, AskFrame, PairFrames, SettingsFrame DEF contractVars
  <2>3. ~UnpairStart /\ ~UnpairStep
    BY <1>1 DEF UnpairStart, UnpairStep, UnpairDisable, UnpairRemote, UnpairAnswered, UnpairAwaits,
       UnpairDestroys, UnpairEnds, CallUnpair, Stores, StartUnpair, contractVars
  <2>4. ~Reactivate /\ ~ActStep
    BY <1>1 DEF Reactivate, ActStep, ActEnable, ActWrite, ActTrigger, ActForget, ActDestroy, CallUnpair,
       Stores, StartUnpair, contractVars
  <2>5. ~WorkerStops
    BY DEF WorkerStops, StopController, Ended
  <2>6. ~UNCHANGED vars
    BY <1>1 DEF vars, contractVars
  <2> QED
    BY <2>1, <2>2, <2>3, <2>4, <2>5, <2>6, Actors
<1>3. GetEnabledSources
  <2>1. ~ControllerStep
    BY <1>0, <1>1 DEF ControllerStep, BindRun, ReadQueue, WriteQueue, StartUpload, EndUpload, EndRun,
       SavePairing, FailPairing, UnpairAlone, ClearQueue, ForgetRegistration, EndUnpair, RunStates, Ended
  <2> QED
    BY <1>2, <2>1 DEF Controller
<1> QED
  BY <1>3 DEF GetEnabledSources, AllowRun, OptOutHolds

\* Once the user has been told that uploads have stopped, no run gets past the controller's
\* question whether they are enabled until the user opts in again: unless another update of the
\* settings, which reads them whole and writes them back, revives the consent.
THEOREM OptOutIsFinal ==
  ASSUME \A b \in Budgets : b["writes"] = 0
  PROVE  Spec => NoRunAfterOptOut
<1>1. Init => OptOutHolds
  BY DEF Init, OptOutHolds, IdleWriter
<1>2. Inductive /\ OptOutHolds /\ [Next]_vars => [~run.allowed /\ run'.allowed => ~optedOut]_vars
  BY RunsAsk
<1> QED
  BY <1>1, <1>2, InductiveInvariant, OptOutStep, PTL DEF Spec, NoRunAfterOptOut
==============================================================================
