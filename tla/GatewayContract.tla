-------------------------- MODULE GatewayContract --------------------------
(***************************************************************************)
(* What the gateway controller promises to the rest of the service worker: *)
(* the abstract specification that GatewayController implements (see       *)
(* GatewayController!Contract) and that PortfolioService is composed with. *)
(*                                                                         *)
(* Only what another component can tell apart is left: which device is     *)
(* registered, which devices have envelopes queued or under way, and which *)
(* of syncNow, pair and unpair is running.                                 *)
(***************************************************************************)
CONSTANTS
  Keys,   \* signing keys; a device is named by its key
  NoKey   \* no registration is stored

ASSUME ContractAssumption == NoKey \notin Keys

VARIABLES
  registration,  \* the key of the stored registration, or NoKey
  queued,        \* devices that have an envelope in the outbox
  sending,       \* devices that have an upload under way
  run,           \* the call of syncNow in flight
  pairing,       \* the call of pair in flight
  unpairing      \* the call of unpair in flight

contractVars == <<registration, queued, sending, run, pairing, unpairing>>

Ended(result) ==
  [on |-> FALSE, live |-> FALSE, device |-> NoKey, allowed |-> FALSE, seen |-> {},
   result |-> result]

RunStates == [on : BOOLEAN,                   \* in flight
              live : BOOLEAN,                 \* and not fenced by unpair
              device : Keys \cup {NoKey},     \* whose registration it has read
              allowed : BOOLEAN,              \* uploads were enabled when it asked
              seen : SUBSET Keys,             \* devices in its copy of the outbox
              result : {"none", "ok", "cancelled", "revoked", "failed"}]
PairingStates == [on : BOOLEAN, result : {"none", "ok", "failed"}]
UnpairingStates == [phase : {"idle", "waiting", "alone"}, result : {"none", "ok", "failed"}]

ContractTypeOK ==
  /\ registration \in Keys \cup {NoKey}
  /\ queued \subseteq Keys
  /\ sending \subseteq Keys
  /\ run \in RunStates
  /\ pairing \in PairingStates
  /\ unpairing \in UnpairingStates

ContractInit ==
  /\ registration \in Keys \cup {NoKey} /\ queued = {} /\ sending = {}
  /\ run = Ended("none")
  /\ pairing = [on |-> FALSE, result |-> "none"]
  /\ unpairing = [phase |-> "idle", result |-> "none"]

(***************************************************************************)
(* syncNow: bound to the registration it reads, it queues and sends for    *)
(* that device and for what it found in the outbox, until unpair fences it.*)
(***************************************************************************)
StartRun ==
  /\ unpairing.phase = "idle" /\ ~run.on
  /\ run' = [Ended("none") EXCEPT !.on = TRUE, !.live = TRUE]
  /\ UNCHANGED <<registration, queued, sending, pairing, unpairing>>

BindRun ==
  /\ run.on /\ run.device = NoKey
  /\ run' = [run EXCEPT !.device = registration]
  /\ UNCHANGED <<registration, queued, sending, pairing, unpairing>>

AllowRun ==
  /\ run.on /\ run.live /\ run.device # NoKey
  /\ run' = [run EXCEPT !.allowed = TRUE]
  /\ UNCHANGED <<registration, queued, sending, pairing, unpairing>>

ReadQueue ==
  /\ run.live /\ run.allowed
  /\ run' = [run EXCEPT !.seen = queued]
  /\ UNCHANGED <<registration, queued, sending, pairing, unpairing>>

WriteQueue ==
  /\ run.allowed
  /\ queued' \in SUBSET (run.seen \cup {run.device})
  /\ \E kept \in SUBSET run.seen : run' = [run EXCEPT !.seen = kept]
  /\ UNCHANGED <<registration, sending, pairing, unpairing>>

StartUpload ==
  /\ run.live /\ sending = {}
  /\ \E d \in run.seen : sending' = {d}
  /\ UNCHANGED <<registration, queued, run, pairing, unpairing>>

\* An answer, its absence, or an envelope skipped: the pass may be done with a device.
EndUpload ==
  /\ run.allowed
  /\ sending' = {}
  /\ \E kept \in SUBSET run.seen : run' = [run EXCEPT !.seen = kept]
  /\ UNCHANGED <<registration, queued, pairing, unpairing>>

EndRun(result) ==
  /\ run.on /\ sending = {}
  /\ result = "cancelled" => ~run.live
  /\ result = "ok" => run.live /\ run.allowed
  /\ result = "revoked" => run.allowed
  /\ run' = Ended(result)
  /\ UNCHANGED <<registration, queued, sending, pairing, unpairing>>

(***************************************************************************)
(* pair and unpair.  unpair is alone with the stored state once the run    *)
(* and the pairing it found have ended.                                    *)
(***************************************************************************)
StartPairing ==
  /\ unpairing.phase = "idle" /\ ~pairing.on
  /\ pairing' = [on |-> TRUE, result |-> "none"]
  /\ UNCHANGED <<registration, queued, sending, run, unpairing>>

SavePairing ==
  /\ pairing.on /\ registration = NoKey
  /\ registration' \in Keys
  /\ pairing' = [on |-> FALSE, result |-> "ok"]
  /\ UNCHANGED <<queued, sending, run, unpairing>>

FailPairing ==
  /\ pairing.on
  /\ pairing' = [on |-> FALSE, result |-> "failed"]
  /\ UNCHANGED <<registration, queued, sending, run, unpairing>>

StartUnpair ==
  /\ unpairing.phase = "idle"
  /\ unpairing' = [phase |-> "waiting", result |-> "none"]
  /\ run' = [run EXCEPT !.live = FALSE]
  /\ UNCHANGED <<registration, queued, sending, pairing>>

UnpairAlone ==
  /\ unpairing.phase = "waiting" /\ ~run.on /\ ~pairing.on
  /\ unpairing' = [unpairing EXCEPT !.phase = "alone"]
  /\ UNCHANGED <<registration, queued, sending, run, pairing>>

ClearQueue ==
  /\ unpairing.phase = "alone"
  /\ queued' = {}
  /\ UNCHANGED <<registration, sending, run, pairing, unpairing>>

ForgetRegistration ==
  /\ unpairing.phase = "alone"
  /\ registration' = NoKey
  /\ UNCHANGED <<queued, sending, run, pairing, unpairing>>

EndUnpair(result) ==
  /\ unpairing.phase = "alone"
  /\ result = "ok" => registration = NoKey /\ queued = {}
  /\ unpairing' = [phase |-> "idle", result |-> result]
  /\ UNCHANGED <<registration, queued, sending, run, pairing>>

(***************************************************************************)
(* The worker's memory goes; what is stored stays.                         *)
(***************************************************************************)
StopController ==
  /\ sending' = {}
  /\ run' = Ended("none")
  /\ pairing' = [on |-> FALSE, result |-> "none"]
  /\ unpairing' = [phase |-> "idle", result |-> "none"]
  /\ UNCHANGED <<registration, queued>>

ControllerStep ==
  \/ BindRun \/ ReadQueue \/ WriteQueue \/ StartUpload \/ EndUpload
  \/ \E r \in {"ok", "cancelled", "revoked", "failed"} : EndRun(r)
  \/ SavePairing \/ FailPairing
  \/ UnpairAlone \/ ClearQueue \/ ForgetRegistration
  \/ \E r \in {"ok", "failed"} : EndUnpair(r)

ContractNext ==
  \/ StartRun \/ StartPairing \/ StartUnpair \/ AllowRun
  \/ ControllerStep \/ StopController

ContractSpec == ContractInit /\ [][ContractNext]_contractVars
=============================================================================
