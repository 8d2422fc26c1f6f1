------------------------- MODULE GatewayController -------------------------
(***************************************************************************)
(* The portfolio gateway controller of the service worker                  *)
(* (background/gateway-controller.ts) together with the state it works on: *)
(* the device key store (device-key-store.ts), the encrypted outbox        *)
(* (sync-outbox.ts) and, external, the gateway server.                     *)
(*                                                                         *)
(* One action is the code from one `await` to the next.  A device is named *)
(* by the signing key it was paired under; an envelope by the run and the  *)
(* chunk it was sealed for.  Clocks, retry delays, expiry and the order of *)
(* the outbox are abstracted to a choice of what happens to an envelope.   *)
(***************************************************************************)
EXTENDS Integers, FiniteSets

CONSTANTS
  Keys,        \* signing keys that may ever be generated
  NoKey,       \* no key, or no registration, is stored
  MaxRuns,     \* bound: calls of syncNow that start a run
  MaxChunks,   \* bound: chunks one run collects
  MaxUnpairs   \* bound: values of the controller's epoch above 0

ASSUME KeysAssumption == NoKey \notin Keys
ASSUME BoundsAssumption ==
  MaxRuns \in Nat /\ MaxChunks \in Nat \ {0} /\ MaxUnpairs \in Nat

VARIABLES
  identity,      \* IndexedDB: the device's signing key, or NoKey
  registration,  \* IndexedDB: the key the stored registration was paired under
  outbox,        \* chrome.storage: the envelopes waiting for delivery
  devices,       \* gateway: the status of every key it was asked to pair
  accepted,      \* gateway: the envelopes it acknowledged as delivered
  stray,         \* history: keys whose device may stay active at the gateway although the
                 \* client gave it up: pairing not learnt of, or revoke not confirmed
  usedKeys,      \* history: keys ever generated
  runs,          \* history: sync runs started
  syncEpoch,     \* memory: the controller's fence
  syncState,     \* memory: what status() reports of the last run
  lastFailure,   \* memory: lastFailureCode
  syncRun,       \* memory: the run behind syncInFlight
  drain,         \* memory: the locals of its outbox pass
  pairRun,       \* memory: the call behind pairInFlight
  unpairRun      \* memory: the call behind unpairInFlight

stored  == <<identity, registration, outbox>>
gateway == <<devices, accepted, stray>>
sync    == <<syncEpoch, syncState, syncRun, drain, runs>>
vars    == <<stored, gateway, usedKeys, sync, lastFailure, pairRun, unpairRun>>

Envelope == [run : 1..MaxRuns, chunk : 1..MaxChunks, device : Keys, signer : Keys]
Failures == {"device-revoked", "other"}

IdleSync == [pc |-> "idle", epoch |-> 0, id |-> 0, device |-> NoKey, signer |-> NoKey,
             chunk |-> 0, chunks |-> 0, result |-> "none"]
IdleDrain == [read |-> {}, keep |-> {}, flight |-> {}, codes |-> {},
              delivered |-> 0, deferred |-> 0]
IdlePair == [pc |-> "idle", key |-> NoKey, result |-> "none"]
IdleUnpair == [pc |-> "idle", device |-> NoKey, signer |-> NoKey, confirmed |-> "no",
               pending |-> {}, cleanup |-> "ok", result |-> "none"]

SyncPcs == {"idle", "registration", "provider", "sources", "collect", "seal", "sign",
            "enqueue", "append", "drain", "send", "reply", "verdict", "status"}
PairPcs == {"idle", "check", "identity", "seal", "confirm", "save"}
UnpairPcs == {"idle", "awaitPair", "awaitSync", "read", "seal", "send", "destroy"}

SyncRuns == [pc : SyncPcs, epoch : 0..MaxUnpairs, id : 0..MaxRuns,
             device : Keys \cup {NoKey}, signer : Keys \cup {NoKey},
             chunk : 0..MaxChunks, chunks : 0..MaxChunks,
             result : {"none", "ok", "cancelled", "revoked", "failed"}]
Drains == [read : SUBSET Envelope, keep : SUBSET Envelope, flight : SUBSET Envelope,
           codes : SUBSET Failures, delivered : Nat, deferred : Nat]
PairRuns == [pc : PairPcs, key : Keys \cup {NoKey}, result : {"none", "ok", "failed"}]
UnpairRuns == [pc : UnpairPcs, device : Keys \cup {NoKey}, signer : Keys \cup {NoKey},
               confirmed : {"no", "yes"}, pending : SUBSET {"outbox", "identity"},
               cleanup : {"ok", "failed"}, result : {"none", "ok", "failed"}]

TypeOK ==
  /\ identity \in Keys \cup {NoKey}
  /\ registration \in Keys \cup {NoKey}
  /\ outbox \subseteq Envelope
  /\ devices \in [Keys -> {"unknown", "active", "revoked"}]
  /\ accepted \subseteq Envelope
  /\ stray \subseteq Keys
  /\ usedKeys \subseteq Keys
  /\ runs \in 0..MaxRuns
  /\ syncEpoch \in 0..MaxUnpairs
  /\ syncState \in {"idle", "syncing", "error"}
  /\ lastFailure \in Failures \cup {"none"}
  /\ syncRun \in SyncRuns
  /\ drain \in Drains
  /\ pairRun \in PairRuns
  /\ unpairRun \in UnpairRuns

Init ==
  /\ identity = NoKey /\ registration = NoKey /\ outbox = {}
  /\ devices = [k \in Keys |-> "unknown"] /\ accepted = {} /\ stray = {}
  /\ usedKeys = {} /\ runs = 0
  /\ syncEpoch = 0 /\ syncState = "idle" /\ lastFailure = "none"
  /\ syncRun = IdleSync /\ drain = IdleDrain
  /\ pairRun = IdlePair /\ unpairRun = IdleUnpair

(***************************************************************************)
(* Device key store.  Two callers that find no key share one pending       *)
(* creation, so loading or creating is one step at the database write.     *)
(***************************************************************************)
GetOrCreateIdentity(k) ==
  \/ /\ identity # NoKey /\ k = identity
     /\ UNCHANGED <<identity, usedKeys>>
  \/ /\ identity = NoKey /\ k \in Keys \ usedKeys
     /\ identity' = k /\ usedKeys' = usedKeys \cup {k}

(***************************************************************************)
(* The gateway, external: it accepts what an active device signed.  A      *)
(* request may be lost before it or its answer after it.                   *)
(***************************************************************************)
GatewayAccepts(e) == devices[e.signer] = "active" /\ e.device = e.signer

GatewayRevokes(k) ==
  /\ devices[k] = "active"
  /\ devices' = [devices EXCEPT ![k] = "revoked"]
  /\ UNCHANGED <<stored, accepted, stray, usedKeys, sync, lastFailure, pairRun, unpairRun>>

(***************************************************************************)
(* pair(): refused while an unpair or another pair is in flight.           *)
(***************************************************************************)
Pair ==
  /\ unpairRun.pc = "idle" /\ pairRun.pc = "idle"
  /\ identity # NoKey \/ usedKeys # Keys     \* bound: a key is left to generate
  /\ pairRun' = [IdlePair EXCEPT !.pc = "check"]
  /\ UNCHANGED <<stored, gateway, usedKeys, sync, lastFailure, unpairRun>>

\* assertPairingCode, getRegistration and getOrCreateIdentity throw outside the try:
\* lastFailureCode keeps its value.
PairCheckFails ==
  /\ pairRun.pc \in {"check", "identity"}
  /\ pairRun' = [IdlePair EXCEPT !.result = "failed"]
  /\ UNCHANGED <<stored, gateway, usedKeys, sync, lastFailure, unpairRun>>

PairCheck ==
  /\ pairRun.pc = "check" /\ registration = NoKey
  /\ pairRun' = [pairRun EXCEPT !.pc = "identity"]
  /\ UNCHANGED <<stored, gateway, usedKeys, sync, lastFailure, unpairRun>>

PairIdentity ==
  /\ pairRun.pc = "identity"
  /\ \E k \in Keys : GetOrCreateIdentity(k) /\ pairRun' = [pairRun EXCEPT !.pc = "seal", !.key = k]
  /\ UNCHANGED <<registration, outbox, gateway, sync, lastFailure, unpairRun>>

\* confirmPair seals with the key store's current identity, which must be the payload's.
PairSeal ==
  /\ pairRun.pc = "seal"
  /\ \E k \in Keys :
       /\ GetOrCreateIdentity(k)
       /\ IF k = pairRun.key
          THEN pairRun' = [pairRun EXCEPT !.pc = "confirm"] /\ UNCHANGED lastFailure
          ELSE pairRun' = [IdlePair EXCEPT !.result = "failed"] /\ lastFailure' = "other"
  /\ UNCHANGED <<registration, outbox, gateway, sync, unpairRun>>

PairConfirmed ==
  /\ pairRun.pc = "confirm"
  /\ devices' = [devices EXCEPT ![pairRun.key] = "active"]
  /\ pairRun' = [pairRun EXCEPT !.pc = "save"]
  /\ UNCHANGED <<stored, accepted, stray, usedKeys, sync, lastFailure, unpairRun>>

\* The gateway paired the device and its answer was lost or malformed.
PairAnswerLost ==
  /\ pairRun.pc = "confirm"
  /\ devices' = [devices EXCEPT ![pairRun.key] = "active"]
  /\ stray' = stray \cup {pairRun.key}
  /\ pairRun' = [IdlePair EXCEPT !.result = "failed"]
  /\ lastFailure' = "other"
  /\ UNCHANGED <<stored, accepted, usedKeys, sync, unpairRun>>

\* Discovery failed, the request was lost, or the gateway refused it: HTTP 401 and 403
\* become DEVICE_REVOKED.
PairRefused ==
  /\ pairRun.pc \in {"seal", "confirm"}
  /\ pairRun' = [IdlePair EXCEPT !.result = "failed"]
  /\ \E code \in Failures :
       /\ code = "device-revoked" => pairRun.pc = "confirm"
       /\ lastFailure' = code
  /\ UNCHANGED <<stored, gateway, usedKeys, sync, unpairRun>>

PairSave ==
  /\ pairRun.pc = "save"
  /\ registration' = pairRun.key
  /\ stray' = stray \ {pairRun.key}
  /\ lastFailure' = "none"
  /\ pairRun' = [IdlePair EXCEPT !.result = "ok"]
  /\ UNCHANGED <<identity, outbox, devices, accepted, usedKeys, sync, unpairRun>>

PairSaveFails ==
  /\ pairRun.pc = "save"
  /\ stray' = stray \cup {pairRun.key}
  /\ lastFailure' = "other"
  /\ pairRun' = [IdlePair EXCEPT !.result = "failed"]
  /\ UNCHANGED <<stored, devices, accepted, usedKeys, sync, unpairRun>>

PairStep ==
  \/ PairCheckFails \/ PairCheck \/ PairIdentity \/ PairSeal \/ PairConfirmed
  \/ PairAnswerLost \/ PairRefused \/ PairSave \/ PairSaveFails

(***************************************************************************)
(* syncNow() and runSync().  A step that begins with assertSyncEpoch is    *)
(* enabled only while the run's epoch is the controller's; SyncCancelled   *)
(* is the throw.                                                           *)
(***************************************************************************)
AssertedPcs == {"provider", "sources", "collect", "seal", "enqueue", "drain", "verdict", "status"}
AwaitingPcs == {"registration", "sources", "collect", "seal", "sign", "enqueue", "append", "status"}
Fenced == syncRun.epoch # syncEpoch

SyncEnds(result, state, code) ==
  /\ syncRun' = [IdleSync EXCEPT !.result = result]
  /\ drain' = IdleDrain
  /\ syncState' = state
  /\ lastFailure' = code

SyncMoves(pc) == syncRun' = [syncRun EXCEPT !.pc = pc]

SyncNow ==
  /\ unpairRun.pc = "idle" /\ syncRun.pc = "idle"
  /\ runs < MaxRuns                          \* bound
  /\ runs' = runs + 1
  /\ syncRun' = [IdleSync EXCEPT !.pc = "registration", !.epoch = syncEpoch, !.id = runs + 1]
  /\ UNCHANGED <<stored, gateway, usedKeys, syncEpoch, syncState, lastFailure, drain,
                 pairRun, unpairRun>>

SyncReadRegistration ==
  /\ syncRun.pc = "registration"
  /\ syncRun' = [syncRun EXCEPT !.pc = "provider", !.device = registration]
  /\ UNCHANGED <<stored, gateway, usedKeys, syncEpoch, syncState, lastFailure, drain, runs,
                 pairRun, unpairRun>>

SyncProvider ==
  /\ syncRun.pc = "provider" /\ ~Fenced /\ syncRun.device # NoKey
  /\ syncState' = "syncing"
  /\ SyncMoves("sources")
  /\ UNCHANGED <<stored, gateway, usedKeys, syncEpoch, lastFailure, drain, runs,
                 pairRun, unpairRun>>

\* getEnabledSources throws unless uploads are enabled: see SyncFails.
SyncSources ==
  /\ syncRun.pc = "sources" /\ ~Fenced
  /\ SyncMoves("collect")
  /\ UNCHANGED <<stored, gateway, usedKeys, syncEpoch, syncState, lastFailure, drain, runs,
                 pairRun, unpairRun>>

SyncCollect ==
  /\ syncRun.pc = "collect" /\ ~Fenced
  /\ \E n \in 1..MaxChunks :
       syncRun' = [syncRun EXCEPT !.pc = "seal", !.chunk = 1, !.chunks = n]
  /\ UNCHANGED <<stored, gateway, usedKeys, syncEpoch, syncState, lastFailure, drain, runs,
                 pairRun, unpairRun>>

SyncSeal ==
  /\ syncRun.pc = "seal" /\ ~Fenced
  /\ \E k \in Keys :
       GetOrCreateIdentity(k) /\ syncRun' = [syncRun EXCEPT !.pc = "sign", !.signer = k]
  /\ UNCHANGED <<registration, outbox, gateway, syncEpoch, syncState, lastFailure, drain, runs,
                 pairRun, unpairRun>>

\* sign() loads the identity again and a changed key fails the seal.
SyncSign ==
  /\ syncRun.pc = "sign"
  /\ \E k \in Keys :
       /\ GetOrCreateIdentity(k)
       /\ IF k = syncRun.signer
          THEN SyncMoves("enqueue") /\ UNCHANGED <<syncState, lastFailure, drain>>
          ELSE SyncEnds("failed", "error", "other")
  /\ UNCHANGED <<registration, outbox, gateway, syncEpoch, runs, pairRun, unpairRun>>

\* The chunk loop of runSync.
MoreChunks == syncRun.chunk < syncRun.chunks

SealedEnvelope ==
  [run |-> syncRun.id, chunk |-> syncRun.chunk, device |-> syncRun.device,
   signer |-> syncRun.signer]

SyncEnqueue ==
  /\ syncRun.pc = "enqueue" /\ ~Fenced
  /\ drain' = [drain EXCEPT !.read = outbox]
  /\ SyncMoves("append")
  /\ UNCHANGED <<stored, gateway, usedKeys, syncEpoch, syncState, lastFailure, runs,
                 pairRun, unpairRun>>

SyncAppend ==
  /\ syncRun.pc = "append"
  /\ outbox' = drain.read \cup {SealedEnvelope}
  /\ drain' = IdleDrain
  /\ syncRun' = IF MoreChunks
                THEN [syncRun EXCEPT !.pc = "seal", !.chunk = @ + 1, !.signer = NoKey]
                ELSE [syncRun EXCEPT !.pc = "drain"]
  /\ UNCHANGED <<identity, registration, gateway, usedKeys, syncEpoch, syncState, lastFailure,
                 runs, pairRun, unpairRun>>

SyncDrain ==
  /\ syncRun.pc = "drain" /\ ~Fenced
  /\ drain' = [IdleDrain EXCEPT !.read = outbox]
  /\ SyncMoves("send")
  /\ UNCHANGED <<stored, gateway, usedKeys, syncEpoch, syncState, lastFailure, runs,
                 pairRun, unpairRun>>

\* What the pass records of an envelope: kept for a later pass, or dropped with a code.
Defer(e) == drain' = [drain EXCEPT !.read = @ \ {e}, !.flight = {},
                                   !.keep = @ \cup {e}, !.deferred = @ + 1]
\* Mutant: a dropped envelope leaves no terminal failure code.
DropSilently(e, code) == drain' = [drain EXCEPT !.read = @ \ {e}, !.flight = {}]
Drop(e, code) == drain' = [drain EXCEPT !.read = @ \ {e}, !.flight = {},
                                        !.codes = @ \cup {code}]
Deliver(e) == drain' = [drain EXCEPT !.read = @ \ {e}, !.flight = {},
                                     !.delivered = @ + 1]

\* An expired envelope is dropped, and one of an earlier run may not be due yet.
SyncSkip ==
  /\ syncRun.pc = "send"
  /\ \E e \in drain.read : \/ Drop(e, "other")
                           \/ e.run # syncRun.id /\ Defer(e)
  /\ UNCHANGED <<stored, gateway, usedKeys, syncEpoch, syncState, syncRun, lastFailure, runs,
                 pairRun, unpairRun>>

SyncSend ==
  /\ syncRun.pc = "send" /\ ~Fenced
  /\ \E e \in drain.read : drain' = [drain EXCEPT !.flight = {e}]
  /\ SyncMoves("reply")
  /\ UNCHANGED <<stored, gateway, usedKeys, syncEpoch, syncState, lastFailure, runs,
                 pairRun, unpairRun>>

\* The fence throws inside send, which the pass takes for an unreachable network.
SyncSendFenced ==
  /\ syncRun.pc = "send" /\ Fenced
  /\ \E e \in drain.read : Defer(e) \/ Drop(e, "other")
  /\ UNCHANGED <<stored, gateway, usedKeys, syncEpoch, syncState, syncRun, lastFailure, runs,
                 pairRun, unpairRun>>

SyncDelivered ==
  /\ syncRun.pc = "reply"
  /\ \E e \in drain.flight : /\ GatewayAccepts(e)
                             /\ accepted' = accepted \cup {e}
                             /\ Deliver(e)
  /\ SyncMoves("send")
  /\ UNCHANGED <<stored, devices, stray, usedKeys, syncEpoch, syncState, lastFailure, runs,
                 pairRun, unpairRun>>

\* Request or answer lost, 429 or 5xx: retried later, or dropped at the attempt or time limit.
SyncUnanswered ==
  /\ syncRun.pc = "reply"
  /\ \E e \in drain.flight :
       /\ \/ UNCHANGED accepted
          \/ GatewayAccepts(e) /\ accepted' = accepted \cup {e}
       /\ Defer(e) \/ Drop(e, "other")
  /\ SyncMoves("send")
  /\ UNCHANGED <<stored, devices, stray, usedKeys, syncEpoch, syncState, lastFailure, runs,
                 pairRun, unpairRun>>

SyncRefused ==
  /\ syncRun.pc = "reply"
  /\ \E e \in drain.flight : \/ ~GatewayAccepts(e) /\ Drop(e, "device-revoked")
                             \/ Drop(e, "other")
  /\ SyncMoves("send")
  /\ UNCHANGED <<stored, gateway, usedKeys, syncEpoch, syncState, lastFailure, runs,
                 pairRun, unpairRun>>

SyncDrainWrite ==
  /\ syncRun.pc = "send" /\ drain.read = {}
  /\ outbox' = drain.keep
  /\ SyncMoves("verdict")
  /\ UNCHANGED <<identity, registration, gateway, usedKeys, syncEpoch, syncState, drain,
                 lastFailure, runs, pairRun, unpairRun>>

SyncVerdict ==
  /\ syncRun.pc = "verdict" /\ ~Fenced
  /\ IF drain.codes # {}
     THEN IF "device-revoked" \in drain.codes
          THEN SyncEnds("revoked", "error", "device-revoked")
          ELSE SyncEnds("failed", "error", "other")
     ELSE IF drain.delivered = 0 /\ drain.deferred > 0
          THEN SyncEnds("failed", "error", "other")
          ELSE SyncMoves("status") /\ UNCHANGED <<syncState, lastFailure, drain>>
  /\ UNCHANGED <<stored, gateway, usedKeys, syncEpoch, runs, pairRun, unpairRun>>

SyncSucceeds ==
  /\ syncRun.pc = "status" /\ ~Fenced
  /\ SyncEnds("ok", "idle", "none")
  /\ UNCHANGED <<stored, gateway, usedKeys, syncEpoch, runs, pairRun, unpairRun>>

\* Mutant: the promise of a fenced run never settles.
SyncHangs == syncRun.pc \in AssertedPcs /\ Fenced /\ UNCHANGED vars

SyncCancelled ==
  /\ syncRun.pc \in AssertedPcs /\ Fenced
  /\ SyncEnds("cancelled", "idle", lastFailure)
  /\ UNCHANGED <<stored, gateway, usedKeys, syncEpoch, runs, pairRun, unpairRun>>

\* What the run was waiting for failed (a read, a write, Steam, discovery, the seal, uploads
\* not enabled) or, past the fence, no device is registered or the outbox cannot be read.
SyncFails ==
  /\ \/ syncRun.pc \in AwaitingPcs
     \/ syncRun.pc \in {"provider", "drain"} /\ ~Fenced
     \/ syncRun.pc = "send" /\ drain.read = {}
  /\ SyncEnds("failed", "error", "other")
  /\ UNCHANGED <<stored, gateway, usedKeys, syncEpoch, runs, pairRun, unpairRun>>

SyncStep ==
  \/ SyncReadRegistration \/ SyncProvider \/ SyncSources \/ SyncCollect \/ SyncSeal \/ SyncSign
  \/ SyncEnqueue \/ SyncAppend \/ SyncDrain \/ SyncSkip \/ SyncSend \/ SyncSendFenced
  \/ SyncDelivered \/ SyncUnanswered \/ SyncRefused \/ SyncDrainWrite \/ SyncVerdict
  \/ SyncSucceeds \/ SyncCancelled \/ SyncFails

(***************************************************************************)
(* unpair() and runUnpair().  A second caller joins the call in flight.    *)
(***************************************************************************)
\* Mutants: unpair does not raise the controller's fence, does not wait for the run in flight,
\* or takes a failed cleanup for done.
FenceForgotten == UNCHANGED syncEpoch
SyncNotAwaited == TRUE
CleanupIgnored == FALSE

RaiseFence == syncEpoch' = syncEpoch + 1
PairingSettled == pairRun.pc = "idle"
SyncSettled == syncRun.pc = "idle"
CleanupFailed == unpairRun.cleanup = "failed"

Unpair ==
  /\ unpairRun.pc = "idle"
  /\ syncEpoch < MaxUnpairs                  \* bound
  /\ RaiseFence
  /\ unpairRun' = [IdleUnpair EXCEPT !.pc = "awaitPair"]
  /\ UNCHANGED <<stored, gateway, usedKeys, syncState, syncRun, drain, runs, lastFailure, pairRun>>

UnpairMoves(pc) == unpairRun' = [unpairRun EXCEPT !.pc = pc]

UnpairAwaitPair ==
  /\ unpairRun.pc = "awaitPair" /\ PairingSettled
  /\ UnpairMoves("awaitSync")
  /\ UNCHANGED <<stored, gateway, usedKeys, sync, lastFailure, pairRun>>

UnpairAwaitSync ==
  /\ unpairRun.pc = "awaitSync" /\ SyncSettled
  /\ UnpairMoves("read")
  /\ UNCHANGED <<stored, gateway, usedKeys, sync, lastFailure, pairRun>>

UnpairRead ==
  /\ unpairRun.pc = "read"
  /\ unpairRun' = IF registration = NoKey
                  THEN [unpairRun EXCEPT !.pc = "destroy", !.confirmed = "yes",
                                         !.pending = {"outbox", "identity"}]
                  ELSE [unpairRun EXCEPT !.pc = "seal", !.device = registration]
  /\ UNCHANGED <<stored, gateway, usedKeys, sync, lastFailure, pairRun>>

\* getRegistration rejects outside the try: nothing is destroyed here.
UnpairReadFails ==
  /\ unpairRun.pc = "read"
  /\ unpairRun' = [IdleUnpair EXCEPT !.result = "failed"]
  /\ UNCHANGED <<stored, gateway, usedKeys, sync, lastFailure, pairRun>>

UnpairSeal ==
  /\ unpairRun.pc = "seal"
  /\ \E k \in Keys :
       GetOrCreateIdentity(k) /\ unpairRun' = [unpairRun EXCEPT !.pc = "send", !.signer = k]
  /\ UNCHANGED <<registration, outbox, gateway, sync, lastFailure, pairRun>>

UnpairDestroys(confirmed, code) ==
  /\ unpairRun' = [unpairRun EXCEPT !.pc = "destroy", !.confirmed = confirmed,
                                    !.pending = {"outbox", "identity"}]
  /\ lastFailure' = code

UnpairSealFails ==
  /\ unpairRun.pc = "seal"
  /\ UnpairDestroys("no", lastFailure)
  /\ UNCHANGED <<stored, gateway, usedKeys, sync, pairRun>>

RevokeAccepted == devices[unpairRun.signer] = "active" /\ unpairRun.device = unpairRun.signer

UnpairRevoked ==
  /\ unpairRun.pc = "send" /\ RevokeAccepted
  /\ devices' = [devices EXCEPT ![unpairRun.device] = "revoked"]
  /\ UnpairDestroys("yes", lastFailure)
  /\ UNCHANGED <<stored, accepted, stray, usedKeys, sync, pairRun>>

UnpairUnknownDevice ==
  /\ unpairRun.pc = "send" /\ ~RevokeAccepted
  /\ UnpairDestroys("yes", lastFailure)
  /\ UNCHANGED <<stored, gateway, usedKeys, sync, pairRun>>

UnpairTakenForConfirmed ==
  /\ unpairRun.pc = "send"
  /\ UNCHANGED devices
  /\ UnpairDestroys("yes", "other")
  /\ UNCHANGED <<stored, accepted, stray, usedKeys, sync, pairRun>>

\* Request or answer lost, or refused for another reason: the device may stay active.
UnpairUnconfirmed ==
  /\ unpairRun.pc = "send"
  /\ \/ UNCHANGED devices
     \/ RevokeAccepted /\ devices' = [devices EXCEPT ![unpairRun.device] = "revoked"]
  /\ UnpairDestroys("no", "other")
  /\ UNCHANGED <<stored, accepted, stray, usedKeys, sync, pairRun>>

DestroyOutbox ==
  /\ unpairRun.pc = "destroy" /\ "outbox" \in unpairRun.pending
  /\ \/ outbox' = {} /\ unpairRun' = [unpairRun EXCEPT !.pending = @ \ {"outbox"}]
     \/ UNCHANGED outbox /\ unpairRun' = [unpairRun EXCEPT !.pending = @ \ {"outbox"},
                                                           !.cleanup = "failed"]
  /\ UNCHANGED <<identity, registration, gateway, usedKeys, sync, lastFailure, pairRun>>

\* deleteIdentity drops the key and the registration in one transaction.
DeleteIdentity == identity' = NoKey /\ registration' = NoKey

DestroyIdentity ==
  /\ unpairRun.pc = "destroy" /\ "identity" \in unpairRun.pending
  /\ \/ /\ DeleteIdentity
        /\ stray' = IF unpairRun.confirmed = "yes" THEN stray ELSE stray \cup {unpairRun.device}
        /\ unpairRun' = [unpairRun EXCEPT !.pending = @ \ {"identity"}]
     \/ /\ UNCHANGED <<identity, registration, stray>>
        /\ unpairRun' = [unpairRun EXCEPT !.pending = @ \ {"identity"}, !.cleanup = "failed"]
  /\ UNCHANGED <<outbox, devices, accepted, usedKeys, sync, lastFailure, pairRun>>

UnpairEnds ==
  /\ unpairRun.pc = "destroy" /\ unpairRun.pending = {}
  /\ IF CleanupFailed
     THEN /\ unpairRun' = [IdleUnpair EXCEPT !.result = "failed"]
          /\ lastFailure' = "other"
     ELSE IF unpairRun.confirmed = "yes"
     THEN /\ unpairRun' = [IdleUnpair EXCEPT !.result = "ok"]
          /\ lastFailure' = IF unpairRun.device = NoKey THEN lastFailure ELSE "none"
     ELSE /\ unpairRun' = [IdleUnpair EXCEPT !.result = "failed"]
          /\ UNCHANGED lastFailure
  /\ UNCHANGED <<stored, gateway, usedKeys, sync, pairRun>>

UnpairStep ==
  \/ UnpairAwaitPair \/ UnpairAwaitSync \/ UnpairRead \/ UnpairReadFails \/ UnpairSeal
  \/ UnpairSealFails \/ UnpairRevoked \/ UnpairUnknownDevice \/ UnpairUnconfirmed
  \/ DestroyOutbox \/ DestroyIdentity \/ UnpairEnds

(***************************************************************************)
(* The browser stops the worker at any time: its memory goes, what is      *)
(* stored stays, and a request it had sent may still reach the gateway.    *)
(***************************************************************************)
WorkerStops ==
  /\ \/ pairRun.pc # "save" /\ UNCHANGED <<devices, accepted, stray>>
     \/ /\ pairRun.pc # "save"
        /\ \E e \in drain.flight : GatewayAccepts(e) /\ accepted' = accepted \cup {e}
        /\ UNCHANGED <<devices, stray>>
     \/ /\ pairRun.pc \in {"confirm", "save"}
        /\ devices' = [devices EXCEPT ![pairRun.key] = "active"]
        /\ stray' = stray \cup {pairRun.key}
        /\ UNCHANGED accepted
     \/ /\ pairRun.pc # "save" /\ unpairRun.pc = "send" /\ RevokeAccepted
        /\ devices' = [devices EXCEPT ![unpairRun.device] = "revoked"]
        /\ UNCHANGED <<accepted, stray>>
  /\ syncEpoch' = 0 /\ syncState' = "idle" /\ lastFailure' = "none"
  /\ syncRun' = IdleSync /\ drain' = IdleDrain
  /\ pairRun' = IdlePair /\ unpairRun' = IdleUnpair
  /\ UNCHANGED <<stored, usedKeys, runs>>

Next ==
  \/ Pair \/ PairStep \/ SyncNow \/ SyncStep \/ Unpair \/ UnpairStep
  \/ WorkerStops \/ \E k \in Keys : GatewayRevokes(k)

\* Every operation the worker awaits settles while the worker lives; callers, the gateway's
\* owner and the browser owe nothing.
Fairness == WF_vars(PairStep) /\ WF_vars(SyncStep) /\ WF_vars(UnpairStep)

Spec == Init /\ [][Next]_vars /\ Fairness

(***************************************************************************)
(* Properties                                                              *)
(***************************************************************************)

\* While unpair reads, revokes and destroys, no sync and no pairing is running: every upload
\* and every outbox write of a run comes before the revoke request and the final clear
\* (the comments of runUnpair).
UploadsPrecedeRevoke ==
  unpairRun.pc \in {"read", "seal", "send", "destroy"} => syncRun.pc = "idle" /\ pairRun.pc = "idle"

\* From the moment unpair is called no portfolio request is started, whatever the run in flight
\* was waiting for.
NoUploadOnceUnpairing ==
  [][drain'.flight \subseteq drain.flight \/ unpairRun.pc = "idle"]_vars

\* A stored registration always has its own signing key beside it: deleting both and saving
\* the registration never cross.
RegistrationHasItsKey == registration # NoKey => identity = registration

\* Every queued envelope carries the signature of the device it names, also when a key was
\* deleted or generated while the chunk was being sealed.
QueuedUnderItsOwnKey == \A e \in outbox : e.signer = e.device

\* Once the pairing is gone the outbox only shrinks: no late enqueue undoes the final clear.
NoEnqueueWithoutRegistration ==
  [][registration = NoKey => outbox' \subseteq outbox]_vars

\* An unpair that reports success left no key, no registration and no envelope.
UnpairLeavesNothing ==
  [][unpairRun'.result = "ok" /\ unpairRun.result # "ok" =>
       identity' = NoKey /\ registration' = NoKey /\ outbox' = {}]_vars

\* Every device active at the gateway is the registered one, one whose registration is being
\* saved, or one the client knows it gave up: no pairing is orphaned behind an unpair.
NoOrphanDevice ==
  \A k \in Keys : devices[k] = "active" =>
     k \in stray \/ k = registration \/ (pairRun.pc = "save" /\ k = pairRun.key)

\* A run that reports success lost nothing: each envelope it sealed was acknowledged or still
\* waits in the outbox.
SuccessLosesNothing ==
  [][syncRun.pc = "status" /\ syncRun'.result = "ok" =>
       \A i \in 1..syncRun.chunks : \E e \in accepted \cup outbox :
          e.run = syncRun.id /\ e.chunk = i]_vars

\* A call in flight settles: a pairing, a run that is waiting for Steam or for the gateway,
\* and an unpair that is itself waiting for both.
CallsSettle ==
  /\ pairRun.pc # "idle" ~> pairRun.pc = "idle"
  /\ syncRun.pc # "idle" ~> syncRun.pc = "idle"
  /\ unpairRun.pc # "idle" ~> unpairRun.pc = "idle"

\* "A run that queued everything and delivered nothing is not a sync."
SuccessDeliveredSomething ==
  [][syncRun.pc = "status" /\ syncRun'.result = "ok" =>
       \E e \in accepted : e.run = syncRun.id]_vars

(***************************************************************************)
(* What the rest of the worker sees of all this: GatewayController         *)
(* implements GatewayContract.                                             *)
(***************************************************************************)
AllowedPcs == SyncPcs \ {"idle", "registration", "provider", "sources"}
QueuedDevices == {e.device : e \in outbox}
SendingDevices == {e.device : e \in drain.flight}
SeenDevices == {e.device : e \in drain.read \cup drain.keep}
RunView == [on |-> syncRun.pc # "idle", live |-> syncRun.pc # "idle" /\ ~Fenced,
            device |-> syncRun.device, allowed |-> syncRun.pc \in AllowedPcs,
            seen |-> SeenDevices, result |-> syncRun.result]
PairingView == [on |-> pairRun.pc # "idle", result |-> pairRun.result]
UnpairingView == [phase |-> CASE unpairRun.pc = "idle" -> "idle"
                              [] unpairRun.pc \in {"awaitPair", "awaitSync"} -> "waiting"
                              [] OTHER -> "alone",
                  result |-> unpairRun.result]

Contract == INSTANCE GatewayContract WITH
  queued <- QueuedDevices, sending <- SendingDevices, run <- RunView,
  pairing <- PairingView, unpairing <- UnpairingView

\* Every behaviour of the controller, its stores and the gateway is one the contract allows: a
\* fenced run starts no upload and cannot succeed, and unpair destroys only when it is alone.
ImplementsContract == Contract!ContractSpec

(***************************************************************************)
(* The inductive invariant behind the safety properties (proved in         *)
(* GatewayController_proofs).                                              *)
(***************************************************************************)
DestroyingPcs == {"read", "seal", "send", "destroy"}
UploadingPcs == SyncPcs \ {"idle", "registration", "provider"}
SealedPcs == {"sign", "enqueue", "append"}
ChunkPcs == {"seal"} \cup SealedPcs

\* unpair waits for the pairing first, then for the run; neither can start meanwhile.
UnpairWaits ==
  /\ unpairRun.pc \in DestroyingPcs \cup {"awaitSync"} => pairRun.pc = "idle"
  /\ unpairRun.pc \in DestroyingPcs => syncRun.pc = "idle"

\* A run alive while unpair is waiting was started under an older epoch.
RunsBehindUnpair ==
  syncRun.pc # "idle" => /\ syncRun.epoch <= syncEpoch
                         /\ unpairRun.pc # "idle" => syncRun.epoch < syncEpoch

\* pair keeps its key, and the place of the registration stays free for it.
PairingKeepsItsKey ==
  /\ pairRun.pc \in {"identity", "seal", "confirm", "save"} => registration = NoKey
  /\ pairRun.pc \in {"seal", "confirm", "save"} =>
       pairRun.key # NoKey /\ identity = pairRun.key

\* A run seals for the registered device with that device's key.
RunKeepsItsDevice ==
  /\ syncRun.pc = "idle" => syncRun.device = NoKey
  /\ syncRun.pc # "idle" => syncRun.id \in 1..runs
  /\ syncRun.device # NoKey => registration = syncRun.device
  /\ syncRun.pc \in UploadingPcs => syncRun.device # NoKey
  /\ syncRun.pc \in SealedPcs => syncRun.signer = syncRun.device

DrainUnderItsOwnKey ==
  \A e \in drain.read \cup drain.keep \cup drain.flight : e.signer = e.device

\* What unpair learnt about the registered device, and what its destruction has done so far.
RevokeIsAboutTheRegistration ==
  /\ unpairRun.pc \in {"seal", "send"} => unpairRun.device # NoKey /\ registration = unpairRun.device
  /\ unpairRun.pc = "send" => unpairRun.signer = unpairRun.device
  /\ unpairRun.pc = "destroy" /\ unpairRun.confirmed = "no" => unpairRun.device # NoKey
  /\ unpairRun.pc = "destroy" => registration \in {NoKey, unpairRun.device}
  /\ unpairRun.pc = "destroy" /\ unpairRun.confirmed = "yes" /\ registration # NoKey =>
       devices[registration] # "active"
DestroyedIsGone ==
  unpairRun.pc = "destroy" /\ unpairRun.cleanup = "ok" =>
    /\ "outbox" \notin unpairRun.pending => outbox = {}
    /\ "identity" \notin unpairRun.pending => identity = NoKey /\ registration = NoKey

\* Where the envelopes of a run are: its i-th one, while the run is at pc.
OwnIn(S, i) == \E e \in S : e.run = syncRun.id /\ e.chunk = i
RunLosesNothing ==
  /\ syncRun.pc \in ChunkPcs =>
       /\ 1 <= syncRun.chunk /\ syncRun.chunk <= syncRun.chunks
       /\ \A i \in 1..(syncRun.chunk - 1) : OwnIn(outbox, i)
  /\ syncRun.pc = "append" => drain.read = outbox
  /\ syncRun.pc = "drain" => \A i \in 1..syncRun.chunks : OwnIn(outbox, i)
  /\ syncRun.pc \in {"send", "reply"} =>
       /\ drain.codes = {} => \A i \in 1..syncRun.chunks :
                                OwnIn(drain.read \cup drain.keep \cup accepted, i)
       /\ syncRun.pc = "reply" => drain.flight \subseteq drain.read
  /\ syncRun.pc = "verdict" /\ drain.codes = {} =>
       \A i \in 1..syncRun.chunks : OwnIn(accepted \cup outbox, i)
  /\ syncRun.pc = "status" => \A i \in 1..syncRun.chunks : OwnIn(accepted \cup outbox, i)

Inductive ==
  /\ TypeOK
  /\ UnpairWaits /\ RunsBehindUnpair
  /\ PairingKeepsItsKey /\ RunKeepsItsDevice
  /\ RegistrationHasItsKey /\ QueuedUnderItsOwnKey /\ DrainUnderItsOwnKey
  /\ RevokeIsAboutTheRegistration /\ DestroyedIsGone /\ NoOrphanDevice
  /\ RunLosesNothing
=============================================================================
