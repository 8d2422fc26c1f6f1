---------------------- MODULE GatewayController_proofs ----------------------
(***************************************************************************)
(* The safety properties of GatewayController, for every number of keys,   *)
(* runs, chunks and unpairs, and that it implements GatewayContract.  They *)
(* follow from one inductive invariant, Inductive; each of its parts has a *)
(* lemma for the step.                                                     *)
(***************************************************************************)
EXTENDS GatewayController, TLAPS

(***************************************************************************)
(* Which state the three processes write.                                  *)
(***************************************************************************)
\* pair() leaves the queue, the run and the unpair alone.
LEMMA PairFrame ==
  ASSUME PairStep
  PROVE  /\ pairRun.pc # "idle"
         /\ UNCHANGED <<outbox, accepted, runs, syncEpoch, syncState, syncRun, drain, unpairRun>>
BY DEF PairStep, PairCheckFails, PairCheck, PairIdentity, PairSeal, PairConfirmed, PairAnswerLost,
       PairRefused, PairSave, PairSaveFails, GetOrCreateIdentity, stored, gateway, sync

\* A run leaves the registration, the fence and the other calls alone.
LEMMA SyncFrame ==
  ASSUME SyncStep
  PROVE  /\ syncRun.pc # "idle"
         /\ UNCHANGED <<registration, devices, stray, runs, syncEpoch, pairRun, unpairRun>>
BY DEF SyncStep, SyncReadRegistration, SyncProvider, SyncSources, SyncCollect, SyncSeal, SyncSign,
       SyncEnqueue, SyncAppend, SyncDrain, SyncSkip, SyncSend, SyncSendFenced, SyncDelivered,
       SyncUnanswered, SyncRefused, SyncDrainWrite, SyncVerdict, SyncSucceeds, SyncCancelled,
       SyncFails, AssertedPcs, AwaitingPcs, stored, gateway

\* unpair() leaves the run, the pairing and the acknowledged envelopes alone.
LEMMA UnpairFrame ==
  ASSUME UnpairStep
  PROVE  /\ unpairRun.pc # "idle"
         /\ UNCHANGED <<accepted, runs, syncEpoch, syncState, syncRun, drain, pairRun>>
BY DEF UnpairStep, UnpairAwaitPair, UnpairAwaitSync, UnpairRead, UnpairReadFails, UnpairSeal,
       UnpairSealFails, UnpairRevoked, UnpairUnknownDevice, UnpairUnconfirmed, DestroyOutbox,
       DestroyIdentity, UnpairEnds, stored, gateway, sync

(***************************************************************************)
(* Types.  The outbox pass is typed update by update.                      *)
(***************************************************************************)
\* The records of calls that are not running have their types.
LEMMA IdleTypes ==
  /\ \A r \in {"none", "ok", "cancelled", "revoked", "failed"} :
       [IdleSync EXCEPT !.result = r] \in SyncRuns
  /\ IdleDrain \in Drains
  /\ \A r \in {"none", "ok", "failed"} : [IdlePair EXCEPT !.result = r] \in PairRuns
  /\ \A r \in {"none", "ok", "failed"} : [IdleUnpair EXCEPT !.result = r] \in UnpairRuns
BY BoundsAssumption
DEF IdleSync, SyncRuns, SyncPcs, IdleDrain, Drains, IdlePair, PairRuns, PairPcs,
    IdleUnpair, UnpairRuns, UnpairPcs

\* Deferring, dropping or delivering an envelope keeps the pass typed.
LEMMA DrainTypes ==
  ASSUME drain \in Drains, NEW e \in drain.read \cup drain.flight,
         NEW code \in Failures, Defer(e) \/ Drop(e, code) \/ Deliver(e)
  PROVE  drain' \in Drains
<1>1. /\ drain.read \ {e} \in SUBSET Envelope
      /\ drain.keep \cup {e} \in SUBSET Envelope
      /\ drain.codes \cup {code} \in SUBSET Failures
      /\ drain.deferred + 1 \in Nat
      /\ drain.delivered + 1 \in Nat
  BY DEF Drains
<1> QED
  BY <1>1 DEF Drains, Defer, Drop, Deliver

\* Loading or creating the identity yields a key.
LEMMA IdentityType ==
  ASSUME TypeOK, NEW k \in Keys, GetOrCreateIdentity(k)
  PROVE  identity' \in Keys /\ identity' = k /\ usedKeys' \subseteq Keys
BY DEF TypeOK, GetOrCreateIdentity

\* A fresh installation satisfies the invariant.
LEMMA InitInductive == Init => Inductive
<1> SUFFICES ASSUME Init PROVE Inductive
  OBVIOUS
<1>1. TypeOK
  <2>1. syncRun \in SyncRuns /\ pairRun \in PairRuns /\ unpairRun \in UnpairRuns
    BY BoundsAssumption
    DEF Init, IdleSync, SyncRuns, SyncPcs, IdlePair, PairRuns, PairPcs,
        IdleUnpair, UnpairRuns, UnpairPcs
  <2> QED
    BY <2>1, IdleTypes, BoundsAssumption DEF Init, TypeOK
<1> QED
  BY <1>1
  DEF Init, Inductive, UnpairWaits, RunsBehindUnpair, PairingKeepsItsKey, RunKeepsItsDevice,
      RegistrationHasItsKey, QueuedUnderItsOwnKey, DrainUnderItsOwnKey,
      RevokeIsAboutTheRegistration, DestroyedIsGone, NoOrphanDevice, RunLosesNothing,
      IdleSync, IdleDrain, IdlePair, IdleUnpair, DestroyingPcs, UploadingPcs, SealedPcs, ChunkPcs

\* Steps keep the types; a sealed envelope and a stray key need the other parts.
LEMMA TypeStep == Inductive /\ [Next]_vars => TypeOK'
<1> SUFFICES ASSUME Inductive, [Next]_vars PROVE TypeOK'
  OBVIOUS
<1> USE KeysAssumption, BoundsAssumption, IdleTypes
<1>0. TypeOK
  BY DEF Inductive
<1>1. CASE Pair
  <2>1. pairRun' \in PairRuns
    BY <1>1 DEF Pair, IdlePair, PairRuns, PairPcs
  <2> QED
    BY <1>0, <1>1, <2>1 DEF Pair, TypeOK, stored, gateway, sync
<1>2. CASE PairStep
  <2> USE DEF PairRuns, PairPcs, Failures
  <2>1. CASE PairCheckFails
    BY <1>0, <2>1 DEF PairCheckFails, TypeOK, stored, gateway, sync
  <2>2. CASE PairCheck
    BY <1>0, <2>2 DEF PairCheck, TypeOK, stored, gateway, sync
  <2>3. CASE PairIdentity
    <3>1. PICK k \in Keys : GetOrCreateIdentity(k) /\ pairRun' = [pairRun EXCEPT !.pc = "seal", !.key = k]
      BY <2>3 DEF PairIdentity
    <3> QED
      BY <1>0, <2>3, <3>1, IdentityType DEF PairIdentity, TypeOK, stored, gateway, sync
  <2>4. CASE PairSeal
    <3>1. PICK k \in Keys : GetOrCreateIdentity(k)
      BY <2>4 DEF PairSeal
    <3>2. pairRun' \in PairRuns
      BY <1>0, <2>4 DEF PairSeal, TypeOK
    <3> QED
      BY <1>0, <2>4, <3>1, <3>2, IdentityType DEF PairSeal, TypeOK, stored, gateway, sync
  <2>5. pairRun.pc \in {"confirm", "save"} => pairRun.key \in Keys
    BY <1>0 DEF Inductive, PairingKeepsItsKey, TypeOK
  <2>6. CASE PairConfirmed
    BY <1>0, <2>6 DEF PairConfirmed, TypeOK, stored, gateway, sync
  <2>7. CASE PairAnswerLost
    <3>1. pairRun' \in PairRuns /\ stray' \subseteq Keys
      BY <1>0, <2>5, <2>7 DEF PairAnswerLost, TypeOK
    <3> QED
      BY <1>0, <2>7, <3>1 DEF PairAnswerLost, TypeOK, stored, gateway, sync
  <2>8. CASE PairRefused
    BY <1>0, <2>8 DEF PairRefused, TypeOK, stored, gateway, sync
  <2>9. CASE PairSave
    BY <1>0, <2>5, <2>9 DEF PairSave, TypeOK, stored, gateway, sync
  <2>10. CASE PairSaveFails
    <3>1. pairRun' \in PairRuns /\ stray' \subseteq Keys
      BY <1>0, <2>5, <2>10 DEF PairSaveFails, TypeOK
    <3> QED
      BY <1>0, <2>10, <3>1 DEF PairSaveFails, TypeOK, stored, gateway, sync
  <2> QED
    BY <1>2, <2>1, <2>2, <2>3, <2>4, <2>6, <2>7, <2>8, <2>9, <2>10 DEF PairStep
<1>3. CASE SyncNow
  <2>1. runs + 1 \in 0..MaxRuns
    BY <1>0, <1>3 DEF SyncNow, TypeOK
  <2>2. syncRun' \in SyncRuns
    <3>1. syncEpoch \in 0..MaxUnpairs /\ 0 \in 0..MaxChunks
      BY <1>0 DEF TypeOK
    <3>2. syncRun' = [pc |-> "registration", epoch |-> syncEpoch, id |-> runs + 1, device |-> NoKey,
                      signer |-> NoKey, chunk |-> 0, chunks |-> 0, result |-> "none"]
      BY <1>3 DEF SyncNow, IdleSync
    <3> QED
      BY <2>1, <3>1, <3>2 DEF SyncRuns, SyncPcs
  <2> QED
    BY <1>0, <1>3, <2>1, <2>2 DEF SyncNow, TypeOK, stored, gateway, sync
<1>4. CASE SyncStep
  <2>0. ASSUME syncRun' \in SyncRuns, drain' \in Drains, outbox' \subseteq Envelope,
               accepted' \subseteq Envelope, identity' \in Keys \cup {NoKey}, usedKeys' \subseteq Keys,
               syncState' \in {"idle", "syncing", "error"}, lastFailure' \in Failures \cup {"none"}
        PROVE  TypeOK'
    BY <1>0, <1>4, <2>0, SyncFrame DEF TypeOK
  <2>1. CASE SyncReadRegistration
    BY <1>0, <2>0, <2>1 DEF SyncReadRegistration, TypeOK, stored, gateway, sync, SyncRuns, SyncPcs
  <2>2. CASE SyncProvider
    BY <1>0, <2>0, <2>2
       DEF SyncProvider, TypeOK, stored, gateway, sync, SyncRuns, SyncPcs, SyncMoves
  <2>3. CASE SyncSources
    BY <1>0, <2>0, <2>3 DEF SyncSources, TypeOK, stored, gateway, sync, SyncRuns, SyncPcs, SyncMoves
  <2>4. CASE SyncCollect
    <3>1. PICK n \in 1..MaxChunks : syncRun' = [syncRun EXCEPT !.pc = "seal", !.chunk = 1, !.chunks = n]
      BY <2>4 DEF SyncCollect
    <3>2. 1 \in 0..MaxChunks /\ n \in 0..MaxChunks
      OBVIOUS
    <3>3. syncRun' \in SyncRuns
      BY <1>0, <3>1, <3>2 DEF TypeOK, SyncRuns, SyncPcs
    <3> QED
      BY <1>0, <2>0, <2>4, <3>3 DEF SyncCollect, TypeOK, stored, gateway, sync
  <2>5. CASE SyncSeal
    <3>1. PICK k \in Keys :
             GetOrCreateIdentity(k) /\ syncRun' = [syncRun EXCEPT !.pc = "sign", !.signer = k]
      BY <2>5 DEF SyncSeal
    <3>2. syncRun' \in SyncRuns
      BY <1>0, <3>1 DEF TypeOK, SyncRuns, SyncPcs
    <3> QED
      BY <1>0, <2>0, <2>5, <3>1, <3>2, IdentityType DEF SyncSeal, TypeOK, stored, gateway, sync
  <2>6. CASE SyncSign
    <3>1. PICK k \in Keys : GetOrCreateIdentity(k)
      BY <2>6 DEF SyncSign
    <3>2. /\ syncRun' \in SyncRuns
          /\ drain' \in Drains
          /\ syncState' \in {"idle", "syncing", "error"}
          /\ lastFailure' \in Failures \cup {"none"}
      BY <1>0, <2>6 DEF SyncSign, SyncMoves, SyncEnds, TypeOK, SyncRuns, SyncPcs, Failures
    <3> QED
      BY <1>0, <2>0, <2>6, <3>1, <3>2, IdentityType DEF SyncSign, TypeOK, stored, gateway, sync
  <2>7. CASE SyncEnqueue
    BY <1>0, <2>0, <2>7
       DEF SyncEnqueue, TypeOK, stored, gateway, sync, SyncRuns, SyncPcs, Drains, SyncMoves
  <2>8. CASE SyncAppend
    <3>1. SealedEnvelope \in Envelope
      BY <1>0, <2>8 DEF SyncAppend, Inductive, RunKeepsItsDevice, RunLosesNothing, UploadingPcs,
           SealedPcs, ChunkPcs, SyncPcs, TypeOK, SyncRuns, SealedEnvelope, Envelope
    <3>2. drain.read \cup {SealedEnvelope} \subseteq Envelope
      BY <1>0, <3>1 DEF TypeOK, Drains
    <3>3. MoreChunks => syncRun.chunk + 1 \in 0..MaxChunks
      BY <1>0 DEF MoreChunks, TypeOK, SyncRuns
    <3>4. syncRun' \in SyncRuns
      BY <1>0, <2>8, <3>3 DEF SyncAppend, TypeOK, SyncRuns, SyncPcs
    <3> QED
      BY <1>0, <2>0, <2>8, <3>2, <3>4 DEF SyncAppend, TypeOK, stored, gateway, sync
  <2>9. CASE SyncDrain
    BY <1>0, <2>0, <2>9
       DEF SyncDrain, TypeOK, stored, gateway, sync, SyncRuns, SyncPcs, Drains, IdleDrain, SyncMoves
  <2>10. CASE SyncSkip
    <3>1. PICK e \in drain.read : Defer(e) \/ Drop(e, "other")
      BY <2>10 DEF SyncSkip
    <3>2. drain' \in Drains
      BY <1>0, <3>1, DrainTypes DEF TypeOK, Failures
    <3> QED
      BY <1>0, <2>0, <2>10, <3>2 DEF SyncSkip, TypeOK, stored, gateway, sync
  <2>11. CASE SyncSend
    BY <1>0, <2>0, <2>11
       DEF SyncSend, TypeOK, stored, gateway, sync, SyncRuns, SyncPcs, Drains, SyncMoves
  <2>12. CASE SyncSendFenced
    <3>1. PICK e \in drain.read : Defer(e) \/ Drop(e, "other")
      BY <2>12 DEF SyncSendFenced
    <3>2. drain' \in Drains
      BY <1>0, <3>1, DrainTypes DEF TypeOK, Failures
    <3> QED
      BY <1>0, <2>0, <2>12, <3>2 DEF SyncSendFenced, TypeOK, stored, gateway, sync
  <2>13. CASE SyncDelivered
    <3>1. PICK e \in drain.flight : Deliver(e) /\ accepted' = accepted \cup {e}
      BY <2>13 DEF SyncDelivered
    <3>2. drain' \in Drains
      BY <1>0, <3>1, DrainTypes DEF TypeOK, Failures
    <3>3. accepted' \subseteq Envelope
      BY <1>0, <3>1 DEF TypeOK, Drains
    <3> QED
      BY <1>0, <2>0, <2>13, <3>2, <3>3
         DEF SyncDelivered, TypeOK, stored, gateway, sync, SyncMoves, SyncRuns, SyncPcs
  <2>14. CASE SyncUnanswered
    <3>1. PICK e \in drain.flight :
           /\ accepted' \in {accepted, accepted \cup {e}}
           /\ Defer(e) \/ Drop(e, "other")
      BY <2>14 DEF SyncUnanswered
    <3>2. drain' \in Drains
      BY <1>0, <3>1, DrainTypes DEF TypeOK, Failures
    <3>3. accepted' \subseteq Envelope
      BY <1>0, <3>1 DEF TypeOK, Drains
    <3> QED
      BY <1>0, <2>0, <2>14, <3>2, <3>3
         DEF SyncUnanswered, TypeOK, stored, gateway, sync, SyncMoves, SyncRuns, SyncPcs
  <2>15. CASE SyncRefused
    <3>1. PICK e \in drain.flight, code \in Failures : Drop(e, code)
      BY <2>15 DEF SyncRefused, Failures
    <3>2. drain' \in Drains
      BY <1>0, <3>1, DrainTypes DEF TypeOK, Failures
    <3> QED
      BY <1>0, <2>0, <2>15, <3>2
         DEF SyncRefused, TypeOK, stored, gateway, sync, SyncMoves, SyncRuns, SyncPcs
  <2>16. CASE SyncDrainWrite
    BY <1>0, <2>0, <2>16
       DEF SyncDrainWrite, TypeOK, stored, gateway, sync, SyncRuns, SyncPcs, Drains, SyncMoves
  <2>17. CASE SyncVerdict
    BY <1>0, <2>0, <2>17
       DEF SyncVerdict, TypeOK, stored, gateway, sync, SyncEnds, SyncMoves, SyncRuns, SyncPcs,
       Failures
  <2>18. CASE SyncSucceeds
    BY <1>0, <2>0, <2>18
       DEF SyncSucceeds, TypeOK, stored, gateway, sync, SyncEnds, SyncMoves, SyncRuns, SyncPcs,
       Failures
  <2>19. CASE SyncCancelled
    BY <1>0, <2>0, <2>19
       DEF SyncCancelled, TypeOK, stored, gateway, sync, SyncEnds, SyncMoves, SyncRuns, SyncPcs,
       Failures
  <2>20. CASE SyncFails
    BY <1>0, <2>0, <2>20
       DEF SyncFails, TypeOK, stored, gateway, sync, SyncEnds, SyncMoves, SyncRuns, SyncPcs,
       Failures
  <2> QED
    BY <1>4, <2>1, <2>2, <2>3, <2>4, <2>5, <2>6, <2>7, <2>8, <2>9, <2>10, <2>11, <2>12, <2>13,
       <2>14, <2>15, <2>16, <2>17, <2>18, <2>19, <2>20 DEF SyncStep
<1>5. CASE Unpair
  <2>1. unpairRun' \in UnpairRuns
    BY <1>5 DEF Unpair, IdleUnpair, UnpairRuns, UnpairPcs
  <2> QED
    BY <1>0, <1>5, <2>1 DEF Unpair, RaiseFence, TypeOK, stored, gateway, sync
<1>6. CASE UnpairStep
  <2>0. ASSUME unpairRun' \in UnpairRuns, outbox' \subseteq Envelope, identity' \in Keys \cup {NoKey},
               registration' \in Keys \cup {NoKey}, devices' \in [Keys -> {"unknown", "active", "revoked"}],
               stray' \subseteq Keys, usedKeys' \subseteq Keys, lastFailure' \in Failures \cup {"none"}
        PROVE  TypeOK'
    BY <1>0, <1>6, <2>0, UnpairFrame DEF TypeOK
  <2>a. unpairRun.pending \ {"outbox"} \in SUBSET {"outbox", "identity"}
    BY <1>0 DEF TypeOK, UnpairRuns
  <2>b. unpairRun.pending \ {"identity"} \in SUBSET {"outbox", "identity"}
    BY <1>0 DEF TypeOK, UnpairRuns
  <2>1. CASE UnpairAwaitPair
    BY <1>0, <2>0, <2>1
       DEF UnpairAwaitPair, TypeOK, stored, gateway, sync, UnpairRuns, UnpairPcs, UnpairMoves
  <2>2. CASE UnpairAwaitSync
    BY <1>0, <2>0, <2>2
       DEF UnpairAwaitSync, TypeOK, stored, gateway, sync, UnpairRuns, UnpairPcs, UnpairMoves
  <2>3. CASE UnpairRead
    BY <1>0, <2>0, <2>3 DEF UnpairRead, TypeOK, stored, gateway, sync, UnpairRuns, UnpairPcs
  <2>4. CASE UnpairReadFails
    BY <1>0, <2>0, <2>4
       DEF UnpairReadFails, TypeOK, stored, gateway, sync, UnpairRuns, UnpairPcs, IdleUnpair
  <2>5. CASE UnpairSeal
    <3>1. PICK k \in Keys :
             GetOrCreateIdentity(k) /\ unpairRun' = [unpairRun EXCEPT !.pc = "send", !.signer = k]
      BY <2>5 DEF UnpairSeal
    <3>2. unpairRun' \in UnpairRuns
      BY <1>0, <3>1 DEF TypeOK, UnpairRuns, UnpairPcs
    <3> QED
      BY <1>0, <2>0, <2>5, <3>1, <3>2, IdentityType DEF UnpairSeal, TypeOK, stored, gateway, sync
  <2>6. CASE UnpairSealFails
    BY <1>0, <2>0, <2>6
       DEF UnpairSealFails, TypeOK, stored, gateway, sync, UnpairRuns, UnpairPcs, UnpairDestroys
  <2>7. CASE UnpairRevoked
    BY <1>0, <2>0, <2>7
       DEF UnpairRevoked, TypeOK, stored, gateway, sync, UnpairRuns, UnpairPcs, UnpairDestroys
  <2>8. CASE UnpairUnknownDevice
    BY <1>0, <2>0, <2>8
       DEF UnpairUnknownDevice, TypeOK, stored, gateway, sync, UnpairRuns, UnpairPcs, UnpairDestroys
  <2>9. CASE UnpairUnconfirmed
    BY <1>0, <2>0, <2>9
       DEF UnpairUnconfirmed, TypeOK, stored, gateway, sync, UnpairRuns, UnpairPcs,
       UnpairDestroys, Failures
  <2>10. CASE DestroyOutbox
    <3>1. unpairRun' \in UnpairRuns
      <4>1. CASE unpairRun' = [unpairRun EXCEPT !.pending = @ \ {"outbox"}]
        BY <1>0, <2>a, <4>1 DEF TypeOK, UnpairRuns
      <4>2. CASE unpairRun' = [unpairRun EXCEPT !.pending = @ \ {"outbox"}, !.cleanup = "failed"]
        BY <1>0, <2>a, <4>2 DEF TypeOK, UnpairRuns
      <4> QED
        BY <2>10, <4>1, <4>2 DEF DestroyOutbox
    <3> QED
      BY <1>0, <2>0, <2>10, <3>1 DEF DestroyOutbox, TypeOK, stored, gateway, sync
  <2>11. CASE DestroyIdentity
    <3>1. unpairRun' \in UnpairRuns
      <4>1. CASE unpairRun' = [unpairRun EXCEPT !.pending = @ \ {"identity"}]
        BY <1>0, <2>b, <4>1 DEF TypeOK, UnpairRuns
      <4>2. CASE unpairRun' = [unpairRun EXCEPT !.pending = @ \ {"identity"}, !.cleanup = "failed"]
        BY <1>0, <2>b, <4>2 DEF TypeOK, UnpairRuns
      <4> QED
        BY <2>11, <4>1, <4>2 DEF DestroyIdentity
    <3>2. unpairRun.confirmed # "yes" => unpairRun.device \in Keys
      BY <1>0, <2>11
         DEF DestroyIdentity, Inductive, RevokeIsAboutTheRegistration, TypeOK, UnpairRuns
    <3> QED
      BY <1>0, <2>0, <2>11, <3>1, <3>2
         DEF DestroyIdentity, DeleteIdentity, TypeOK, stored, gateway, sync
  <2>12. CASE UnpairEnds
    BY <1>0, <2>0, <2>12
       DEF UnpairEnds, TypeOK, stored, gateway, sync, UnpairRuns, UnpairPcs, IdleUnpair, Failures
  <2> QED
    BY <1>6, <2>1, <2>2, <2>3, <2>4, <2>5, <2>6, <2>7, <2>8, <2>9, <2>10, <2>11, <2>12
       DEF UnpairStep
<1>7. CASE WorkerStops
  <2>1. stray' \subseteq Keys
    BY <1>0, <1>7 DEF WorkerStops, Inductive, PairingKeepsItsKey, TypeOK
  <2>2. accepted' \subseteq Envelope
    BY <1>0, <1>7 DEF WorkerStops, TypeOK, Drains
  <2>3. devices' \in [Keys -> {"unknown", "active", "revoked"}]
    BY <1>0, <1>7 DEF WorkerStops, TypeOK
  <2>4. syncRun' \in SyncRuns /\ pairRun' \in PairRuns /\ unpairRun' \in UnpairRuns
    BY <1>7 DEF WorkerStops, IdleSync, SyncRuns, SyncPcs, IdlePair, PairRuns, PairPcs,
         IdleUnpair, UnpairRuns, UnpairPcs
  <2> QED
    BY <1>0, <1>7, <2>1, <2>2, <2>3, <2>4 DEF WorkerStops, TypeOK, stored
<1>8. ASSUME NEW k \in Keys, GatewayRevokes(k) PROVE TypeOK'
  BY <1>0, <1>8 DEF GatewayRevokes, TypeOK, stored, gateway, sync
<1>9. CASE UNCHANGED vars
  BY <1>0, <1>9 DEF vars, TypeOK, stored, gateway, sync
<1> QED
  BY <1>1, <1>2, <1>3, <1>4, <1>5, <1>6, <1>7, <1>8, <1>9 DEF Next

(***************************************************************************)
(* unpair waits for the others, and every run it finds is behind its fence.*)
(***************************************************************************)
\* Steps keep unpair alone and every run behind its fence.
LEMMA WaitsStep == Inductive /\ [Next]_vars => UnpairWaits' /\ RunsBehindUnpair'
<1> SUFFICES ASSUME Inductive, [Next]_vars PROVE UnpairWaits' /\ RunsBehindUnpair'
  OBVIOUS
<1>0. /\ UnpairWaits /\ RunsBehindUnpair
      /\ syncEpoch \in Nat /\ syncRun.epoch \in Nat /\ unpairRun \in UnpairRuns
  BY BoundsAssumption DEF Inductive, TypeOK, SyncRuns
<1> USE DEF UnpairWaits, RunsBehindUnpair, DestroyingPcs
<1>1. CASE Pair
  BY <1>0, <1>1 DEF Pair, IdlePair, sync
<1>2. CASE PairStep
  BY <1>0, <1>2, PairFrame
<1>3. CASE SyncNow
  BY <1>0, <1>3 DEF SyncNow, IdleSync
<1>4. CASE SyncStep
  <2>1. syncRun'.pc = "idle" \/ syncRun'.epoch = syncRun.epoch
    <3>1. syncRun \in SyncRuns
      BY DEF Inductive, TypeOK
    <3> QED
      BY <1>4, <3>1
      DEF SyncRuns, SyncStep, SyncReadRegistration, SyncProvider, SyncSources, SyncCollect,
          SyncSeal, SyncSign, SyncEnqueue, SyncAppend, SyncDrain, SyncSkip, SyncSend,
          SyncSendFenced, SyncDelivered, SyncUnanswered, SyncRefused, SyncDrainWrite,
          SyncVerdict, SyncSucceeds, SyncCancelled, SyncFails, SyncMoves, SyncEnds, IdleSync
  <2> QED
    BY <1>0, <1>4, <2>1, SyncFrame
<1>5. CASE Unpair
  BY <1>0, <1>5 DEF Unpair, RaiseFence, IdleUnpair
<1>6. CASE UnpairStep
  <2>1. CASE UnpairAwaitPair
    BY <1>0, <1>6, <2>1, UnpairFrame DEF UnpairAwaitPair, PairingSettled, UnpairMoves, UnpairRuns
  <2>2. CASE UnpairAwaitSync
    BY <1>0, <1>6, <2>2, UnpairFrame DEF UnpairAwaitSync, SyncSettled, UnpairMoves, UnpairRuns
  <2>3. ASSUME unpairRun.pc \in DestroyingPcs
        PROVE  UnpairWaits' /\ RunsBehindUnpair'
    BY <1>0, <1>6, <2>3, UnpairFrame
  <2> QED
    BY <1>6, <2>1, <2>2, <2>3
    DEF UnpairStep, UnpairRead, UnpairReadFails, UnpairSeal, UnpairSealFails, UnpairRevoked,
        UnpairUnknownDevice, UnpairUnconfirmed, DestroyOutbox, DestroyIdentity, UnpairEnds
<1>7. CASE WorkerStops
  BY <1>7 DEF WorkerStops, IdlePair, IdleSync, IdleUnpair
<1>8. ASSUME NEW k \in Keys, GatewayRevokes(k) PROVE UnpairWaits' /\ RunsBehindUnpair'
  BY <1>0, <1>8 DEF GatewayRevokes, sync
<1>9. CASE UNCHANGED vars
  BY <1>0, <1>9 DEF vars, sync
<1> QED
  BY <1>1, <1>2, <1>3, <1>4, <1>5, <1>6, <1>7, <1>8, <1>9 DEF Next

(***************************************************************************)
(* The pairing, the run and the stored registration agree on the key.      *)
(***************************************************************************)
\* Steps keep pairing, run and registration on one key.
LEMMA IdentityStep ==
  Inductive /\ [Next]_vars => PairingKeepsItsKey' /\ RunKeepsItsDevice' /\ RegistrationHasItsKey'
<1> DEFINE Goal == PairingKeepsItsKey /\ RunKeepsItsDevice /\ RegistrationHasItsKey
<1> SUFFICES ASSUME Inductive, [Next]_vars PROVE Goal'
  OBVIOUS
<1>0. Goal /\ UnpairWaits /\ TypeOK
  BY DEF Inductive
<1> USE KeysAssumption DEF PairingKeepsItsKey, RunKeepsItsDevice, RegistrationHasItsKey
<1>1. CASE Pair
  BY <1>0, <1>1 DEF Pair, IdlePair, stored, sync
<1>2. CASE PairStep
  <2>1. syncRun.device = NoKey \/ registration # NoKey
    BY <1>0
  <2>2. pairRun \in PairRuns
    BY <1>0 DEF TypeOK
  <2>3. CASE PairCheckFails
    BY <1>0, <2>3 DEF PairCheckFails, IdlePair, stored, sync
  <2>4. CASE PairCheck
    BY <1>0, <2>2, <2>4 DEF PairCheck, PairRuns, stored, sync
  <2>5. CASE PairIdentity
    BY <1>0, <2>2, <2>5 DEF PairIdentity, GetOrCreateIdentity, PairRuns, sync
  <2>6. CASE PairSeal
    BY <1>0, <2>2, <2>6 DEF PairSeal, GetOrCreateIdentity, PairRuns, IdlePair, sync
  <2>7. CASE PairConfirmed
    BY <1>0, <2>2, <2>7 DEF PairConfirmed, PairRuns, stored, sync
  <2>8. CASE PairAnswerLost
    BY <1>0, <2>8 DEF PairAnswerLost, IdlePair, stored, sync
  <2>9. CASE PairRefused
    BY <1>0, <2>9 DEF PairRefused, IdlePair, stored, sync
  <2>10. CASE PairSave
    BY <1>0, <2>1, <2>10 DEF PairSave, IdlePair, sync
  <2>11. CASE PairSaveFails
    BY <1>0, <2>11 DEF PairSaveFails, IdlePair, stored, sync
  <2> QED
    BY <1>2, <2>3, <2>4, <2>5, <2>6, <2>7, <2>8, <2>9, <2>10, <2>11 DEF PairStep
<1>3. CASE SyncNow
  BY <1>0, <1>3 DEF SyncNow, TypeOK, IdleSync, UploadingPcs, SealedPcs, SyncPcs, stored
<1>4. CASE SyncStep
  <2>1. syncRun \in SyncRuns /\ runs \in Nat
    BY <1>0, BoundsAssumption DEF TypeOK
  <2>2. identity # NoKey => identity' = identity
    BY <1>4
    DEF SyncStep, SyncReadRegistration, SyncProvider, SyncSources, SyncCollect, SyncSeal,
        SyncSign, SyncEnqueue, SyncAppend, SyncDrain, SyncSkip, SyncSend, SyncSendFenced,
        SyncDelivered, SyncUnanswered, SyncRefused, SyncDrainWrite, SyncVerdict, SyncSucceeds,
        SyncCancelled, SyncFails, GetOrCreateIdentity, stored
  <2>4. PairingKeepsItsKey' /\ RegistrationHasItsKey'
    BY <1>0, <1>4, <2>2, SyncFrame
  <2>5. RunKeepsItsDevice'
    <3>0. UNCHANGED <<registration, runs>>
      BY <1>4, SyncFrame
    <3> USE <1>0, <2>1, <3>0 DEF UploadingPcs, SealedPcs, SyncPcs, SyncRuns
    <3>1. CASE SyncReadRegistration
      BY <3>1 DEF SyncReadRegistration
    <3>2. CASE SyncProvider \/ SyncSources \/ SyncCollect
      BY <3>2 DEF SyncProvider, SyncSources, SyncCollect, SyncMoves
    <3>3. CASE SyncSeal
      BY <3>3 DEF SyncSeal, GetOrCreateIdentity
    <3>4. CASE SyncSign
      BY <3>4 DEF SyncSign, SyncMoves, SyncEnds, IdleSync
    <3>5. CASE SyncEnqueue \/ SyncAppend
      BY <3>5 DEF SyncEnqueue, SyncAppend, SyncMoves
    <3>6. CASE SyncDrain \/ SyncSkip \/ SyncSend \/ SyncSendFenced
      BY <3>6 DEF SyncDrain, SyncSkip, SyncSend, SyncSendFenced, SyncMoves
    <3>7. CASE SyncDelivered \/ SyncUnanswered \/ SyncRefused \/ SyncDrainWrite
      BY <3>7 DEF SyncDelivered, SyncUnanswered, SyncRefused, SyncDrainWrite, SyncMoves
    <3>8. CASE SyncVerdict \/ SyncSucceeds \/ SyncCancelled \/ SyncFails
      BY <3>8 DEF SyncVerdict, SyncSucceeds, SyncCancelled, SyncFails, SyncMoves, SyncEnds, IdleSync
    <3> QED
      BY <1>4, <3>1, <3>2, <3>3, <3>4, <3>5, <3>6, <3>7, <3>8 DEF SyncStep
  <2> QED
    BY <2>4, <2>5
<1>5. CASE Unpair
  BY <1>0, <1>5 DEF Unpair, stored
<1>6. CASE UnpairStep
  <2>1. CASE DestroyIdentity
    BY <1>0, <2>1 DEF DestroyIdentity, DeleteIdentity, UnpairWaits, DestroyingPcs, sync,
                      UploadingPcs, SealedPcs, SyncPcs
  <2>2. CASE UnpairSeal
    BY <1>0, <2>2 DEF UnpairSeal, GetOrCreateIdentity, UnpairWaits, DestroyingPcs, sync
  <2>3. CASE UNCHANGED <<identity, registration>>
    BY <1>0, <1>6, <2>3, UnpairFrame
  <2> QED
    BY <1>6, <2>1, <2>2, <2>3
    DEF UnpairStep, UnpairAwaitPair, UnpairAwaitSync, UnpairRead, UnpairReadFails,
        UnpairSealFails, UnpairRevoked, UnpairUnknownDevice, UnpairUnconfirmed, DestroyOutbox,
        UnpairEnds, stored
<1>7. CASE WorkerStops
  BY <1>0, <1>7 DEF WorkerStops, IdlePair, IdleSync, UploadingPcs, SealedPcs, SyncPcs, stored
<1>8. ASSUME NEW k \in Keys, GatewayRevokes(k) PROVE Goal'
  BY <1>0, <1>8 DEF GatewayRevokes, stored, sync
<1>9. CASE UNCHANGED vars
  BY <1>0, <1>9 DEF vars, stored, sync
<1> QED
  BY <1>1, <1>2, <1>3, <1>4, <1>5, <1>6, <1>7, <1>8, <1>9 DEF Next

(***************************************************************************)
(* Every envelope, queued or in the hands of the pass, is signed by the    *)
(* key of its device.                                                      *)
(***************************************************************************)
\* Steps keep every envelope under its own key.
LEMMA QueueStep == Inductive /\ [Next]_vars => QueuedUnderItsOwnKey' /\ DrainUnderItsOwnKey'
<1> DEFINE Goal == QueuedUnderItsOwnKey /\ DrainUnderItsOwnKey
<1> SUFFICES ASSUME Inductive, [Next]_vars PROVE Goal'
  OBVIOUS
<1>0. Goal /\ RunKeepsItsDevice /\ drain \in Drains
  BY DEF Inductive, TypeOK
<1> USE DEF QueuedUnderItsOwnKey, DrainUnderItsOwnKey
<1>1. ASSUME UNCHANGED <<outbox, drain>> PROVE Goal'
  BY <1>0, <1>1
<1>2. ASSUME outbox' = outbox, drain' = IdleDrain PROVE Goal'
  BY <1>0, <1>2 DEF IdleDrain
<1>3. CASE SyncStep
  <2>1. CASE SyncEnqueue
    BY <1>0, <2>1 DEF SyncEnqueue, Drains, stored
  <2>2. CASE SyncAppend
    BY <1>0, <2>2 DEF SyncAppend, SealedEnvelope, RunKeepsItsDevice, SealedPcs, IdleDrain
  <2>3. CASE SyncDrain
    BY <1>0, <2>3 DEF SyncDrain, IdleDrain, stored
  <2>4. CASE SyncSend
    BY <1>0, <2>4 DEF SyncSend, Drains, stored
  <2>5. ASSUME outbox' = outbox, NEW e \in drain.read \cup drain.flight, NEW code,
               Defer(e) \/ Drop(e, code) \/ Deliver(e)
        PROVE  Goal'
    <3>1. CASE Defer(e)
      BY <1>0, <2>5, <3>1 DEF Defer, Drains
    <3>2. CASE Drop(e, code)
      BY <1>0, <2>5, <3>2 DEF Drop, Drains
    <3>3. CASE Deliver(e)
      BY <1>0, <2>5, <3>3 DEF Deliver, Drains
    <3> QED
      BY <2>5, <3>1, <3>2, <3>3
  <2>6. CASE SyncSkip \/ SyncSendFenced
    BY <2>5, <2>6 DEF SyncSkip, SyncSendFenced, stored
  <2>7. CASE SyncDelivered \/ SyncUnanswered \/ SyncRefused
    BY <2>5, <2>7 DEF SyncDelivered, SyncUnanswered, SyncRefused, stored
  <2>8. CASE SyncDrainWrite
    BY <1>0, <2>8 DEF SyncDrainWrite
  <2>9. CASE SyncReadRegistration \/ SyncProvider \/ SyncSources \/ SyncCollect \/ SyncSeal
    BY <1>1, <2>9 DEF SyncReadRegistration, SyncProvider, SyncSources, SyncCollect, SyncSeal, stored
  <2>10. CASE SyncSign \/ SyncVerdict \/ SyncSucceeds \/ SyncCancelled \/ SyncFails
    BY <1>1, <1>2, <2>10
    DEF SyncSign, SyncVerdict, SyncSucceeds, SyncCancelled, SyncFails, SyncEnds, stored
  <2> QED
    BY <1>3, <2>1, <2>2, <2>3, <2>4, <2>6, <2>7, <2>8, <2>9, <2>10 DEF SyncStep
<1>4. CASE Pair \/ PairStep \/ SyncNow \/ Unpair
  BY <1>1, <1>2, <1>4, PairFrame DEF Pair, SyncNow, Unpair, stored, sync
<1>5. CASE UnpairStep
  <2>1. outbox' = outbox \/ outbox' = {}
    BY <1>5
    DEF UnpairStep, UnpairAwaitPair, UnpairAwaitSync, UnpairRead, UnpairReadFails, UnpairSeal,
        UnpairSealFails, UnpairRevoked, UnpairUnknownDevice, UnpairUnconfirmed, DestroyOutbox,
        DestroyIdentity, UnpairEnds, stored
  <2> QED
    BY <1>0, <1>5, <2>1, UnpairFrame
<1>6. CASE WorkerStops
  BY <1>2, <1>6 DEF WorkerStops, stored
<1>7. CASE (\E k \in Keys : GatewayRevokes(k)) \/ UNCHANGED vars
  BY <1>1, <1>7 DEF GatewayRevokes, vars, stored, sync
<1> QED
  BY <1>3, <1>4, <1>5, <1>6, <1>7 DEF Next

(***************************************************************************)
(* What unpair knows of the device it revokes, what it has destroyed, and  *)
(* the devices left active at the gateway.                                 *)
(***************************************************************************)
\* Steps keep what unpair knows true, and orphan no device.
LEMMA UnpairingStep ==
  Inductive /\ [Next]_vars => RevokeIsAboutTheRegistration' /\ DestroyedIsGone' /\ NoOrphanDevice'
<1> DEFINE Goal == RevokeIsAboutTheRegistration /\ DestroyedIsGone /\ NoOrphanDevice
<1> SUFFICES ASSUME Inductive, [Next]_vars PROVE Goal'
  OBVIOUS
<1>0. /\ Goal /\ UnpairWaits /\ PairingKeepsItsKey /\ RegistrationHasItsKey /\ TypeOK
      /\ unpairRun \in UnpairRuns /\ devices \in [Keys -> {"unknown", "active", "revoked"}]
  BY DEF Inductive, TypeOK
<1> USE KeysAssumption DEF RevokeIsAboutTheRegistration, DestroyedIsGone, NoOrphanDevice
<1>1. CASE Pair
  BY <1>0, <1>1 DEF Pair, IdlePair, stored, gateway
<1>2. CASE PairStep
  <2>1. unpairRun.pc \notin DestroyingPcs /\ unpairRun' = unpairRun
    BY <1>0, <1>2, PairFrame DEF UnpairWaits
  <2>2. NoOrphanDevice'
    <3>1. CASE PairCheckFails
      BY <1>0, <3>1 DEF PairCheckFails, IdlePair, stored, gateway
    <3>2. CASE PairCheck
      BY <1>0, <3>2 DEF PairCheck, stored, gateway
    <3>3. CASE PairIdentity
      BY <1>0, <3>3 DEF PairIdentity, gateway
    <3>4. CASE PairSeal
      BY <1>0, <3>4 DEF PairSeal, gateway
    <3>5. CASE PairConfirmed
      BY <1>0, <3>5 DEF PairConfirmed, stored, TypeOK, PairRuns
    <3>6. CASE PairAnswerLost
      BY <1>0, <3>6 DEF PairAnswerLost, stored
    <3>7. CASE PairRefused
      BY <1>0, <3>7 DEF PairRefused, stored, gateway
    <3>8. CASE PairSave
      BY <1>0, <3>8 DEF PairSave, PairingKeepsItsKey
    <3>9. CASE PairSaveFails
      BY <1>0, <3>9 DEF PairSaveFails, stored
    <3> QED
      BY <1>2, <3>1, <3>2, <3>3, <3>4, <3>5, <3>6, <3>7, <3>8, <3>9 DEF PairStep
  <2> QED
    BY <2>1, <2>2 DEF DestroyingPcs
<1>3. CASE SyncNow
  BY <1>0, <1>3 DEF SyncNow, stored, gateway
<1>4. CASE SyncStep
  <2>1. unpairRun.pc \notin DestroyingPcs
    BY <1>0, <1>4, SyncFrame DEF UnpairWaits
  <2> QED
    BY <1>0, <1>4, <2>1, SyncFrame DEF DestroyingPcs
<1>5. CASE Unpair
  BY <1>0, <1>5 DEF Unpair, IdleUnpair, stored, gateway
<1>6. CASE UnpairStep
  <2>0. UNCHANGED pairRun
    BY <1>6, UnpairFrame
  <2> USE <1>0, <2>0 DEF UnpairRuns
  <2>1. CASE UnpairAwaitPair \/ UnpairAwaitSync
    BY <2>1 DEF UnpairAwaitPair, UnpairAwaitSync, UnpairMoves, stored, gateway
  <2>2. CASE UnpairRead
    <3>0. UNCHANGED <<registration, outbox, identity, devices, stray>>
      BY <2>2 DEF UnpairRead, stored, gateway
    <3>1. CASE registration = NoKey
      <4>1. /\ unpairRun'.pc = "destroy" /\ unpairRun'.confirmed = "yes"
            /\ unpairRun'.pending = {"outbox", "identity"}
        BY <2>2, <3>1 DEF UnpairRead
      <4> QED
        BY <3>0, <3>1, <4>1
    <3>2. CASE registration # NoKey
      BY <2>2, <3>0, <3>2 DEF UnpairRead
    <3> QED
      BY <3>1, <3>2
  <2>3. CASE UnpairReadFails
    BY <2>3 DEF UnpairReadFails, IdleUnpair, stored, gateway
  <2>4. CASE UnpairSeal
    BY <2>4 DEF UnpairSeal, GetOrCreateIdentity, RegistrationHasItsKey, gateway
  <2>5. CASE UnpairSealFails
    BY <2>5 DEF UnpairSealFails, UnpairDestroys, stored, gateway
  <2>6. CASE UnpairRevoked
    BY <2>6 DEF UnpairRevoked, RevokeAccepted, UnpairDestroys, stored, TypeOK
  <2>7. CASE UnpairUnknownDevice
    BY <2>7 DEF UnpairUnknownDevice, RevokeAccepted, UnpairDestroys, stored, gateway
  <2>8. CASE UnpairUnconfirmed
    BY <2>8 DEF UnpairUnconfirmed, RevokeAccepted, UnpairDestroys, stored
  <2>9. CASE DestroyOutbox
    <3>1. /\ unpairRun.pc = "destroy"
          /\ UNCHANGED <<identity, registration, devices, stray>>
          /\ unpairRun'.pc = "destroy"
          /\ unpairRun'.device = unpairRun.device
          /\ unpairRun'.confirmed = unpairRun.confirmed
          /\ "identity" \in unpairRun.pending => "identity" \in unpairRun'.pending
          /\ unpairRun'.cleanup = "ok" => outbox' = {} /\ unpairRun.cleanup = "ok"
      <4>1. CASE outbox' = {} /\ unpairRun' = [unpairRun EXCEPT !.pending = @ \ {"outbox"}]
        BY <2>9, <4>1 DEF DestroyOutbox, gateway
      <4>2. CASE unpairRun' = [unpairRun EXCEPT !.pending = @ \ {"outbox"}, !.cleanup = "failed"]
        BY <2>9, <4>2 DEF DestroyOutbox, gateway
      <4> QED
        BY <2>9, <4>1, <4>2 DEF DestroyOutbox
    <3> QED
      BY <3>1
  <2>10. CASE DestroyIdentity
    <3>1. unpairRun.confirmed \in {"no", "yes"} /\ pairRun.pc = "idle"
      BY <2>10 DEF DestroyIdentity, UnpairWaits, DestroyingPcs
    <3>2. RevokeIsAboutTheRegistration' /\ DestroyedIsGone'
      <4>1. /\ unpairRun.pc = "destroy"
            /\ UNCHANGED <<outbox, devices>>
            /\ registration' \in {registration, NoKey}
            /\ unpairRun'.pc = "destroy"
            /\ unpairRun'.device = unpairRun.device
            /\ unpairRun'.confirmed = unpairRun.confirmed
            /\ "outbox" \in unpairRun.pending => "outbox" \in unpairRun'.pending
            /\ unpairRun'.cleanup = "ok" =>
                 identity' = NoKey /\ registration' = NoKey /\ unpairRun.cleanup = "ok"
        <5>1. CASE DeleteIdentity /\ unpairRun' = [unpairRun EXCEPT !.pending = @ \ {"identity"}]
          BY <2>10, <5>1 DEF DestroyIdentity, DeleteIdentity
        <5>2. CASE /\ UNCHANGED registration
                   /\ unpairRun' = [unpairRun EXCEPT !.pending = @ \ {"identity"}, !.cleanup = "failed"]
          BY <2>10, <5>2 DEF DestroyIdentity
        <5> QED
          BY <2>10, <5>1, <5>2 DEF DestroyIdentity
      <4> QED
        BY <4>1
    <3>3. NoOrphanDevice'
      BY <2>10, <3>1 DEF DestroyIdentity, DeleteIdentity
    <3> QED
      BY <3>2, <3>3
  <2>11. CASE UnpairEnds
    BY <2>11 DEF UnpairEnds, IdleUnpair, stored, gateway
  <2> QED
    BY <1>6, <2>1, <2>2, <2>3, <2>4, <2>5, <2>6, <2>7, <2>8, <2>9, <2>10, <2>11 DEF UnpairStep
<1>7. CASE WorkerStops
  <2>1. RevokeIsAboutTheRegistration' /\ DestroyedIsGone'
    BY <1>7 DEF WorkerStops, IdleUnpair
  <2>2. NoOrphanDevice'
    BY <1>0, <1>7 DEF WorkerStops, IdlePair, stored, gateway, RevokeAccepted
  <2> QED
    BY <2>1, <2>2
<1>8. ASSUME NEW k \in Keys, GatewayRevokes(k) PROVE Goal'
  BY <1>0, <1>8 DEF GatewayRevokes, stored, gateway
<1>9. CASE UNCHANGED vars
  BY <1>0, <1>9 DEF vars, stored, gateway
<1> QED
  BY <1>1, <1>2, <1>3, <1>4, <1>5, <1>6, <1>7, <1>8, <1>9 DEF Next

(***************************************************************************)
(* No envelope of the run in flight is lost: chunk by chunk it is queued,  *)
(* then in the hands of the pass, then acknowledged or queued again.       *)
(***************************************************************************)
\* Steps lose no envelope of the run in flight.
LEMMA LosesNothingStep == Inductive /\ [Next]_vars => RunLosesNothing'
<1> SUFFICES ASSUME Inductive, [Next]_vars PROVE RunLosesNothing'
  OBVIOUS
<1>0. /\ RunLosesNothing /\ UnpairWaits
      /\ syncRun \in SyncRuns /\ drain \in Drains
      /\ syncRun.chunk \in Nat /\ syncRun.chunks \in Nat
  BY BoundsAssumption DEF Inductive, TypeOK, SyncRuns
<1> USE DEF ChunkPcs, SealedPcs
<1>1. ASSUME syncRun'.pc \in {"idle", "registration", "provider", "sources", "collect"}
      PROVE  RunLosesNothing'
  BY <1>1 DEF RunLosesNothing
<1>2. ASSUME UNCHANGED <<syncRun, drain, accepted>>, outbox' = outbox \/ syncRun.pc = "idle"
      PROVE  RunLosesNothing'
  BY <1>0, <1>2 DEF RunLosesNothing, OwnIn
<1>3. CASE SyncStep
  <2>1. CASE SyncReadRegistration \/ SyncProvider \/ SyncSources \/ SyncCancelled \/ SyncFails \/ SyncSucceeds
    <3>1. syncRun'.pc \in {"idle", "registration", "provider", "sources", "collect"}
      BY <1>0, <2>1
      DEF SyncReadRegistration, SyncProvider, SyncSources, SyncCancelled, SyncFails, SyncSucceeds,
          SyncMoves, SyncEnds, IdleSync, SyncRuns
    <3> QED
      BY <1>1, <3>1
  <2>2. CASE SyncCollect
    BY <1>0, <2>2 DEF SyncCollect, RunLosesNothing, SyncRuns
  <2>3. ASSUME syncRun'.pc \in {"sign", "enqueue"}, syncRun.pc \in ChunkPcs,
               syncRun'.id = syncRun.id, syncRun'.chunk = syncRun.chunk,
               syncRun'.chunks = syncRun.chunks, outbox' = outbox
        PROVE  RunLosesNothing'
    BY <1>0, <2>3 DEF RunLosesNothing, OwnIn
  <2>4. CASE SyncSeal
    BY <1>0, <2>3, <2>4 DEF SyncSeal, SyncRuns
  <2>5. CASE SyncSign
    BY <1>0, <1>1, <2>3, <2>5 DEF SyncSign, SyncMoves, SyncEnds, IdleSync, SyncRuns
  <2>6. CASE SyncEnqueue
    BY <1>0, <2>6 DEF SyncEnqueue, SyncMoves, SyncRuns, Drains, stored, RunLosesNothing, OwnIn
  <2>7. CASE SyncAppend
    <3>1. \A i \in 1..syncRun.chunk : OwnIn(outbox', i)
      <4>1. \A i \in 1..(syncRun.chunk - 1) : OwnIn(outbox', i)
        BY <1>0, <2>7 DEF SyncAppend, RunLosesNothing, OwnIn
      <4>2. OwnIn(outbox', syncRun.chunk)
        <5>1. SealedEnvelope \in outbox' /\ syncRun'.id = syncRun.id
          BY <1>0, <2>7 DEF SyncAppend, SyncRuns
        <5>2. SealedEnvelope.run = syncRun.id /\ SealedEnvelope.chunk = syncRun.chunk
          BY DEF SealedEnvelope
        <5> QED
          BY <5>1, <5>2 DEF OwnIn
      <4> QED
        BY <1>0, <4>1, <4>2
    <3>2. syncRun'.id = syncRun.id /\ syncRun'.chunks = syncRun.chunks
      BY <1>0, <2>7 DEF SyncAppend, SyncRuns
    <3>3. 1 <= syncRun.chunk /\ syncRun.chunk <= syncRun.chunks
      BY <1>0, <2>7 DEF SyncAppend, RunLosesNothing
    <3>4. CASE MoreChunks
      <4>1. syncRun'.pc = "seal" /\ syncRun'.chunk = syncRun.chunk + 1
        BY <1>0, <2>7, <3>4 DEF SyncAppend, SyncRuns
      <4>2. syncRun'.chunk - 1 = syncRun.chunk /\ syncRun'.chunk <= syncRun'.chunks
        BY <1>0, <3>2, <3>4, <4>1 DEF MoreChunks
      <4> QED
        BY <1>0, <3>1, <3>2, <3>3, <4>1, <4>2 DEF RunLosesNothing, OwnIn
    <3>5. CASE ~MoreChunks
      <4>1. syncRun'.pc = "drain" /\ syncRun.chunk = syncRun.chunks
        BY <1>0, <2>7, <3>3, <3>5 DEF SyncAppend, SyncRuns, MoreChunks
      <4> QED
        BY <3>1, <3>2, <4>1 DEF RunLosesNothing, OwnIn
    <3> QED
      BY <3>4, <3>5
  <2>8. CASE SyncDrain
    BY <1>0, <2>8 DEF SyncDrain, SyncMoves, SyncRuns, IdleDrain, RunLosesNothing, OwnIn
  <2>9. ASSUME NEW e \in drain.read \cup drain.flight, NEW code \in Failures,
               syncRun.pc \in {"send", "reply"}, syncRun'.pc = "send",
               UNCHANGED <<syncRun.id, syncRun.chunks>>,
               accepted \subseteq accepted',
               Defer(e) \/ Drop(e, code) \/ (Deliver(e) /\ e \in accepted')
        PROVE  RunLosesNothing'
    <3>1. CASE Drop(e, code)
      <4>1. drain'.codes # {}
        BY <1>0, <3>1 DEF Drop, Drains
      <4> QED
        BY <2>9, <4>1 DEF RunLosesNothing
    <3>2. CASE ~Drop(e, code)
      <4>1. /\ drain'.codes = drain.codes
            /\ drain.read \cup drain.keep \cup accepted \subseteq drain'.read \cup drain'.keep \cup accepted'
        <5>1. CASE Defer(e)
          BY <1>0, <2>9, <5>1 DEF Defer, Drains
        <5>2. CASE Deliver(e) /\ e \in accepted'
          BY <1>0, <2>9, <5>2 DEF Deliver, Drains
        <5> QED
          BY <2>9, <3>2, <5>1, <5>2
      <4> QED
        BY <1>0, <2>9, <4>1 DEF RunLosesNothing, OwnIn
    <3> QED
      BY <3>1, <3>2
  <2>10. CASE SyncSkip \/ SyncSendFenced
    BY <2>9, <2>10 DEF SyncSkip, SyncSendFenced, gateway, Failures
  <2>11. CASE SyncSend
    BY <1>0, <2>11 DEF SyncSend, SyncMoves, SyncRuns, Drains, gateway, RunLosesNothing, OwnIn
  <2>12. CASE SyncDelivered
    BY <1>0, <2>9, <2>12 DEF SyncDelivered, SyncMoves, SyncRuns, Failures
  <2>13. CASE SyncUnanswered
    BY <1>0, <2>9, <2>13 DEF SyncUnanswered, SyncMoves, SyncRuns, Failures
  <2>14. CASE SyncRefused
    BY <1>0, <2>9, <2>14 DEF SyncRefused, SyncMoves, SyncRuns, gateway, Failures
  <2>15. CASE SyncDrainWrite
    <3>1. syncRun'.pc = "verdict" /\ UNCHANGED <<syncRun.id, syncRun.chunks, drain, accepted>>
      BY <1>0, <2>15 DEF SyncDrainWrite, SyncMoves, SyncRuns, gateway
    <3>2. drain.read = {} /\ outbox' = drain.keep /\ syncRun.pc = "send"
      BY <2>15 DEF SyncDrainWrite
    <3> QED
      BY <1>0, <3>1, <3>2 DEF RunLosesNothing, OwnIn
  <2>16. CASE SyncVerdict
    <3>1. CASE syncRun'.pc = "idle"
      BY <1>1, <3>1
    <3>2. CASE syncRun'.pc # "idle"
      <4>1. /\ drain.codes = {} /\ syncRun.pc = "verdict" /\ syncRun'.pc = "status"
            /\ UNCHANGED <<syncRun.id, syncRun.chunks, outbox, accepted>>
        BY <1>0, <2>16, <3>2
           DEF SyncVerdict, SyncMoves, SyncEnds, IdleSync, SyncRuns, stored, gateway
      <4> QED
        BY <1>0, <4>1 DEF RunLosesNothing, OwnIn
    <3> QED
      BY <3>1, <3>2
  <2> QED
    BY <1>3, <2>1, <2>2, <2>4, <2>5, <2>6, <2>7, <2>8, <2>10, <2>11, <2>12, <2>13, <2>14, <2>15,
       <2>16
    DEF SyncStep
<1>4. CASE Pair \/ PairStep \/ Unpair
  BY <1>2, <1>4, PairFrame DEF Pair, Unpair, stored, gateway, sync
<1>5. CASE SyncNow \/ WorkerStops
  <2>1. syncRun'.pc \in {"idle", "registration"}
    <3>1. CASE SyncNow
      BY <3>1 DEF SyncNow, IdleSync
    <3>2. CASE WorkerStops
      BY <3>2 DEF WorkerStops, IdleSync
    <3> QED
      BY <1>5, <3>1, <3>2
  <2> QED
    BY <1>1, <2>1
<1>6. CASE UnpairStep
  <2>1. outbox' = outbox \/ syncRun.pc = "idle"
    BY <1>0, <1>6
    DEF UnpairStep, UnpairAwaitPair, UnpairAwaitSync, UnpairRead, UnpairReadFails, UnpairSeal,
        UnpairSealFails, UnpairRevoked, UnpairUnknownDevice, UnpairUnconfirmed, DestroyOutbox,
        DestroyIdentity, UnpairEnds, stored, UnpairWaits, DestroyingPcs
  <2> QED
    BY <1>2, <1>6, <2>1, UnpairFrame
<1>7. CASE (\E k \in Keys : GatewayRevokes(k)) \/ UNCHANGED vars
  BY <1>2, <1>7 DEF GatewayRevokes, vars, stored, gateway, sync
<1> QED
  BY <1>3, <1>4, <1>5, <1>6, <1>7 DEF Next

(***************************************************************************)
(* The theorems.                                                           *)
(***************************************************************************)

\* The inductive invariant holds in every reachable state: types, the waiting of unpair, the
\* agreement of the keys, and where each envelope of the run in flight is.
THEOREM InductiveInvariant == Spec => []Inductive
<1>1. Init => Inductive
  BY InitInductive
<1>2. Inductive /\ [Next]_vars => Inductive'
  BY TypeStep, WaitsStep, IdentityStep, QueueStep, UnpairingStep, LosesNothingStep DEF Inductive
<1> QED
  BY <1>1, <1>2, PTL DEF Spec

\* Every variable keeps its type.
THEOREM TypeCorrect == Spec => []TypeOK
<1>1. Inductive => TypeOK
  BY DEF Inductive
<1> QED
  BY <1>1, InductiveInvariant, PTL

\* unpair revokes and destroys only when no sync and no pairing runs.
THEOREM UnpairRunsAlone == Spec => []UploadsPrecedeRevoke
<1>1. Inductive => UploadsPrecedeRevoke
  BY DEF Inductive, UnpairWaits, DestroyingPcs, UploadsPrecedeRevoke
<1> QED
  BY <1>1, InductiveInvariant, PTL

\* The stored registration has its signing key beside it.
THEOREM RegistrationKeepsItsKey == Spec => []RegistrationHasItsKey
<1>1. Inductive => RegistrationHasItsKey
  BY DEF Inductive
<1> QED
  BY <1>1, InductiveInvariant, PTL

\* Queued envelopes are signed by the key of the device they name.
THEOREM QueueIsOwn == Spec => []QueuedUnderItsOwnKey
<1>1. Inductive => QueuedUnderItsOwnKey
  BY DEF Inductive
<1> QED
  BY <1>1, InductiveInvariant, PTL

\* No device stays active at the gateway without the client's registration or its knowledge.
THEOREM NoDeviceOrphaned == Spec => []NoOrphanDevice
<1>1. Inductive => NoOrphanDevice
  BY DEF Inductive
<1> QED
  BY <1>1, InductiveInvariant, PTL

\* Once unpair is called no portfolio request is started.
THEOREM UnpairStopsUploads == Spec => NoUploadOnceUnpairing
<1>1. Inductive /\ [Next]_vars =>
        [drain'.flight \subseteq drain.flight \/ unpairRun.pc = "idle"]_vars
  <2> SUFFICES ASSUME Inductive, [Next]_vars, unpairRun.pc # "idle"
               PROVE  drain'.flight \subseteq drain.flight
    OBVIOUS
  <2>0. /\ syncRun.pc # "idle" => Fenced
        /\ drain \in Drains
    BY BoundsAssumption DEF Inductive, RunsBehindUnpair, Fenced, TypeOK, SyncRuns
  <2>1. CASE SyncStep
    <3>1. ~SyncSend
      BY <2>0 DEF SyncSend
    <3> USE <2>0 DEF Drains, IdleDrain
    <3>2. CASE SyncReadRegistration \/ SyncProvider \/ SyncSources \/ SyncCollect \/ SyncSeal
      BY <3>2 DEF SyncReadRegistration, SyncProvider, SyncSources, SyncCollect, SyncSeal
    <3>3. CASE SyncSign \/ SyncVerdict \/ SyncSucceeds \/ SyncCancelled \/ SyncFails
      BY <3>3 DEF SyncSign, SyncVerdict, SyncSucceeds, SyncCancelled, SyncFails, SyncEnds
    <3>4. CASE SyncEnqueue \/ SyncAppend \/ SyncDrain \/ SyncDrainWrite
      BY <3>4 DEF SyncEnqueue, SyncAppend, SyncDrain, SyncDrainWrite
    <3>5. CASE SyncSkip \/ SyncSendFenced
      BY <3>5 DEF SyncSkip, SyncSendFenced, Defer, Drop
    <3>6. CASE SyncDelivered \/ SyncUnanswered \/ SyncRefused
      BY <3>6 DEF SyncDelivered, SyncUnanswered, SyncRefused, Defer, Drop, Deliver
    <3> QED
      BY <2>1, <3>1, <3>2, <3>3, <3>4, <3>5, <3>6 DEF SyncStep
  <2>2. ASSUME drain' \in {drain, IdleDrain} PROVE drain'.flight \subseteq drain.flight
    BY <2>2 DEF IdleDrain
  <2>3. CASE ~SyncStep
    BY <2>2, <2>3, PairFrame, UnpairFrame
    DEF Next, Pair, SyncNow, Unpair, WorkerStops, GatewayRevokes, vars, sync
  <2> QED
    BY <2>1, <2>3
<1> QED
  BY <1>1, InductiveInvariant, PTL DEF Spec, NoUploadOnceUnpairing

\* With no registration the outbox only shrinks.
THEOREM NothingIsQueuedUnpaired == Spec => NoEnqueueWithoutRegistration
<1>1. Inductive /\ [Next]_vars => [registration = NoKey => outbox' \subseteq outbox]_vars
  <2> SUFFICES ASSUME Inductive, [Next]_vars, registration = NoKey
               PROVE  outbox' \subseteq outbox
    OBVIOUS
  <2>1. CASE SyncStep
    <3>1. ~SyncAppend /\ ~SyncDrainWrite
      BY DEF Inductive, RunKeepsItsDevice, UploadingPcs, SyncPcs, SyncAppend, SyncDrainWrite
    <3> QED
      BY <2>1, <3>1
      DEF SyncStep, SyncReadRegistration, SyncProvider, SyncSources, SyncCollect, SyncSeal,
          SyncSign, SyncEnqueue, SyncDrain, SyncSkip, SyncSend, SyncSendFenced, SyncDelivered,
          SyncUnanswered, SyncRefused, SyncVerdict, SyncSucceeds, SyncCancelled, SyncFails, stored
  <2>2. CASE UnpairStep
    BY <2>2
    DEF UnpairStep, UnpairAwaitPair, UnpairAwaitSync, UnpairRead, UnpairReadFails, UnpairSeal,
        UnpairSealFails, UnpairRevoked, UnpairUnknownDevice, UnpairUnconfirmed, DestroyOutbox,
        DestroyIdentity, UnpairEnds, stored
  <2>3. CASE ~SyncStep /\ ~UnpairStep
    BY <2>3, PairFrame DEF Next, Pair, SyncNow, Unpair, WorkerStops, GatewayRevokes, vars, stored
  <2> QED
    BY <2>1, <2>2, <2>3
<1> QED
  BY <1>1, InductiveInvariant, PTL DEF Spec, NoEnqueueWithoutRegistration

\* A successful unpair has left no key, no registration and no envelope.
THEOREM UnpairDestroysAll == Spec => UnpairLeavesNothing
<1> DEFINE Ok == unpairRun'.result = "ok" /\ unpairRun.result # "ok" =>
                   identity' = NoKey /\ registration' = NoKey /\ outbox' = {}
<1>1. Inductive /\ [Next]_vars => [Ok]_vars
  <2> SUFFICES ASSUME Inductive, [Next]_vars, unpairRun'.result = "ok", unpairRun.result # "ok"
               PROVE  identity' = NoKey /\ registration' = NoKey /\ outbox' = {}
    OBVIOUS
  <2>0. unpairRun \in UnpairRuns
    BY DEF Inductive, TypeOK
  <2>1. CASE UnpairEnds
    <3>1. unpairRun.pc = "destroy" /\ unpairRun.pending = {} /\ unpairRun.cleanup = "ok"
      BY <2>0, <2>1 DEF UnpairEnds, CleanupFailed, IdleUnpair, UnpairRuns
    <3> QED
      BY <2>1, <3>1 DEF Inductive, DestroyedIsGone, UnpairEnds, stored
  <2>2. CASE UnpairStep /\ ~UnpairEnds
    BY <2>0, <2>2
    DEF UnpairRuns, UnpairStep, UnpairAwaitPair, UnpairAwaitSync, UnpairRead, UnpairReadFails,
        UnpairSeal, UnpairSealFails, UnpairRevoked, UnpairUnknownDevice, UnpairUnconfirmed,
        DestroyOutbox, DestroyIdentity, UnpairMoves, UnpairDestroys, IdleUnpair
  <2>3. CASE ~UnpairStep
    BY <2>3, PairFrame, SyncFrame
    DEF Next, Pair, SyncNow, Unpair, WorkerStops, GatewayRevokes, vars, IdleUnpair
  <2> QED
    BY <2>1, <2>2, <2>3
<1> QED
  BY <1>1, InductiveInvariant, PTL DEF Spec, UnpairLeavesNothing

\* A run that reports success lost none of its envelopes.
THEOREM SuccessKeepsEveryEnvelope == Spec => SuccessLosesNothing
<1> DEFINE Kept == syncRun.pc = "status" /\ syncRun'.result = "ok" =>
                     \A i \in 1..syncRun.chunks : \E e \in accepted \cup outbox :
                        e.run = syncRun.id /\ e.chunk = i
<1>1. Inductive => Kept
  BY DEF Inductive, RunLosesNothing, OwnIn
<1>2. Inductive /\ [Next]_vars => [Kept]_vars
  BY <1>1
<1> QED
  BY <1>2, InductiveInvariant, PTL DEF Spec, SuccessLosesNothing

-----------------------------------------------------------------------------

(***************************************************************************)
(* GatewayController implements GatewayContract, for every number of keys, *)
(* runs, chunks and unpairs: under the mapping GatewayController!Contract  *)
(* every step of pair, runSync and runUnpair is a step of the contract or  *)
(* a stutter.  Inductive says why an unpair is alone; about the run the    *)
(* mapping needs to know when its copy of the outbox is empty.             *)
(***************************************************************************)
PassPcs == {"append", "send", "reply", "verdict", "status"}

\* The locals of the outbox pass are in use only while the run enqueues, drains and judges the
\* pass, and one upload is under way only while its answer is awaited.
PassOnlyInUse ==
  /\ syncRun.pc \notin PassPcs => drain = IdleDrain
  /\ syncRun.pc # "reply" => drain.flight = {}

\* A run has no device before it reads the registration.
BindsOnce == syncRun.pc \in {"idle", "registration"} => syncRun.device = NoKey

RunLocals == PassOnlyInUse /\ BindsOnce

(***************************************************************************)
(* The invariant of the run's locals.                                      *)
(***************************************************************************)
\* The pass is over a copy of the outbox and the flight is empty again when an answer is in.
LEMMA PassAfter ==
  ASSUME drain \in Drains, NEW e, NEW code, Defer(e) \/ Drop(e, code) \/ Deliver(e)
  PROVE  drain'.flight = {}
BY DEF Drains, Defer, Drop, Deliver

\* Steps keep RunLocals.
LEMMA RunLocalsStep == Inductive /\ RunLocals /\ [Next]_vars => RunLocals'
<1> SUFFICES ASSUME Inductive, RunLocals, [Next]_vars PROVE RunLocals'
  OBVIOUS
<1>0. syncRun \in SyncRuns /\ drain \in Drains
  BY DEF Inductive, TypeOK
<1>1. CASE UNCHANGED <<syncRun, drain>>
  BY <1>1 DEF RunLocals, PassOnlyInUse, BindsOnce, PassPcs
<1>2. CASE SyncNow
  BY <1>2 DEF SyncNow, IdleSync, RunLocals, PassOnlyInUse, BindsOnce, PassPcs
<1>3. CASE WorkerStops
  BY <1>3 DEF WorkerStops, IdleSync, IdleDrain, RunLocals, PassOnlyInUse, BindsOnce, PassPcs
<1>4. CASE SyncStep
  <2> USE <1>0 DEF RunLocals, PassOnlyInUse, BindsOnce, PassPcs, SyncRuns, SyncPcs, SyncMoves
  <2>a. ASSUME NEW result, NEW state, NEW code, SyncEnds(result, state, code)
        PROVE  RunLocals'
    BY <2>a DEF SyncEnds, IdleSync, IdleDrain
  <2>1. CASE SyncReadRegistration
    BY <2>1 DEF SyncReadRegistration
  <2>2. CASE SyncProvider \/ SyncSources
    BY <2>2 DEF SyncProvider, SyncSources
  <2>3. CASE SyncCollect
    BY <2>3 DEF SyncCollect
  <2>4. CASE SyncSeal
    BY <2>4 DEF SyncSeal
  <2>5. CASE SyncSign
    BY <2>5, <2>a DEF SyncSign
  <2>6. CASE SyncEnqueue
    BY <2>6 DEF SyncEnqueue, IdleDrain, Drains
  <2>7. CASE SyncAppend
    BY <2>7 DEF SyncAppend, IdleDrain
  <2>8. CASE SyncDrain
    BY <2>8 DEF SyncDrain, IdleDrain
  <2>9. CASE SyncSkip \/ SyncSendFenced
    <3>1. PICK e \in drain.read : Defer(e) \/ Drop(e, "other")
      BY <2>9 DEF SyncSkip, SyncSendFenced
    <3> QED
      BY <2>9, <3>1, PassAfter DEF SyncSkip, SyncSendFenced
  <2>10. CASE SyncSend
    BY <2>10 DEF SyncSend
  <2>11. CASE SyncDelivered
    BY <2>11, PassAfter DEF SyncDelivered
  <2>12. CASE SyncUnanswered
    BY <2>12, PassAfter DEF SyncUnanswered
  <2>13. CASE SyncRefused
    BY <2>13, PassAfter DEF SyncRefused
  <2>14. CASE SyncDrainWrite
    BY <2>14 DEF SyncDrainWrite
  <2>15. CASE SyncVerdict
    BY <2>15, <2>a DEF SyncVerdict
  <2>16. CASE SyncSucceeds \/ SyncCancelled \/ SyncFails
    BY <2>16, <2>a DEF SyncSucceeds, SyncCancelled, SyncFails
  <2> QED
    BY <1>4, <2>1, <2>2, <2>3, <2>4, <2>5, <2>6, <2>7, <2>8, <2>9, <2>10, <2>11, <2>12, <2>13,
       <2>14, <2>15, <2>16 DEF SyncStep
<1>5. Pair \/ Unpair \/ (\E k \in Keys : GatewayRevokes(k)) \/ UNCHANGED vars
        => UNCHANGED <<syncRun, drain>>
  BY DEF Pair, Unpair, GatewayRevokes, vars, sync
<1> QED
  BY <1>1, <1>2, <1>3, <1>4, <1>5, PairFrame, UnpairFrame DEF Next

\* The locals of a run are what their program counter says, in every reachable state.
LEMMA RunLocalsInvariant == Spec => [](Inductive /\ RunLocals)
<1>1. Init => RunLocals
  BY DEF Init, IdleSync, IdleDrain, RunLocals, PassOnlyInUse, BindsOnce
<1> QED
  BY <1>1, InductiveInvariant, RunLocalsStep, PTL DEF Spec

(***************************************************************************)
(* The mapped state, field by field, before and after a step.              *)
(***************************************************************************)

\* What the mapping makes of a typed state.
LEMMA Views ==
  ASSUME TypeOK
  PROVE  /\ RunView \in Contract!RunStates
         /\ RunView.on = (syncRun.pc # "idle")
         /\ RunView.live = (syncRun.pc # "idle" /\ syncRun.epoch = syncEpoch)
         /\ RunView.device = syncRun.device
         /\ RunView.allowed = (syncRun.pc \in AllowedPcs)
         /\ RunView.seen = SeenDevices
         /\ RunView.result = syncRun.result
         /\ PairingView \in Contract!PairingStates
         /\ PairingView.on = (pairRun.pc # "idle")
         /\ PairingView.result = pairRun.result
         /\ UnpairingView \in Contract!UnpairingStates
         /\ (UnpairingView.phase = "idle") = (unpairRun.pc = "idle")
         /\ (UnpairingView.phase = "waiting") = (unpairRun.pc \in {"awaitPair", "awaitSync"})
         /\ UnpairingView.result = unpairRun.result
<1>1. /\ syncRun.device \in Keys \cup {NoKey}
      /\ syncRun.result \in {"none", "ok", "cancelled", "revoked", "failed"}
      /\ SeenDevices \in SUBSET Keys
  BY DEF TypeOK, SyncRuns, SeenDevices, Drains, Envelope
<1>2. pairRun.result \in {"none", "ok", "failed"} /\ unpairRun.result \in {"none", "ok", "failed"}
  BY DEF TypeOK, PairRuns, UnpairRuns
<1>3. /\ RunView \in Contract!RunStates
      /\ RunView.on = (syncRun.pc # "idle")
      /\ RunView.live = (syncRun.pc # "idle" /\ syncRun.epoch = syncEpoch)
      /\ RunView.device = syncRun.device
      /\ RunView.allowed = (syncRun.pc \in AllowedPcs)
      /\ RunView.seen = SeenDevices
      /\ RunView.result = syncRun.result
  BY <1>1 DEF RunView, Contract!RunStates, Fenced
<1>4. /\ PairingView \in Contract!PairingStates
      /\ PairingView.on = (pairRun.pc # "idle")
      /\ PairingView.result = pairRun.result
  BY <1>2 DEF PairingView, Contract!PairingStates
<1>5. /\ UnpairingView \in Contract!UnpairingStates
      /\ (UnpairingView.phase = "idle") = (unpairRun.pc = "idle")
      /\ (UnpairingView.phase = "waiting") = (unpairRun.pc \in {"awaitPair", "awaitSync"})
      /\ UnpairingView.result = unpairRun.result
  BY <1>2 DEF UnpairingView, Contract!UnpairingStates
<1> QED
  BY <1>3, <1>4, <1>5

LEMMA ViewsAfter ==
  ASSUME TypeOK'
  PROVE  /\ RunView' \in Contract!RunStates
         /\ RunView'.on = (syncRun'.pc # "idle")
         /\ RunView'.live = (syncRun'.pc # "idle" /\ syncRun'.epoch = syncEpoch')
         /\ RunView'.device = syncRun'.device
         /\ RunView'.allowed = (syncRun'.pc \in AllowedPcs)
         /\ RunView'.seen = SeenDevices'
         /\ RunView'.result = syncRun'.result
         /\ PairingView' \in Contract!PairingStates
         /\ PairingView'.on = (pairRun'.pc # "idle")
         /\ PairingView'.result = pairRun'.result
         /\ UnpairingView' \in Contract!UnpairingStates
         /\ (UnpairingView'.phase = "idle") = (unpairRun'.pc = "idle")
         /\ (UnpairingView'.phase = "waiting") = (unpairRun'.pc \in {"awaitPair", "awaitSync"})
         /\ UnpairingView'.result = unpairRun'.result
<1>1. /\ syncRun'.device \in Keys \cup {NoKey}
      /\ syncRun'.result \in {"none", "ok", "cancelled", "revoked", "failed"}
      /\ SeenDevices' \in SUBSET Keys
  BY DEF TypeOK, SyncRuns, SeenDevices, Drains, Envelope
<1>2. pairRun'.result \in {"none", "ok", "failed"} /\ unpairRun'.result \in {"none", "ok", "failed"}
  BY DEF TypeOK, PairRuns, UnpairRuns
<1>3. /\ RunView' \in Contract!RunStates
      /\ RunView'.on = (syncRun'.pc # "idle")
      /\ RunView'.live = (syncRun'.pc # "idle" /\ syncRun'.epoch = syncEpoch')
      /\ RunView'.device = syncRun'.device
      /\ RunView'.allowed = (syncRun'.pc \in AllowedPcs)
      /\ RunView'.seen = SeenDevices'
      /\ RunView'.result = syncRun'.result
  BY <1>1 DEF RunView, Contract!RunStates, Fenced
<1>4. /\ PairingView' \in Contract!PairingStates
      /\ PairingView'.on = (pairRun'.pc # "idle")
      /\ PairingView'.result = pairRun'.result
  BY <1>2 DEF PairingView, Contract!PairingStates
<1>5. /\ UnpairingView' \in Contract!UnpairingStates
      /\ (UnpairingView'.phase = "idle") = (unpairRun'.pc = "idle")
      /\ (UnpairingView'.phase = "waiting") = (unpairRun'.pc \in {"awaitPair", "awaitSync"})
      /\ UnpairingView'.result = unpairRun'.result
  BY <1>2 DEF UnpairingView, Contract!UnpairingStates
<1> QED
  BY <1>3, <1>4, <1>5

\* A step that leaves a call alone leaves its view alone.
LEMMA ViewsFramed ==
  /\ UNCHANGED outbox => UNCHANGED QueuedDevices
  /\ UNCHANGED drain => UNCHANGED <<SendingDevices, SeenDevices>>
  /\ UNCHANGED <<syncRun, syncEpoch, drain>> => UNCHANGED RunView
  /\ UNCHANGED pairRun => UNCHANGED PairingView
  /\ UNCHANGED unpairRun => UNCHANGED UnpairingView
BY DEF QueuedDevices, SendingDevices, SeenDevices, RunView, PairingView, UnpairingView, Fenced

Unseen == UNCHANGED <<registration, QueuedDevices, SendingDevices, RunView, PairingView,
                      UnpairingView>>
Allowed == Contract!ContractNext \/ Unseen

(***************************************************************************)
(* pair(): the outcome is what the contract sees.                          *)
(***************************************************************************)
LEMMA PairImplements ==
  ASSUME Inductive, TypeOK', PairStep
  PROVE  Allowed
<1>0. /\ TypeOK
      /\ UNCHANGED <<QueuedDevices, SendingDevices, RunView, UnpairingView>>
      /\ PairingView \in Contract!PairingStates /\ PairingView.on
      /\ PairingView.result = pairRun.result
      /\ pairRun \in PairRuns
  BY PairFrame, Views, ViewsFramed DEF Inductive, TypeOK
<1>1. ASSUME pairRun'.pc # "idle", pairRun'.result = pairRun.result, UNCHANGED registration
      PROVE  Allowed
  <2>1. PairingView' \in Contract!PairingStates /\ PairingView'.on /\ PairingView'.result = pairRun.result
    BY <1>1, ViewsAfter
  <2>2. PairingView' = PairingView
    BY <1>0, <2>1 DEF Contract!PairingStates
  <2> QED
    BY <1>0, <1>1, <2>2 DEF Allowed, Unseen
<1>2. ASSUME pairRun' = [IdlePair EXCEPT !.result = "failed"], UNCHANGED registration
      PROVE  Allowed
  <2>1. pairRun'.pc = "idle" /\ pairRun'.result = "failed"
    BY <1>2 DEF IdlePair
  <2>2. PairingView' = [on |-> FALSE, result |-> "failed"]
    BY <2>1, ViewsAfter DEF Contract!PairingStates
  <2>3. Contract!FailPairing
    BY <1>0, <1>2, <2>2 DEF Contract!FailPairing
  <2> QED
    BY <2>3 DEF Allowed, Contract!ContractNext, Contract!ControllerStep
<1>3. CASE PairCheckFails \/ PairAnswerLost \/ PairRefused \/ PairSaveFails
  BY <1>2, <1>3 DEF PairCheckFails, PairAnswerLost, PairRefused, PairSaveFails, stored
<1>4. CASE PairCheck \/ PairIdentity \/ PairConfirmed
  BY <1>0, <1>1, <1>4 DEF PairCheck, PairIdentity, PairConfirmed, PairRuns, stored
<1>5. CASE PairSeal
  BY <1>0, <1>1, <1>2, <1>5 DEF PairSeal, PairRuns
<1>6. CASE PairSave
  <2>1. pairRun'.pc = "idle" /\ pairRun'.result = "ok"
    BY <1>6 DEF PairSave, IdlePair
  <2>2. PairingView' = [on |-> FALSE, result |-> "ok"]
    BY <2>1, ViewsAfter DEF Contract!PairingStates
  <2>3. registration = NoKey /\ registration' \in Keys
    BY <1>0, <1>6 DEF PairSave, Inductive, PairingKeepsItsKey, PairRuns
  <2>4. Contract!SavePairing
    BY <1>0, <2>2, <2>3 DEF Contract!SavePairing
  <2> QED
    BY <2>4 DEF Allowed, Contract!ContractNext, Contract!ControllerStep
<1> QED
  BY <1>3, <1>4, <1>5, <1>6 DEF PairStep

(***************************************************************************)
(* unpair(): once it is past its waiting it is alone.                      *)
(***************************************************************************)
LEMMA UnpairImplements ==
  ASSUME Inductive, TypeOK', UnpairStep
  PROVE  Allowed
<1>0. /\ TypeOK /\ unpairRun \in UnpairRuns
      /\ UNCHANGED <<SendingDevices, RunView, PairingView>>
      /\ UnpairingView \in Contract!UnpairingStates /\ UnpairingView.result = unpairRun.result
      /\ unpairRun.pc \in {"awaitPair", "awaitSync"} => UnpairingView.phase = "waiting"
      /\ unpairRun.pc \in DestroyingPcs => UnpairingView.phase = "alone"
      /\ UnpairingView' \in Contract!UnpairingStates /\ UnpairingView'.result = unpairRun'.result
      /\ unpairRun'.pc \in {"awaitPair", "awaitSync"} => UnpairingView'.phase = "waiting"
      /\ unpairRun'.pc \in DestroyingPcs => UnpairingView'.phase = "alone"
      /\ unpairRun'.pc = "idle" => UnpairingView'.phase = "idle"
  BY UnpairFrame, Views, ViewsAfter, ViewsFramed
  DEF Inductive, TypeOK, Contract!UnpairingStates, DestroyingPcs
<1>1. ASSUME \/ unpairRun.pc = "awaitPair" /\ unpairRun'.pc = "awaitSync"
             \/ unpairRun.pc \in DestroyingPcs /\ unpairRun'.pc \in DestroyingPcs,
             unpairRun'.result = unpairRun.result
      PROVE  UnpairingView' = UnpairingView
  BY <1>0, <1>1 DEF Contract!UnpairingStates, DestroyingPcs
<1>2. ASSUME NEW result \in {"ok", "failed"},
             unpairRun.pc \in DestroyingPcs, unpairRun' = [IdleUnpair EXCEPT !.result = result],
             UNCHANGED <<registration, outbox>>,
             result = "ok" => registration = NoKey /\ outbox = {}
      PROVE  Allowed
  <2>1. unpairRun'.pc = "idle" /\ unpairRun'.result = result
    BY <1>2 DEF IdleUnpair
  <2>2. UnpairingView' = [phase |-> "idle", result |-> result]
    BY <1>0, <2>1 DEF Contract!UnpairingStates
  <2>3. UNCHANGED QueuedDevices /\ (result = "ok" => QueuedDevices = {})
    BY <1>2 DEF QueuedDevices
  <2>4. Contract!EndUnpair(result)
    BY <1>0, <1>2, <2>2, <2>3 DEF Contract!EndUnpair
  <2> QED
    BY <2>4 DEF Allowed, Contract!ContractNext, Contract!ControllerStep
<1>3. CASE UnpairAwaitPair
  <2>1. UnpairingView' = UnpairingView
    BY <1>0, <1>1, <1>3 DEF UnpairAwaitPair, UnpairMoves, UnpairRuns
  <2> QED
    BY <1>0, <1>3, <2>1, ViewsFramed DEF UnpairAwaitPair, Allowed, Unseen, stored
<1>4. CASE UnpairAwaitSync
  <2>1. unpairRun.pc = "awaitSync" /\ unpairRun'.pc = "read" /\ unpairRun'.result = unpairRun.result
    BY <1>0, <1>4 DEF UnpairAwaitSync, UnpairMoves, UnpairRuns
  <2>2. UnpairingView' = [UnpairingView EXCEPT !.phase = "alone"]
    BY <1>0, <2>1 DEF Contract!UnpairingStates, DestroyingPcs
  <2>3. ~RunView.on /\ ~PairingView.on
    BY <1>0, <1>4, <2>1, Views DEF UnpairAwaitSync, SyncSettled, Inductive, UnpairWaits
  <2>4. Contract!UnpairAlone
    BY <1>0, <1>4, <2>1, <2>2, <2>3, ViewsFramed
    DEF Contract!UnpairAlone, UnpairAwaitSync, stored
  <2> QED
    BY <2>4 DEF Allowed, Contract!ContractNext, Contract!ControllerStep
<1>5. CASE \/ UnpairRead \/ UnpairSeal \/ UnpairSealFails
           \/ UnpairRevoked \/ UnpairUnknownDevice \/ UnpairUnconfirmed
  <2>1. /\ unpairRun.pc \in DestroyingPcs /\ unpairRun'.pc \in DestroyingPcs
        /\ unpairRun'.result = unpairRun.result
    BY <1>0, <1>5 DEF UnpairRead, UnpairSeal, UnpairSealFails, UnpairRevoked, UnpairUnknownDevice,
       UnpairUnconfirmed, UnpairDestroys, UnpairRuns, DestroyingPcs
  <2>2. UNCHANGED <<registration, outbox>>
    BY <1>5 DEF UnpairRead, UnpairSeal, UnpairSealFails, UnpairRevoked, UnpairUnknownDevice,
       UnpairUnconfirmed, stored
  <2> QED
    BY <1>0, <1>1, <2>1, <2>2, ViewsFramed DEF Allowed, Unseen
<1>6. CASE UnpairReadFails
  BY <1>2, <1>6 DEF UnpairReadFails, DestroyingPcs, stored
<1>7. CASE DestroyOutbox
  <2>1. /\ unpairRun.pc = "destroy" /\ unpairRun'.pc = "destroy"
        /\ unpairRun'.result = unpairRun.result
    BY <1>0, <1>7 DEF DestroyOutbox, UnpairRuns
  <2>2. UnpairingView' = UnpairingView /\ UnpairingView.phase = "alone" /\ UNCHANGED registration
    BY <1>0, <1>1, <1>7, <2>1 DEF DestroyingPcs, DestroyOutbox
  <2>3. QueuedDevices' = {} \/ UNCHANGED QueuedDevices
    BY <1>7 DEF DestroyOutbox, QueuedDevices
  <2>4. Contract!ClearQueue \/ Unseen
    BY <1>0, <2>2, <2>3 DEF Contract!ClearQueue, Unseen
  <2> QED
    BY <2>4 DEF Allowed, Contract!ContractNext, Contract!ControllerStep
<1>8. CASE DestroyIdentity
  <2>1. /\ unpairRun.pc = "destroy" /\ unpairRun'.pc = "destroy"
        /\ unpairRun'.result = unpairRun.result
    BY <1>0, <1>8 DEF DestroyIdentity, UnpairRuns
  <2>2. UnpairingView' = UnpairingView /\ UnpairingView.phase = "alone" /\ UNCHANGED QueuedDevices
    BY <1>0, <1>1, <1>8, <2>1, ViewsFramed DEF DestroyingPcs, DestroyIdentity
  <2>3. registration' = NoKey \/ UNCHANGED registration
    BY <1>8 DEF DestroyIdentity, DeleteIdentity
  <2>4. Contract!ForgetRegistration \/ Unseen
    BY <1>0, <2>2, <2>3 DEF Contract!ForgetRegistration, Unseen
  <2> QED
    BY <2>4 DEF Allowed, Contract!ContractNext, Contract!ControllerStep
<1>9. CASE UnpairEnds
  <2>1. PICK result \in {"ok", "failed"} : /\ unpairRun' = [IdleUnpair EXCEPT !.result = result]
                                           /\ result = "ok" => unpairRun.cleanup # "failed"
    BY <1>9 DEF UnpairEnds, CleanupFailed
  <2>2. result = "ok" => registration = NoKey /\ outbox = {}
    BY <1>0, <1>9, <2>1 DEF UnpairEnds, UnpairRuns, Inductive, DestroyedIsGone
  <2> QED
    BY <1>2, <1>9, <2>1, <2>2 DEF UnpairEnds, DestroyingPcs, stored
<1> QED
  BY <1>3, <1>4, <1>5, <1>6, <1>7, <1>8, <1>9 DEF UnpairStep

(***************************************************************************)
(* runSync: the contract sees the device it binds to, its copy of the      *)
(* outbox, the upload under way and the outcome.                           *)
(***************************************************************************)
LEMMA RunImplements ==
  ASSUME Inductive, RunLocals, TypeOK', RunLocals', SyncStep
  PROVE  Allowed
<1>0. /\ TypeOK /\ syncRun \in SyncRuns /\ drain \in Drains /\ syncRun.pc # "idle"
      /\ UNCHANGED <<registration, PairingView, UnpairingView>> /\ syncEpoch' = syncEpoch
      /\ syncRun'.device \in Keys \cup {NoKey}
  BY SyncFrame, ViewsFramed DEF Inductive, TypeOK, SyncRuns
<1>1. /\ RunView \in Contract!RunStates /\ RunView.on /\ RunView.live = ~Fenced
      /\ RunView.device = syncRun.device /\ RunView.allowed = (syncRun.pc \in AllowedPcs)
      /\ RunView.seen = SeenDevices /\ RunView.result = syncRun.result
  BY <1>0, Views DEF Fenced
<1>2. /\ RunView' \in Contract!RunStates
      /\ syncRun'.pc # "idle" /\ syncRun'.epoch = syncRun.epoch =>
           /\ RunView'.on /\ RunView'.live = ~Fenced
      /\ RunView'.device = syncRun'.device
      /\ RunView'.allowed = (syncRun'.pc \in AllowedPcs)
      /\ RunView'.seen = SeenDevices' /\ RunView'.result = syncRun'.result
      /\ syncRun'.pc = "idle" => ~RunView'.on /\ ~RunView'.live /\ ~RunView'.allowed
  BY <1>0, ViewsAfter DEF Fenced, AllowedPcs
<1>3. /\ syncRun.pc # "reply" => SendingDevices = {}
      /\ syncRun'.pc # "reply" => SendingDevices' = {}
  BY DEF RunLocals, PassOnlyInUse, SendingDevices
<1>4. \* The run goes on under the same device.
      ASSUME NEW seen \in SUBSET Keys, seen = SeenDevices',
             syncRun'.pc # "idle", syncRun'.epoch = syncRun.epoch,
             syncRun'.device = syncRun.device, syncRun'.result = syncRun.result,
             syncRun.pc \in AllowedPcs <=> syncRun'.pc \in AllowedPcs
      PROVE  RunView' = [RunView EXCEPT !.seen = seen]
  BY <1>1, <1>2, <1>4 DEF Contract!RunStates
<1>5. ASSUME UNCHANGED <<outbox, drain>>,
             syncRun'.pc # "idle", syncRun'.epoch = syncRun.epoch,
             syncRun'.device = syncRun.device, syncRun'.result = syncRun.result,
             syncRun.pc \in AllowedPcs <=> syncRun'.pc \in AllowedPcs
      PROVE  Allowed
  <2>1. RunView' = RunView
    BY <1>1, <1>2, <1>5, ViewsFramed DEF Contract!RunStates
  <2> QED
    BY <1>0, <1>5, <2>1, ViewsFramed DEF Allowed, Unseen
<1>6. \* The run ends.
      ASSUME NEW result \in {"ok", "cancelled", "revoked", "failed"}, UNCHANGED outbox,
             NEW state, NEW code, SyncEnds(result, state, code),
             syncRun.pc # "reply",
             result = "cancelled" => Fenced,
             result = "ok" => ~Fenced /\ syncRun.pc \in AllowedPcs,
             result = "revoked" => syncRun.pc \in AllowedPcs
      PROVE  Allowed
  <2>1. /\ syncRun'.pc = "idle" /\ syncRun'.device = NoKey /\ syncRun'.result = result
        /\ SeenDevices' = {} /\ SendingDevices' = {}
    BY <1>6 DEF SyncEnds, IdleSync, IdleDrain, SeenDevices, SendingDevices
  <2>2. RunView' = Contract!Ended(result)
    BY <1>2, <2>1 DEF Contract!RunStates, Contract!Ended
  <2>3. Contract!EndRun(result)
    BY <1>0, <1>1, <1>3, <1>6, <2>1, <2>2, ViewsFramed DEF Contract!EndRun
  <2> QED
    BY <2>3 DEF Allowed, Contract!ContractNext, Contract!ControllerStep
<1>7. \* The pass is done with an envelope: deferred, dropped or delivered.
      ASSUME NEW e \in drain.read \cup drain.flight, NEW code, syncRun.pc \in {"send", "reply"},
             syncRun.pc = "reply" => drain.flight \subseteq drain.read,
             Defer(e) \/ Drop(e, code) \/ Deliver(e), UNCHANGED outbox,
             syncRun' = [syncRun EXCEPT !.pc = "send"]
      PROVE  Allowed
  <2>1. /\ syncRun'.pc = "send" /\ syncRun'.epoch = syncRun.epoch
        /\ syncRun'.device = syncRun.device /\ syncRun'.result = syncRun.result
    BY <1>0, <1>7 DEF SyncRuns
  <2>2. drain'.read \cup drain'.keep \subseteq drain.read \cup drain.keep
    <3>1. e \in drain.read
      BY <1>7, <1>0 DEF RunLocals, PassOnlyInUse
    <3>2. drain'.read = drain.read \ {e}
      BY <1>0, <1>7 DEF Drains, Defer, Drop, Deliver
    <3>3. drain'.keep = drain.keep \/ drain'.keep = drain.keep \cup {e}
      BY <1>0, <1>7 DEF Drains, Defer, Drop, Deliver
    <3> QED
      BY <3>1, <3>2, <3>3
  <2>3. SeenDevices' \subseteq SeenDevices
    BY <2>2 DEF SeenDevices
  <2>4. SeenDevices' \in SUBSET Keys
    BY <1>2 DEF Contract!RunStates
  <2>5. RunView' = [RunView EXCEPT !.seen = SeenDevices']
    BY <1>4, <1>7, <2>1, <2>4 DEF AllowedPcs, SyncPcs
  <2>6. Contract!EndUpload
    BY <1>0, <1>1, <1>3, <1>7, <2>1, <2>3, <2>5, ViewsFramed
    DEF Contract!EndUpload, AllowedPcs, SyncPcs
  <2> QED
    BY <2>6 DEF Allowed, Contract!ContractNext, Contract!ControllerStep
<1> USE <1>0
<1>8. CASE SyncReadRegistration
  <2>1. /\ syncRun.device = NoKey /\ syncRun.pc = "registration" /\ syncRun'.pc = "provider"
        /\ syncRun'.device = registration /\ syncRun'.epoch = syncRun.epoch
        /\ syncRun'.result = syncRun.result /\ UNCHANGED <<outbox, drain>>
    BY <1>8 DEF SyncReadRegistration, RunLocals, BindsOnce, SyncRuns, stored
  <2>2. RunView' = [RunView EXCEPT !.device = registration]
    BY <1>1, <1>2, <2>1, ViewsFramed DEF Contract!RunStates, AllowedPcs
  <2>3. Contract!BindRun
    BY <1>1, <2>1, <2>2, ViewsFramed DEF Contract!BindRun
  <2> QED
    BY <2>3 DEF Allowed, Contract!ContractNext, Contract!ControllerStep
<1>9. CASE SyncProvider
  BY <1>5, <1>9 DEF SyncProvider, SyncMoves, SyncRuns, AllowedPcs, stored
<1>10. CASE SyncSources
  <2>1. /\ syncRun.pc = "sources" /\ syncRun'.pc = "collect" /\ ~Fenced
        /\ syncRun'.device = syncRun.device /\ syncRun'.epoch = syncRun.epoch
        /\ syncRun'.result = syncRun.result /\ UNCHANGED <<outbox, drain>>
    BY <1>10 DEF SyncSources, SyncMoves, SyncRuns, stored
  <2>2. RunView' = [RunView EXCEPT !.allowed = TRUE]
    BY <1>1, <1>2, <2>1, ViewsFramed DEF Contract!RunStates, AllowedPcs, SyncPcs
  <2>3. syncRun.device # NoKey
    BY <2>1 DEF Inductive, RunKeepsItsDevice, UploadingPcs, SyncPcs
  <2>4. Contract!AllowRun
    BY <1>1, <2>1, <2>2, <2>3, ViewsFramed DEF Contract!AllowRun
  <2> QED
    BY <2>4 DEF Allowed, Contract!ContractNext
<1>11. CASE SyncCollect
  BY <1>5, <1>11 DEF SyncCollect, SyncRuns, AllowedPcs, SyncPcs, stored
<1>12. CASE SyncSeal
  BY <1>5, <1>12 DEF SyncSeal, SyncRuns, AllowedPcs, SyncPcs
<1>13. CASE SyncSign
  <2>1. CASE SyncMoves("enqueue") /\ UNCHANGED <<outbox, drain>>
    BY <1>5, <1>13, <2>1 DEF SyncSign, SyncMoves, SyncRuns, AllowedPcs, SyncPcs
  <2>2. CASE SyncEnds("failed", "error", "other") /\ UNCHANGED outbox
    BY <1>6, <1>13, <2>2 DEF SyncSign
  <2> QED
    BY <1>13, <2>1, <2>2 DEF SyncSign
<1>14. CASE SyncEnqueue \/ SyncDrain
  <2>1. /\ syncRun.pc \in {"enqueue", "drain"} /\ syncRun'.pc \in {"append", "send"} /\ ~Fenced
        /\ syncRun'.device = syncRun.device /\ syncRun'.epoch = syncRun.epoch
        /\ syncRun'.result = syncRun.result /\ UNCHANGED outbox
    BY <1>14 DEF SyncEnqueue, SyncDrain, SyncMoves, SyncRuns, stored
  <2>2. drain'.read = outbox /\ drain'.keep = {}
    BY <1>14, <2>1 DEF SyncEnqueue, SyncDrain, RunLocals, PassOnlyInUse, PassPcs, IdleDrain, Drains
  <2>3. SeenDevices' = QueuedDevices /\ QueuedDevices \in SUBSET Keys
    <3>1. outbox \subseteq Envelope
      BY DEF TypeOK
    <3> QED
      BY <2>2, <3>1 DEF SeenDevices, QueuedDevices, Envelope
  <2>4. RunView' = [RunView EXCEPT !.seen = QueuedDevices]
    BY <1>4, <2>1, <2>3 DEF AllowedPcs, SyncPcs
  <2>5. Contract!ReadQueue
    BY <1>1, <1>3, <2>1, <2>4, ViewsFramed DEF Contract!ReadQueue, AllowedPcs, SyncPcs
  <2> QED
    BY <2>5 DEF Allowed, Contract!ContractNext, Contract!ControllerStep
<1>15. CASE SyncAppend
  <2>1. /\ syncRun.pc = "append" /\ syncRun'.pc \in {"seal", "drain"}
        /\ syncRun'.device = syncRun.device /\ syncRun'.epoch = syncRun.epoch
        /\ syncRun'.result = syncRun.result
    BY <1>15 DEF SyncAppend, SyncRuns
  <2>2. SeenDevices' = {} /\ {} \in SUBSET Keys
    BY <1>15 DEF SyncAppend, IdleDrain, SeenDevices
  <2>3. RunView' = [RunView EXCEPT !.seen = {}]
    BY <1>4, <2>1, <2>2 DEF AllowedPcs, SyncPcs
  <2>4. QueuedDevices' \in SUBSET (SeenDevices \cup {syncRun.device})
    BY <1>15 DEF SyncAppend, QueuedDevices, SeenDevices, SealedEnvelope
  <2>5. Contract!WriteQueue
    BY <1>1, <1>3, <2>1, <2>3, <2>4 DEF Contract!WriteQueue, AllowedPcs, SyncPcs
  <2> QED
    BY <2>5 DEF Allowed, Contract!ContractNext, Contract!ControllerStep
<1>16. CASE SyncSkip \/ SyncSendFenced
  <2>1. PICK e \in drain.read : Defer(e) \/ Drop(e, "other")
    BY <1>16 DEF SyncSkip, SyncSendFenced
  <2>2. syncRun.pc = "send" /\ syncRun' = [syncRun EXCEPT !.pc = "send"] /\ UNCHANGED outbox
    BY <1>16 DEF SyncSkip, SyncSendFenced, SyncRuns, stored
  <2> QED
    BY <1>7, <2>1, <2>2
<1>17. CASE SyncSend
  <2>1. PICK e \in drain.read : drain' = [drain EXCEPT !.flight = {e}]
    BY <1>17 DEF SyncSend
  <2>2. /\ syncRun.pc = "send" /\ syncRun'.pc = "reply" /\ ~Fenced
        /\ syncRun'.device = syncRun.device /\ syncRun'.epoch = syncRun.epoch
        /\ syncRun'.result = syncRun.result /\ UNCHANGED outbox
    BY <1>17 DEF SyncSend, SyncMoves, SyncRuns, stored
  <2>3. SeenDevices' = SeenDevices /\ SendingDevices' = {e.device} /\ e.device \in SeenDevices
    BY <2>1 DEF SeenDevices, SendingDevices, Drains
  <2>4. RunView' = RunView
    BY <1>1, <1>2, <2>2, <2>3 DEF Contract!RunStates, AllowedPcs, SyncPcs
  <2>5. Contract!StartUpload
    BY <1>1, <1>3, <2>2, <2>3, <2>4, ViewsFramed DEF Contract!StartUpload
  <2> QED
    BY <2>5 DEF Allowed, Contract!ContractNext, Contract!ControllerStep
<1>18. CASE SyncDelivered \/ SyncUnanswered \/ SyncRefused
  <2>1. PICK e \in drain.flight, code \in Failures : Defer(e) \/ Drop(e, code) \/ Deliver(e)
    BY <1>18 DEF SyncDelivered, SyncUnanswered, SyncRefused, Failures
  <2>2. /\ syncRun.pc = "reply" /\ syncRun' = [syncRun EXCEPT !.pc = "send"] /\ UNCHANGED outbox
        /\ drain.flight \subseteq drain.read
    BY <1>18 DEF SyncDelivered, SyncUnanswered, SyncRefused, SyncMoves, stored, Inductive,
       RunLosesNothing
  <2> QED
    BY <1>7, <2>1, <2>2
<1>19. CASE SyncDrainWrite
  <2>1. /\ syncRun.pc = "send" /\ syncRun'.pc = "verdict"
        /\ syncRun'.device = syncRun.device /\ syncRun'.epoch = syncRun.epoch
        /\ syncRun'.result = syncRun.result /\ UNCHANGED drain
    BY <1>19 DEF SyncDrainWrite, SyncMoves, SyncRuns
  <2>2. SeenDevices' = SeenDevices /\ SeenDevices \in SUBSET Keys
    BY <1>1, <2>1, ViewsFramed DEF Contract!RunStates
  <2>3. RunView' = [RunView EXCEPT !.seen = SeenDevices]
    BY <1>4, <2>1, <2>2 DEF AllowedPcs, SyncPcs
  <2>4. QueuedDevices' \in SUBSET SeenDevices
    BY <1>19 DEF SyncDrainWrite, QueuedDevices, SeenDevices
  <2>5. Contract!WriteQueue
    BY <1>1, <1>3, <2>1, <2>3, <2>4 DEF Contract!WriteQueue, AllowedPcs, SyncPcs
  <2> QED
    BY <2>5 DEF Allowed, Contract!ContractNext, Contract!ControllerStep
<1>20. CASE SyncVerdict
  <2>1. CASE SyncMoves("status") /\ UNCHANGED drain
    BY <1>5, <1>20, <2>1 DEF SyncVerdict, SyncMoves, SyncRuns, AllowedPcs, SyncPcs, stored
  <2>2. CASE SyncEnds("revoked", "error", "device-revoked")
    BY <1>6, <1>20, <2>2 DEF SyncVerdict, AllowedPcs, SyncPcs, stored
  <2>3. CASE SyncEnds("failed", "error", "other")
    BY <1>6, <1>20, <2>3 DEF SyncVerdict, stored
  <2> QED
    BY <1>20, <2>1, <2>2, <2>3 DEF SyncVerdict
<1>21. CASE SyncSucceeds
  BY <1>6, <1>21 DEF SyncSucceeds, AllowedPcs, SyncPcs, stored
<1>22. CASE SyncCancelled
  BY <1>6, <1>22 DEF SyncCancelled, AssertedPcs, stored
<1>23. CASE SyncFails
  BY <1>6, <1>23 DEF SyncFails, AwaitingPcs, stored
<1> QED
  BY <1>8, <1>9, <1>10, <1>11, <1>12, <1>13, <1>14, <1>15, <1>16, <1>17, <1>18, <1>19, <1>20,
     <1>21, <1>22, <1>23 DEF SyncStep

(***************************************************************************)
(* The rest of Next, and the theorem.                                      *)
(***************************************************************************)
LEMMA ContractStep ==
  Inductive /\ RunLocals /\ Inductive' /\ RunLocals' /\ [Next]_vars => Allowed
<1> SUFFICES ASSUME Inductive, RunLocals, Inductive', RunLocals', [Next]_vars PROVE Allowed
  OBVIOUS
<1>0. TypeOK /\ TypeOK' /\ syncRun \in SyncRuns /\ pairRun \in PairRuns /\ unpairRun \in UnpairRuns
  BY DEF Inductive, TypeOK
<1>1. CASE Pair
  <2>1. pairRun'.pc = "check" /\ pairRun'.result = "none"
    BY <1>1 DEF Pair, IdlePair
  <2>2. PairingView' = [on |-> TRUE, result |-> "none"]
    BY <1>0, <2>1, ViewsAfter DEF Contract!PairingStates
  <2>3. UnpairingView.phase = "idle" /\ ~PairingView.on
    BY <1>0, <1>1, Views DEF Pair
  <2>4. Contract!StartPairing
    BY <1>1, <2>2, <2>3, ViewsFramed DEF Pair, Contract!StartPairing, stored, sync
  <2> QED
    BY <2>4 DEF Allowed, Contract!ContractNext
<1>2. CASE SyncNow
  <2>1. /\ syncRun'.pc = "registration" /\ syncRun'.device = NoKey /\ syncRun'.result = "none"
        /\ syncRun'.epoch = syncEpoch' /\ UNCHANGED <<registration, outbox, drain, pairRun, unpairRun>>
    BY <1>2 DEF SyncNow, IdleSync, stored
  <2>2. drain = IdleDrain
    BY <1>2 DEF SyncNow, RunLocals, PassOnlyInUse, PassPcs
  <2>3. SeenDevices' = {}
    BY <2>1, <2>2 DEF SeenDevices, IdleDrain
  <2> DEFINE ended == Contract!Ended("none")
  <2>4. /\ ended \in Contract!RunStates /\ ended.device = NoKey /\ ~ended.allowed /\ ended.seen = {}
        /\ ended.result = "none"
    BY DEF Contract!RunStates, Contract!Ended
  <2>a. /\ RunView' \in Contract!RunStates /\ RunView'.on /\ RunView'.live /\ ~RunView'.allowed
        /\ RunView'.device = NoKey /\ RunView'.seen = {} /\ RunView'.result = "none"
    <3>1. syncRun'.pc \notin AllowedPcs
      BY <2>1 DEF AllowedPcs
    <3> QED
      BY <1>0, <2>1, <2>3, <3>1, ViewsAfter
  <2>5. RunView' = [ended EXCEPT !.on = TRUE, !.live = TRUE]
    <3> HIDE DEF ended
    <3> QED
      BY <2>4, <2>a DEF Contract!RunStates
  <2>6. UnpairingView.phase = "idle" /\ ~RunView.on
    BY <1>0, <1>2, Views DEF SyncNow
  <2>7. Contract!StartRun
    BY <2>1, <2>5, <2>6, ViewsFramed DEF Contract!StartRun
  <2> QED
    BY <2>7 DEF Allowed, Contract!ContractNext
<1>3. CASE Unpair
  <2>1. /\ unpairRun'.pc = "awaitPair" /\ unpairRun'.result = "none" /\ syncEpoch' = syncEpoch + 1
        /\ UNCHANGED <<registration, outbox, drain, pairRun, syncRun>>
    BY <1>3 DEF Unpair, RaiseFence, IdleUnpair, stored
  <2>2. UnpairingView' = [phase |-> "waiting", result |-> "none"]
    BY <1>0, <2>1, ViewsAfter DEF Contract!UnpairingStates
  <2>3. ~RunView'.live
    <3>1. syncRun'.pc # "idle" => syncRun'.epoch # syncEpoch'
      BY <1>0, <2>1 DEF Inductive, RunsBehindUnpair, TypeOK, SyncRuns
    <3> QED
      BY <1>0, <3>1, ViewsAfter
  <2>4. RunView' = [RunView EXCEPT !.live = FALSE]
    BY <1>0, <2>1, <2>3, Views, ViewsAfter, ViewsFramed DEF Contract!RunStates
  <2>5. UnpairingView.phase = "idle"
    BY <1>0, <1>3, Views DEF Unpair
  <2>6. Contract!StartUnpair
    BY <2>1, <2>2, <2>4, <2>5, ViewsFramed DEF Contract!StartUnpair
  <2> QED
    BY <2>6 DEF Allowed, Contract!ContractNext
<1>4. CASE WorkerStops
  <2>1. /\ syncRun'.pc = "idle" /\ syncRun'.device = NoKey /\ syncRun'.result = "none"
        /\ pairRun'.pc = "idle" /\ pairRun'.result = "none"
        /\ unpairRun'.pc = "idle" /\ unpairRun'.result = "none"
        /\ UNCHANGED <<registration, outbox>>
    BY <1>4 DEF WorkerStops, IdleSync, IdlePair, IdleUnpair, stored
  <2>2. SeenDevices' = {} /\ SendingDevices' = {}
    BY <1>4 DEF WorkerStops, IdleDrain, SeenDevices, SendingDevices
  <2>3. RunView' = Contract!Ended("none")
    BY <1>0, <2>1, <2>2, ViewsAfter DEF Contract!RunStates, Contract!Ended, AllowedPcs
  <2>4. PairingView' = [on |-> FALSE, result |-> "none"]
    BY <1>0, <2>1, ViewsAfter DEF Contract!PairingStates
  <2>5. UnpairingView' = [phase |-> "idle", result |-> "none"]
    BY <1>0, <2>1, ViewsAfter DEF Contract!UnpairingStates
  <2>6. Contract!StopController
    BY <2>1, <2>2, <2>3, <2>4, <2>5, ViewsFramed DEF Contract!StopController
  <2> QED
    BY <2>6 DEF Allowed, Contract!ContractNext
<1>5. CASE (\E k \in Keys : GatewayRevokes(k)) \/ UNCHANGED vars
  <2>1. UNCHANGED <<registration, outbox, syncRun, syncEpoch, drain, pairRun, unpairRun>>
    BY <1>5 DEF GatewayRevokes, vars, stored, sync
  <2> QED
    BY <2>1, ViewsFramed DEF Allowed, Unseen
<1> QED
  BY <1>0, <1>1, <1>2, <1>3, <1>4, <1>5, PairImplements, UnpairImplements, RunImplements DEF Next

\* Init maps to an initial state of the contract.
LEMMA ContractStart == Init => Contract!ContractInit
<1> SUFFICES ASSUME Init PROVE Contract!ContractInit
  OBVIOUS
<1>0. TypeOK
  BY InitInductive DEF Inductive
<1>1. /\ syncRun.pc = "idle" /\ syncRun.device = NoKey /\ syncRun.result = "none"
      /\ pairRun.pc = "idle" /\ pairRun.result = "none"
      /\ unpairRun.pc = "idle" /\ unpairRun.result = "none"
      /\ registration = NoKey
  BY DEF Init, IdleSync, IdlePair, IdleUnpair
<1>2. SeenDevices = {} /\ SendingDevices = {} /\ QueuedDevices = {}
  BY DEF Init, IdleDrain, SeenDevices, SendingDevices, QueuedDevices
<1>3. RunView = Contract!Ended("none")
  BY <1>0, <1>1, <1>2, Views DEF Contract!RunStates, Contract!Ended, AllowedPcs
<1>4. PairingView = [on |-> FALSE, result |-> "none"]
  BY <1>0, <1>1, Views DEF Contract!PairingStates
<1>5. UnpairingView = [phase |-> "idle", result |-> "none"]
  BY <1>0, <1>1, Views DEF Contract!UnpairingStates
<1> QED
  BY <1>1, <1>2, <1>3, <1>4, <1>5 DEF Contract!ContractInit

\* The controller implements its contract: whatever the interleaving of pair, syncNow and unpair
\* and wherever the worker stops, a fenced run starts no upload and cannot succeed, and unpair
\* destroys only when it is alone (gateway-controller.ts).
THEOREM ControllerImplementsContract == Spec => ImplementsContract
<1>1. Allowed => [Contract!ContractNext]_(Contract!contractVars)
  BY DEF Allowed, Unseen, Contract!contractVars
<1> QED
  BY <1>1, RunLocalsInvariant, ContractStep, ContractStart, PTL
  DEF Spec, ImplementsContract, Contract!ContractSpec
=============================================================================
