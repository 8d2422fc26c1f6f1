--------------------------- MODULE PortfolioPanel ---------------------------
(***************************************************************************)
(* The popup's portfolio panel (popup/popup.ts) against the handlers of    *)
(* PAIR_DEVICE, UNPAIR_DEVICE and RUN_MANUAL_SYNC                          *)
(* (background/service-worker.ts): the popup waits for ten seconds, or     *)
(* sixty for a sync, and says what came of it; the handlers go on without  *)
(* it.  Their own interleaving is PortfolioService's, so a handler is no   *)
(* more here than what it stores, in its order.                            *)
(*                                                                         *)
(* External: the gateway, IndexedDB, chrome.storage and the user.  The     *)
(* pairing from the web site and the switches are left out.                *)
(***************************************************************************)
EXTENDS Integers, Sequences, FiniteSets

CONSTANTS MaxCalls, MaxFaults  \* bounds: calls of the popup, and operations that fail

ASSUME PanelAssumption == MaxCalls \in Nat /\ MaxFaults \in Nat

Calls == 1..MaxCalls
Local == {"device", "outbox"}  \* the key with its registration, and the encrypted outbox

VARIABLES
  local,      \* what of it is stored
  uploads,    \* portfolioSyncEnabled, as stored
  revoked,    \* the stored status says that the gateway revoked the device
  enrolled,   \* the gateway knows the device
  call,       \* the handlers, from beginning to end
  fenced,     \* portfolioUnpairing
  panel,      \* the popup: what it shows, whether it is busy, the call it waits for
  faults

panelVarsAll == <<local, uploads, revoked, enrolled, call, fenced, panel, faults>>

NoCall == [kind |-> "none", pc |-> "new", awaits |-> {}, failed |-> FALSE]
Over == [NoCall EXCEPT !.pc = "over"]
CallSteps == {"new", "prepare", "clear", "register", "disable", "await", "remote", "destroy",
          "clean", "run", "over"}
States == {"unpaired", "paired", "revoked"}
Notices == {"none", "paired", "pair failed", "unpaired", "unpair failed", "synced", "sync failed"}
Shut == [open |-> FALSE, available |-> FALSE, state |-> "unpaired", uploads |-> FALSE,
         notice |-> "none", waits |-> 0, before |-> {}]

PanelTypeOK ==
  /\ local \subseteq Local /\ {uploads, revoked, enrolled, fenced} \subseteq BOOLEAN
  /\ \A c \in Calls : call[c].pc \in CallSteps /\ call[c].awaits \subseteq Calls
  /\ panel \in [open : BOOLEAN, available : BOOLEAN, state : States, uploads : BOOLEAN,
                notice : Notices, waits : 0..MaxCalls, before : SUBSET Local]
  /\ faults \in 0..MaxFaults

\* An installation that was never paired, or one whose device is paired and uploads.
PanelInit ==
  /\ \/ local = {} /\ uploads = FALSE /\ enrolled = FALSE
     \/ local = {"device"} /\ uploads = TRUE /\ enrolled = TRUE
  /\ revoked = FALSE /\ fenced = FALSE /\ faults = 0
  /\ call = [c \in Calls |-> NoCall] /\ panel = Shut

Fault == faults < MaxFaults /\ faults' = faults + 1  \* bound
NoFault == UNCHANGED faults
Running(kind) == {c \in Calls : call[c].kind = kind}
CallGoes(c, pc) == call' = [call EXCEPT ![c].pc = pc]

(***************************************************************************)
(* The popup.                                                              *)
(***************************************************************************)
\* buildPortfolioPopupStatus.
Connection ==
  IF "device" \notin local THEN "unpaired" ELSE IF revoked THEN "revoked" ELSE "paired"

\* normalizePortfolioStatus and normalizeSettings of good answers.
WithStatus(p) == [p EXCEPT !.available = TRUE, !.state = Connection, !.uploads = uploads]

PanelOpens ==
  /\ panel' = [Shut EXCEPT !.open = TRUE]
  /\ UNCHANGED <<local, uploads, revoked, enrolled, call, fenced, faults>>
\* loadSettings and loadPortfolioStatus; without an answer the panel offers nothing.
StatusLoaded ==
  /\ panel.open /\ ~panel.available /\ panel.waits = 0 /\ panel' = WithStatus(panel)
  /\ UNCHANGED <<local, uploads, revoked, enrolled, call, fenced, faults>>

\* What the buttons call: renderPortfolio.
Offered(kind) ==
  /\ panel.available /\ panel.waits = 0
  /\ CASE kind = "pair" -> panel.state = "unpaired"
       [] kind = "unpair" -> panel.state # "unpaired"
       [] kind = "sync" -> panel.state = "paired" /\ panel.uploads

\* PAIR_DEVICE is refused while an unpair or another pairing runs, or with a device.
Refused(kind) ==
  \/ kind = "pair" /\ (fenced \/ Running("pair") # {} \/ "device" \in local)
  \/ kind = "sync" /\ (fenced \/ ~uploads \/ "device" \notin local)

Said(p, notice) == [p EXCEPT !.waits = 0, !.notice = notice]
FirstStep(kind) == CASE kind = "pair" -> "prepare" [] kind = "unpair" -> "disable"
                     [] kind = "sync" -> "run"

\* The unpair handler raises its fence at once and remembers whom it will wait for.
Clicked(c, kind) ==
  /\ Offered(kind) /\ call[c] = NoCall /\ \A d \in 1..(c - 1) : call[d] # NoCall
  /\ IF Refused(kind)
       THEN /\ panel' = Said(panel, IF kind = "pair" THEN "pair failed" ELSE "sync failed")
            /\ call' = [call EXCEPT ![c] = Over]
       ELSE /\ panel' = [panel EXCEPT !.waits = c, !.notice = "none", !.before = local]
            /\ call' = [call EXCEPT ![c] = [kind |-> kind, pc |-> FirstStep(kind), failed |-> FALSE,
                          awaits |-> IF kind = "unpair" THEN Running("pair") \cup Running("sync")
                                     ELSE {}]]
  /\ fenced' = (fenced \/ kind = "unpair")
  /\ UNCHANGED <<local, uploads, revoked, enrolled, faults>>

\* The notice of a call that failed, or took too long; a sync reads the status again for it.
GivenUp ==
  CASE call[panel.waits].kind = "pair" -> Said(panel, "pair failed")
    [] call[panel.waits].kind = "unpair" -> Said(panel, "unpair failed")
    [] call[panel.waits].kind = "sync" ->
         Said([panel EXCEPT !.available = TRUE, !.state = Connection'], "sync failed")

TimesOut ==
  /\ panel.waits # 0
  /\ UNCHANGED <<local, uploads, revoked, enrolled, call, fenced, faults>>
  /\ panel' = GivenUp

\* The answer of a handler, for the popup if it still waits: a pairing and an unpairing also
\* turn the uploads it shows off.
Answers(c, ok) ==
  /\ call' = [call EXCEPT ![c] = Over]
  /\ panel' =
       IF panel.waits # c THEN panel
       ELSE IF ~ok THEN GivenUp
       ELSE CASE call[c].kind = "pair" ->
                   Said([panel EXCEPT !.state = Connection', !.uploads = FALSE], "paired")
              [] call[c].kind = "unpair" ->
                   Said([panel EXCEPT !.state = Connection', !.uploads = FALSE], "unpaired")
              [] call[c].kind = "sync" -> Said([panel EXCEPT !.state = Connection'], "synced")

(***************************************************************************)
(* performPortfolioPairing.                                                *)
(***************************************************************************)
\* assertPortfolioPairingEpoch: an unpair runs, or has begun since.
Stale(c) == fenced \/ \E d \in Calls : c \in call[d].awaits
\* The controller pairs nobody while it unpairs.
ControllerBusy(c) ==
  \E d \in Running("unpair") : call[d].pc # "clean" /\ c \notin call[d].awaits

PairFails(c) ==
  /\ call[c].pc \in {"prepare", "clear", "register"}
  /\ \/ (IF call[c].pc = "register" THEN ControllerBusy(c) ELSE Stale(c)) /\ NoFault
     \/ Fault
  /\ UNCHANGED <<local, uploads, revoked, enrolled, fenced>>
  /\ Answers(c, FALSE)
PairPrepares(c) ==
  /\ call[c].pc = "prepare" /\ uploads' = FALSE /\ CallGoes(c, "clear")
  /\ UNCHANGED <<local, revoked, enrolled, fenced, panel, faults>>
PairClears(c) ==
  /\ call[c].pc = "clear" /\ ~Stale(c) /\ local' = local \ {"outbox"} /\ CallGoes(c, "register")
  /\ UNCHANGED <<uploads, revoked, enrolled, fenced, panel, faults>>
\* The gateway knows the device and the registration is stored; an unpair that began since then
\* makes it an error, and waits for it.
PairRegisters(c) ==
  /\ call[c].pc = "register" /\ ~ControllerBusy(c)
  /\ enrolled' = TRUE /\ local' = local \cup {"device"}
  /\ revoked' = FALSE /\ Answers(c, ~Stale(c))
  /\ UNCHANGED <<uploads, fenced, faults>>

(***************************************************************************)
(* The unpair handler, and a manual sync.                                  *)
(***************************************************************************)
NotesFailure(c, pc) == call' = [call EXCEPT ![c].pc = pc, ![c].failed = TRUE]

DisablesUploads(c) ==
  /\ call[c].pc = "disable"
  /\ \/ uploads' = FALSE /\ CallGoes(c, "await") /\ NoFault
     \/ NotesFailure(c, "await") /\ Fault /\ UNCHANGED uploads
  /\ UNCHANGED <<local, revoked, enrolled, fenced, panel>>
AwaitsOthers(c) ==
  /\ call[c].pc = "await" /\ \A d \in call[c].awaits : call[d] = Over
  /\ CallGoes(c, IF "device" \in local THEN "remote" ELSE "destroy")
  /\ UNCHANGED <<local, uploads, revoked, enrolled, fenced, panel, faults>>
RevokesRemotely(c) ==
  /\ call[c].pc = "remote"
  /\ \/ enrolled' = FALSE /\ CallGoes(c, "destroy") /\ NoFault
     \/ NotesFailure(c, "destroy") /\ Fault /\ UNCHANGED enrolled
  /\ UNCHANGED <<local, uploads, revoked, fenced, panel>>

KeyWiped == local \ {"device"}  \* a mutant: the outbox is forgotten

\* clearGatewayOutbox and deleteIdentity.
Wiped == {}

\* destroyLocalPairingState, whatever the gateway said: each part for itself.
Destroys(c) ==
  /\ call[c].pc = "destroy"
  /\ \/ local' = Wiped /\ CallGoes(c, "clean") /\ NoFault
     \/ /\ \E kept \in (SUBSET local) \ {{}} : local' = kept
        /\ NotesFailure(c, "clean") /\ Fault
  /\ UNCHANGED <<uploads, revoked, enrolled, fenced, panel>>

\* clearLocalPortfolioPairingArtifacts and the stored status, once more; then the fence falls.
Cleans(c) ==
  /\ call[c].pc = "clean" /\ fenced' = FALSE
  /\ \/ local' = Wiped /\ revoked' = FALSE /\ NoFault /\ Answers(c, ~call[c].failed)
     \/ /\ \E kept \in SUBSET local : local' = kept
        /\ revoked' \in {revoked, FALSE} /\ Fault
        /\ Answers(c, FALSE)
  /\ UNCHANGED <<uploads, enrolled>>

\* The run leaves envelopes for later or not, and may learn that the gateway revoked the device;
\* one that an unpair fences ends without more.
SyncRuns(c) ==
  /\ call[c].pc = "run"
  /\ IF Stale(c) THEN UNCHANGED <<local, revoked>>
     ELSE /\ local' \in {local, local \cup {"outbox"}}
          /\ revoked' \in {revoked, ~enrolled}
  /\ \E ok \in BOOLEAN : Answers(c, ok)
  /\ UNCHANGED <<uploads, enrolled, fenced, faults>>

GatewayForgets ==
  /\ enrolled /\ Fault /\ enrolled' = FALSE
  /\ UNCHANGED <<local, uploads, revoked, call, fenced, panel>>

\* The worker is stopped: the popup that waits gets an error at once.
PanelStopped ==
  /\ \E c \in Calls : call[c] \notin {NoCall, Over}
  /\ call' = [c \in Calls |-> IF call[c] = NoCall THEN NoCall ELSE Over]
  /\ fenced' = FALSE
  /\ UNCHANGED <<local, uploads, revoked, enrolled, faults>>
  /\ panel' = IF panel.waits = 0 THEN panel ELSE GivenUp

PanelNext ==
  \/ PanelOpens \/ StatusLoaded \/ TimesOut \/ GatewayForgets \/ PanelStopped
  \/ \E c \in Calls :
       \/ \E kind \in {"pair", "unpair", "sync"} : Clicked(c, kind)
       \/ PairFails(c) \/ PairPrepares(c) \/ PairClears(c) \/ PairRegisters(c)
       \/ DisablesUploads(c) \/ AwaitsOthers(c) \/ RevokesRemotely(c) \/ Destroys(c) \/ Cleans(c)
       \/ SyncRuns(c)

PanelSpec == PanelInit /\ [][PanelNext]_panelVarsAll

(***************************************************************************)
(* Properties.                                                             *)
(***************************************************************************)
\* "Device unpaired" is true as long as it is shown: no key, no registration and no envelope is
\* left, whatever timed out, overlapped or was stopped before.
UnpairedIsUnpaired == panel.notice = "unpaired" => local = {}

\* (Violated.) What popup.ts:783 says of an unpair that failed: "Nothing was deleted locally."
FailedUnpairDeletesNothing == panel.notice = "unpair failed" => panel.before \subseteq local
=============================================================================
