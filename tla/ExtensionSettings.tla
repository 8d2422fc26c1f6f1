-------------------------- MODULE ExtensionSettings --------------------------
(***************************************************************************)
(* The settings object in chrome.storage and all who write it: the popup's *)
(* switches, the preferences of the web site, the price engine, the        *)
(* migrations and the unpair handler (shared/storage.ts,                   *)
(* shared/price-engine.ts, popup/popup.ts and background/service-worker.ts)*)
(* Every one of them reads the whole object, waits, and writes it back.    *)
(*                                                                         *)
(* "currency" stands for the currency and the price source, "uploads" for  *)
(* portfolioSyncEnabled and its sources, "buff" for showBetterBuffOnBuff   *)
(* and the other switch like it.  The settings are a function of the       *)
(* fields they have.  External: chrome.storage and the web site.           *)
(***************************************************************************)
EXTENDS Integers, FiniteSets

CONSTANTS
  Currencies, HomeCurrency, \* supported currencies, and DEFAULT_SETTINGS.currency
  MaxJobs,                  \* bound: handlers that ever run
  MaxStorageFailures        \* bound: storage operations that fail

ASSUME SettingsAssumption ==
  HomeCurrency \in Currencies /\ MaxJobs \in Nat /\ MaxStorageFailures \in Nat

VARIABLES
  kept,     \* chrome.storage.local: STORAGE_VERSION and SETTINGS
  status,   \* chrome.storage.local: csboard_settings_sync_status_v2
  engine,   \* priceEngine: its currency
  popup,    \* settings, previous and the job it waits for, if it has one
  job,      \* the handlers of the worker, from beginning to end
  asked,    \* history: the opt-ins the user ever turned on
  failures  \* history: storage operations that failed

settingsVars == <<kept, status, engine, popup, job, asked, failures>>

Switches == {"follow", "buff", "uploads"}
OptIns == {"buff", "uploads"}
Defaults == [currency |-> HomeCurrency, follow |-> TRUE, buff |-> FALSE, uploads |-> FALSE]
CurrentVersion == 3

\* An object of one field, and { ...object, ...patch }.
Only(field, value) == [f \in {field} |-> value]
Laid(patch, object) ==
  [f \in DOMAIN patch \cup DOMAIN object |-> IF f \in DOMAIN patch THEN patch[f] ELSE object[f]]

\* A fresh installation, and the objects older versions left.
Installations ==
  {[version |-> 0, settings |-> <<>>], [version |-> 1, settings |-> Only("currency", HomeCurrency)],
   [version |-> 2, settings |-> Laid(Only("uploads", TRUE),
                                     Laid(Only("follow", FALSE), Only("currency", HomeCurrency)))]}

\* getSettings.
Now == Laid(kept.settings, Defaults)
On(switch) == Now[switch]

Jobs == 1..MaxJobs
IdleJob == [kind |-> "none", pc |-> "new", patch |-> <<>>, seen |-> <<>>, version |-> 0,
            force |-> FALSE]
Finished == [IdleJob EXCEPT !.pc = "done"]
Steps == {"new", "version", "up", "up write", "stamp", "look", "ask", "read", "write", "init",
          "engine read", "engine write", "answer", "done"}
Closed == [shown |-> <<>>, before |-> <<>>, waits |-> 0, restored |-> FALSE]

SettingsTypeOK ==
  /\ kept.version \in 0..CurrentVersion /\ DOMAIN kept.settings \subseteq DOMAIN Defaults
  /\ status \in {"idle", "syncing", "success", "warning", "error", "signed_out"}
  /\ engine \in Currencies
  /\ popup.waits \in 0..MaxJobs /\ \A j \in Jobs : job[j].pc \in Steps
  /\ asked \subseteq OptIns /\ failures \in 0..MaxStorageFailures

SettingsInit ==
  /\ kept \in Installations
  /\ asked = {f \in OptIns : On(f)}
  /\ status = "idle" /\ engine = HomeCurrency /\ popup = Closed
  /\ job = [j \in Jobs |-> IdleJob] /\ failures = 0

Begins(j, new) ==
  /\ job[j] = IdleJob /\ \A i \in 1..(j - 1) : job[i] # IdleJob
  /\ job' = [job EXCEPT ![j] = new]
Goes(j, pc) == job' = [job EXCEPT ![j].pc = pc]
At(j, pc) == job[j].pc = pc

(***************************************************************************)
(* The popup: one change at a time, shown before it is saved.              *)
(***************************************************************************)
PopupOpens ==
  /\ popup' = [Closed EXCEPT !.shown = Now]
  /\ UNCHANGED <<kept, status, engine, job, asked, failures>>

\* What the controls offer; the currency only when the site is not followed, "Sync now" only when
\* it is.
Patches(shown) ==
  {Only(switch, ~shown[switch]) : switch \in Switches}
  \cup (IF shown["follow"] THEN {<<>>}
        ELSE {Only("currency", c) : c \in Currencies \ {shown["currency"]}})

UserChanges(j) ==
  /\ popup.shown # <<>> /\ popup.waits = 0
  /\ \E patch \in Patches(popup.shown) :
       /\ Begins(j, [IdleJob EXCEPT !.kind = "user", !.pc = "read", !.patch = patch,
                                    !.force = patch = <<>>])
       /\ popup' = [shown |-> Laid(patch, popup.shown), before |-> popup.shown, waits |-> j,
                    restored |-> FALSE]
       /\ asked' = asked \cup {f \in OptIns \cap DOMAIN patch : patch[f]}
  /\ UNCHANGED <<kept, status, engine, failures>>

Restored == [Closed EXCEPT !.shown = popup.before, !.restored = TRUE]

\* After ten seconds; the worker goes on.
PopupGivesUp ==
  /\ popup.waits # 0 /\ popup' = Restored
  /\ UNCHANGED <<kept, status, engine, job, asked, failures>>

\* A job ends: the popup that waits for it hears the settings or the error.
Ends(j, ok) ==
  /\ job' = [job EXCEPT ![j] = Finished]
  /\ popup' = IF popup.waits # j THEN popup
              ELSE IF ok THEN [Closed EXCEPT !.shown = Now] ELSE Restored

(***************************************************************************)
(* updateSettings: read, and write what was read with the patch over it.   *)
(***************************************************************************)
MayFail == failures < MaxStorageFailures   \* bound
FailsOnce == MayFail /\ failures' = failures + 1

\* validateSettingsPatch.
ValidPatch(patch) ==
  /\ DOMAIN patch \subseteq DOMAIN Defaults
  /\ \A f \in DOMAIN patch : patch[f] \in IF f = "currency" THEN Currencies ELSE BOOLEAN

\* storageGet: a read that fails looks like a storage without settings.
SettingsRead(j) ==
  /\ At(j, "read") /\ ValidPatch(job[j].patch)
  /\ \/ job' = [job EXCEPT ![j].pc = "write", ![j].seen = kept.settings] /\ UNCHANGED failures
     \/ job' = [job EXCEPT ![j].pc = "write", ![j].seen = <<>>] /\ FailsOnce
  /\ UNCHANGED <<kept, status, engine, popup, asked>>

\* After the write the engine is set up again; the site is asked only if it is followed.
Saved(r, stored) ==
  [r EXCEPT !.pc = "init", !.seen = stored, !.force = r.force /\ stored["follow"]]

SettingsWritten(j) ==
  /\ At(j, "write")
  /\ kept' = [kept EXCEPT !.settings = Laid(job[j].patch, Laid(job[j].seen, Defaults))]
  /\ job' = [job EXCEPT ![j] = IF job[j].kind = "off" THEN Finished
                               ELSE Saved(job[j], kept'.settings)]
  /\ UNCHANGED <<status, engine, popup, asked, failures>>

\* A write that fails ends the handler; a sync with the site says so in its status.
WriteFails(j) ==
  /\ At(j, "write") \/ At(j, "engine read") \/ At(j, "engine write")
  /\ FailsOnce
  /\ IF job[j].kind = "site" THEN status' = "error" /\ Goes(j, "answer") /\ UNCHANGED popup
     ELSE Ends(j, FALSE) /\ UNCHANGED status
  /\ UNCHANGED <<kept, engine, asked>>

\* preparePortfolioPairing and the unpair handler.
UploadsTurnedOff(j) ==
  /\ Begins(j, [IdleJob EXCEPT !.kind = "off", !.pc = "read", !.patch = Only("uploads", FALSE)])
  /\ UNCHANGED <<kept, status, engine, popup, asked, failures>>

(***************************************************************************)
(* The price engine: its own copy of the currency, written over what is    *)
(* stored.                                                                 *)
(***************************************************************************)
EngineUpdated(j) ==
  /\ At(j, "init")
  /\ engine' = job[j].seen["currency"]
  /\ job' = [job EXCEPT ![j].pc = "engine read", ![j].seen = <<>>]
  /\ UNCHANGED <<kept, status, popup, asked, failures>>

EngineReads(j) ==
  /\ At(j, "engine read")
  /\ job' = [job EXCEPT ![j].pc = "engine write", ![j].seen = kept.settings]
  /\ UNCHANGED <<kept, status, engine, popup, asked, failures>>

\* Then a sync says it succeeded, an update asks the site if it is to, or answers.
EngineWritten(j) ==
  /\ At(j, "engine write")
  /\ kept' = [kept EXCEPT !.settings = Laid(Only("currency", engine), job[j].seen)]
  /\ status' = IF job[j].kind = "site" THEN "success" ELSE status
  /\ job' = [job EXCEPT ![j] =
       IF @.kind = "user" /\ @.force
       THEN [IdleJob EXCEPT !.kind = "site", !.pc = "look", !.force = TRUE]
       ELSE [@ EXCEPT !.pc = "answer", !.seen = <<>>]]
  /\ UNCHANGED <<engine, popup, asked, failures>>

Answered(j) ==
  /\ At(j, "answer") /\ Ends(j, TRUE)
  /\ UNCHANGED <<kept, status, engine, asked, failures>>

(***************************************************************************)
(* syncSettingsFromSite.                                                   *)
(***************************************************************************)
SyncLooks(j) ==
  /\ At(j, "look")
  /\ IF On("follow") \/ job[j].force
     THEN /\ status' = "syncing"
          /\ job' = [job EXCEPT ![j].kind = "site", ![j].pc = "ask"]
     ELSE status' = "idle" /\ Goes(j, "answer")
  /\ UNCHANGED <<kept, engine, popup, asked, failures>>

\* The site's answer: nobody signed in, no answer, a currency nobody supports, or a currency.
SiteAnswers(j) ==
  /\ At(j, "ask")
  /\ \/ \E s \in {"signed_out", "error", "warning"} : status' = s /\ Goes(j, "answer")
     \/ /\ \E c \in Currencies :
             job' = [job EXCEPT ![j].pc = "read", ![j].patch = Only("currency", c)]
        /\ UNCHANGED status
  /\ UNCHANGED <<kept, engine, popup, asked, failures>>

(***************************************************************************)
(* runMigrations, at an installation or a start, and then a sync.          *)
(***************************************************************************)
WorkerStarts(j) ==
  /\ Begins(j, [IdleJob EXCEPT !.kind = "start", !.pc = "version"])
  /\ UNCHANGED <<kept, status, engine, popup, asked, failures>>

VersionRead(j) ==
  /\ At(j, "version")
  /\ \E v \in {kept.version} \cup (IF MayFail THEN {0} ELSE {}) :
       /\ failures' = IF v = kept.version THEN failures ELSE failures + 1
       /\ job' = [job EXCEPT ![j].version = v,
                             ![j].pc = IF v = CurrentVersion THEN "look" ELSE "up"]
  /\ UNCHANGED <<kept, status, engine, popup, asked>>

MigrationReads(j) ==
  /\ At(j, "up")
  /\ \/ job' = [job EXCEPT ![j].pc = "up write", ![j].seen = kept.settings] /\ UNCHANGED failures
     \/ job' = [job EXCEPT ![j].pc = "up write", ![j].seen = <<>>] /\ FailsOnce
  /\ UNCHANGED <<kept, status, engine, popup, asked>>

EveryoneOptsIn(seen) == Laid(seen, Laid(Only("uploads", TRUE), Defaults))   \* mutant: old installs are opted in
MigratedFrom(seen) == Laid(seen, Defaults)

\* The first migration writes only where it saw no settings.
MigrationWrites(j) ==
  /\ At(j, "up write")
  /\ kept' = [kept EXCEPT !.settings =
       IF job[j].version = 0 /\ job[j].seen # <<>> THEN @ ELSE MigratedFrom(job[j].seen)]
  /\ job' = [job EXCEPT ![j].pc = "stamp", ![j].seen = <<>>]
  /\ UNCHANGED <<status, engine, popup, asked, failures>>

Stamp(v) == v + 1

MigrationStamped(j) ==
  /\ At(j, "stamp")
  /\ kept' = [kept EXCEPT !.version = Stamp(job[j].version)]
  /\ job' = [job EXCEPT ![j].version = IF @ + 1 = CurrentVersion THEN 0 ELSE @ + 1,
                        ![j].pc = IF job[j].version + 1 = CurrentVersion THEN "look" ELSE "up"]
  /\ UNCHANGED <<status, engine, popup, asked, failures>>

\* A migration that cannot write stops the chain, and what was to come after it.
MigrationFails(j) ==
  /\ At(j, "up write") \/ At(j, "stamp")
  /\ FailsOnce /\ Ends(j, FALSE)
  /\ UNCHANGED <<kept, status, engine, asked>>

\* The worker is stopped: what ran is gone, and the popup that waits gets an error.
WorkerStops ==
  /\ \E j \in Jobs : job[j] \notin {IdleJob, Finished}
  /\ job' = [j \in Jobs |-> IF job[j] = IdleJob THEN IdleJob ELSE Finished]
  /\ engine' = HomeCurrency
  /\ popup' = IF popup.waits = 0 THEN popup ELSE Restored
  /\ UNCHANGED <<kept, status, asked, failures>>

JobStep(j) ==
  \/ SettingsRead(j) \/ SettingsWritten(j) \/ WriteFails(j)
  \/ EngineUpdated(j) \/ EngineReads(j) \/ EngineWritten(j) \/ Answered(j)
  \/ SyncLooks(j) \/ SiteAnswers(j)
  \/ VersionRead(j) \/ MigrationReads(j) \/ MigrationWrites(j) \/ MigrationStamped(j)
  \/ MigrationFails(j)

SettingsNext ==
  \/ PopupOpens \/ PopupGivesUp \/ WorkerStops
  \/ \E j \in Jobs : UserChanges(j) \/ UploadsTurnedOff(j) \/ WorkerStarts(j) \/ JobStep(j)

SettingsSpec == SettingsInit /\ [][SettingsNext]_settingsVars

(***************************************************************************)
(* Properties                                                              *)
(***************************************************************************)
\* What a user has to opt into is on only if this user once turned it on, whatever migrations,
\* overlapping writers, failed reads and stopped workers do to the object.
OptInsAreTheUsers == \A f \in OptIns : On(f) => f \in asked

\* (Violated.) What types.ts:480 calls an explicit opt-in: storage turns uploads on only in the
\* write of a change that turns them on.
UploadsTurnOnWhenAsked ==
  [][ ~On("uploads") /\ On("uploads")' =>
        \E j \in Jobs : At(j, "write") /\ "uploads" \in DOMAIN job[j].patch ]_settingsVars

\* (Violated.) What popup.ts:590 says when it gives up a change: once all handlers are done, the
\* previous value it shows is the one that is stored.
RestoredIsStored ==
  popup.restored /\ (\A j \in Jobs : job[j] \in {IdleJob, Finished}) =>
    \A switch \in Switches : popup.shown[switch] = On(switch)

\* (Violated.) What popup.ts:484 says under a follow switch that is off: no sync with the site
\* overwrites the currency.
OffIsNotOverwritten ==
  [][ ~On("follow") /\ Now["currency"] # Now'["currency"] =>
        \A j \in Jobs : job[j].kind = "site" => UNCHANGED job[j] ]_settingsVars
=============================================================================
