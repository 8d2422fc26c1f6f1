--------------------------- MODULE MessageRouting ---------------------------
(***************************************************************************)
(* The messages web sites may send the extension                           *)
(* (background/external-router.ts) and the handlers they reach             *)
(* (background/service-worker.ts): a probe of its status, and the two      *)
(* activations, of a device to be paired with a code and of one that is    *)
(* paired.  One activation goes on at a time; one that fails after it      *)
(* began to enable uploads takes them back.  PortfolioService has what the *)
(* handlers do to pairings and syncs in progress; here a handler is what   *)
(* it stores.  External: the sites, the popup and chrome.storage.          *)
(***************************************************************************)
EXTENDS Naturals, Sequences

CONSTANTS MaxMessages, MaxChoices  \* bounds: messages, and what the user does in the popup

ASSUME RoutingAssumption == MaxMessages \in Nat /\ MaxChoices \in Nat

VARIABLES
  messages,  \* what the sites sent, and how far it is
  inFlight,  \* activationInFlight: which, or 0
  device,    \* the registration exists
  consent,   \* portfolioSyncEnabled, as stored
  blocked,   \* portfolioUploadsBlocked
  unpairing, \* portfolioUnpairing
  verdict,   \* what the last activation that came to enable uploads has for its site
  broken,    \* uploads could neither be disabled in storage nor the device destroyed
  choices

routingVars ==
  <<messages, inFlight, device, consent, blocked, unpairing, verdict, broken, choices>>
stored == <<device, consent>>

Sites == {"csboard", "csfolder", "elsewhere"}   \* elsewhere: no origin, or one that is not https
StatusSites == {"csboard"}
PairingSites == {"csfolder"}
Activations == {"pair", "reactivate"}
Asks == Activations \cup {"status", "other"}
Shapes == {"exact", "newer", "bad"}   \* of another version; too long, or with other keys or values
Refusals == {"UNAUTHORIZED_ORIGIN", "INVALID_MESSAGE", "UNSUPPORTED_VERSION", "ACTION_IN_PROGRESS",
             "NOT_PAIRED", "PAIRING_FAILED", "ACTIVATION_FAILED"}
Progress == {"pairing", "preparing", "checking", "clearing", "enabling", "disabling",
             "disabled", "answered"}
Sent == DOMAIN messages

RoutingInit ==
  /\ messages = <<>> /\ inFlight = 0 /\ choices = 0 /\ verdict = "none"
  /\ device \in BOOLEAN /\ consent \in {FALSE, device}
  /\ blocked = FALSE /\ unpairing = FALSE /\ broken = FALSE

(***************************************************************************)
(* The dispatcher.                                                         *)
(***************************************************************************)
Allowed(ask) ==
  CASE ask = "status" -> StatusSites [] ask \in Activations -> PairingSites
    [] OTHER -> StatusSites \cup PairingSites

\* What is answered without a handler, in the order of the checks.
Refusal(sender, ask, shape) ==
  IF sender \notin Allowed(ask) THEN "UNAUTHORIZED_ORIGIN"
  ELSE IF shape = "newer" THEN "UNSUPPORTED_VERSION"
  ELSE IF shape = "bad" \/ ask = "other" THEN "INVALID_MESSAGE"
  ELSE IF ask = "status" THEN "installed" ELSE "none"

NoneTracked(sender, ask, shape) == FALSE   \* mutant: every activation is let in
Tracked(sender, ask, shape) == ask \in Activations /\ sender \in PairingSites /\ shape = "exact"

Replied(answer) == [at |-> "answered", answer |-> answer]
Opened(ask) == [at |-> IF ask = "pair" THEN "pairing" ELSE "checking", answer |-> "none"]

MessageArrives(sender, ask, shape) ==
  LET refusal == Refusal(sender, ask, shape)
      tracked == Tracked(sender, ask, shape)
      taken == tracked /\ inFlight # 0
  IN /\ Len(messages) < MaxMessages   \* bound
     /\ messages' = Append(messages, IF taken THEN Replied("ACTION_IN_PROGRESS")
                                     ELSE IF refusal # "none" THEN Replied(refusal)
                                     ELSE Opened(ask))
     /\ inFlight' = IF tracked /\ ~taken THEN Len(messages') ELSE inFlight
     /\ UNCHANGED <<stored, blocked, unpairing, verdict, broken, choices>>

Reaches(m, at) == messages' = [messages EXCEPT ![m].at = at] /\ UNCHANGED inFlight
Replies(m, answer) ==
  /\ messages' = [messages EXCEPT ![m] = Replied(answer)]
  /\ inFlight' = IF inFlight = m THEN 0 ELSE inFlight

(***************************************************************************)
(* The handlers.                                                           *)
(***************************************************************************)
\* pairPortfolioDevice, of a device that is not: uploads are disabled before it is.
SitePairPrepares(m) ==
  /\ messages[m].at = "pairing"
  /\ \/ ~unpairing /\ ~device /\ consent' = FALSE /\ verdict' = "none" /\ Reaches(m, "preparing")
     \/ Replies(m, "PAIRING_FAILED") /\ UNCHANGED <<consent, verdict>>
  /\ UNCHANGED <<device, blocked, unpairing, broken, choices>>

PairSettles(m) ==
  /\ messages[m].at = "preparing"
  /\ \/ ~unpairing /\ ~device /\ device' = TRUE /\ Reaches(m, "clearing")
     \/ Replies(m, "PAIRING_FAILED") /\ UNCHANGED device
  /\ UNCHANGED <<consent, blocked, unpairing, verdict, broken, choices>>

\* isPaired, which may not be told.
PairingChecked(m) ==
  /\ messages[m].at = "checking"
  /\ \/ ~unpairing /\ device /\ Reaches(m, "clearing")
     \/ (unpairing \/ ~device) /\ Replies(m, "NOT_PAIRED")
     \/ Replies(m, "ACTIVATION_FAILED")
  /\ UNCHANGED <<stored, blocked, unpairing, verdict, broken, choices>>

\* disablePortfolioSync begins: nothing is uploaded from here on.
FailsClosed(m) == Reaches(m, "disabling") /\ blocked' = TRUE /\ verdict' = "none"

\* enablePortfolioSync: the scheduler's state, then the settings.
EnableClears(m) ==
  /\ messages[m].at = "clearing"
  /\ \/ ~unpairing /\ Reaches(m, "enabling") /\ UNCHANGED <<blocked, verdict>>
     \/ FailsClosed(m)
  /\ UNCHANGED <<stored, unpairing, broken, choices>>

\* syncNow starts the run and does not wait for it, so the answer comes with the write.
EnableWrites(m) ==
  /\ messages[m].at = "enabling"
  /\ \/ Replies(m, "syncing") /\ consent' = TRUE /\ blocked' = FALSE /\ verdict' = "on"
     \/ FailsClosed(m) /\ UNCHANGED consent
  /\ UNCHANGED <<device, unpairing, broken, choices>>

\* disablePortfolioSync: the settings, or else the device.
Disables(m) ==
  /\ messages[m].at = "disabling" /\ Reaches(m, "disabled")
  /\ verdict' = IF verdict = "on" THEN "on" ELSE "off"   \* a success told meanwhile is to stand
  /\ \/ consent' = FALSE /\ UNCHANGED <<device, broken>>
     \/ UNCHANGED consent /\ device' \in {FALSE, device} /\ broken' = (broken \/ device')
  /\ UNCHANGED <<blocked, unpairing, choices>>

\* failClosedAfterActivationError: the site is told the same whether that went well or not.
FailureTold(m) ==
  /\ messages[m].at = "disabled" /\ Replies(m, "ACTIVATION_FAILED")
  /\ UNCHANGED <<stored, blocked, unpairing, verdict, broken, choices>>

(***************************************************************************)
(* The popup, and the worker.                                              *)
(***************************************************************************)
UserChooses == choices < MaxChoices /\ choices' = choices + 1 /\ verdict' = "none"   \* bound

PopupEnables ==
  /\ UserChooses /\ ~unpairing /\ consent' = TRUE /\ blocked' = FALSE
  /\ UNCHANGED <<messages, inFlight, device, unpairing, broken>>
PopupDisables ==
  /\ UserChooses /\ blocked' = TRUE /\ consent' \in {FALSE, consent}
  /\ UNCHANGED <<messages, inFlight, device, unpairing, broken>>
PopupPairs ==
  /\ UserChooses /\ ~unpairing /\ ~device /\ device' = TRUE /\ consent' = FALSE
  /\ UNCHANGED <<messages, inFlight, blocked, unpairing, broken>>
UnpairBegins ==
  /\ UserChooses /\ ~unpairing /\ unpairing' = TRUE /\ blocked' = TRUE
  /\ UNCHANGED <<messages, inFlight, stored, broken>>
\* What is in the middle of pairing is waited for.
UnpairEnds ==
  /\ unpairing /\ \A m \in Sent : messages[m].at \notin {"pairing", "preparing"}
  /\ unpairing' = FALSE /\ verdict' = "none"
  /\ device' \in {FALSE, device} /\ consent' \in {FALSE, consent}
  /\ UNCHANGED <<messages, inFlight, blocked, broken, choices>>

RoutingStopped ==
  /\ messages' = [m \in Sent |-> IF messages[m].at = "answered" THEN messages[m]
                                 ELSE Replied("lost")]
  /\ inFlight' = 0 /\ blocked' = FALSE /\ unpairing' = FALSE
  /\ UNCHANGED <<stored, verdict, broken, choices>>

RoutingNext ==
  \/ \E sender \in Sites, ask \in Asks, shape \in Shapes : MessageArrives(sender, ask, shape)
  \/ \E m \in Sent : \/ SitePairPrepares(m) \/ PairSettles(m) \/ PairingChecked(m)
                     \/ EnableClears(m) \/ EnableWrites(m) \/ Disables(m) \/ FailureTold(m)
  \/ PopupEnables \/ PopupDisables \/ PopupPairs \/ UnpairBegins \/ UnpairEnds \/ RoutingStopped

RoutingSpec == RoutingInit /\ [][RoutingNext]_routingVars

\* What an activation told its site stands until the user or a later activation changes it, through
\* stops of the worker as well: uploads are on after a success, and off after a failure unless
\* neither the settings nor the device could be changed.
VerdictStands ==
  /\ verdict = "on" => consent /\ ~blocked
  /\ verdict = "off" /\ ~broken => ~(device /\ consent)

\* (Violated.) A site is told that the device is paired and uploads where it is, and stays so.
PairedMeansPaired == verdict = "on" => device /\ ~unpairing
=============================================================================
