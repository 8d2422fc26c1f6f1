---------------------------- MODULE FurtherParts_proofs ----------------------------
(***************************************************************************)
(* Ten safety invariants that MCFurtherParts checks on small instances,    *)
(* proved for every value of the constants: one of the message router, the *)
(* portfolio panel, the extension settings, the Steam read session, the    *)
(* trade-history page, CSFloat's sell cards, the price engine, the panel   *)
(* that sells the open item, the portfolio collector and the trade-offer   *)
(* page; and the types of all the parts.  Each section states the inductive *)
(* invariant its theorem needs, shows that the component starts in it and  *)
(* that each action keeps it, and ends with the theorem.                   *)
(***************************************************************************)
EXTENDS MCFurtherParts, CSFloatGrid_proofs

(***************************************************************************)
(* MessageRouting.  At most one activation goes on; the verdict is open    *)
(* while it pairs, and no success stands while it disables.                *)
(***************************************************************************)
RoutedMessages == [at : Progress, answer : {"none", "installed", "syncing", "lost"} \cup Refusals]
RoutingTypes ==
  /\ messages \in Seq(RoutedMessages)
  /\ inFlight \in Nat /\ verdict \in {"none", "on", "off"}
  /\ device \in BOOLEAN /\ consent \in BOOLEAN /\ blocked \in BOOLEAN
  /\ unpairing \in BOOLEAN /\ broken \in BOOLEAN

OneActivation ==
  \A m \in Sent :
    /\ messages[m].at # "answered" => inFlight = m
    /\ messages[m].at = "preparing" => verdict = "none"
    /\ messages[m].at = "disabling" => verdict # "on"

RoutingInductive == RoutingTypes /\ OneActivation /\ VerdictStands

LEMMA RoutingBegins == RoutingInit => RoutingInductive
<1> SUFFICES ASSUME RoutingInit PROVE RoutingInductive
  OBVIOUS
<1>1. consent \in BOOLEAN
  BY DEF RoutingInit
<1>2. messages \in Seq(RoutedMessages) /\ inFlight \in Nat /\ verdict \in {"none", "on", "off"}
  BY DEF RoutingInit
<1>4. RoutingTypes
  BY <1>1, <1>2, Zenon DEF RoutingInit, RoutingTypes
<1>3. OneActivation /\ VerdictStands
  BY DEF RoutingInit, OneActivation, VerdictStands, Sent
<1> QED
  BY <1>3, <1>4 DEF RoutingInductive

\* A message that is answered changes nothing of what is stored.
LEMMA MessagesArriveSafely ==
  ASSUME RoutingInductive, NEW sender \in Sites, NEW ask \in Asks, NEW shape \in Shapes,
         MessageArrives(sender, ask, shape)
  PROVE  RoutingInductive'
<1> DEFINE refusal == Refusal(sender, ask, shape)
           tracked == Tracked(sender, ask, shape)
           taken == tracked /\ inFlight # 0
           message == IF taken THEN Replied("ACTION_IN_PROGRESS")
                      ELSE IF refusal # "none" THEN Replied(refusal) ELSE Opened(ask)
<1>1. messages' = Append(messages, message)
  BY DEF MessageArrives
<1>2. inFlight' = IF tracked /\ ~taken THEN Len(messages') ELSE inFlight
  BY DEF MessageArrives
<1>3. UNCHANGED <<device, consent, blocked, unpairing, verdict, broken>>
  BY DEF MessageArrives, stored
<1>4. refusal \in Refusals \cup {"installed", "none"}
  BY DEF Refusal, Refusals
<1>5. message \in RoutedMessages
  BY <1>4 DEF Replied, Opened, Progress, Refusals, RoutedMessages
<1>6. message.at # "answered" => tracked /\ ~taken
  BY DEF Replied, Opened, Refusal, Tracked, Asks, Activations, Shapes, Allowed,
       PairingSites, StatusSites
<1>7. message.at \in {"answered", "pairing", "checking"}
  BY DEF Replied, Opened
<1> HIDE DEF refusal, tracked, taken, message
<1>8. RoutingTypes'
  BY <1>1, <1>2, <1>3, <1>5 DEF RoutingInductive, RoutingTypes
<1>9. VerdictStands'
  BY <1>3, Zenon DEF RoutingInductive, VerdictStands
<1>10. OneActivation'
  <2>1. Len(messages') = Len(messages) + 1 /\ DOMAIN messages' = 1..Len(messages')
        /\ DOMAIN messages = 1..Len(messages) /\ Len(messages) \in Nat
    BY <1>1, <1>5 DEF RoutingInductive, RoutingTypes
  <2>2. \A m \in DOMAIN messages : messages'[m] = messages[m]
    BY <1>1, <1>5 DEF RoutingInductive, RoutingTypes
  <2>3. messages'[Len(messages')] = message
    BY <1>1, <1>5 DEF RoutingInductive, RoutingTypes
  <2>4. ASSUME NEW m \in 1..Len(messages), tracked, ~taken PROVE messages[m].at = "answered"
    BY <2>1, <2>4, <1>6 DEF RoutingInductive, OneActivation, Sent, taken
  <2> QED
    BY <1>2, <1>3, <1>6, <1>7, <2>1, <2>2, <2>3, <2>4 DEF RoutingInductive, OneActivation,
         Sent
<1> QED
  BY <1>8, <1>9, <1>10 DEF RoutingInductive

\* What a handler does to its message: the others were answered before.
LEMMA HandlersAnswer ==
  ASSUME RoutingInductive, NEW m \in Sent, messages[m].at # "answered", RoutingTypes',
         \/ \E step \in Progress \ {"answered"} : Reaches(m, step)
         \/ \E answer : Replies(m, answer),
         messages'[m].at = "preparing" => verdict' = "none",
         messages'[m].at = "disabling" => verdict' # "on"
  PROVE  OneActivation'
<1>1. inFlight = m /\ \A n \in Sent : n # m => messages[n].at = "answered"
  BY DEF RoutingInductive, OneActivation
<1>2. messages \in Seq(RoutedMessages) /\ m \in DOMAIN messages
  BY DEF RoutingInductive, RoutingTypes, Sent
<1>3. DOMAIN messages' = DOMAIN messages /\ \A n \in Sent : n # m => messages'[n] = messages[n]
  BY <1>2 DEF Reaches, Replies, Sent
<1>4. messages'[m].at = "answered" \/ inFlight' = m
  BY <1>1, <1>2 DEF Reaches, Replies, Replied
<1> QED
  BY <1>1, <1>3, <1>4 DEF OneActivation, Sent

LEMMA HandlerTypes ==
  ASSUME RoutingInductive, NEW m \in Sent,
         \/ \E step \in Progress : Reaches(m, step)
         \/ \E answer \in {"none", "installed", "syncing", "lost"} \cup Refusals : Replies(m, answer)
  PROVE  messages' \in Seq(RoutedMessages) /\ inFlight' \in Nat
<1>1. messages \in Seq(RoutedMessages) /\ inFlight \in Nat /\ m \in DOMAIN messages
  BY DEF RoutingInductive, RoutingTypes, Sent
<1>2. CASE \E step \in Progress : Reaches(m, step)
  <2>1. PICK step \in Progress : Reaches(m, step)
    BY <1>2
  <2>2. messages[m] \in RoutedMessages
    BY <1>1
  <2>3. [messages[m] EXCEPT !.at = step] \in RoutedMessages
    BY <2>2 DEF RoutedMessages
  <2> QED
    BY <1>1, <2>1, <2>3 DEF Reaches
<1>3. CASE \E answer \in {"none", "installed", "syncing", "lost"} \cup Refusals : Replies(m, answer)
  <2>1. PICK answer \in {"none", "installed", "syncing", "lost"} \cup Refusals : Replies(m, answer)
    BY <1>3
  <2>2. Replied(answer) \in RoutedMessages
    BY DEF Replied, RoutedMessages, Progress
  <2> QED
    BY <1>1, <2>1, <2>2 DEF Replies
<1> QED
  BY <1>2, <1>3

LEMMA HandlersAreSafe ==
  ASSUME RoutingInductive, NEW m \in Sent,
         \/ SitePairPrepares(m) \/ PairSettles(m) \/ PairingChecked(m)
         \/ EnableClears(m) \/ EnableWrites(m) \/ Disables(m) \/ FailureTold(m)
  PROVE  RoutingInductive'
<1>1. messages[m].at # "answered"
  BY DEF SitePairPrepares, PairSettles, PairingChecked, EnableClears, EnableWrites,
       Disables, FailureTold
<1>2. \/ \E step \in Progress \ {"answered"} : Reaches(m, step)
      \/ \E answer \in {"none", "installed", "syncing", "lost"} \cup Refusals : Replies(m, answer)
  BY DEF SitePairPrepares, PairSettles, PairingChecked, EnableClears, EnableWrites,
       Disables, FailureTold,
         FailsClosed, Progress, Refusals
<1>3. messages' \in Seq(RoutedMessages) /\ inFlight' \in Nat
  BY <1>2, HandlerTypes
<1>4. RoutingTypes'
  <2>1. RoutingTypes
    BY DEF RoutingInductive
  <2> QED
    BY <1>3, <2>1
    DEF RoutingTypes, SitePairPrepares, PairSettles, PairingChecked, EnableClears,
    EnableWrites, Disables,
        FailureTold, FailsClosed, stored
<1>5. /\ messages'[m].at = "preparing" => verdict' = "none"
      /\ messages'[m].at = "disabling" => verdict' # "on"
  <2>1. m \in DOMAIN messages /\ messages \in Seq(RoutedMessages)
    BY DEF RoutingInductive, RoutingTypes, Sent
  <2>4. messages[m] \in RoutedMessages
    BY <2>1
  <2>2. ASSUME NEW step, Reaches(m, step) PROVE messages'[m].at = step
    BY <2>1, <2>2, <2>4 DEF Reaches, RoutedMessages
  <2>3. \A answer : Replies(m, answer) => messages'[m].at = "answered"
    BY <2>1 DEF Replies, Replied
  <2> QED
    BY <2>2, <2>3
    DEF SitePairPrepares, PairSettles, PairingChecked, EnableClears, EnableWrites,
    Disables, FailureTold,
        FailsClosed
<1>6. OneActivation'
  BY <1>1, <1>2, <1>4, <1>5, HandlersAnswer
<1>7. VerdictStands'
  <2>0. /\ VerdictStands /\ (messages[m].at = "preparing" => verdict = "none")
        /\ (messages[m].at = "disabling" => verdict # "on")
    BY DEF RoutingInductive, OneActivation
  <2>1. CASE SitePairPrepares(m)
    BY <2>0, <2>1 DEF SitePairPrepares, VerdictStands
  <2>2. CASE PairSettles(m)
    BY <2>0, <2>2 DEF PairSettles, VerdictStands
  <2>3. CASE PairingChecked(m) \/ FailureTold(m)
    BY <2>0, <2>3 DEF PairingChecked, FailureTold, VerdictStands, stored
  <2>4. CASE EnableClears(m)
    BY <2>0, <2>4 DEF EnableClears, FailsClosed, VerdictStands, stored
  <2>5. CASE EnableWrites(m)
    BY <2>0, <2>5 DEF EnableWrites, FailsClosed, VerdictStands
  <2>6. CASE Disables(m)
    BY <2>0, <2>6 DEF Disables, VerdictStands
  <2> QED
    BY <2>1, <2>2, <2>3, <2>4, <2>5, <2>6
<1> QED
  BY <1>4, <1>6, <1>7 DEF RoutingInductive

\* What the popup, the unpair handler and the browser do.
LEMMA OthersRouteSafely ==
  ASSUME RoutingInductive,
         \/ PopupEnables \/ PopupDisables \/ PopupPairs \/ UnpairBegins \/ UnpairEnds \/ RoutingStopped
         \/ UNCHANGED routingVars
  PROVE  RoutingInductive'
<1>0. RoutingTypes /\ OneActivation /\ VerdictStands
  BY DEF RoutingInductive
<1>1. CASE PopupEnables \/ PopupDisables \/ PopupPairs \/ UnpairBegins \/ UnpairEnds
  <2>1. verdict' = "none" /\ UNCHANGED <<messages, inFlight, broken>>
    BY <1>1 DEF PopupEnables, PopupDisables, PopupPairs, UnpairBegins, UnpairEnds,
         UserChooses
  <2>2. RoutingTypes'
    BY <1>0, <1>1, <2>1
    DEF RoutingTypes, PopupEnables, PopupDisables, PopupPairs, UnpairBegins, UnpairEnds,
    stored
  <2>3. OneActivation' /\ VerdictStands'
    BY <1>0, <2>1 DEF OneActivation, VerdictStands, Sent
  <2> QED
    BY <2>2, <2>3 DEF RoutingInductive
<1>2. CASE RoutingStopped
  <2>1. UNCHANGED <<device, consent, verdict, broken>> /\ ~blocked' /\ ~unpairing' /\ inFlight' = 0
    BY <1>2 DEF RoutingStopped, stored
  <2>2. messages \in Seq(RoutedMessages)
    BY <1>0 DEF RoutingTypes
  <2>3. messages' = [m \in Sent |-> IF messages[m].at = "answered" THEN messages[m] ELSE Replied("lost")]
    BY <1>2 DEF RoutingStopped
  <2>4. Replied("lost") \in RoutedMessages /\ Replied("lost").at = "answered"
    BY DEF Replied, RoutedMessages, Progress
  <2>5. \A m \in Sent : messages'[m] \in RoutedMessages /\ messages'[m].at = "answered"
    BY <2>2, <2>3, <2>4 DEF Sent
  <2>6. messages' \in Seq(RoutedMessages) /\ DOMAIN messages' = Sent
    BY <2>2, <2>3, <2>5 DEF Sent
  <2>7. blocked' \in BOOLEAN /\ unpairing' \in BOOLEAN
    BY <1>2 DEF RoutingStopped
  <2>8. RoutingTypes'
    BY <1>0, <2>1, <2>6, <2>7 DEF RoutingTypes
  <2>9. OneActivation' /\ VerdictStands'
    BY <1>0, <2>1, <2>5, <2>6 DEF OneActivation, VerdictStands, Sent
  <2> QED
    BY <2>8, <2>9 DEF RoutingInductive
<1>3. CASE UNCHANGED routingVars
  BY <1>0, <1>3 DEF RoutingInductive, RoutingTypes, OneActivation, VerdictStands,
       routingVars, stored, Sent
<1> QED
  BY <1>1, <1>2, <1>3

\* What an activation told its site stands: for any number of messages and of choices in the popup.
THEOREM VerdictsStand == RoutingSpec => []VerdictStands
<1>1. RoutingInductive /\ [RoutingNext]_routingVars => RoutingInductive'
  BY MessagesArriveSafely, HandlersAreSafe, OthersRouteSafely DEF RoutingNext
<1>2. RoutingInductive => VerdictStands
  BY DEF RoutingInductive
<1> QED
  BY <1>1, <1>2, RoutingBegins, PTL DEF RoutingSpec

-----------------------------------------------------------------------------

(***************************************************************************)
(* PortfolioPanel.  A popup that waits for an unpairing has asked for      *)
(* nothing since, so the unpairing waits for every pairing and every sync  *)
(* there is before it destroys anything.                                   *)
(***************************************************************************)
PanelCalls ==
  [kind : {"none", "pair", "unpair", "sync"}, pc : CallSteps, awaits : SUBSET Calls, failed : BOOLEAN]
Panels == [open : BOOLEAN, available : BOOLEAN, state : States, uploads : BOOLEAN,
           notice : Notices, waits : 0..MaxCalls, before : SUBSET Local]
PanelTypes == local \in SUBSET Local /\ call \in [Calls -> PanelCalls] /\ panel \in Panels

\* A call is at a step of its kind.
CallsKeepToTheirKind ==
  \A c \in Calls :
    /\ call[c].pc \in {"prepare", "clear", "register"} => call[c].kind = "pair"
    /\ call[c].pc \in {"disable", "await", "remote", "destroy", "clean"} => call[c].kind = "unpair"
    /\ call[c].pc = "run" => call[c].kind = "sync"
    /\ call[c].pc \in {"new", "over"} => call[c].kind = "none"

\* An unpairing that is past its waiting has waited.
UnpairingsWait ==
  \A c \in Calls : call[c].pc \in {"remote", "destroy", "clean"} => \A d \in call[c].awaits : call[d].pc = "over"

\* The popup waits for a call that runs; if it unpairs, it waits for all others that write.
PopupWaits ==
  panel.waits # 0 =>
    /\ call[panel.waits].kind # "none"
    /\ call[panel.waits].kind = "unpair" =>
         \A d \in Calls : call[d].kind \in {"pair", "sync"} => d \in call[panel.waits].awaits

\* While it says so nothing is left, and nobody who would write it back.
NobodyWrites ==
  panel.notice = "unpaired" => local = {} /\ \A d \in Calls : call[d].kind \notin {"pair", "sync"}

PanelInductive ==
  PanelTypes /\ CallsKeepToTheirKind /\ UnpairingsWait /\ PopupWaits /\ NobodyWrites

LEMMA PanelBegins == PanelInit => PanelInductive
<1> SUFFICES ASSUME PanelInit PROVE PanelInductive
  OBVIOUS
<1>1. NoCall \in PanelCalls
  BY DEF NoCall, PanelCalls, CallSteps
<1>2. PanelTypes
  BY <1>1, PanelAssumption DEF PanelInit, PanelTypes, Shut, Local, States, Notices, Panels
<1>3. CallsKeepToTheirKind /\ UnpairingsWait
  BY DEF PanelInit, CallsKeepToTheirKind, UnpairingsWait, NoCall
<1>4. PopupWaits /\ NobodyWrites
  BY DEF PanelInit, PopupWaits, NobodyWrites, Shut
<1> QED
  BY <1>2, <1>3, <1>4 DEF PanelInductive

\* A step that leaves the calls, and shows no notice of an unpairing.
LEMMA PopupAlone ==
  ASSUME PanelInductive, UNCHANGED <<local, call>>, PanelTypes',
         panel'.waits \in {0, panel.waits}, panel'.notice # "unpaired" \/ panel'.notice = panel.notice
  PROVE  PanelInductive'
BY DEF PanelInductive, CallsKeepToTheirKind, UnpairingsWait, PopupWaits, NobodyWrites

LEMMA SayingTypes ==
  ASSUME NEW p \in Panels, NEW notice \in Notices
  PROVE  Said(p, notice) \in Panels /\ Said(p, notice).waits = 0 /\ Said(p, notice).notice = notice
<1>1. 0 \in 0..MaxCalls
  BY PanelAssumption
<1>2. Said(p, notice) = [p EXCEPT !.waits = 0, !.notice = notice]
  BY DEF Said
<1>3. Said(p, notice) \in Panels
  BY <1>1, <1>2 DEF Panels
<1> QED
  BY <1>2, <1>3 DEF Panels

LEMMA PanelGivesUp ==
  ASSUME PanelInductive, panel.waits # 0
  PROVE  GivenUp \in Panels /\ GivenUp.waits = 0 /\ GivenUp.notice # "unpaired"
<1>1. panel \in Panels
  BY DEF PanelInductive, PanelTypes
<1>2. call[panel.waits].kind \in {"pair", "unpair", "sync"}
  BY <1>1, PanelAssumption DEF PanelInductive, PanelTypes, PanelCalls, PopupWaits, Panels,
       Calls
<1>3. Connection' \in States
  BY DEF Connection, States
<1> DEFINE told == [panel EXCEPT !.available = TRUE, !.state = Connection']
<1>4. told \in Panels
  BY <1>1, <1>3 DEF Panels
<1> HIDE DEF told
<1>5. CASE call[panel.waits].kind = "pair"
  <2>1. GivenUp = Said(panel, "pair failed")
    BY <1>5 DEF GivenUp
  <2> QED
    BY <1>1, <2>1, SayingTypes DEF Notices
<1>6. CASE call[panel.waits].kind = "unpair"
  <2>1. GivenUp = Said(panel, "unpair failed")
    BY <1>6 DEF GivenUp
  <2> QED
    BY <1>1, <2>1, SayingTypes DEF Notices
<1>7. CASE call[panel.waits].kind = "sync"
  <2>1. GivenUp = Said(told, "sync failed")
    BY <1>7 DEF GivenUp, told
  <2> QED
    BY <1>4, <2>1, SayingTypes DEF Notices
<1> QED
  BY <1>2, <1>5, <1>6, <1>7

LEMMA OverIsACall == Over \in PanelCalls /\ Over.kind = "none" /\ Over.pc = "over" /\ Over.awaits = {}
BY DEF Over, NoCall, PanelCalls, CallSteps

\* A handler answers: it wrote what it may, and the popup, if it waited, says so.
LEMMA AnswersAreSafe ==
  ASSUME PanelInductive, NEW c \in Calls, NEW ok \in BOOLEAN, Answers(c, ok), call[c].kind # "none",
         local' \in SUBSET Local,
         call[c].kind = "unpair" =>
           local' \subseteq local /\ call[c].pc = "clean" /\ (ok => local' = {})
  PROVE  PanelInductive'
<1>0. /\ PanelTypes /\ CallsKeepToTheirKind /\ UnpairingsWait /\ PopupWaits /\ NobodyWrites
      /\ panel \in Panels /\ call \in [Calls -> PanelCalls]
  BY DEF PanelInductive, PanelTypes
<1>1. /\ call' = [call EXCEPT ![c] = Over]
      /\ call' \in [Calls -> PanelCalls] /\ call'[c] = Over /\ \A d \in Calls : d # c => call'[d] = call[d]
  BY <1>0, OverIsACall DEF Answers
<1>2. CallsKeepToTheirKind'
  BY <1>0, <1>1, OverIsACall DEF CallsKeepToTheirKind
<1>3. UnpairingsWait'
  <2> SUFFICES ASSUME NEW e \in Calls, call'[e].pc \in {"remote", "destroy", "clean"}, NEW d \in call'[e].awaits
               PROVE  call'[d].pc = "over"
    BY DEF UnpairingsWait
  <2>1. e # c /\ call'[e] = call[e] /\ d \in Calls
    BY <1>0, <1>1, OverIsACall DEF PanelCalls
  <2> QED
    BY <1>0, <1>1, <2>1, OverIsACall DEF UnpairingsWait
<1>4. CASE panel.waits # c
  <2>1. panel' = panel
    BY <1>4 DEF Answers
  <2>2. PopupWaits'
    <3> SUFFICES ASSUME panel.waits # 0 PROVE PopupWaits'
      BY <2>1 DEF PopupWaits
    <3>1. panel.waits \in Calls
      BY <1>0, PanelAssumption DEF Panels, Calls
    <3> QED
      BY <1>0, <1>1, <1>4, <2>1, <3>1, OverIsACall DEF PopupWaits
  <2>3. NobodyWrites'
    <3>1. call[c].kind \in {"pair", "unpair", "sync"}
      BY <1>0 DEF PanelCalls
    <3> QED
      BY <1>0, <1>1, <2>1, <3>1, OverIsACall DEF NobodyWrites
  <2> QED
    BY <1>0, <1>1, <1>2, <1>3, <2>1, <2>2, <2>3 DEF PanelInductive, PanelTypes
<1>5. CASE panel.waits = c
  <2>0. c # 0
    BY DEF Calls
  <2>1. /\ panel' \in Panels /\ panel'.waits = 0
        /\ panel'.notice = "unpaired" => ok /\ call[c].kind = "unpair"
    <3>1. CASE ~ok
      <4>1. panel' = GivenUp
        BY <1>5, <3>1 DEF Answers
      <4> QED
        BY <1>5, <2>0, <4>1, PanelGivesUp
    <3>2. CASE ok
      <4> DEFINE off == [panel EXCEPT !.state = Connection', !.uploads = FALSE]
                 same == [panel EXCEPT !.state = Connection']
      <4>1. Connection' \in States
        BY DEF Connection, States
      <4>2. off \in Panels /\ same \in Panels
        BY <1>0, <4>1 DEF Panels
      <4>3. \/ panel' = Said(off, "paired")
            \/ panel' = Said(off, "unpaired") /\ call[c].kind = "unpair"
            \/ panel' = Said(same, "synced")
        <5>1. call[c].kind \in {"pair", "unpair", "sync"}
          BY <1>0 DEF PanelCalls
        <5>2. CASE call[c].kind = "pair"
          BY <1>5, <3>2, <5>2 DEF Answers
        <5>3. CASE call[c].kind = "unpair"
          BY <1>5, <3>2, <5>3 DEF Answers
        <5>4. CASE call[c].kind = "sync"
          BY <1>5, <3>2, <5>4 DEF Answers
        <5> QED
          BY <5>1, <5>2, <5>3, <5>4
      <4>4. "paired" \in Notices /\ "unpaired" \in Notices /\ "synced" \in Notices
        BY DEF Notices
      <4> HIDE DEF off, same
      <4> QED
        BY <3>2, <4>2, <4>3, <4>4, SayingTypes
    <3> QED
      BY <3>1, <3>2
  <2>2. NobodyWrites'
    <3> SUFFICES ASSUME panel'.notice = "unpaired"
                 PROVE  local' = {} /\ \A d \in Calls : call'[d].kind \notin {"pair", "sync"}
      BY DEF NobodyWrites
    <3>1. call[c].kind = "unpair" /\ call[c].pc = "clean" /\ local' = {}
      BY <2>1
    <3>2. ASSUME NEW d \in Calls PROVE call'[d].kind \notin {"pair", "sync"}
      <4>1. CASE call[d].kind \in {"pair", "sync"}
        <5>1. call[d].pc = "over"
          BY <1>0, <1>5, <2>0, <3>1, <4>1 DEF PopupWaits, UnpairingsWait
        <5> QED
          BY <1>0, <4>1, <5>1 DEF CallsKeepToTheirKind
      <4> QED
        BY <1>1, <4>1, OverIsACall
    <3> QED
      BY <3>1, <3>2
  <2> QED
    BY <1>0, <1>1, <1>2, <1>3, <2>1, <2>2 DEF PanelInductive, PanelTypes, PopupWaits
<1> QED
  BY <1>4, <1>5

\* A handler goes on to its next step.
LEMMA StepsAreSafe ==
  ASSUME PanelInductive, NEW c \in Calls, NEW pc \in CallSteps, CallGoes(c, pc) \/ NotesFailure(c, pc),
         UNCHANGED panel, local' \in SUBSET Local,
         \/ call[c].kind = "pair" /\ pc \in {"clear", "register"}
         \/ /\ call[c].kind = "unpair" /\ local' \subseteq local /\ pc \in {"await", "remote", "destroy", "clean"}
            /\ pc # "await" => \A d \in call[c].awaits : call[d].pc = "over"
  PROVE  PanelInductive'
<1>0. /\ PanelTypes /\ CallsKeepToTheirKind /\ UnpairingsWait /\ PopupWaits /\ NobodyWrites
      /\ panel \in Panels /\ call \in [Calls -> PanelCalls] /\ call[c] \in PanelCalls
  BY DEF PanelInductive, PanelTypes
<1>1. \E r \in PanelCalls : call' = [call EXCEPT ![c] = r] /\ r.pc = pc /\ r.kind = call[c].kind
                              /\ r.awaits = call[c].awaits
  <2>1. CASE CallGoes(c, pc)
    <3>1. [call[c] EXCEPT !.pc = pc] \in PanelCalls
      BY <1>0 DEF PanelCalls
    <3> QED
      BY <1>0, <2>1, <3>1 DEF CallGoes, PanelCalls
  <2>2. CASE NotesFailure(c, pc)
    <3>1. [call[c] EXCEPT !.pc = pc, !.failed = TRUE] \in PanelCalls
      BY <1>0 DEF PanelCalls
    <3> QED
      BY <1>0, <2>2, <3>1 DEF NotesFailure, PanelCalls
  <2> QED
    BY <2>1, <2>2
<1>2. /\ call' \in [Calls -> PanelCalls] /\ \A d \in Calls : d # c => call'[d] = call[d]
      /\ call'[c].pc = pc /\ call'[c].kind = call[c].kind /\ call'[c].awaits = call[c].awaits
  BY <1>0, <1>1
<1>3. CallsKeepToTheirKind'
  BY <1>0, <1>2 DEF CallsKeepToTheirKind
<1>4. UnpairingsWait'
  <2> SUFFICES ASSUME NEW e \in Calls, call'[e].pc \in {"remote", "destroy", "clean"}, NEW d \in call'[e].awaits
               PROVE  call'[d].pc = "over"
    BY DEF UnpairingsWait
  <2>1. call[d].pc = "over" /\ d \in Calls
    BY <1>0, <1>2 DEF UnpairingsWait, PanelCalls
  <2>2. d # c
    BY <1>0, <2>1 DEF CallsKeepToTheirKind
  <2> QED
    BY <1>2, <2>1, <2>2
<1>5. PopupWaits'
  <2> SUFFICES ASSUME panel.waits # 0 PROVE PopupWaits'
    BY DEF PopupWaits
  <2>1. panel.waits \in Calls
    BY <1>0, PanelAssumption DEF Panels, Calls
  <2> QED
    BY <1>0, <1>2, <2>1 DEF PopupWaits
<1>6. NobodyWrites'
  BY <1>0, <1>2 DEF NobodyWrites
<1> QED
  BY <1>0, <1>2, <1>3, <1>4, <1>5, <1>6 DEF PanelInductive, PanelTypes

\* A button is clicked: the popup waited for nothing, and now waits for the new call.
LEMMA ClicksAreSafe ==
  ASSUME PanelInductive, NEW c \in Calls, NEW kind \in {"pair", "unpair", "sync"}, Clicked(c, kind)
  PROVE  PanelInductive'
<1>0. /\ PanelTypes /\ CallsKeepToTheirKind /\ UnpairingsWait /\ PopupWaits /\ NobodyWrites
      /\ panel \in Panels /\ call \in [Calls -> PanelCalls]
  BY DEF PanelInductive, PanelTypes
<1>1. call[c] = NoCall /\ call[c].kind = "none" /\ call[c].pc = "new" /\ UNCHANGED local
  <2>1. call[c] = NoCall /\ UNCHANGED local
    BY DEF Clicked
  <2> QED
    BY <2>1 DEF NoCall
<1>2. CASE Refused(kind)
  <2>1. call' = [call EXCEPT ![c] = Over] /\ panel' \in Panels /\ panel'.waits = 0 /\ panel'.notice # "unpaired"
    <3>1. panel' = Said(panel, "pair failed") \/ panel' = Said(panel, "sync failed")
      BY <1>2 DEF Clicked
    <3>2. call' = [call EXCEPT ![c] = Over]
      BY <1>2 DEF Clicked
    <3>3. "pair failed" \in Notices /\ "sync failed" \in Notices
      BY DEF Notices
    <3> QED
      <4>1. CASE panel' = Said(panel, "pair failed")
        BY <1>0, <3>2, <3>3, <4>1, SayingTypes
      <4>2. CASE panel' = Said(panel, "sync failed")
        BY <1>0, <3>2, <3>3, <4>2, SayingTypes
      <4> QED
        BY <3>1, <4>1, <4>2
  <2>2. call' \in [Calls -> PanelCalls] /\ call'[c] = Over /\ \A d \in Calls : d # c => call'[d] = call[d]
    BY <1>0, <2>1, OverIsACall
  <2>3. CallsKeepToTheirKind'
    BY <1>0, <2>2, OverIsACall DEF CallsKeepToTheirKind
  <2>4. UnpairingsWait'
    <3> SUFFICES ASSUME NEW e \in Calls, call'[e].pc \in {"remote", "destroy", "clean"}, NEW d \in call'[e].awaits
                 PROVE  call'[d].pc = "over"
      BY DEF UnpairingsWait
    <3>1. e # c /\ call'[e] = call[e] /\ d \in Calls
      BY <1>0, <2>2, OverIsACall DEF PanelCalls
    <3> QED
      BY <1>0, <2>2, <3>1, OverIsACall DEF UnpairingsWait
  <2> QED
    BY <1>0, <1>1, <2>1, <2>2, <2>3, <2>4 DEF PanelInductive, PanelTypes, PopupWaits,
         NobodyWrites
<1>3. CASE ~Refused(kind)
  <2> DEFINE r == [kind |-> kind, pc |-> FirstStep(kind), failed |-> FALSE,
                   awaits |-> IF kind = "unpair" THEN Running("pair") \cup Running("sync") ELSE {}]
  <2>1. call' = [call EXCEPT ![c] = r] /\ panel' = [panel EXCEPT !.waits = c, !.notice = "none", !.before = local]
    BY <1>3 DEF Clicked
  <2>2. /\ kind = "pair" => FirstStep(kind) = "prepare"
        /\ kind = "unpair" => FirstStep(kind) = "disable"
        /\ kind = "sync" => FirstStep(kind) = "run"
    BY DEF FirstStep
  <2>3. r \in PanelCalls /\ r.kind = kind /\ r.pc = FirstStep(kind)
        /\ (kind = "unpair" => r.awaits = Running("pair") \cup Running("sync"))
    BY <2>2 DEF PanelCalls, CallSteps, Running
  <2> HIDE DEF r
  <2>4. call' \in [Calls -> PanelCalls] /\ call'[c] = r /\ \A d \in Calls : d # c => call'[d] = call[d]
    BY <1>0, <2>1, <2>3
  <2>5. panel' \in Panels /\ panel'.waits = c /\ panel'.notice = "none"
    <3>1. c \in 0..MaxCalls /\ "none" \in Notices /\ local \in SUBSET Local
      BY <1>0, PanelAssumption DEF Calls, Notices, PanelTypes
    <3> QED
      BY <1>0, <2>1, <3>1 DEF Panels
  <2>6. CallsKeepToTheirKind'
    BY <1>0, <2>2, <2>3, <2>4 DEF CallsKeepToTheirKind
  <2>7. UnpairingsWait'
    <3> SUFFICES ASSUME NEW e \in Calls, call'[e].pc \in {"remote", "destroy", "clean"}, NEW d \in call'[e].awaits
                 PROVE  call'[d].pc = "over"
      BY DEF UnpairingsWait
    <3>1. e # c /\ call'[e] = call[e] /\ d \in Calls
      BY <1>0, <2>2, <2>3, <2>4 DEF PanelCalls
    <3> QED
      BY <1>0, <1>1, <2>4, <3>1 DEF UnpairingsWait
  <2>8. PopupWaits'
    BY <2>3, <2>4, <2>5 DEF PopupWaits, Running
  <2> QED
    BY <1>0, <1>1, <2>4, <2>5, <2>6, <2>7, <2>8 DEF PanelInductive, PanelTypes, NobodyWrites
<1> QED
  BY <1>2, <1>3

UploadsTyped == uploads \in BOOLEAN
LEMMA UploadsType == UploadsTyped /\ [PanelNext]_panelVarsAll => UploadsTyped'
BY DEF PanelNext, PanelOpens, StatusLoaded, TimesOut, GatewayForgets, PanelStopped,
     Clicked, PairFails,
       PairPrepares, PairClears, PairRegisters, DisablesUploads, AwaitsOthers, RevokesRemotely, Destroys,
       Cleans, SyncRuns, panelVarsAll, UploadsTyped

LEMMA PanelStep == PanelInductive /\ UploadsTyped /\ [PanelNext]_panelVarsAll => PanelInductive'
<1> SUFFICES ASSUME PanelInductive, uploads \in BOOLEAN, [PanelNext]_panelVarsAll PROVE PanelInductive'
  BY DEF UploadsTyped
<1>0. /\ PanelTypes /\ CallsKeepToTheirKind /\ UnpairingsWait /\ PopupWaits /\ NobodyWrites
      /\ panel \in Panels /\ call \in [Calls -> PanelCalls] /\ local \in SUBSET Local
  BY DEF PanelInductive, PanelTypes
<1>a. ASSUME NEW p, p \in Panels, p.waits \in {0, panel.waits}, p.notice # "unpaired" \/ p.notice = panel.notice,
             panel' = p, UNCHANGED <<local, call>>
      PROVE  PanelInductive'
  <2>1. PanelTypes'
    BY <1>0, <1>a DEF PanelTypes
  <2> QED
    BY <1>a, <2>1, PopupAlone
<1>1. CASE PanelOpens
  <2>1. Shut \in Panels
    BY PanelAssumption DEF Shut, Panels, States, Notices
  <2>2. panel' = [Shut EXCEPT !.open = TRUE]
    BY <1>1 DEF PanelOpens
  <2>3. panel' \in Panels /\ panel'.waits = Shut.waits /\ panel'.notice = Shut.notice
    BY <2>1, <2>2 DEF Panels
  <2>4. Shut.waits = 0 /\ Shut.notice = "none"
    BY DEF Shut
  <2> QED
    BY <1>1, <1>a, <2>3, <2>4 DEF PanelOpens
<1>2. CASE StatusLoaded
  <2>1. Connection \in States
    BY DEF Connection, States
  <2>2. WithStatus(panel) = [panel EXCEPT !.available = TRUE, !.state = Connection, !.uploads = uploads]
    BY DEF WithStatus
  <2>3. WithStatus(panel) \in Panels /\ WithStatus(panel).waits = panel.waits
        /\ WithStatus(panel).notice = panel.notice
    BY <1>0, <2>1, <2>2 DEF Panels
  <2> QED
    BY <1>2, <1>a, <2>3 DEF StatusLoaded
<1>3. CASE TimesOut
  BY <1>3, <1>a, PanelGivesUp DEF TimesOut
<1>4. CASE GatewayForgets
  BY <1>0, <1>4, <1>a DEF GatewayForgets
<1>5. CASE PanelStopped
  <2>1. \A c \in Calls : call'[c] \in {NoCall, Over}
    BY <1>5 DEF PanelStopped
  <2>2. call' \in [Calls -> PanelCalls]
    <3>1. NoCall \in PanelCalls
      BY DEF NoCall, PanelCalls, CallSteps
    <3> QED
      BY <1>5, <3>1, OverIsACall DEF PanelStopped
  <2>3. \A c \in Calls : call'[c].kind = "none" /\ call'[c].pc \in {"new", "over"}
    BY <2>1, OverIsACall DEF NoCall
  <2>4. panel' \in Panels /\ panel'.waits = 0 /\ (panel'.notice = "unpaired" => panel.notice = "unpaired")
    BY <1>0, <1>5, PanelGivesUp DEF PanelStopped
  <2>5. UNCHANGED local
    BY <1>5 DEF PanelStopped
  <2> QED
    BY <1>0, <2>2, <2>3, <2>4, <2>5
    DEF PanelInductive, PanelTypes, CallsKeepToTheirKind, UnpairingsWait, PopupWaits,
    NobodyWrites
<1>6. ASSUME NEW c \in Calls, NEW kind \in {"pair", "unpair", "sync"}, Clicked(c, kind)
      PROVE  PanelInductive'
  BY <1>6, ClicksAreSafe
<1>7. ASSUME NEW c \in Calls, PairFails(c) PROVE PanelInductive'
  <2>1. call[c].kind = "pair" /\ Answers(c, FALSE) /\ UNCHANGED local
    BY <1>0, <1>7 DEF PairFails, CallsKeepToTheirKind
  <2> QED
    BY <1>0, <2>1, AnswersAreSafe
<1>8. ASSUME NEW c \in Calls, PairPrepares(c) \/ PairClears(c) PROVE PanelInductive'
  <2>1. call[c].kind = "pair" /\ (CallGoes(c, "clear") \/ CallGoes(c, "register")) /\ UNCHANGED panel
        /\ local' \in SUBSET Local
    BY <1>0, <1>8 DEF PairPrepares, PairClears, CallsKeepToTheirKind
  <2> QED
    BY <2>1, StepsAreSafe DEF CallSteps
<1>9. ASSUME NEW c \in Calls, PairRegisters(c) PROVE PanelInductive'
  <2>1. call[c].kind = "pair" /\ Answers(c, ~Stale(c)) /\ local' \in SUBSET Local
    BY <1>0, <1>9 DEF PairRegisters, CallsKeepToTheirKind, Local
  <2> DEFINE ok == ~Stale(c)
  <2>2. ok \in BOOLEAN /\ Answers(c, ok)
    BY <2>1
  <2> HIDE DEF ok
  <2> QED
    BY <2>1, <2>2, AnswersAreSafe
<1>10. ASSUME NEW c \in Calls, DisablesUploads(c) PROVE PanelInductive'
  <2>1. call[c].kind = "unpair" /\ (CallGoes(c, "await") \/ NotesFailure(c, "await")) /\ UNCHANGED <<panel, local>>
    BY <1>0, <1>10 DEF DisablesUploads, CallsKeepToTheirKind
  <2> QED
    BY <1>0, <2>1, StepsAreSafe DEF CallSteps
<1>11. ASSUME NEW c \in Calls, AwaitsOthers(c) PROVE PanelInductive'
  <2>1. /\ call[c].kind = "unpair" /\ (CallGoes(c, "remote") \/ CallGoes(c, "destroy")) /\ UNCHANGED <<panel, local>>
        /\ \A d \in call[c].awaits : call[d].pc = "over"
    BY <1>0, <1>11, OverIsACall DEF AwaitsOthers, CallsKeepToTheirKind
  <2> QED
    BY <1>0, <2>1, StepsAreSafe DEF CallSteps
<1>12. ASSUME NEW c \in Calls, RevokesRemotely(c) \/ Destroys(c) PROVE PanelInductive'
  <2>1. /\ call[c].kind = "unpair" /\ UNCHANGED panel /\ local' \subseteq local
        /\ \E pc \in {"destroy", "clean"} : CallGoes(c, pc) \/ NotesFailure(c, pc)
        /\ \A d \in call[c].awaits : call[d].pc = "over"
    BY <1>0, <1>12 DEF RevokesRemotely, Destroys, CallsKeepToTheirKind, UnpairingsWait,
         Wiped
  <2> QED
    BY <1>0, <2>1, StepsAreSafe DEF CallSteps
<1>13. ASSUME NEW c \in Calls, Cleans(c) PROVE PanelInductive'
  <2>1. call[c].kind = "unpair" /\ call[c].pc = "clean" /\ local' \subseteq local
    BY <1>0, <1>13 DEF Cleans, CallsKeepToTheirKind, Wiped
  <2> DEFINE ok == ~call[c].failed
  <2>2. ok \in BOOLEAN
    OBVIOUS
  <2>3. (Answers(c, ok) /\ local' = {}) \/ Answers(c, FALSE)
    BY <1>13 DEF Cleans, Wiped
  <2> HIDE DEF ok
  <2> QED
    BY <1>0, <2>1, <2>2, <2>3, AnswersAreSafe
<1>14. ASSUME NEW c \in Calls, SyncRuns(c) PROVE PanelInductive'
  <2>1. call[c].kind = "sync" /\ local' \in SUBSET Local /\ \E ok \in BOOLEAN : Answers(c, ok)
    BY <1>0, <1>14 DEF SyncRuns, CallsKeepToTheirKind, Local
  <2> QED
    BY <2>1, AnswersAreSafe
<1>15. CASE UNCHANGED panelVarsAll
  BY <1>0, <1>15, <1>a DEF panelVarsAll
<1> QED
  BY <1>1, <1>2, <1>3, <1>4, <1>5, <1>6, <1>7, <1>8, <1>9, <1>10, <1>11, <1>12, <1>13,
       <1>14, <1>15
  DEF PanelNext

\* "Device unpaired" is true as long as it is shown, for any number of calls and of faults.
THEOREM UnpairedStaysUnpaired == PanelSpec => []UnpairedIsUnpaired
<1>1. PanelInductive => UnpairedIsUnpaired
  BY DEF PanelInductive, NobodyWrites, UnpairedIsUnpaired
<1>2. PanelInit => UploadsTyped
  BY DEF PanelInit, UploadsTyped
<1> QED
  BY <1>1, <1>2, PanelBegins, PanelStep, UploadsType, PTL DEF PanelSpec

-----------------------------------------------------------------------------

(***************************************************************************)
(* ExtensionSettings.  Every copy of the settings that a handler carries,  *)
(* and every patch, wants no more opt-ins than the user asked for.         *)
(***************************************************************************)
SettingsObjects == UNION {[fields -> Currencies \cup BOOLEAN] : fields \in SUBSET DOMAIN Defaults}
AsksFor(object) == {f \in OptIns : f \in DOMAIN object /\ object[f]}
JobRecords ==
  [kind : {"none", "user", "off", "site", "start"}, pc : Steps, patch : SettingsObjects,
   seen : SettingsObjects, version : Nat, force : BOOLEAN]

\* A handler's record, against what was asked for.
JobFits(r, opts) ==
  /\ r \in JobRecords /\ AsksFor(r.seen) \subseteq opts /\ AsksFor(r.patch) \subseteq opts
  /\ r.pc = "init" => "currency" \in DOMAIN r.seen

SettingsInductive ==
  /\ kept \in [version : Nat, settings : SettingsObjects] /\ engine \in Currencies \cup BOOLEAN
  /\ DOMAIN job = Jobs /\ job = [j \in Jobs |-> job[j]]
  /\ AsksFor(kept.settings) \subseteq asked
  /\ \A j \in Jobs : JobFits(job[j], asked)

LEMMA SettingsFields ==
  /\ DOMAIN Defaults = {"currency", "follow", "buff", "uploads"}
  /\ Defaults \in SettingsObjects /\ AsksFor(Defaults) = {}
<1>1. DOMAIN Defaults = {"currency", "follow", "buff", "uploads"}
  BY DEF Defaults
<1>2. /\ Defaults["currency"] = HomeCurrency /\ Defaults["follow"] = TRUE
      /\ Defaults["buff"] = FALSE /\ Defaults["uploads"] = FALSE
  BY DEF Defaults
<1>3. Defaults \in [DOMAIN Defaults -> Currencies \cup BOOLEAN]
  <2>1. Defaults = [f \in DOMAIN Defaults |-> Defaults[f]]
    BY DEF Defaults
  <2> QED
    BY <1>1, <1>2, <2>1, SettingsAssumption
<1>4. AsksFor(Defaults) = {}
  BY <1>2 DEF AsksFor, OptIns
<1> QED
  BY <1>1, <1>3, <1>4 DEF SettingsObjects

LEMMA EmptyObject == <<>> \in SettingsObjects /\ AsksFor(<<>>) = {}
<1>1. <<>> \in [{} -> Currencies \cup BOOLEAN]
  OBVIOUS
<1> QED
  BY <1>1 DEF SettingsObjects, AsksFor

\* One object laid over another wants what one of them wants.
LEMMA LaidObjects ==
  ASSUME NEW a \in SettingsObjects, NEW b \in SettingsObjects
  PROVE  /\ Laid(a, b) \in SettingsObjects /\ DOMAIN Laid(a, b) = DOMAIN a \cup DOMAIN b
         /\ AsksFor(Laid(a, b)) \subseteq AsksFor(a) \cup AsksFor(b)
<1>1. PICK A \in SUBSET DOMAIN Defaults : a \in [A -> Currencies \cup BOOLEAN]
  BY DEF SettingsObjects
<1>2. PICK B \in SUBSET DOMAIN Defaults : b \in [B -> Currencies \cup BOOLEAN]
  BY DEF SettingsObjects
<1>3. Laid(a, b) = [f \in A \cup B |-> IF f \in A THEN a[f] ELSE b[f]]
  BY <1>1, <1>2 DEF Laid
<1>4. Laid(a, b) \in [A \cup B -> Currencies \cup BOOLEAN]
  BY <1>1, <1>2, <1>3
<1>5. AsksFor(Laid(a, b)) \subseteq AsksFor(a) \cup AsksFor(b)
  BY <1>1, <1>2, <1>3 DEF AsksFor
<1> QED
  BY <1>1, <1>2, <1>3, <1>4, <1>5 DEF SettingsObjects

LEMMA OneSettingsField ==
  ASSUME NEW f \in DOMAIN Defaults, NEW value \in Currencies \cup BOOLEAN
  PROVE  /\ Only(f, value) \in SettingsObjects /\ DOMAIN Only(f, value) = {f}
         /\ (f \notin OptIns \/ value = FALSE => AsksFor(Only(f, value)) = {})
<1>1. Only(f, value) = [g \in {f} |-> value]
  BY DEF Only
<1>2. Only(f, value) \in [{f} -> Currencies \cup BOOLEAN]
  BY <1>1
<1>3. f \notin OptIns \/ value = FALSE => AsksFor(Only(f, value)) = {}
  BY <1>1 DEF AsksFor
<1> QED
  BY <1>1, <1>2, <1>3 DEF SettingsObjects

LEMMA IdleFits ==
  /\ IdleJob \in JobRecords /\ Finished \in JobRecords
  /\ \A opts : JobFits(IdleJob, opts) /\ JobFits(Finished, opts)
<1>1. IdleJob \in JobRecords
  BY EmptyObject DEF IdleJob, JobRecords, Steps
<1>2. Finished = [IdleJob EXCEPT !.pc = "done"]
  BY DEF Finished
<1>3. Finished \in JobRecords /\ Finished.seen = IdleJob.seen /\ Finished.patch = IdleJob.patch
      /\ Finished.pc = "done"
  BY <1>1, <1>2 DEF JobRecords, Steps
<1>4. IdleJob.seen = <<>> /\ IdleJob.patch = <<>> /\ IdleJob.pc = "new"
  BY DEF IdleJob
<1> QED
  BY <1>1, <1>3, <1>4, EmptyObject DEF JobFits

LEMMA SettingsBegin == SettingsInit => SettingsInductive
<1> SUFFICES ASSUME SettingsInit PROVE SettingsInductive
  OBVIOUS
<1>1. HomeCurrency \in Currencies /\ DOMAIN Defaults = {"currency", "follow", "buff", "uploads"}
  BY SettingsAssumption, SettingsFields
<1>2. kept \in [version : Nat, settings : SettingsObjects]
  <2>1. Only("currency", HomeCurrency) \in SettingsObjects /\ Only("follow", FALSE) \in SettingsObjects
        /\ Only("uploads", TRUE) \in SettingsObjects
    BY <1>1, OneSettingsField
  <2>2. Laid(Only("follow", FALSE), Only("currency", HomeCurrency)) \in SettingsObjects
    BY <2>1, LaidObjects
  <2>3. Laid(Only("uploads", TRUE), Laid(Only("follow", FALSE), Only("currency", HomeCurrency))) \in SettingsObjects
    BY <2>1, <2>2, LaidObjects
  <2> DEFINE third == Laid(Only("uploads", TRUE), Laid(Only("follow", FALSE), Only("currency", HomeCurrency)))
             second == Only("currency", HomeCurrency)
  <2>4. third \in SettingsObjects /\ second \in SettingsObjects /\ <<>> \in SettingsObjects
    BY <2>1, <2>3, EmptyObject
  <2>5. \/ kept = [version |-> 0, settings |-> <<>>] \/ kept = [version |-> 1, settings |-> second]
        \/ kept = [version |-> 2, settings |-> third]
    BY DEF SettingsInit, Installations
  <2> HIDE DEF third, second
  <2> QED
    BY <2>4, <2>5
<1>3. AsksFor(kept.settings) \subseteq asked
  <2> SUFFICES ASSUME NEW f \in OptIns, f \in DOMAIN kept.settings, kept.settings[f] PROVE f \in asked
    BY DEF AsksFor
  <2>1. Now[f] = kept.settings[f]
    BY DEF Now, Laid
  <2> QED
    BY <2>1 DEF SettingsInit, On
<1> QED
  BY <1>1, <1>2, <1>3, IdleFits DEF SettingsInit, SettingsInductive

\* A handler whose record still fits, and settings that want nothing new.
LEMMA JobChanges ==
  ASSUME SettingsInductive, NEW j \in Jobs, NEW r, job' = [job EXCEPT ![j] = r], JobFits(r, asked'),
         asked \subseteq asked', kept' \in [version : Nat, settings : SettingsObjects],
         AsksFor(kept'.settings) \subseteq asked', engine' \in Currencies \cup BOOLEAN
  PROVE  SettingsInductive'
<1>1. DOMAIN job = Jobs /\ \A i \in Jobs : JobFits(job[i], asked)
  BY DEF SettingsInductive
<1>2. DOMAIN job' = Jobs /\ job' = [i \in Jobs |-> job'[i]]
  BY <1>1 DEF SettingsInductive
<1>3. \A i \in Jobs : job'[i] = IF i = j THEN r ELSE job[i]
  BY <1>1
<1>4. \A i \in Jobs : JobFits(job'[i], asked')
  BY <1>1, <1>3 DEF JobFits
<1> QED
  BY <1>2, <1>4 DEF SettingsInductive

\* Steps of a handler that leave the settings alone.
LEMMA JobGoes ==
  ASSUME SettingsInductive, NEW j \in Jobs, NEW r, job' = [job EXCEPT ![j] = r], JobFits(r, asked),
         UNCHANGED <<kept, engine, asked>>
  PROVE  SettingsInductive'
BY JobChanges DEF SettingsInductive

LEMMA PcFits ==
  ASSUME NEW r, NEW opts, JobFits(r, opts), NEW pc \in Steps, pc # "init"
  PROVE  JobFits([r EXCEPT !.pc = pc], opts)
BY DEF JobFits, JobRecords

LEMMA ReadFits ==
  ASSUME NEW r, NEW opts, JobFits(r, opts), NEW pc \in Steps, pc # "init",
         NEW object \in SettingsObjects, AsksFor(object) \subseteq opts
  PROVE  JobFits([r EXCEPT !.pc = pc, !.seen = object], opts)
<1> DEFINE s == [r EXCEPT !.pc = pc, !.seen = object]
<1>1. s \in JobRecords /\ s.seen = object /\ s.patch = r.patch /\ s.pc = pc
  BY DEF JobFits, JobRecords
<1> QED
  BY <1>1 DEF JobFits

\* What one handler carries, and what storage keeps.
LEMMA WhatFits ==
  ASSUME SettingsInductive, NEW j \in Jobs
  PROVE  /\ job[j] \in JobRecords /\ JobFits(job[j], asked)
         /\ job[j].seen \in SettingsObjects /\ job[j].patch \in SettingsObjects
         /\ kept.settings \in SettingsObjects /\ kept.version \in Nat
         /\ kept = [version |-> kept.version, settings |-> kept.settings]
BY DEF SettingsInductive, JobFits, JobRecords

\* A read of the settings, or of nothing.
LEMMA ReadingIsSafe ==
  ASSUME SettingsInductive, NEW j \in Jobs, NEW pc \in Steps, pc # "init",
         UNCHANGED <<kept, engine, asked>>,
         \/ job' = [job EXCEPT ![j].pc = pc, ![j].seen = kept.settings]
         \/ job' = [job EXCEPT ![j].pc = pc, ![j].seen = <<>>]
  PROVE  SettingsInductive'
<1>1. JobFits(job[j], asked) /\ kept.settings \in SettingsObjects
  BY WhatFits
<1>2. AsksFor(kept.settings) \subseteq asked
  BY DEF SettingsInductive
<1>3. CASE job' = [job EXCEPT ![j].pc = pc, ![j].seen = kept.settings]
  <2> DEFINE r == [job[j] EXCEPT !.pc = pc, !.seen = kept.settings]
  <2>1. JobFits(r, asked)
    BY <1>1, <1>2, ReadFits
  <2>2. job' = [job EXCEPT ![j] = r]
    BY <1>3
  <2> HIDE DEF r
  <2> QED
    BY <2>1, <2>2, JobGoes
<1>4. CASE job' = [job EXCEPT ![j].pc = pc, ![j].seen = <<>>]
  <2> DEFINE r == [job[j] EXCEPT !.pc = pc, !.seen = <<>>]
  <2>1. JobFits(r, asked)
    BY <1>1, EmptyObject, ReadFits
  <2>2. job' = [job EXCEPT ![j] = r]
    BY <1>4
  <2> HIDE DEF r
  <2> QED
    BY <2>1, <2>2, JobGoes
<1> QED
  BY <1>3, <1>4

LEMMA GoingIsSafe ==
  ASSUME SettingsInductive, NEW j \in Jobs, NEW pc \in Steps, pc # "init", Goes(j, pc),
         UNCHANGED <<kept, engine, asked>>
  PROVE  SettingsInductive'
<1> DEFINE r == [job[j] EXCEPT !.pc = pc]
<1>1. JobFits(r, asked)
  BY WhatFits, PcFits
<1>2. job' = [job EXCEPT ![j] = r]
  BY DEF Goes
<1> HIDE DEF r
<1> QED
  BY <1>1, <1>2, JobGoes

LEMMA EndingIsSafe ==
  ASSUME SettingsInductive, NEW j \in Jobs, job' = [job EXCEPT ![j] = Finished],
         UNCHANGED <<kept, engine, asked>>
  PROVE  SettingsInductive'
BY IdleFits, JobGoes

(***************************************************************************)
(* The steps that write, and those that bring a patch.                     *)
(***************************************************************************)
\* What a control of the popup changes.
LEMMA PatchesAreObjects ==
  ASSUME NEW shown, NEW patch \in Patches(shown)
  PROVE  patch \in SettingsObjects
<1>1. CASE patch = <<>>
  BY <1>1, EmptyObject
<1>2. CASE \E switch \in Switches : patch = Only(switch, ~shown[switch])
  <2>1. PICK switch \in Switches : patch = Only(switch, ~shown[switch])
    BY <1>2
  <2>2. switch \in DOMAIN Defaults
    BY SettingsFields DEF Switches
  <2>3. (~shown[switch]) \in BOOLEAN
    OBVIOUS
  <2>4. (~shown[switch]) \in Currencies \cup BOOLEAN
    BY <2>3
  <2> QED
    BY <2>1, <2>2, <2>4, OneSettingsField
<1>3. CASE \E c \in Currencies : patch = Only("currency", c)
  <2>1. PICK c \in Currencies : patch = Only("currency", c)
    BY <1>3
  <2>2. "currency" \in DOMAIN Defaults /\ c \in Currencies \cup BOOLEAN
    BY SettingsFields
  <2> QED
    BY <2>1, <2>2, OneSettingsField
<1> QED
  BY <1>1, <1>2, <1>3 DEF Patches

LEMMA UserIsSafe ==
  ASSUME SettingsInductive, NEW j \in Jobs, UserChanges(j)
  PROVE  SettingsInductive'
<1>1. PICK patch \in Patches(popup.shown) :
        /\ Begins(j, [IdleJob EXCEPT !.kind = "user", !.pc = "read", !.patch = patch,
                                     !.force = patch = <<>>])
        /\ asked' = asked \cup {f \in OptIns \cap DOMAIN patch : patch[f]}
  BY DEF UserChanges
<1> DEFINE r == [IdleJob EXCEPT !.kind = "user", !.pc = "read", !.patch = patch, !.force = patch = <<>>]
<1>2. patch \in SettingsObjects
  BY PatchesAreObjects
<1>3. asked \subseteq asked' /\ AsksFor(patch) \subseteq asked'
  BY <1>1 DEF AsksFor
<1>4. r \in JobRecords /\ r.patch = patch /\ r.seen = <<>> /\ r.pc = "read"
  BY <1>2, IdleFits DEF JobRecords, Steps, IdleJob
<1>5. JobFits(r, asked')
  BY <1>3, <1>4, EmptyObject DEF JobFits
<1>6. job' = [job EXCEPT ![j] = r]
  BY <1>1 DEF Begins
<1>7. UNCHANGED <<kept, engine>>
  BY DEF UserChanges
<1> HIDE DEF r
<1> QED
  BY <1>3, <1>5, <1>6, <1>7, JobChanges DEF SettingsInductive

LEMMA BeginningsAreSafe ==
  ASSUME SettingsInductive, NEW j \in Jobs, UploadsTurnedOff(j) \/ WorkerStarts(j)
  PROVE  SettingsInductive'
<1>1. CASE UploadsTurnedOff(j)
  <2> DEFINE r == [IdleJob EXCEPT !.kind = "off", !.pc = "read", !.patch = Only("uploads", FALSE)]
  <2>1. Only("uploads", FALSE) \in SettingsObjects /\ AsksFor(Only("uploads", FALSE)) = {}
    BY OneSettingsField, SettingsFields
  <2>2. r \in JobRecords /\ r.patch = Only("uploads", FALSE) /\ r.seen = <<>> /\ r.pc = "read"
    BY <2>1, IdleFits DEF JobRecords, Steps, IdleJob
  <2>3. JobFits(r, asked)
    BY <2>1, <2>2, EmptyObject DEF JobFits
  <2>4. job' = [job EXCEPT ![j] = r] /\ UNCHANGED <<kept, engine, asked>>
    BY <1>1 DEF UploadsTurnedOff, Begins
  <2> HIDE DEF r
  <2> QED
    BY <2>3, <2>4, JobGoes
<1>2. CASE WorkerStarts(j)
  <2> DEFINE r == [IdleJob EXCEPT !.kind = "start", !.pc = "version"]
  <2>1. r \in JobRecords /\ r.patch = <<>> /\ r.seen = <<>> /\ r.pc = "version"
    BY IdleFits DEF JobRecords, Steps, IdleJob
  <2>2. JobFits(r, asked)
    BY <2>1, EmptyObject DEF JobFits
  <2>3. job' = [job EXCEPT ![j] = r] /\ UNCHANGED <<kept, engine, asked>>
    BY <1>2 DEF WorkerStarts, Begins
  <2> HIDE DEF r
  <2> QED
    BY <2>2, <2>3, JobGoes
<1> QED
  BY <1>1, <1>2

\* The write lays what was patched over what was read, over the defaults.
LEMMA WritingIsSafe ==
  ASSUME SettingsInductive, NEW j \in Jobs, SettingsWritten(j)
  PROVE  SettingsInductive'
<1> DEFINE new == Laid(job[j].patch, Laid(job[j].seen, Defaults))
           r == Saved(job[j], new)
<1>1. /\ new \in SettingsObjects /\ "currency" \in DOMAIN new
      /\ AsksFor(new) \subseteq AsksFor(job[j].patch) \cup AsksFor(job[j].seen)
  <2> DEFINE under == Laid(job[j].seen, Defaults)
  <2>1. under \in SettingsObjects /\ "currency" \in DOMAIN under /\ AsksFor(under) \subseteq AsksFor(job[j].seen)
    <3>1. job[j].seen \in SettingsObjects /\ Defaults \in SettingsObjects
      BY WhatFits, SettingsFields
    <3>2. /\ under \in SettingsObjects /\ DOMAIN under = DOMAIN job[j].seen \cup DOMAIN Defaults
          /\ AsksFor(under) \subseteq AsksFor(job[j].seen) \cup AsksFor(Defaults)
      BY <3>1, LaidObjects
    <3> HIDE DEF under
    <3> QED
      BY <3>1, <3>2, SettingsFields
  <2> HIDE DEF under
  <2>2. job[j].patch \in SettingsObjects
    BY WhatFits
  <2>3. /\ Laid(job[j].patch, under) \in SettingsObjects /\ "currency" \in DOMAIN Laid(job[j].patch, under)
        /\ AsksFor(Laid(job[j].patch, under)) \subseteq AsksFor(job[j].patch) \cup AsksFor(under)
    BY <2>1, <2>2, LaidObjects
  <2> QED
    BY <2>1, <2>3 DEF under
<1>2. AsksFor(new) \subseteq asked
  BY <1>1, WhatFits DEF JobFits
<1>3. kept' = [version |-> kept.version, settings |-> new] /\ UNCHANGED <<engine, asked>>
  BY WhatFits DEF SettingsWritten
<1> HIDE DEF new
<1>4. kept' \in [version : Nat, settings : SettingsObjects] /\ kept'.settings = new
  BY <1>1, <1>3, WhatFits
<1>5. /\ r \in JobRecords /\ r.seen = new /\ r.patch = job[j].patch /\ r.pc = "init"
  BY <1>1, WhatFits DEF JobRecords, Steps, Saved
<1>6. JobFits(r, asked)
  BY <1>1, <1>2, <1>5, WhatFits DEF JobFits
<1>7. job' = [job EXCEPT ![j] = Finished] \/ job' = [job EXCEPT ![j] = r]
  BY <1>4 DEF SettingsWritten
<1> HIDE DEF r
<1> QED
  BY <1>2, <1>3, <1>4, <1>6, <1>7, IdleFits, JobChanges DEF SettingsInductive

LEMMA EngineIsSafe ==
  ASSUME SettingsInductive, NEW j \in Jobs, EngineUpdated(j) \/ EngineReads(j) \/ EngineWritten(j)
  PROVE  SettingsInductive'
<1>1. CASE EngineUpdated(j)
  <2>1. job[j].pc = "init" /\ engine' = job[j].seen["currency"] /\ UNCHANGED <<kept, asked>>
        /\ job' = [job EXCEPT ![j].pc = "engine read", ![j].seen = <<>>]
    BY <1>1 DEF EngineUpdated, At
  <2>2. "currency" \in DOMAIN job[j].seen /\ job[j].seen \in SettingsObjects
    BY <2>1, WhatFits DEF JobFits
  <2>3. engine' \in Currencies \cup BOOLEAN
    BY <2>1, <2>2 DEF SettingsObjects
  <2> DEFINE r == [job[j] EXCEPT !.pc = "engine read", !.seen = <<>>]
  <2>4. JobFits(r, asked)
    BY WhatFits, EmptyObject, ReadFits DEF Steps
  <2>5. job' = [job EXCEPT ![j] = r]
    BY <2>1
  <2> HIDE DEF r
  <2> QED
    BY <2>1, <2>3, <2>4, <2>5, JobChanges DEF SettingsInductive
<1>2. CASE EngineReads(j)
  <2>1. UNCHANGED <<kept, engine, asked>>
        /\ job' = [job EXCEPT ![j].pc = "engine write", ![j].seen = kept.settings]
    BY <1>2 DEF EngineReads
  <2>2. "engine write" \in Steps
    BY DEF Steps
  <2> QED
    BY <2>1, <2>2, ReadingIsSafe
<1>3. CASE EngineWritten(j)
  <2> DEFINE new == Laid(Only("currency", engine), job[j].seen)
             asksUser == [IdleJob EXCEPT !.kind = "site", !.pc = "look", !.force = TRUE]
             answers == [job[j] EXCEPT !.pc = "answer", !.seen = <<>>]
  <2>1. Only("currency", engine) \in SettingsObjects /\ AsksFor(Only("currency", engine)) = {}
    BY OneSettingsField, SettingsFields DEF SettingsInductive, OptIns
  <2>2. new \in SettingsObjects /\ AsksFor(new) \subseteq AsksFor(job[j].seen)
    BY <2>1, WhatFits, LaidObjects
  <2>3. AsksFor(new) \subseteq asked
    BY <2>2, WhatFits DEF JobFits
  <2>4. kept' = [version |-> kept.version, settings |-> new] /\ UNCHANGED <<engine, asked>>
    BY <1>3, WhatFits DEF EngineWritten
  <2> HIDE DEF new
  <2>5. kept' \in [version : Nat, settings : SettingsObjects] /\ kept'.settings = new
    BY <2>2, <2>4, WhatFits
  <2>6. asksUser \in JobRecords /\ asksUser.patch = <<>> /\ asksUser.seen = <<>> /\ asksUser.pc = "look"
    BY IdleFits DEF JobRecords, Steps, IdleJob
  <2>7. JobFits(asksUser, asked)
    BY <2>6, EmptyObject DEF JobFits
  <2>8. JobFits(answers, asked)
    BY WhatFits, EmptyObject, ReadFits DEF Steps
  <2>9. job' = [job EXCEPT ![j] = asksUser] \/ job' = [job EXCEPT ![j] = answers]
    BY <1>3 DEF EngineWritten
  <2> HIDE DEF asksUser, answers
  <2> QED
    BY <2>3, <2>4, <2>5, <2>7, <2>8, <2>9, JobChanges DEF SettingsInductive
<1> QED
  BY <1>1, <1>2, <1>3

LEMMA SiteIsSafe ==
  ASSUME SettingsInductive, NEW j \in Jobs, SyncLooks(j) \/ SiteAnswers(j)
  PROVE  SettingsInductive'
<1>1. "answer" \in Steps /\ "ask" \in Steps /\ "read" \in Steps
  BY DEF Steps
<1>2. UNCHANGED <<kept, engine, asked>>
  BY DEF SyncLooks, SiteAnswers
<1>3. CASE Goes(j, "answer")
  BY <1>1, <1>2, <1>3, GoingIsSafe
<1>4. CASE job' = [job EXCEPT ![j].kind = "site", ![j].pc = "ask"]
  <2> DEFINE r == [job[j] EXCEPT !.kind = "site", !.pc = "ask"]
  <2>1. r \in JobRecords /\ r.seen = job[j].seen /\ r.patch = job[j].patch /\ r.pc = "ask"
    BY WhatFits, <1>1 DEF JobRecords
  <2>2. JobFits(r, asked)
    BY <2>1, WhatFits DEF JobFits
  <2>3. job' = [job EXCEPT ![j] = r]
    BY <1>4
  <2> HIDE DEF r
  <2> QED
    BY <1>2, <2>2, <2>3, JobGoes
<1>5. CASE \E c \in Currencies : job' = [job EXCEPT ![j].pc = "read", ![j].patch = Only("currency", c)]
  <2>1. PICK c \in Currencies : job' = [job EXCEPT ![j].pc = "read", ![j].patch = Only("currency", c)]
    BY <1>5
  <2> DEFINE r == [job[j] EXCEPT !.pc = "read", !.patch = Only("currency", c)]
  <2>2. Only("currency", c) \in SettingsObjects /\ AsksFor(Only("currency", c)) = {}
    BY OneSettingsField, SettingsFields DEF OptIns
  <2>3. r \in JobRecords /\ r.seen = job[j].seen /\ r.patch = Only("currency", c) /\ r.pc = "read"
    BY <2>2, WhatFits, <1>1 DEF JobRecords
  <2>4. JobFits(r, asked)
    BY <2>2, <2>3, WhatFits DEF JobFits
  <2>5. job' = [job EXCEPT ![j] = r]
    BY <2>1
  <2> HIDE DEF r
  <2> QED
    BY <1>2, <2>4, <2>5, JobGoes
<1> QED
  BY <1>3, <1>4, <1>5 DEF SyncLooks, SiteAnswers

\* The migrations: they write what they read over the defaults.
LEMMA MigrationsAreSafe ==
  ASSUME SettingsInductive, NEW j \in Jobs,
         VersionRead(j) \/ MigrationWrites(j) \/ MigrationStamped(j)
  PROVE  SettingsInductive'
<1>1. CASE VersionRead(j)
  <2>1. PICK v \in {kept.version, 0} :
          job' = [job EXCEPT ![j].version = v, ![j].pc = IF v = CurrentVersion THEN "look" ELSE "up"]
    BY <1>1 DEF VersionRead
  <2> DEFINE pc == IF v = CurrentVersion THEN "look" ELSE "up"
             r == [job[j] EXCEPT !.version = v, !.pc = pc]
  <2>2. pc \in Steps /\ pc # "init" /\ v \in Nat
    BY WhatFits DEF Steps
  <2>3. job' = [job EXCEPT ![j] = r]
    BY <2>1
  <2> HIDE DEF pc
  <2>4. r \in JobRecords /\ r.seen = job[j].seen /\ r.patch = job[j].patch /\ r.pc = pc
    BY <2>2, WhatFits DEF JobRecords
  <2>5. JobFits(r, asked)
    BY <2>2, <2>4, WhatFits DEF JobFits
  <2>6. UNCHANGED <<kept, engine, asked>>
    BY <1>1 DEF VersionRead
  <2> HIDE DEF r
  <2> QED
    BY <2>3, <2>5, <2>6, JobGoes
<1>2. CASE MigrationWrites(j)
  <2> DEFINE new == MigratedFrom(job[j].seen)
             r == [job[j] EXCEPT !.pc = "stamp", !.seen = <<>>]
  <2>1. new \in SettingsObjects /\ AsksFor(new) \subseteq AsksFor(job[j].seen)
    BY WhatFits, SettingsFields, LaidObjects DEF MigratedFrom
  <2>2. AsksFor(new) \subseteq asked /\ AsksFor(kept.settings) \subseteq asked
    BY <2>1, WhatFits DEF JobFits, SettingsInductive
  <2>3. JobFits(r, asked)
    BY WhatFits, EmptyObject, ReadFits DEF Steps
  <2>4. job' = [job EXCEPT ![j] = r] /\ UNCHANGED <<engine, asked>>
    BY <1>2 DEF MigrationWrites
  <2>5. \/ kept' = kept
        \/ kept' = [version |-> kept.version, settings |-> new]
    BY <1>2, WhatFits DEF MigrationWrites
  <2> HIDE DEF new, r
  <2>6. /\ kept' \in [version : Nat, settings : SettingsObjects]
        /\ kept'.settings = kept.settings \/ kept'.settings = new
    BY <2>1, <2>5, WhatFits
  <2> QED
    BY <2>2, <2>3, <2>4, <2>6, JobChanges DEF SettingsInductive
<1>3. CASE MigrationStamped(j)
  <2> DEFINE v == IF job[j].version + 1 = CurrentVersion THEN 0 ELSE job[j].version + 1
             pc == IF job[j].version + 1 = CurrentVersion THEN "look" ELSE "up"
             r == [job[j] EXCEPT !.version = v, !.pc = pc]
  <2>1. job[j].version \in Nat
    BY WhatFits DEF JobRecords
  <2>2. v \in Nat /\ pc \in Steps /\ pc # "init"
    BY <2>1 DEF Steps
  <2>3. job' = [job EXCEPT ![j] = r] /\ UNCHANGED <<engine, asked>>
    BY <1>3 DEF MigrationStamped
  <2>4. kept' = [version |-> job[j].version + 1, settings |-> kept.settings]
    BY <1>3, WhatFits DEF MigrationStamped, Stamp
  <2>5. kept' \in [version : Nat, settings : SettingsObjects] /\ kept'.settings = kept.settings
    BY <2>1, <2>4, WhatFits
  <2> HIDE DEF v, pc
  <2>6. r \in JobRecords /\ r.seen = job[j].seen /\ r.patch = job[j].patch /\ r.pc = pc
    BY <2>2, WhatFits DEF JobRecords
  <2>7. JobFits(r, asked)
    BY <2>2, <2>6, WhatFits DEF JobFits
  <2> HIDE DEF r
  <2> QED
    BY <2>3, <2>5, <2>7, JobChanges DEF SettingsInductive
<1> QED
  BY <1>1, <1>2, <1>3

LEMMA JobStepsAreSafe ==
  ASSUME SettingsInductive, NEW j \in Jobs, JobStep(j)
  PROVE  SettingsInductive'
<1>1. "write" \in Steps /\ "up write" \in Steps /\ "answer" \in Steps
  BY DEF Steps
<1>2. CASE SettingsRead(j)
  BY <1>1, <1>2, ReadingIsSafe DEF SettingsRead
<1>3. CASE MigrationReads(j)
  BY <1>1, <1>3, ReadingIsSafe DEF MigrationReads
<1>4. CASE WriteFails(j)
  <2>1. UNCHANGED <<kept, engine, asked>> /\ (Goes(j, "answer") \/ Ends(j, FALSE))
    BY <1>4 DEF WriteFails
  <2> QED
    BY <1>1, <2>1, GoingIsSafe, EndingIsSafe DEF Ends
<1>5. CASE Answered(j) \/ MigrationFails(j)
  BY <1>5, EndingIsSafe DEF Answered, MigrationFails, Ends
<1> QED
  BY <1>2, <1>3, <1>4, <1>5, WritingIsSafe, EngineIsSafe, SiteIsSafe, MigrationsAreSafe
       DEF JobStep

LEMMA SettingsStep == SettingsInductive /\ [SettingsNext]_settingsVars => SettingsInductive'
<1> SUFFICES ASSUME SettingsInductive, [SettingsNext]_settingsVars PROVE SettingsInductive'
  OBVIOUS
<1>1. CASE PopupOpens \/ PopupGivesUp \/ UNCHANGED settingsVars
  BY <1>1 DEF PopupOpens, PopupGivesUp, settingsVars, SettingsInductive
<1>2. CASE WorkerStops
  <2>1. job' = [j \in Jobs |-> IF job[j] = IdleJob THEN IdleJob ELSE Finished]
        /\ engine' = HomeCurrency /\ UNCHANGED <<kept, asked>>
    BY <1>2 DEF WorkerStops
  <2>2. DOMAIN job' = Jobs /\ \A j \in Jobs : job'[j] = IdleJob \/ job'[j] = Finished
    BY <2>1
  <2>3. \A j \in Jobs : JobFits(job'[j], asked')
    BY <2>2, IdleFits
  <2>4. job' = [j \in Jobs |-> job'[j]]
    BY <2>1, <2>2
  <2> QED
    BY <2>1, <2>2, <2>3, <2>4, SettingsAssumption DEF SettingsInductive
<1>3. CASE \E j \in Jobs : UserChanges(j) \/ UploadsTurnedOff(j) \/ WorkerStarts(j) \/ JobStep(j)
  BY <1>3, UserIsSafe, BeginningsAreSafe, JobStepsAreSafe
<1> QED
  BY <1>1, <1>2, <1>3 DEF SettingsNext

LEMMA SettingsAreAskedFor == SettingsInductive => OptInsAreTheUsers
<1> SUFFICES ASSUME SettingsInductive, NEW f \in OptIns, On(f) PROVE f \in asked
  BY DEF OptInsAreTheUsers
<1>1. f \in AsksFor(Now)
  BY SettingsFields DEF On, Now, Laid, AsksFor, OptIns
<1>2. kept.settings \in SettingsObjects
  BY DEF SettingsInductive
<1>3. AsksFor(Now) \subseteq AsksFor(kept.settings)
  BY <1>2, SettingsFields, LaidObjects DEF Now
<1> QED
  BY <1>1, <1>3 DEF SettingsInductive

\* Whatever switch asks for the user's consent is on only if this user once turned it on.
THEOREM OptInsStayTheUsers == SettingsSpec => []OptInsAreTheUsers
<1> QED
  BY SettingsBegin, SettingsStep, SettingsAreAskedFor, PTL DEF SettingsSpec

-----------------------------------------------------------------------------

(***************************************************************************)
(* SteamReadSession.  A token is its provider's account's, nobody refers   *)
(* to a provider that has another account than the reader, and what nobody *)
(* refers to has no token left to be given away.                           *)
(***************************************************************************)
Someone == Accounts \cup {NoOne}
ReaderRecords ==
  [pc : {"idle", "tabs", "probe", "token", "mint", "api", "ask again"}, as : Someone,
   by : Providers \cup {NoProvider}, sent : Someone, rows : SUBSET Accounts]

SessionShapes ==
  /\ browser \in Someone /\ tab \in Accounts /\ slot \in Providers \cup {NoProvider}
  /\ account \in [Providers -> Someone] /\ token \in [Providers -> Someone]
  /\ minting \subseteq Providers /\ reader \in [Readers -> ReaderRecords]

\* What a reader of pc "api" sent, what it has read, and whom its provider reads for.
Honest(q, accounts) ==
  /\ q.rows \subseteq {q.as}
  /\ q.pc \in {"idle", "tabs", "probe"} => q.rows = {} /\ q.by = NoProvider
  /\ q.pc \in {"token", "mint", "api", "ask again"} =>
       q.as # NoOne /\ q.by \in Providers /\ accounts[q.by] = q.as
  /\ q.pc = "api" => q.sent = q.as

TokensAreTheirs ==
  \A p \in Providers : token[p] # NoOne => token[p] = account[p] /\ Referenced(p)

SessionInductive ==
  /\ SessionShapes /\ TokensAreTheirs
  /\ \A r \in Readers : Honest(reader[r], account)

LEMMA IdleIsHonest ==
  IdleReader \in ReaderRecords /\ IdleReader.by = NoProvider
  /\ \A accounts : Honest(IdleReader, accounts)
BY DEF IdleReader, ReaderRecords, Honest, Someone, NoProvider, NoOne

LEMMA SessionBegins == SessionInit => SessionInductive
<1> SUFFICES ASSUME SessionInit PROVE SessionInductive
  OBVIOUS
<1>1. SessionShapes
  BY IdleIsHonest, SessionAssumption DEF SessionInit, SessionShapes, Someone
<1>2. TokensAreTheirs
  BY DEF SessionInit, TokensAreTheirs
<1>3. \A r \in Readers : Honest(reader[r], account)
  BY IdleIsHonest DEF SessionInit
<1> QED
  BY <1>1, <1>2, <1>3 DEF SessionInductive

\* There are five providers, and the slot and three readers refer to at most four.
LEMMA FreeIsFree ==
  ASSUME SessionShapes
  PROVE  FreeProvider \in Providers /\ ~Referenced(FreeProvider)
<1> DEFINE a == slot
           b == reader["sync"].by
           c == reader["page"].by
           d == reader["history"].by
<1>1. a \in 0..5 /\ b \in 0..5 /\ c \in 0..5 /\ d \in 0..5
  <2>1. \A v \in Providers \cup {NoProvider} : v \in 0..5
    BY DEF Providers, NoProvider
  <2>2. \A r \in Readers : reader[r].by \in Providers \cup {NoProvider}
    BY DEF SessionShapes, ReaderRecords
  <2> QED
    BY <2>1, <2>2 DEF SessionShapes, Readers
<1>2. \A p : Referenced(p) <=> p = a \/ p = b \/ p = c \/ p = d
  BY DEF Referenced, Readers
<1> HIDE DEF a, b, c, d
<1>3. \E p \in Providers : ~Referenced(p)
  <2>1. \/ \A v \in {a, b, c, d} : v # 1
        \/ \A v \in {a, b, c, d} : v # 2
        \/ \A v \in {a, b, c, d} : v # 3
        \/ \A v \in {a, b, c, d} : v # 4
        \/ \A v \in {a, b, c, d} : v # 5
    BY <1>1
  <2>2. 1 \in Providers /\ 2 \in Providers /\ 3 \in Providers /\ 4 \in Providers /\ 5 \in Providers
    BY DEF Providers
  <2> QED
    BY <1>2, <2>1, <2>2
<1> QED
  BY <1>3 DEF FreeProvider

\* What is left of the objects once the garbage is gone.
LEMMA GarbageGoes ==
  ASSUME NEW accounts \in [Providers -> Someone], NEW tokens \in [Providers -> Someone],
         NEW mints \in SUBSET Providers, Objects(accounts, tokens, mints),
         \A p \in Providers : tokens[p] # NoOne => tokens[p] = accounts[p] \/ ~Referenced(p)'
  PROVE  /\ account' \in [Providers -> Someone] /\ token' \in [Providers -> Someone]
         /\ minting' \subseteq Providers /\ TokensAreTheirs'
         /\ \A p \in Providers : Referenced(p)' => account'[p] = accounts[p]
<1>1. account' = [p \in Providers |-> IF Referenced(p)' THEN accounts[p] ELSE NoOne]
      /\ token' = [p \in Providers |-> IF Referenced(p)' THEN tokens[p] ELSE NoOne]
      /\ minting' = {p \in mints : Referenced(p)'}
  BY DEF Objects, Live
<1>2. account' \in [Providers -> Someone] /\ token' \in [Providers -> Someone]
  BY <1>1 DEF Someone
<1>3. \A p \in Providers : /\ account'[p] = IF Referenced(p)' THEN accounts[p] ELSE NoOne
                          /\ token'[p] = IF Referenced(p)' THEN tokens[p] ELSE NoOne
  BY <1>1
<1>4. TokensAreTheirs'
  BY <1>3 DEF TokensAreTheirs
<1> QED
  BY <1>1, <1>2, <1>3, <1>4

\* An action that changes the readers and what is left of the providers.
LEMMA StepIsSafe ==
  ASSUME SessionInductive, NEW accounts \in [Providers -> Someone],
         NEW tokens \in [Providers -> Someone], NEW mints \in SUBSET Providers,
         Objects(accounts, tokens, mints),
         \A p \in Providers : tokens[p] # NoOne => tokens[p] = accounts[p] \/ ~Referenced(p)',
         browser' \in Someone, tab' \in Accounts, slot' \in Providers \cup {NoProvider},
         reader' \in [Readers -> ReaderRecords],
         \A r \in Readers : Honest(reader'[r], accounts)
  PROVE  SessionInductive'
<1>1. /\ account' \in [Providers -> Someone] /\ token' \in [Providers -> Someone]
      /\ minting' \subseteq Providers /\ TokensAreTheirs'
      /\ \A p \in Providers : Referenced(p)' => account'[p] = accounts[p]
  BY GarbageGoes
<1>2. SessionShapes'
  BY <1>1 DEF SessionShapes
<1>3. \A r \in Readers : Honest(reader'[r], account')
  <2> SUFFICES ASSUME NEW r \in Readers PROVE Honest(reader'[r], account')
    OBVIOUS
  <2>1. \A p : p = reader'[r].by => Referenced(p)'
    BY DEF Referenced
  <2>2. reader'[r].by \in Providers => account'[reader'[r].by] = accounts[reader'[r].by]
    BY <1>1, <2>1
  <2> QED
    BY <2>2 DEF Honest
<1> QED
  BY <1>1, <1>2, <1>3 DEF SessionInductive

\* An action that leaves the providers alone, and whose reader refers to the slot if to another.
LEMMA ReaderIsSafe ==
  ASSUME SessionInductive, NEW r \in Readers, NEW q \in ReaderRecords,
         reader' = [reader EXCEPT ![r] = q], Honest(q, account),
         reader[r].by \in {q.by, NoProvider},
         browser' \in Someone, tab' \in Accounts, minting' \subseteq Providers,
         UNCHANGED <<slot, account, token>>
  PROVE  SessionInductive'
<1>1. SessionShapes'
  BY DEF SessionInductive, SessionShapes
<1>2. \A s \in Readers : reader'[s] = IF s = r THEN q ELSE reader[s]
  BY DEF SessionInductive, SessionShapes
<1>3. \A s \in Readers : Honest(reader'[s], account')
  BY <1>2 DEF SessionInductive
<1>4. \A p \in Providers : Referenced(p) => Referenced(p)'
  <2> SUFFICES ASSUME NEW p \in Providers, Referenced(p) PROVE Referenced(p)'
    OBVIOUS
  <2>1. p # NoProvider
    BY DEF Providers, NoProvider
  <2> QED
    BY <1>2, <2>1 DEF Referenced
<1>5. TokensAreTheirs'
  BY <1>4 DEF TokensAreTheirs, SessionInductive
<1> QED
  BY <1>1, <1>3, <1>5 DEF SessionInductive

\* A reader that goes, and one that goes on.
LEMMA ReaderGoes ==
  ASSUME SessionInductive, NEW r \in Readers, Gone(r)
  PROVE  reader' \in [Readers -> ReaderRecords] /\ \A s \in Readers : Honest(reader'[s], account)
BY IdleIsHonest DEF Gone, SessionInductive, SessionShapes

LEMMA SessionShapesStay ==
  ASSUME SessionInductive
  PROVE  /\ account \in [Providers -> Someone] /\ token \in [Providers -> Someone]
         /\ minting \in SUBSET Providers /\ slot \in Providers \cup {NoProvider}
         /\ browser \in Someone /\ tab \in Accounts /\ tab \in Someone
         /\ reader \in [Readers -> ReaderRecords] /\ Forgotten \in [Providers -> Someone]
         /\ \A p \in Providers : token[p] # NoOne => token[p] = account[p]
         /\ \A p \in Providers : Forgotten[p] # NoOne => Forgotten[p] = account[p] /\ p # slot
         /\ \A p \in Providers : ~Referenced(p) => token[p] = NoOne /\ Forgotten[p] = NoOne
BY DEF SessionInductive, SessionShapes, Someone, TokensAreTheirs, Forgotten

(***************************************************************************)
(* The slot.                                                               *)
(***************************************************************************)
\* The provider for an account is its slot or a new one, which nobody has.
LEMMA InstallingIsSafe ==
  ASSUME SessionInductive, NEW seen \in Accounts, NEW credential \in BOOLEAN,
         Installed(seen, credential), UNCHANGED <<browser, tab>>,
         reader' \in [Readers -> ReaderRecords],
         \A r \in Readers : Honest(reader'[r], [account EXCEPT ![IF SlotFits(seen) THEN slot ELSE FreeProvider] = seen])
  PROVE  SessionInductive'
<1> DEFINE p == IF SlotFits(seen) THEN slot ELSE FreeProvider
           carried == IF SlotFits(seen) THEN token ELSE Forgotten
           accounts == [account EXCEPT ![p] = seen]
           tokens == IF credential THEN [carried EXCEPT ![p] = seen] ELSE carried
<1>1. p \in Providers /\ seen \in Someone
  BY FreeIsFree, SessionShapesStay DEF SlotFits, SessionInductive, Someone
<1>2. SlotFits(seen) => account[p] = seen
  BY DEF SlotFits
<1>3. ~SlotFits(seen) => carried[p] = NoOne
  BY FreeIsFree, SessionShapesStay DEF SessionInductive
<1>4. carried \in [Providers -> Someone] /\ \A i \in Providers : carried[i] # NoOne => carried[i] = account[i]
  BY SessionShapesStay
<1>5. slot' = p /\ Objects(accounts, tokens, minting)
  BY DEF Installed
<1> HIDE DEF p, carried
<1>6. accounts \in [Providers -> Someone] /\ tokens \in [Providers -> Someone]
  BY <1>1, <1>4, SessionShapesStay
<1>7. \A i \in Providers : accounts[i] = IF i = p THEN seen ELSE account[i]
  BY <1>1, SessionShapesStay
<1>8. \A i \in Providers : tokens[i] = IF credential /\ i = p THEN seen ELSE carried[i]
  BY <1>1, <1>4
<1>9. \A i \in Providers : tokens[i] # NoOne => tokens[i] = accounts[i]
  BY <1>2, <1>3, <1>4, <1>7, <1>8
<1>10. \A r \in Readers : Honest(reader'[r], accounts)
  BY DEF p
<1> HIDE DEF accounts, tokens
<1> QED
  BY <1>1, <1>5, <1>6, <1>9, <1>10, SessionShapesStay, StepIsSafe

LEMMA OthersStayHonest ==
  ASSUME SessionInductive, NEW seen \in Accounts, NEW r \in Readers
  PROVE  Honest(reader[r], [account EXCEPT ![IF SlotFits(seen) THEN slot ELSE FreeProvider] = seen])
<1> DEFINE p == IF SlotFits(seen) THEN slot ELSE FreeProvider
<1>1. p \in Providers
  BY FreeIsFree, SessionShapesStay DEF SlotFits, SessionInductive
<1>2. SlotFits(seen) => account[p] = seen
  BY DEF SlotFits
<1>3. ~SlotFits(seen) => ~Referenced(p)
  BY FreeIsFree DEF SessionInductive
<1>4. reader[r].by = p => SlotFits(seen)
  BY <1>3 DEF Referenced
<1> HIDE DEF p
<1>5. reader[r].by \in Providers => [account EXCEPT ![p] = seen][reader[r].by] = account[reader[r].by]
  BY <1>1, <1>2, <1>4, SessionShapesStay
<1>6. Honest(reader[r], account)
  BY DEF SessionInductive
<1>7. Honest(reader[r], [account EXCEPT ![p] = seen])
  BY <1>5, <1>6 DEF Honest
<1> QED
  BY <1>7 DEF p

LEMMA EmptyingIsSafe ==
  ASSUME SessionInductive, Emptied, UNCHANGED <<browser, tab>>,
         reader' \in [Readers -> ReaderRecords], \A r \in Readers : Honest(reader'[r], account)
  PROVE  SessionInductive'
<1>1. slot' = NoProvider /\ Objects(account, Forgotten, minting)
  BY DEF Emptied
<1> QED
  BY <1>1, SessionShapesStay, StepIsSafe

LEMMA ProviderIsSafe ==
  ASSUME SessionInductive, NEW r \in Readers, NEW as \in Someone, NEW seen \in Someone,
         NEW credential \in BOOLEAN, reader[r].rows = {}, ProviderFor(r, as, seen, credential),
         UNCHANGED <<browser, tab>>
  PROVE  SessionInductive'
<1>1. CASE Gone(r) /\ Emptied
  BY <1>1, ReaderGoes, EmptyingIsSafe
<1>2. CASE ~ReaderRefused(as, seen) /\ ~(Gone(r) /\ Emptied)
  <2> DEFINE p == IF SlotFits(seen) THEN slot ELSE FreeProvider
             q == [reader[r] EXCEPT !.pc = "token", !.as = seen, !.by = p]
  <2>1. seen \in Accounts
    BY <1>2 DEF ReaderRefused, Someone
  <2>2. p \in Providers
    BY FreeIsFree, SessionShapesStay DEF SlotFits, SessionInductive
  <2>3. reader' = [reader EXCEPT ![r] = q] /\ Installed(seen, credential)
    BY <1>2 DEF ProviderFor
  <2>4. \A s \in Readers : Honest(reader[s], [account EXCEPT ![p] = seen])
    BY <2>1, OthersStayHonest
  <2> HIDE DEF p
  <2>5. /\ q \in ReaderRecords /\ q.rows = {} /\ q.pc = "token" /\ q.as = seen /\ q.by = p
    BY <2>2, SessionShapesStay DEF ReaderRecords
  <2>6. Honest(q, [account EXCEPT ![p] = seen])
    BY <2>1, <2>2, <2>5, SessionShapesStay, SessionAssumption DEF Honest, NoOne
  <2> HIDE DEF q
  <2>7. reader' \in [Readers -> ReaderRecords] /\ \A s \in Readers : Honest(reader'[s], [account EXCEPT ![p] = seen])
    BY <2>3, <2>4, <2>5, <2>6, SessionShapesStay
  <2> QED
    BY <2>1, <2>3, <2>7, InstallingIsSafe DEF p
<1> QED
  BY <1>1, <1>2 DEF ProviderFor

(***************************************************************************)
(* The readers.                                                            *)
(***************************************************************************)
\* A reader that only goes on.
LEMMA GoesOn ==
  ASSUME SessionInductive, NEW r \in Readers, NEW q \in ReaderRecords, Honest(q, account),
         reader' = [reader EXCEPT ![r] = q], q.by = reader[r].by, minting' \subseteq Providers,
         UNCHANGED <<browser, tab, slot, account, token>>
  PROVE  SessionInductive'
BY SessionShapesStay, ReaderIsSafe

LEMMA BeginsHonest ==
  ASSUME SessionInductive
  PROVE  /\ \A r \in Readers : reader[r] \in ReaderRecords /\ Honest(reader[r], account)
         /\ \A r \in Readers : reader[r].pc \in {"idle", "tabs", "probe"} =>
                              reader[r].rows = {} /\ reader[r].by = NoProvider
BY DEF SessionInductive, SessionShapes, Honest

LEMMA SyncIsSafe ==
  ASSUME SessionInductive, SyncReads \/ TabsAnswer
  PROVE  SessionInductive'
<1>0. "sync" \in Readers /\ Paired \in Accounts /\ Paired \in Someone
  BY SessionAssumption DEF Readers, Someone
<1>1. CASE SyncReads
  <2> DEFINE ready == [reader["sync"] EXCEPT !.pc = "token", !.by = slot, !.as = Paired]
             looksOn == [reader["sync"] EXCEPT !.pc = "tabs", !.as = Paired]
  <2>1. UNCHANGED <<browser, tab, slot, account, token, minting>> /\ reader["sync"].pc = "idle"
    BY <1>1 DEF SyncReads, MayStart
  <2>2. reader["sync"] \in ReaderRecords /\ reader["sync"].rows = {}
        /\ reader["sync"].by = NoProvider
    BY <1>0, <2>1, BeginsHonest
  <2>3. \/ reader' = [reader EXCEPT !["sync"] = ready] /\ SlotFits(Paired)
        \/ reader' = [reader EXCEPT !["sync"] = looksOn]
    BY <1>1 DEF SyncReads
  <2>4. ASSUME SlotFits(Paired), reader' = [reader EXCEPT !["sync"] = ready] PROVE SessionInductive'
    <3>1. slot \in Providers /\ account[slot] = Paired
      BY <2>4, SessionShapesStay DEF SlotFits
    <3>2. /\ ready \in ReaderRecords /\ ready.pc = "token" /\ ready.as = Paired /\ ready.by = slot
          /\ ready.rows = {}
      BY <1>0, <2>2, <3>1 DEF ReaderRecords
    <3> HIDE DEF ready
    <3>3. Honest(ready, account)
      BY <1>0, <3>1, <3>2, SessionAssumption DEF Honest, NoOne
    <3> QED
      BY <1>0, <2>1, <2>2, <2>4, <3>2, <3>3, ReaderIsSafe, SessionShapesStay
  <2>5. ASSUME reader' = [reader EXCEPT !["sync"] = looksOn] PROVE SessionInductive'
    <3>1. /\ looksOn \in ReaderRecords /\ looksOn.pc = "tabs" /\ looksOn.rows = {}
          /\ looksOn.by = reader["sync"].by
      BY <1>0, <2>2 DEF ReaderRecords
    <3> HIDE DEF looksOn
    <3>2. Honest(looksOn, account)
      BY <2>2, <3>1 DEF Honest
    <3> QED
      BY <1>0, <2>1, <2>5, <3>1, <3>2, GoesOn, SessionShapesStay
  <2> QED
    BY <2>3, <2>4, <2>5
<1>2. CASE TabsAnswer
  <2> DEFINE probes == [reader["sync"] EXCEPT !.pc = "probe"]
  <2>1. reader["sync"].pc = "tabs" /\ UNCHANGED <<browser, tab>>
    BY <1>2 DEF TabsAnswer
  <2>2. reader["sync"] \in ReaderRecords /\ reader["sync"].rows = {}
        /\ reader["sync"].by = NoProvider
    BY <1>0, <2>1, BeginsHonest
  <2>3. CASE tab = Paired /\ ProviderFor("sync", Paired, tab, TRUE)
    BY <1>0, <2>1, <2>2, <2>3, ProviderIsSafe
  <2>4. CASE To("sync", "probe") /\ UNCHANGED <<slot, account, token, minting>>
    <3>1. /\ probes \in ReaderRecords /\ probes.pc = "probe" /\ probes.rows = {}
          /\ probes.by = NoProvider
      BY <1>0, <2>2 DEF ReaderRecords
    <3>2. reader' = [reader EXCEPT !["sync"] = probes]
      BY <2>4 DEF To
    <3> HIDE DEF probes
    <3>3. Honest(probes, account)
      BY <2>2, <3>1 DEF Honest
    <3> QED
      BY <1>0, <2>1, <2>2, <2>4, <3>1, <3>2, <3>3, GoesOn, SessionShapesStay
  <2> QED
    BY <1>2, <2>3, <2>4 DEF TabsAnswer
<1> QED
  BY <1>1, <1>2

LEMMA PagesAreSafe ==
  ASSUME SessionInductive, PageReads \/ PageOffers
  PROVE  SessionInductive'
<1>0. "page" \in Readers /\ Paired \in Accounts /\ tab \in Accounts /\ tab \in Someone
  BY SessionAssumption, SessionShapesStay DEF Readers
<1>1. CASE PageReads
  <2>1. reader["page"].pc = "idle" /\ UNCHANGED <<browser, tab>> /\ ProviderFor("page", tab, tab, TRUE)
    BY <1>1 DEF PageReads, MayStart
  <2>2. reader["page"].rows = {}
    BY <1>0, <2>1, BeginsHonest
  <2> QED
    BY <1>0, <2>1, <2>2, ProviderIsSafe
<1>2. CASE PageOffers
  <2>1. UNCHANGED <<browser, tab, reader>> /\ (Emptied \/ Installed(tab, TRUE))
    BY <1>2 DEF PageOffers
  <2>2. CASE Emptied
    BY <2>1, <2>2, EmptyingIsSafe, BeginsHonest, SessionShapesStay
  <2>3. CASE Installed(tab, TRUE)
    BY <1>0, <2>1, <2>3, InstallingIsSafe, OthersStayHonest, SessionShapesStay
  <2> QED
    BY <2>1, <2>2, <2>3
<1> QED
  BY <1>1, <1>2

LEMMA HistoryIsSafe ==
  ASSUME SessionInductive, NEW r \in Readers, HistoryReads \/ ProbeAnswers(r)
  PROVE  SessionInductive'
<1>1. CASE HistoryReads
  <2> DEFINE probes == [reader["history"] EXCEPT !.pc = "probe"]
  <2>1. reader["history"].pc = "idle" /\ UNCHANGED <<browser, tab, slot, account, token, minting>>
        /\ reader' = [reader EXCEPT !["history"] = probes] /\ "history" \in Readers
    BY <1>1 DEF HistoryReads, MayStart, To, Readers
  <2>2. reader["history"] \in ReaderRecords /\ reader["history"].rows = {}
        /\ reader["history"].by = NoProvider
    BY <2>1, BeginsHonest
  <2>3. /\ probes \in ReaderRecords /\ probes.pc = "probe" /\ probes.rows = {}
        /\ probes.by = NoProvider
    BY <2>2 DEF ReaderRecords
  <2> HIDE DEF probes
  <2>4. Honest(probes, account)
    BY <2>3 DEF Honest
  <2> QED
    BY <2>1, <2>2, <2>3, <2>4, GoesOn, SessionShapesStay
<1>2. CASE ProbeAnswers(r)
  <2>1. PICK seen \in {browser, NoOne} : ProviderFor(r, reader[r].as, seen, FALSE)
    BY <1>2 DEF ProbeAnswers
  <2>2. reader[r].pc = "probe" /\ UNCHANGED <<browser, tab>>
    BY <1>2 DEF ProbeAnswers
  <2>3. reader[r].rows = {} /\ reader[r].as \in Someone /\ seen \in Someone
    BY <2>2, BeginsHonest, SessionShapesStay DEF ReaderRecords, Someone
  <2> QED
    BY <2>1, <2>2, <2>3, ProviderIsSafe
<1> QED
  BY <1>1, <1>2

LEMMA AskingIsSafe ==
  ASSUME SessionInductive, NEW r \in Readers, TokenAsked(r)
  PROVE  SessionInductive'
<1> DEFINE p == reader[r].by
           sends == [reader[r] EXCEPT !.pc = "api", !.sent = token[p], !.rows = {}]
           mints == [reader[r] EXCEPT !.pc = "mint", !.rows = {}]
<1>1. reader[r].pc = "token" /\ UNCHANGED <<browser, tab, slot, account, token>>
  BY DEF TokenAsked
<1>2. reader[r] \in ReaderRecords /\ p \in Providers /\ account[p] = reader[r].as
      /\ reader[r].as # NoOne
  BY <1>1, BeginsHonest DEF Honest
<1>3. \/ token[p] # NoOne /\ reader' = [reader EXCEPT ![r] = sends] /\ UNCHANGED minting
      \/ reader' = [reader EXCEPT ![r] = mints] /\ minting' = minting \cup {p}
  BY DEF TokenAsked
<1>4. CASE token[p] # NoOne /\ reader' = [reader EXCEPT ![r] = sends] /\ UNCHANGED minting
  <2>1. token[p] \in Someone /\ token[p] = account[p]
    BY <1>2, <1>4, SessionShapesStay
  <2>2. /\ sends \in ReaderRecords /\ sends.pc = "api" /\ sends.sent = token[p] /\ sends.rows = {}
        /\ sends.as = reader[r].as /\ sends.by = p
    BY <1>2, <2>1 DEF ReaderRecords
  <2> HIDE DEF sends
  <2>3. Honest(sends, account)
    BY <1>2, <2>1, <2>2 DEF Honest
  <2> QED
    BY <1>1, <1>4, <2>2, <2>3, GoesOn, SessionShapesStay
<1>5. CASE reader' = [reader EXCEPT ![r] = mints] /\ minting' = minting \cup {p}
  <2>1. /\ mints \in ReaderRecords /\ mints.pc = "mint" /\ mints.rows = {}
        /\ mints.as = reader[r].as /\ mints.by = p
    BY <1>2 DEF ReaderRecords
  <2> HIDE DEF mints
  <2>2. Honest(mints, account)
    BY <1>2, <2>1 DEF Honest
  <2> QED
    BY <1>1, <1>2, <1>5, <2>1, <2>2, GoesOn, SessionShapesStay
<1> QED
  BY <1>3, <1>4, <1>5

\* A mint is stored only if it is the provider's account's.
LEMMA MintingIsSafe ==
  ASSUME SessionInductive, NEW p \in Providers, MintAnswers(p)
  PROVE  SessionInductive'
<1> DEFINE waiting == {r \in Readers : reader[r].pc = "mint" /\ reader[r].by = p}
           hears(r) == [reader[r] EXCEPT !.pc = "api", !.sent = browser]
<1>1. UNCHANGED <<browser, tab, slot>>
  BY DEF MintAnswers
<1>2. CASE /\ browser # NoOne /\ MintIsOurs(p)
           /\ reader' = [r \in Readers |-> IF r \in waiting THEN hears(r) ELSE reader[r]]
           /\ Objects(account, [token EXCEPT ![p] = browser], minting \ {p})
  <2>1. browser = account[p] /\ browser \in Someone
    BY <1>2, SessionShapesStay DEF MintIsOurs
  <2>2. \A r \in waiting : hears(r) \in ReaderRecords /\ Honest(hears(r), account)
    <3> SUFFICES ASSUME NEW r \in Readers, reader[r].pc = "mint", reader[r].by = p
                 PROVE  hears(r) \in ReaderRecords /\ Honest(hears(r), account)
      OBVIOUS
    <3>1. /\ reader[r] \in ReaderRecords /\ reader[r].as = account[p] /\ reader[r].as # NoOne
          /\ reader[r].rows \subseteq {reader[r].as}
      BY BeginsHonest DEF Honest
    <3>2. /\ hears(r) \in ReaderRecords /\ hears(r).pc = "api" /\ hears(r).sent = browser
          /\ hears(r).as = reader[r].as /\ hears(r).by = p /\ hears(r).rows = reader[r].rows
      BY <2>1, <3>1 DEF ReaderRecords
    <3> HIDE DEF hears
    <3> QED
      BY <2>1, <3>1, <3>2 DEF Honest
  <2> HIDE DEF hears, waiting
  <2>3. reader' \in [Readers -> ReaderRecords] /\ \A r \in Readers : Honest(reader'[r], account)
    BY <1>2, <2>2, BeginsHonest
  <2> DEFINE tokens == [token EXCEPT ![p] = browser]
  <2>4. tokens \in [Providers -> Someone] /\ \A i \in Providers : tokens[i] # NoOne => tokens[i] = account[i]
    BY <2>1, SessionShapesStay
  <2>5. minting \ {p} \in SUBSET Providers
    BY SessionShapesStay
  <2>6. Objects(account, tokens, minting \ {p})
    BY <1>2
  <2> HIDE DEF tokens
  <2> QED
    BY <1>1, <2>3, <2>4, <2>5, <2>6, SessionShapesStay, StepIsSafe
<1>3. CASE /\ reader' = [r \in Readers |-> IF r \in waiting THEN IdleReader ELSE reader[r]]
           /\ Objects(account, token, minting \ {p})
  <2> HIDE DEF waiting
  <2>1. reader' \in [Readers -> ReaderRecords] /\ \A r \in Readers : Honest(reader'[r], account)
    BY <1>3, IdleIsHonest, BeginsHonest
  <2>2. minting \ {p} \in SUBSET Providers
    BY SessionShapesStay
  <2> QED
    BY <1>1, <1>3, <2>1, <2>2, SessionShapesStay, StepIsSafe
<1> QED
  BY <1>2, <1>3 DEF MintAnswers

LEMMA AnswersAreHonest ==
  ASSUME SessionInductive, NEW r \in Readers, ApiAnswers(r) \/ LastRowRead(r)
  PROVE  SessionInductive'
<1> DEFINE files == [reader[r] EXCEPT !.rows = {reader[r].sent}, !.sent = NoOne, !.pc = "token"]
           again == [reader[r] EXCEPT !.pc = "ask again", !.sent = NoOne]
<1>1. UNCHANGED <<browser, tab, slot>>
  BY DEF ApiAnswers, LastRowRead
<1>2. CASE Gone(r) /\ Objects(account, token, minting)
  BY <1>1, <1>2, ReaderGoes, SessionShapesStay, StepIsSafe
<1>3. ASSUME reader[r].pc = "api", UNCHANGED <<account, token, minting>>,
             \/ reader' = [reader EXCEPT ![r] = files]
             \/ reader' = [reader EXCEPT ![r] = again]
      PROVE  SessionInductive'
  <2>1. /\ reader[r] \in ReaderRecords /\ reader[r].by \in Providers
        /\ account[reader[r].by] = reader[r].as /\ reader[r].sent = reader[r].as
        /\ reader[r].rows \subseteq {reader[r].as} /\ reader[r].as # NoOne
    BY <1>3, BeginsHonest DEF Honest
  <2>2. reader[r].as \in Accounts
    BY <1>3, <2>1, BeginsHonest DEF Honest, ReaderRecords, Someone
  <2>3. /\ files \in ReaderRecords /\ files.pc = "token" /\ files.rows = {reader[r].as}
        /\ files.as = reader[r].as /\ files.by = reader[r].by
    BY <2>1, <2>2 DEF ReaderRecords, Someone
  <2>4. /\ again \in ReaderRecords /\ again.pc = "ask again" /\ again.rows = reader[r].rows
        /\ again.as = reader[r].as /\ again.by = reader[r].by
    BY <2>1 DEF ReaderRecords, Someone
  <2> HIDE DEF files, again
  <2>5. Honest(files, account) /\ Honest(again, account)
    BY <2>1, <2>3, <2>4 DEF Honest
  <2>6. minting' \subseteq Providers
    BY <1>3, SessionShapesStay
  <2>7. CASE reader' = [reader EXCEPT ![r] = files]
    BY <1>1, <1>3, <2>3, <2>5, <2>6, <2>7, GoesOn
  <2>8. CASE reader' = [reader EXCEPT ![r] = again]
    BY <1>1, <1>3, <2>4, <2>5, <2>6, <2>8, GoesOn
  <2> QED
    BY <1>3, <2>7, <2>8
<1>4. CASE ApiAnswers(r)
  <2>1. reader[r].pc = "api"
    BY <1>4 DEF ApiAnswers
  <2>2. \/ reader' = [reader EXCEPT ![r] = files] /\ UNCHANGED <<account, token, minting>>
        \/ reader' = [reader EXCEPT ![r] = again] /\ UNCHANGED <<account, token, minting>>
        \/ Gone(r) /\ Objects(account, token, minting)
    BY <1>4 DEF ApiAnswers
  <2> QED
    BY <1>2, <1>3, <2>1, <2>2
<1>5. CASE LastRowRead(r)
  BY <1>2, <1>5 DEF LastRowRead
<1> QED
  BY <1>4, <1>5

\* A fresh token is the provider's account's, a forgotten one is nobody's.
LEMMA RefreshingIsSafe ==
  ASSUME SessionInductive, NEW r \in Readers, Refreshed(r)
  PROVE  SessionInductive'
<1> DEFINE p == reader[r].by
           asksAgain == [reader[r] EXCEPT !.pc = "token"]
           mints == [reader[r] EXCEPT !.pc = "mint"]
<1>1. reader[r].pc = "ask again" /\ UNCHANGED <<browser, tab, slot, account>>
  BY DEF Refreshed
<1>2. /\ reader[r] \in ReaderRecords /\ p \in Providers /\ account[p] = reader[r].as
      /\ reader[r].as # NoOne /\ reader[r].rows \subseteq {reader[r].as}
  BY <1>1, BeginsHonest DEF Honest
<1>3. /\ asksAgain \in ReaderRecords /\ asksAgain.pc = "token" /\ asksAgain.rows = reader[r].rows
      /\ asksAgain.as = reader[r].as /\ asksAgain.by = p
  BY <1>2 DEF ReaderRecords
<1>4. /\ mints \in ReaderRecords /\ mints.pc = "mint" /\ mints.rows = reader[r].rows
      /\ mints.as = reader[r].as /\ mints.by = p
  BY <1>2 DEF ReaderRecords
<1>5. \/ /\ tab = account[p] /\ token' = [token EXCEPT ![p] = tab]
         /\ reader' = [reader EXCEPT ![r] = asksAgain] /\ UNCHANGED minting
      \/ /\ minting' = minting \cup {p} /\ reader' = [reader EXCEPT ![r] = mints]
         /\ UNCHANGED token
  BY DEF Refreshed, To
<1> HIDE DEF asksAgain, mints
<1>6. Honest(asksAgain, account) /\ Honest(mints, account)
  BY <1>2, <1>3, <1>4 DEF Honest
<1>7. CASE minting' = minting \cup {p} /\ reader' = [reader EXCEPT ![r] = mints] /\ UNCHANGED token
  BY <1>1, <1>2, <1>4, <1>6, <1>7, GoesOn, SessionShapesStay
<1>8. CASE /\ tab = account[p] /\ token' = [token EXCEPT ![p] = tab]
           /\ reader' = [reader EXCEPT ![r] = asksAgain] /\ UNCHANGED minting
  <2>1. \A s \in Readers : reader'[s] = IF s = r THEN asksAgain ELSE reader[s]
    BY <1>8, SessionShapesStay
  <2>2. reader' \in [Readers -> ReaderRecords] /\ \A s \in Readers : Honest(reader'[s], account')
    BY <1>1, <1>3, <1>6, <1>8, <2>1, BeginsHonest, SessionShapesStay
  <2>3. token' \in [Providers -> Someone] /\ \A i \in Providers : token'[i] = IF i = p THEN tab ELSE token[i]
    BY <1>8, SessionShapesStay
  <2>4. \A i : Referenced(i)' <=> Referenced(i)
    BY <1>1, <1>3, <2>1 DEF Referenced
  <2>5. Referenced(p)
    BY DEF Referenced
  <2>6. TokensAreTheirs'
    BY <1>1, <1>8, <2>3, <2>4, <2>5 DEF TokensAreTheirs, SessionInductive
  <2>7. SessionShapes'
    BY <1>1, <1>8, <2>2, <2>3 DEF SessionShapes, SessionInductive
  <2> QED
    BY <2>2, <2>6, <2>7 DEF SessionInductive
<1> QED
  BY <1>5, <1>7, <1>8

LEMMA CancellingIsSafe ==
  ASSUME SessionInductive, SyncCancelled
  PROVE  SessionInductive'
<1> DEFINE p == reader["sync"].by
           tokens == [token EXCEPT ![p] = NoOne]
<1>1. "sync" \in Readers /\ UNCHANGED <<browser, tab, slot>> /\ Gone("sync") /\ Objects(account, tokens, minting)
  BY DEF SyncCancelled, Readers
<1>2. reader' \in [Readers -> ReaderRecords] /\ \A s \in Readers : Honest(reader'[s], account)
  BY <1>1, ReaderGoes
<1>3. tokens \in [Providers -> Someone] /\ \A i \in Providers : tokens[i] # NoOne => tokens[i] = account[i]
  BY SessionShapesStay DEF Someone
<1> HIDE DEF tokens
<1> QED
  BY <1>1, <1>2, <1>3, SessionShapesStay, StepIsSafe

LEMMA SessionStep == SessionInductive /\ [SessionNext]_sessionVars => SessionInductive'
<1> SUFFICES ASSUME SessionInductive, [SessionNext]_sessionVars PROVE SessionInductive'
  OBVIOUS
<1>1. CASE SessionCleared
  BY <1>1, EmptyingIsSafe, BeginsHonest, SessionShapesStay DEF SessionCleared
<1>2. CASE TabLoads \/ (\E a \in Accounts \cup {NoOne} : UserSwitches(a)) \/ UNCHANGED sessionVars
  <2>1. UNCHANGED <<slot, account, token, minting, reader>>
    BY <1>2 DEF TabLoads, UserSwitches, sessionVars
  <2>2. browser' \in Someone /\ tab' \in Accounts
    BY <1>2, SessionShapesStay DEF TabLoads, UserSwitches, sessionVars, Someone
  <2>3. SessionShapes'
    BY <2>1, <2>2 DEF SessionShapes, SessionInductive
  <2> QED
    BY <2>1, <2>3 DEF SessionInductive, TokensAreTheirs, Referenced
<1>3. CASE SyncReads \/ TabsAnswer \/ PageReads \/ PageOffers \/ HistoryReads \/ SyncCancelled
  BY <1>3, SyncIsSafe, PagesAreSafe, HistoryIsSafe, CancellingIsSafe DEF Readers
<1>4. CASE \E r \in Readers : ProbeAnswers(r) \/ TokenAsked(r) \/ ApiAnswers(r) \/ LastRowRead(r) \/ Refreshed(r)
  BY <1>4, HistoryIsSafe, AskingIsSafe, AnswersAreHonest, RefreshingIsSafe
<1>5. CASE \E p \in Providers : MintAnswers(p)
  BY <1>5, MintingIsSafe
<1> QED
  BY <1>1, <1>2, <1>3, <1>4, <1>5 DEF SessionNext

\* Rows are filed under the account they were read from.
THEOREM RowsStayTheirs == SessionSpec => []RowsAreOfTheirAccount
<1>1. SessionInductive => RowsAreOfTheirAccount
  BY DEF SessionInductive, Honest, RowsAreOfTheirAccount
<1> QED
  BY <1>1, SessionBegins, SessionStep, PTL DEF SessionSpec

-----------------------------------------------------------------------------

(***************************************************************************)
(* TradeHistory.  While reads do not overlap, the page's cursor is the     *)
(* last trade it lists, the one read asks for what is older than that, and *)
(* what it brings follows on.                                              *)
(***************************************************************************)
HistoryViews == [shown : Seq(PastTrades), cursor : 0..MaxPastTrades, more : BOOLEAN, loading : BOOLEAN,
          full : BOOLEAN, size : Sizes, face : Faces, failed : BOOLEAN,
          button : {"hidden", "enabled", "disabled"}]
AskRecords == [pc : {"none", "asked", "answered"}, size : 1..100, cursor : 0..MaxPastTrades,
               trades : Seq(PastTrades), more : BOOLEAN]

Falls(trades) == \A i \in 2..Len(trades) : trades[i] = trades[i - 1] - 1
Marked(v) ==
  /\ Falls(v.shown)
  /\ v.shown = <<>> => v.cursor = 0
  /\ v.shown # <<>> => v.cursor = v.shown[Len(v.shown)]

\* What a read asks for, and what it has brought.
Follows(ask, v) ==
  /\ ask.cursor = v.cursor /\ Falls(ask.trades)
  /\ ask.trades # <<>> /\ ask.cursor # 0 => ask.trades[1] = ask.cursor - 1

HistoryTypes == made \in PastTrades /\ view \in HistoryViews /\ asks \in [Slots -> AskRecords]

HistoryInductive ==
  /\ HistoryTypes
  /\ ~overlapped => /\ Marked(view)
                    /\ \A s \in Busy : Follows(asks[s], view)
                    /\ \A s, t \in Busy : s = t

LEMMA SizesAreSmall ==
  /\ MaxPastTrades \in Nat /\ MaxPastTrades > 0 /\ MaxAsks \in Nat /\ MaxAsks > 0
  /\ \A n \in Sizes : n \in 1..100
  /\ PastTrades = 1..MaxPastTrades /\ Blank.size \in Sizes
BY HistoryAssumption DEF PastTrades, Blank

\* Drawing the page changes neither the trades nor the cursor.
LEMMA DrawnIsTheSame ==
  ASSUME NEW v \in HistoryViews
  PROVE  Rendered(v) \in HistoryViews /\ Rendered(v).shown = v.shown /\ Rendered(v).cursor = v.cursor
         /\ Rendered(v).size = v.size
<1>1. CASE v.loading /\ v.shown = <<>>
  <2>1. Rendered(v) = [v EXCEPT !.face = "spinner"]
    BY <1>1 DEF Rendered
  <2> QED
    BY <2>1 DEF HistoryViews, Faces
<1>2. CASE ~(v.loading /\ v.shown = <<>>)
  <2> DEFINE face == IF Listed(v) = <<>> /\ ~v.loading THEN "no trades" ELSE "trades"
             button == IF ~v.more THEN "hidden" ELSE IF v.loading THEN "disabled" ELSE "enabled"
  <2>1. Rendered(v) = [v EXCEPT !.face = face, !.button = button]
    BY <1>2 DEF Rendered
  <2>2. face \in Faces /\ button \in {"hidden", "enabled", "disabled"}
    BY DEF Faces
  <2> HIDE DEF face, button
  <2> QED
    BY <2>1, <2>2 DEF HistoryViews
<1> QED
  BY <1>1, <1>2

LEMMA NoAskIsTyped == NoAsk \in AskRecords /\ NoAsk.pc = "none"
<1>1. <<>> \in Seq(PastTrades) /\ 1 \in 1..100 /\ 0 \in 0..MaxPastTrades
  BY SizesAreSmall
<1> QED
  BY <1>1 DEF NoAsk, AskRecords

LEMMA AskingFollows ==
  ASSUME NEW v \in HistoryViews
  PROVE  /\ Asking(v) \in AskRecords /\ Asking(v) # NoAsk /\ Follows(Asking(v), v)
<1>1. <<>> \in Seq(PastTrades) /\ v.size \in 1..100 /\ v.cursor \in 0..MaxPastTrades
  BY SizesAreSmall DEF HistoryViews
<1>2. Asking(v) \in AskRecords
  BY <1>1 DEF Asking, AskRecords
<1>3. Asking(v).pc = "asked" /\ Asking(v).cursor = v.cursor /\ Asking(v).trades = <<>>
  BY DEF Asking
<1>4. Asking(v) # NoAsk
  BY <1>3, NoAskIsTyped
<1> QED
  BY <1>2, <1>3, <1>4 DEF Follows, Falls

LEMMA HistoryBegins == HistoryInit => HistoryInductive
<1> SUFFICES ASSUME HistoryInit PROVE HistoryInductive
  OBVIOUS
<1>1. Blank \in HistoryViews
  <2>1. <<>> \in Seq(PastTrades) /\ 0 \in 0..MaxPastTrades /\ "spinner" \in Faces
    BY SizesAreSmall DEF Faces
  <2> QED
    BY <2>1, SizesAreSmall DEF Blank, HistoryViews
<1>2. Marked(Blank)
  BY DEF Blank, Marked, Falls
<1>3. /\ made \in PastTrades /\ view = Blank
      /\ asks = [s \in Slots |-> IF s = 1 THEN Asking(Blank) ELSE NoAsk]
  BY DEF HistoryInit
<1>4. asks \in [Slots -> AskRecords] /\ \A s \in Busy : s = 1 /\ asks[s] = Asking(Blank)
  BY <1>1, <1>3, AskingFollows, NoAskIsTyped DEF Busy
<1> QED
  BY <1>1, <1>2, <1>3, <1>4, AskingFollows DEF HistoryInductive, HistoryTypes

LEMMA FetchIsSafe ==
  ASSUME HistoryInductive, NEW v \in HistoryViews, Marked(v) \/ (overlapped /\ v.shown = view.shown /\ v.cursor = view.cursor),
         FetchTrades(v)
  PROVE  HistoryInductive'
<1>1. PICK s \in Slots \ Busy :
        /\ asks' = [asks EXCEPT ![s] = Asking(v)]
        /\ view' = Rendered([v EXCEPT !.loading = TRUE, !.failed = FALSE])
        /\ overlapped' = (overlapped \/ Busy # {})
        /\ UNCHANGED <<made, boxes, looks>>
  BY DEF FetchTrades
<1> DEFINE w == [v EXCEPT !.loading = TRUE, !.failed = FALSE]
<1>2. w \in HistoryViews /\ w.shown = v.shown /\ w.cursor = v.cursor
  BY DEF HistoryViews
<1>3. view' = Rendered(w)
  BY <1>1
<1> HIDE DEF w
<1>4. view' \in HistoryViews /\ view'.shown = v.shown /\ view'.cursor = v.cursor
  BY <1>2, <1>3, DrawnIsTheSame
<1>5. HistoryTypes'
  BY <1>1, <1>4, AskingFollows DEF HistoryInductive, HistoryTypes
<1>6. ASSUME ~overlapped'
      PROVE  Marked(view') /\ \A t \in Busy' : t = s /\ Follows(asks'[t], view')
  <2>1. ~overlapped /\ Busy = {}
    BY <1>1, <1>6
  <2>2. Marked(view')
    BY <1>4, <2>1 DEF Marked
  <2>3. \A t \in Busy' : t = s /\ asks'[t] = Asking(v)
    BY <1>1, <2>1 DEF Busy, HistoryInductive, HistoryTypes
  <2>4. Follows(Asking(v), view')
    BY <1>4, AskingFollows DEF Follows
  <2> QED
    BY <2>2, <2>3, <2>4
<1> QED
  BY <1>5, <1>6 DEF HistoryInductive

LEMMA ViewTypes ==
  ASSUME HistoryInductive
  PROVE  /\ view \in HistoryViews /\ asks \in [Slots -> AskRecords] /\ made \in PastTrades
         /\ made \in Nat /\ view.shown \in Seq(PastTrades)
BY SizesAreSmall DEF HistoryInductive, HistoryTypes, HistoryViews

LEMMA UsersAreSafe ==
  ASSUME HistoryInductive, Refreshes \/ SizeChanges \/ LoadsMore
  PROVE  HistoryInductive'
<1>1. ASSUME NEW v \in HistoryViews PROVE Blanked(v) \in HistoryViews /\ Marked(Blanked(v))
  <2>1. Blanked(v) \in HistoryViews /\ Blanked(v).shown = <<>> /\ Blanked(v).cursor = 0
    <3>1. <<>> \in Seq(PastTrades) /\ 0 \in 0..MaxPastTrades
      BY SizesAreSmall
    <3> QED
      BY <1>1, <3>1 DEF Blanked, HistoryViews
  <2>2. Falls(<<>>)
    BY DEF Falls
  <2> QED
    BY <2>1, <2>2 DEF Marked
<1>2. CASE Refreshes
  BY <1>1, <1>2, ViewTypes, FetchIsSafe DEF Refreshes
<1>3. CASE SizeChanges
  <2>1. PICK n \in Sizes : FetchTrades(Blanked([view EXCEPT !.size = n]))
    BY <1>3 DEF SizeChanges
  <2>2. [view EXCEPT !.size = n] \in HistoryViews
    BY ViewTypes DEF HistoryViews
  <2> QED
    BY <1>1, <2>1, <2>2, FetchIsSafe
<1>4. CASE LoadsMore
  <2>1. Marked(view) \/ overlapped
    BY DEF HistoryInductive
  <2> QED
    BY <1>4, <2>1, ViewTypes, FetchIsSafe DEF LoadsMore
<1> QED
  BY <1>2, <1>3, <1>4

\* A read that ends, whatever it does to the page.
LEMMA EndedIsSafe ==
  ASSUME HistoryInductive, NEW s \in Slots, asks' = [asks EXCEPT ![s] = NoAsk], asks[s] # NoAsk,
         view' \in HistoryViews, ~overlapped => Marked(view'), UNCHANGED <<made, overlapped>>
  PROVE  HistoryInductive'
<1>1. HistoryTypes'
  BY NoAskIsTyped DEF HistoryTypes, HistoryInductive
<1>2. \A t \in Busy' : t \in Busy /\ t # s
  BY ViewTypes DEF Busy
<1>3. ~overlapped => Busy' = {}
  BY <1>2 DEF HistoryInductive, Busy
<1> QED
  BY <1>1, <1>3 DEF HistoryInductive

LEMMA RefusalIsSafe ==
  ASSUME HistoryInductive, NEW s \in Slots, TradesRefused(s)
  PROVE  HistoryInductive'
<1> DEFINE w == [view EXCEPT !.face = "error", !.failed = TRUE, !.loading = FALSE]
<1>1. w \in HistoryViews /\ w.shown = view.shown /\ w.cursor = view.cursor
  BY ViewTypes DEF HistoryViews, Faces
<1>2. view' = Rendered(w) /\ asks[s] # NoAsk /\ asks' = [asks EXCEPT ![s] = NoAsk]
      /\ UNCHANGED <<made, overlapped>>
  BY DEF TradesRefused
<1> HIDE DEF w
<1>3. view' \in HistoryViews /\ view'.shown = view.shown /\ view'.cursor = view.cursor
  BY <1>1, <1>2, DrawnIsTheSame
<1>4. ~overlapped => Marked(view')
  BY <1>3 DEF HistoryInductive, Marked
<1> QED
  BY <1>2, <1>3, <1>4, EndedIsSafe

\* What follows on is appended.
LEMMA AppendedFalls ==
  ASSUME NEW v \in HistoryViews, NEW ask \in AskRecords, Marked(v), Follows(ask, v)
  PROVE  Marked(Extended(v, ask))
<1>1. CASE ask.trades = <<>>
  BY <1>1 DEF Extended
<1>2. CASE ask.trades # <<>>
  <2> DEFINE old == v.shown
             new == ask.trades
             all == old \o new
             w == [v EXCEPT !.shown = all, !.cursor = new[Len(new)]]
  <2>1. old \in Seq(PastTrades) /\ new \in Seq(PastTrades) /\ new # <<>>
    BY <1>2 DEF HistoryViews, AskRecords
  <2>2. /\ Len(old) \in Nat /\ Len(new) \in Nat /\ Len(new) > 0
        /\ \A t \in PastTrades : t \in Int /\ t > 0
    BY <2>1, SizesAreSmall
  <2>3. /\ Len(all) = Len(old) + Len(new) /\ all \in Seq(PastTrades)
        /\ \A i \in 1..Len(old) : all[i] = old[i]
        /\ \A i \in 1..Len(new) : all[Len(old) + i] = new[i]
    <3> HIDE DEF old, new
    <3>1. /\ all \in Seq(PastTrades) /\ Len(all) = Len(old) + Len(new)
          /\ \A i \in 1..(Len(old) + Len(new)) :
               all[i] = IF i <= Len(old) THEN old[i] ELSE new[i - Len(old)]
      BY <2>1, ConcatProperties
    <3> HIDE DEF all
    <3>2. ASSUME NEW i \in 1..Len(old) PROVE all[i] = old[i]
      BY <2>2, <3>1
    <3>3. ASSUME NEW i \in 1..Len(new) PROVE all[Len(old) + i] = new[i]
      <4>1. Len(old) + i \in 1..(Len(old) + Len(new)) /\ ~(Len(old) + i <= Len(old))
            /\ (Len(old) + i) - Len(old) = i
        BY <2>2
      <4> QED
        BY <3>1, <4>1
    <3> QED
      BY <3>1, <3>2, <3>3
  <2>4. Extended(v, ask) = w
    BY <1>2 DEF Extended, Last
  <2>5. w.shown = all /\ w.cursor = new[Len(new)]
    BY DEF HistoryViews
  <2>6. /\ \A i \in 2..Len(old) : old[i] = old[i - 1] - 1
        /\ \A i \in 2..Len(new) : new[i] = new[i - 1] - 1
    BY DEF Marked, Follows, Falls
  <2>7. old # <<>> => Len(old) > 0 /\ new[1] = old[Len(old)] - 1
    <3>1. old # <<>> => Len(old) > 0 /\ v.cursor = old[Len(old)] /\ v.cursor # 0
      BY <2>1, <2>2 DEF Marked
    <3> QED
      BY <3>1, <2>1 DEF Follows
  <2>8. old = <<>> => Len(old) = 0
    OBVIOUS
  <2> HIDE DEF old, new, all, w
  <2>9. ASSUME NEW i \in 2..Len(all) PROVE all[i] = all[i - 1] - 1
    <3>1. CASE i <= Len(old)
      <4>1. i \in 2..Len(old) /\ i \in 1..Len(old) /\ i - 1 \in 1..Len(old)
        BY <2>2, <2>3, <3>1
      <4> QED
        BY <2>3, <2>6, <4>1
    <3>2. CASE i = Len(old) + 1
      <4>1. all[i] = new[1] /\ Len(old) > 0
        BY <2>2, <2>3, <3>2
      <4>2. all[i - 1] = old[Len(old)]
        BY <2>2, <2>3, <3>2, <4>1
      <4> QED
        BY <2>7, <2>8, <4>1, <4>2
    <3>3. CASE i > Len(old) + 1
      <4> DEFINE k == i - Len(old)
      <4>1. k \in 2..Len(new) /\ k - 1 \in 1..Len(new) /\ k \in 1..Len(new)
            /\ i = Len(old) + k /\ i - 1 = Len(old) + (k - 1)
        BY <2>2, <2>3, <3>3
      <4> HIDE DEF k
      <4>2. all[i] = new[k] /\ all[i - 1] = new[k - 1]
        BY <2>3, <4>1
      <4> QED
        BY <2>6, <4>1, <4>2
    <3>4. i \in Int /\ Len(old) \in Int
      BY <2>2
    <3>5. i <= Len(old) \/ i = Len(old) + 1 \/ i > Len(old) + 1
      BY <3>4
    <3> QED
      BY <3>1, <3>2, <3>3, <3>5
  <2>10. Len(all) > 0 /\ all[Len(all)] = new[Len(new)]
    BY <2>2, <2>3
  <2>11. all # <<>>
    BY <2>10
  <2> QED
    BY <2>4, <2>5, <2>9, <2>10, <2>11 DEF Marked, Falls
<1> QED
  BY <1>1, <1>2

LEMMA ExtendedIsTyped ==
  ASSUME NEW v \in HistoryViews, NEW ask \in AskRecords
  PROVE  Extended(v, ask) \in HistoryViews
<1>1. CASE ask.trades = <<>>
  BY <1>1 DEF Extended
<1>2. CASE ask.trades # <<>>
  <2>1. v.shown \in Seq(PastTrades) /\ ask.trades \in Seq(PastTrades)
    BY DEF HistoryViews, AskRecords
  <2>2. v.shown \o ask.trades \in Seq(PastTrades)
    BY <2>1, ConcatProperties
  <2>3. Last(ask.trades) \in 0..MaxPastTrades
    BY <1>2, <2>1, SizesAreSmall DEF Last
  <2> QED
    BY <1>2, <2>2, <2>3 DEF Extended, HistoryViews
<1> QED
  BY <1>1, <1>2

LEMMA HearingIsSafe ==
  ASSUME HistoryInductive, NEW s \in Slots, TradesHeard(s)
  PROVE  HistoryInductive'
<1> DEFINE v == Extended(view, asks[s])
           w == [v EXCEPT !.more = asks[s].more, !.loading = FALSE]
<1>1. asks[s] \in AskRecords /\ asks[s].pc = "answered" /\ asks[s] # NoAsk /\ s \in Busy
  BY ViewTypes, NoAskIsTyped DEF TradesHeard, Busy
<1>2. v \in HistoryViews
  BY <1>1, ViewTypes, ExtendedIsTyped
<1>3. ~overlapped => Marked(v)
  BY <1>1, ViewTypes, AppendedFalls DEF HistoryInductive
<1>4. view' = Rendered(w) /\ asks' = [asks EXCEPT ![s] = NoAsk] /\ UNCHANGED <<made, overlapped>>
  BY DEF TradesHeard
<1> HIDE DEF v
<1>5. w \in HistoryViews /\ w.shown = v.shown /\ w.cursor = v.cursor
  BY <1>1, <1>2 DEF HistoryViews, AskRecords
<1> HIDE DEF w
<1>6. view' \in HistoryViews /\ view'.shown = v.shown /\ view'.cursor = v.cursor
  BY <1>4, <1>5, DrawnIsTheSame
<1>7. ~overlapped => Marked(view')
  BY <1>3, <1>6 DEF Marked
<1> QED
  BY <1>1, <1>4, <1>6, <1>7, EndedIsSafe

\* The worker answers with the trades older than the cursor, latest first.
LEMMA AnswerIsSafe ==
  ASSUME HistoryInductive, NEW s \in Slots, HistoryAnswered(s)
  PROVE  HistoryInductive'
<1> DEFINE ask == asks[s]
           latest == IF ask.cursor = 0 THEN made ELSE ask.cursor - 1
           n == PageLength(ask.size, latest)
           trades == [i \in 1..n |-> latest + 1 - i]
<1>1. ask \in AskRecords /\ ask.pc = "asked" /\ ask # NoAsk /\ s \in Busy
  BY ViewTypes, NoAskIsTyped DEF HistoryAnswered, Busy
<1>2. PICK extra \in 0..1 :
        asks' = [asks EXCEPT ![s] = [ask EXCEPT !.pc = "answered", !.more = latest > ask.size + extra,
                                                !.trades = trades]]
  BY DEF HistoryAnswered
<1>3. UNCHANGED <<made, view, overlapped>>
  BY DEF HistoryAnswered
<1>4. latest \in 0..MaxPastTrades /\ ask.size \in 1..100
  BY <1>1, ViewTypes, SizesAreSmall DEF AskRecords
<1>5. n \in Nat /\ n <= latest
  <2>1. latest \in Nat /\ ask.size \in Nat
    <3> HIDE DEF ask, latest
    <3> QED
      BY <1>4
  <2> HIDE DEF latest
  <2>2. n = IF latest < ask.size THEN latest ELSE ask.size
    BY DEF PageLength
  <2> QED
    BY <2>1, <2>2
<1>6. (ask.cursor # 0 => latest = ask.cursor - 1)
  OBVIOUS
<1> HIDE DEF latest, n
<1>7. trades \in [1..n -> PastTrades]
  <2> SUFFICES ASSUME NEW i \in 1..n PROVE latest + 1 - i \in PastTrades
    OBVIOUS
  <2> QED
    BY <1>4, <1>5, SizesAreSmall
<1>8. trades \in Seq(PastTrades) /\ Len(trades) = n
  BY <1>5, <1>7
<1>9. Falls(trades)
  <2> SUFFICES ASSUME NEW i \in 2..n PROVE trades[i] = trades[i - 1] - 1
    BY <1>8 DEF Falls
  <2>1. i \in 1..n /\ i - 1 \in 1..n
    BY <1>5
  <2>2. trades[i] = latest + 1 - i /\ trades[i - 1] = latest + 1 - (i - 1)
    BY <2>1
  <2> QED
    BY <1>4, <1>5, <2>2
<1>10. trades # <<>> => n > 0 /\ trades[1] = latest
  <2>1. n = 0 => trades = <<>>
    BY <1>8
  <2>2. n > 0 => trades[1] = latest + 1 - 1
    BY <1>5
  <2> QED
    BY <1>4, <1>5, <2>1, <2>2
<1> HIDE DEF trades
<1> DEFINE new == [ask EXCEPT !.pc = "answered", !.more = latest > ask.size + extra, !.trades = trades]
<1>11. (latest > ask.size + extra) \in BOOLEAN
  OBVIOUS
<1>12. new \in AskRecords /\ new.cursor = ask.cursor /\ new.trades = trades
  BY <1>1, <1>8, <1>11 DEF AskRecords
<1>13. asks' = [asks EXCEPT ![s] = new]
  BY <1>2
<1> HIDE DEF new, ask
<1>14. HistoryTypes'
  BY <1>3, <1>12, <1>13 DEF HistoryTypes, HistoryInductive
<1>15. Busy' \subseteq Busy
  BY <1>1, <1>13, ViewTypes DEF Busy
<1>16. \A t \in Slots : asks'[t] = IF t = s THEN new ELSE asks[t]
  BY <1>13, ViewTypes
<1>17. ~overlapped => Follows(new, view)
  <2> SUFFICES ASSUME ~overlapped PROVE Follows(new, view)
    OBVIOUS
  <2>1. Follows(ask, view)
    BY <1>1 DEF HistoryInductive, ask
  <2> QED
    BY <1>6, <1>9, <1>10, <1>12, <2>1 DEF Follows
<1> QED
  BY <1>3, <1>14, <1>15, <1>16, <1>17 DEF HistoryInductive, Busy

LEMMA FilterIsSafe ==
  ASSUME HistoryInductive, FilterChanges
  PROVE  HistoryInductive'
<1> DEFINE w == [view EXCEPT !.full = ~view.full]
<1>1. w \in HistoryViews /\ w.shown = view.shown /\ w.cursor = view.cursor
  BY ViewTypes DEF HistoryViews
<1>2. view' = Rendered(w) /\ UNCHANGED <<made, asks, overlapped>>
  BY DEF FilterChanges
<1> HIDE DEF w
<1>3. view' \in HistoryViews /\ view'.shown = view.shown /\ view'.cursor = view.cursor
  BY <1>1, <1>2, DrawnIsTheSame
<1> QED
  BY <1>2, <1>3 DEF HistoryInductive, HistoryTypes, Marked, Follows, Busy

LEMMA HistoryStep == HistoryInductive /\ [HistoryNext]_historyVars => HistoryInductive'
<1> SUFFICES ASSUME HistoryInductive, [HistoryNext]_historyVars PROVE HistoryInductive'
  OBVIOUS
<1>1. CASE TradeMade
  <2>1. made' \in PastTrades
    BY <1>1, ViewTypes, SizesAreSmall DEF TradeMade
  <2> QED
    BY <1>1, <2>1 DEF TradeMade, HistoryInductive, HistoryTypes, Busy
<1>2. CASE HistoryLooks \/ (\E t \in PastTrades : RowDrawn(t)) \/ UNCHANGED historyVars
  BY <1>2 DEF HistoryLooks, RowDrawn, historyVars, HistoryInductive, HistoryTypes, Busy
<1>3. CASE Refreshes \/ SizeChanges \/ LoadsMore
  BY <1>3, UsersAreSafe
<1>4. CASE \E s \in Slots : HistoryAnswered(s) \/ TradesHeard(s) \/ TradesRefused(s)
  BY <1>4, AnswerIsSafe, HearingIsSafe, RefusalIsSafe
<1> QED
  BY <1>1, <1>2, <1>3, <1>4, FilterIsSafe DEF HistoryNext

\* The pages of the history join up, as long as reads do not overlap.
THEOREM PagesJoin == HistorySpec => []PagesJoinUp
<1>1. HistoryInductive => PagesJoinUp
  BY DEF HistoryInductive, Marked, Falls, PagesJoinUp
<1> QED
  BY <1>1, HistoryBegins, HistoryStep, PTL DEF HistorySpec

-----------------------------------------------------------------------------

(***************************************************************************)
(* CSFloatSell.  A card's line is what findInventoryItem finds for it in   *)
(* the inventory, whichever pass, answer or try it is that looks; and two  *)
(* items that it may take for one another are worth the same.              *)
(***************************************************************************)
SellCardRecords ==
  [drawn : BOOLEAN, tries : SUBSET Int, line : SUBSET Owned, bound : BOOLEAN]
TrueLine(c, card) == \A l \in c.line : Reference[l] = Reference[card]

SellInductive ==
  /\ inventoryItems \in {<<>>, Inventory}
  /\ sellCards \in [Owned -> SellCardRecords]
  /\ \A i \in Owned : TrueLine(sellCards[i], i)

\* What findInventoryItem finds is worth what the card's item is.
LEMMA FoundIsWorthTheSame ==
  ASSUME NEW stock \in {<<>>, Inventory}, NEW card \in Owned
  PROVE  /\ Found(stock, card) \subseteq Owned
         /\ \A l \in Found(stock, card) : Reference[l] = Reference[card]
<1>1. \A k \in DOMAIN stock : stock[k] \in Owned
  <2>1. CASE stock = <<>>
    BY <2>1
  <2>2. CASE stock = Inventory
    BY <2>2 DEF Owned, ToSet
  <2> QED
    BY <2>1, <2>2
<1>2. ASSUME NEW l \in Found(stock, card) PROVE l \in Owned /\ Reference[l] = Reference[card]
  <2>1. l \in Owned /\ SameItem(l, card)
    BY <1>1, <1>2 DEF Found
  <2>2. SellName[l] = SellName[card]
        /\ (FloatOf[l] = FloatOf[card] \/ FloatOf[l] = 0 \/ FloatOf[card] = 0)
    BY <2>1 DEF SameItem, Fit
  <2> QED
    BY <2>1, <2>2, SellAssumption
<1> QED
  BY <1>2

LEMMA MatchingIsTrue ==
  ASSUME NEW stock \in {<<>>, Inventory}, NEW card \in Owned, NEW c \in SellCardRecords,
         TrueLine(c, card), NEW left \in Int
  PROVE  Matched(c, card, stock, left) \in SellCardRecords
         /\ TrueLine(Matched(c, card, stock, left), card)
<1> DEFINE again == [c EXCEPT !.tries = @ \cup TriesLeft(left)]
           found == {i \in Found(stock, card) : Reference[i] > 0}
           lined == [c EXCEPT !.line = found, !.bound = TRUE]
<1>1. TriesLeft(left) \subseteq Int
  BY DEF TriesLeft
<1>2. again \in SellCardRecords /\ again.line = c.line
  BY <1>1 DEF SellCardRecords
<1>3. found \subseteq Owned /\ \A l \in found : Reference[l] = Reference[card]
  BY FoundIsWorthTheSame
<1> HIDE DEF found
<1>4. lined \in SellCardRecords /\ lined.line = found
  BY <1>3 DEF SellCardRecords
<1>5. Matched(c, card, stock, left) \in {c, again, lined}
  BY DEF Matched, found
<1> HIDE DEF again, lined
<1> QED
  BY <1>2, <1>3, <1>4, <1>5 DEF TrueLine

LEMMA SellBegins == SellInit => SellInductive
<1>1. NoCard \in SellCardRecords /\ \A i : TrueLine(NoCard, i)
  BY DEF NoCard, SellCardRecords, TrueLine
<1> QED
  BY <1>1 DEF SellInit, SellInductive

LEMMA AllMatchedAreTrue ==
  ASSUME SellInductive, NEW stock \in {<<>>, Inventory}
  PROVE  AllMatched(stock) \in [Owned -> SellCardRecords]
         /\ \A i \in Owned : TrueLine(AllMatched(stock)[i], i)
<1> SUFFICES ASSUME NEW i \in Owned
             PROVE  AllMatched(stock)[i] \in SellCardRecords /\ TrueLine(AllMatched(stock)[i], i)
  BY DEF AllMatched
<1>1. AllMatched(stock)[i] =
        IF sellCards[i].drawn THEN Matched(sellCards[i], i, stock, MaxMatches + 1) ELSE sellCards[i]
  BY DEF AllMatched
<1>2. MaxMatches + 1 \in Int /\ sellCards[i] \in SellCardRecords /\ TrueLine(sellCards[i], i)
  BY SellAssumption DEF SellInductive
<1>3. Matched(sellCards[i], i, stock, MaxMatches + 1) \in SellCardRecords
      /\ TrueLine(Matched(sellCards[i], i, stock, MaxMatches + 1), i)
  BY <1>2, MatchingIsTrue
<1> QED
  BY <1>1, <1>2, <1>3

LEMMA CardsAreMatched ==
  ASSUME SellInductive, UNCHANGED inventoryItems, NEW i \in Owned, NEW c \in SellCardRecords,
         c.line = sellCards[i].line, NEW left \in Int,
         sellCards' = [sellCards EXCEPT ![i] = Matched(c, i, inventoryItems, left)]
  PROVE  SellInductive'
<1>1. TrueLine(c, i)
  BY DEF SellInductive, TrueLine
<1>2. Matched(c, i, inventoryItems, left) \in SellCardRecords
      /\ TrueLine(Matched(c, i, inventoryItems, left), i)
  BY <1>1, MatchingIsTrue DEF SellInductive
<1> QED
  BY <1>2 DEF SellInductive

LEMMA SellStep == SellInductive /\ [SellNext]_sellVars => SellInductive'
<1> SUFFICES ASSUME SellInductive, [SellNext]_sellVars PROVE SellInductive'
  OBVIOUS
<1>1. CASE InventoryHeard
  BY <1>1 DEF InventoryHeard, SellInductive
<1>2. CASE InventoryFetched
  BY <1>2, AllMatchedAreTrue DEF InventoryFetched, SellInductive
<1>3. CASE CardDrawn
  <2>1. PICK i \in Owned :
          sellCards' = [sellCards EXCEPT ![i] = Matched([@ EXCEPT !.drawn = TRUE], i, inventoryItems,
                                                       MaxMatches + 1)]
    BY <1>3 DEF CardDrawn
  <2> DEFINE c == [sellCards[i] EXCEPT !.drawn = TRUE]
  <2>0. sellCards[i] \in SellCardRecords
    BY DEF SellInductive
  <2>2. c \in SellCardRecords /\ c.line = sellCards[i].line
    BY <2>0 DEF SellCardRecords
  <2>3. sellCards' = [sellCards EXCEPT ![i] = Matched(c, i, inventoryItems, MaxMatches + 1)]
    BY <2>1
  <2>4. MaxMatches + 1 \in Int /\ UNCHANGED inventoryItems
    BY <1>3, SellAssumption DEF CardDrawn
  <2> HIDE DEF c
  <2> QED
    BY <2>2, <2>3, <2>4, CardsAreMatched
<1>4. CASE TryAgain
  <2>0. PICK i \in Owned : \E left \in sellCards[i].tries :
          sellCards' = [sellCards EXCEPT ![i] = Matched([sellCards[i] EXCEPT !.tries = @ \ {left}], i,
                                                       inventoryItems, left)]
    BY <1>4 DEF TryAgain
  <2>1. PICK left \in sellCards[i].tries :
          sellCards' = [sellCards EXCEPT ![i] = Matched([sellCards[i] EXCEPT !.tries = @ \ {left}], i,
                                                       inventoryItems, left)]
    BY <2>0
  <2> DEFINE c == [sellCards[i] EXCEPT !.tries = @ \ {left}]
  <2>2. sellCards[i] \in SellCardRecords
    BY DEF SellInductive
  <2>3. c \in SellCardRecords /\ c.line = sellCards[i].line /\ left \in Int
    BY <2>2 DEF SellCardRecords
  <2>4. sellCards' = [sellCards EXCEPT ![i] = Matched(c, i, inventoryItems, left)]
    BY <2>1
  <2>5. UNCHANGED inventoryItems
    BY <1>4 DEF TryAgain
  <2> HIDE DEF c
  <2> QED
    BY <2>3, <2>4, <2>5, CardsAreMatched
<1>5. CASE Navigates
  <2>1. NoCard \in SellCardRecords /\ \A i : TrueLine(NoCard, i)
    BY DEF NoCard, SellCardRecords, TrueLine
  <2> QED
    BY <1>5, <2>1 DEF Navigates, SellInductive
<1>6. CASE AddressNoticed
  BY <1>6 DEF AddressNoticed, SellInductive
<1>7. CASE PassAfterRoute
  <2>1. inventoryItems \in {<<>>, Inventory}
    BY DEF SellInductive
  <2> QED
    BY <1>7, <2>1, AllMatchedAreTrue DEF PassAfterRoute, SellInductive
<1>8. CASE InventoryFails \/ ToolbarDrawn
  BY <1>8 DEF InventoryFails, ToolbarDrawn, SellInductive
<1>9. CASE PanelMounts \/ SavesSettings \/ ClicksSell \/ PollTurn \/ ItemAdded \/ UserTypes
           \/ UserRemoves \/ UNCHANGED sellVars
  <2>1. UNCHANGED <<inventoryItems, sellCards>>
    BY <1>9 DEF PanelMounts, SavesSettings, ClicksSell, PollTurn, ItemAdded, UserTypes,
         UserRemoves,
                pageVars, sellVars
  <2> QED
    BY <2>1 DEF SellInductive
<1> QED
  BY <1>1, <1>2, <1>3, <1>4, <1>5, <1>6, <1>7, <1>8, <1>9 DEF SellNext

\* The price on a card is that of its own item.
THEOREM SellLinesStayTheirs == SellSpec => []SellLinesAreTheirs
<1>1. SellInductive => SellLinesAreTheirs
  BY DEF SellInductive, TrueLine, SellLinesAreTheirs
<1> QED
  BY <1>1, SellBegins, SellStep, PTL DEF SellSpec

-----------------------------------------------------------------------------

(***************************************************************************)
(* PriceEngine.  As long as no change was missed and no read was lost, one *)
(* of three holds: a change is still to be heard, the youngest read under  *)
(* way is or will be of the settings as they are, or the copy has them.    *)
(***************************************************************************)
ChosenPrices == Selections \cup {Unset, Default}
PriceReads == [pc : {"asked", "failed", "read"}, got : ChosenPrices]

PageRecords == [kind : {"inventory", "trade offer"}, at : {"starting", "waiting", "listening"}]

EngineShapes ==
  /\ rated \subseteq MoneyOf \ {"USD"} /\ unheard \in Nat /\ wanted \in ChosenPrices
  /\ copy \in [settings : ChosenPrices, filled : BOOLEAN, loaded : BOOLEAN]
  /\ page \in PageRecords
  /\ loads \in Seq(PriceReads)
  /\ DOMAIN items = Tags /\ DOMAIN labels = Tags /\ items = [i \in Tags |-> items[i]]

UpToDate ==
  \/ unheard > 0
  \/ /\ loads # <<>>
     /\ loads[Len(loads)] = Asked
        \/ (loads[Len(loads)].pc = "read" /\ loads[Len(loads)].got = wanted)
  \/ loads = <<>> /\ copy.settings = Picked(wanted)

\* No read that was answered has failed.
NoneFailed == \A k \in 1..Len(loads) : loads[k] = Asked \/ loads[k].pc = "read"

\* What is priced and what is drawn is by the copy as it is.
DrawnByTheCopy ==
  /\ page.kind = "inventory" => \A i \in Tags :
       /\ items[i] # NoLabel => items[i] = Formatted(copy)
       /\ Labelled(i) => items[i] # NoLabel
  /\ \A i \in Tags : Labelled(i) /\ (page.kind = "inventory" \/ items[i] = NoLabel) =>
                       labels[i] = Formatted(copy)

Unblended(label) == label.price # NoPrice /\ book["phase"] # {} => label.price[1] = "phase"

EngineInductive ==
  /\ EngineShapes
  /\ ~lostRead => NoneFailed
  /\ ~lostRead /\ ~missed => UpToDate
  /\ DrawnByTheCopy
  /\ \A i \in Tags : Unblended(items[i]) /\ Unblended(labels[i])

\* An item that is priced is told from one that is not: its amount is in dollars, or not.
LEMMA PricedIsLabelled ==
  ASSUME EngineShapes, NEW e PROVE Formatted(e) # NoLabel
<1>1. NoLabel.sign = "USD" /\ NoLabel.dollars = FALSE
  BY DEF NoLabel
<1>2. Formatted(e).sign = e.settings.currency
      /\ Formatted(e).dollars = (~e.filled \/ e.settings.currency \notin rated)
  BY DEF Formatted
<1>3. e.settings.currency = "USD" => e.settings.currency \notin rated
  BY DEF EngineShapes
<1>4. e.settings.currency = "USD" => Formatted(e).dollars
  BY <1>2, <1>3
<1>5. CASE e.settings.currency = "USD"
  BY <1>1, <1>4, <1>5
<1>6. CASE e.settings.currency # "USD"
  BY <1>1, <1>2, <1>6
<1> QED
  BY <1>5, <1>6

\* The phase has the first say.
LEMMA PricedByPhase ==
  ASSUME NEW e PROVE Unblended(Formatted(e))
<1> DEFINE source == e.settings.source
           ofPhase == PickPhase(e, "phase", source)
<1>1. Formatted(e).price = GetPrice(e)
  BY DEF Formatted
<1> SUFFICES ASSUME GetPrice(e) # NoPrice, book["phase"] # {} PROVE GetPrice(e)[1] = "phase"
  BY <1>1 DEF Unblended
<1>2. CASE ~e.filled
  <2>1. \A row : Held(e, row) = {}
    BY <1>2 DEF Held
  <2>2. \A row : OnlyPreferred(e, row, source) = NoPrice /\ PickPhase(e, row, source) = NoPrice
    BY <2>1 DEF OnlyPreferred, PickPhase
  <2> HIDE DEF source
  <2>3. GetPrice(e) = NoPrice
    BY <2>2 DEF GetPrice, source
  <2> QED
    BY <2>3
<1>3. CASE e.filled
  <2>1. Held(e, "phase") # {}
    BY <1>3 DEF Held
  <2>2. \E x : ofPhase = <<"phase", x>>
    BY <2>1 DEF PickPhase, OnlyPreferred
  <2>3. ofPhase # NoPrice /\ ofPhase[1] = "phase"
    BY <2>2 DEF NoPrice
  <2> HIDE DEF ofPhase, source
  <2>4. GetPrice(e) = ofPhase
    BY <2>3 DEF GetPrice, ofPhase, source
  <2> QED
    BY <2>3, <2>4
<1> QED
  BY <1>2, <1>3

LEMMA BareIsUnblended == Unblended(NoLabel)
BY DEF NoLabel, Unblended

LEMMA EngineBegins == EngineInit => EngineInductive
<1> SUFFICES ASSUME EngineInit PROVE EngineInductive
  OBVIOUS
<1>1. Asked \in PriceReads
  BY DEF Asked, PriceReads, ChosenPrices
<1>2. loads = <<Asked>> /\ Len(loads) = 1 /\ loads[1] = Asked /\ loads # <<>>
  BY DEF EngineInit
<1>3. EngineShapes
  <2>1. loads \in Seq(PriceReads)
    BY <1>1, <1>2
  <2>2. copy \in [settings : ChosenPrices, filled : BOOLEAN, loaded : BOOLEAN] /\ wanted \in ChosenPrices
    BY DEF EngineInit, ChosenPrices
  <2>3. rated \subseteq MoneyOf \ {"USD"} /\ unheard \in Nat /\ page \in PageRecords
    BY DEF EngineInit, PageRecords
  <2>4. items = [i \in Tags |-> NoLabel] /\ labels = [i \in Tags |-> NoLabel]
    BY DEF EngineInit, Bare
  <2> QED
    BY <2>1, <2>2, <2>3, <2>4 DEF EngineShapes
<1>4. NoneFailed /\ UpToDate
  BY <1>2 DEF NoneFailed, UpToDate
<1>5. \A i \in Tags : items[i] = NoLabel /\ labels[i] = NoLabel
  BY DEF EngineInit, Bare
<1> QED
  BY <1>3, <1>4, <1>5, BareIsUnblended DEF EngineInductive, DrawnByTheCopy, Labelled

\* Nothing here changes the stored prices and rates.
LEMMA SamePrices ==
  ASSUME UNCHANGED <<book, rated>>, NEW e PROVE Formatted(e)' = Formatted(e)
<1>1. \A row : Held(e, row)' = Held(e, row)
  BY DEF Held
<1>2. \A row, source : OnlyPreferred(e, row, source)' = OnlyPreferred(e, row, source)
  BY <1>1 DEF OnlyPreferred
<1>3. \A row, source : PickPhase(e, row, source)' = PickPhase(e, row, source)
  BY <1>1, <1>2 DEF PickPhase
<1>4. GetPrice(e)' = GetPrice(e)
  BY <1>2, <1>3 DEF GetPrice
<1>5. GetBuffPrices(e)' = GetBuffPrices(e)
  <2>1. {r \in Rows : Held(e, r) # {}}' = {r \in Rows : Held(e, r) # {}}
    BY <1>1
  <2> QED
    BY <1>2, <2>1 DEF GetBuffPrices
<1> QED
  BY <1>4, <1>5 DEF Formatted

LEMMA SameCopy ==
  ASSUME NEW e, NEW f, e.settings = f.settings, e.filled = f.filled
  PROVE  Formatted(e) = Formatted(f)
<1>1. \A row : Held(e, row) = Held(f, row)
  BY DEF Held
<1>2. \A row, source : OnlyPreferred(e, row, source) = OnlyPreferred(f, row, source)
  BY <1>1 DEF OnlyPreferred
<1>3. \A row, source : PickPhase(e, row, source) = PickPhase(f, row, source)
  BY <1>1, <1>2 DEF PickPhase
<1>4. GetPrice(e) = GetPrice(f)
  BY <1>2, <1>3 DEF GetPrice
<1>5. GetBuffPrices(e) = GetBuffPrices(f)
  <2>1. {r \in Rows : Held(e, r) # {}} = {r \in Rows : Held(f, r) # {}}
    BY <1>1
  <2> QED
    BY <1>2, <2>1 DEF GetBuffPrices
<1> QED
  BY <1>4, <1>5 DEF Formatted

LEMMA EngineFrame ==
  ASSUME EngineInductive, UNCHANGED <<book, rated, wanted, unheard, copy, loads, lostRead, missed>>,
         page'.kind = page.kind, page' \in PageRecords, DOMAIN items' = Tags, DOMAIN labels' = Tags,
         items' = [i \in Tags |-> items'[i]], DrawnByTheCopy',
         \A i \in Tags : Unblended(items'[i]) /\ Unblended(labels'[i])
  PROVE  EngineInductive'
<1>1. EngineShapes'
  BY DEF EngineInductive, EngineShapes
<1>2. (~lostRead => NoneFailed)' /\ (~lostRead /\ ~missed => UpToDate)'
  BY DEF EngineInductive, NoneFailed, UpToDate
<1> QED
  BY <1>1, <1>2 DEF EngineInductive, Unblended

LEMMA ReadsAreSafe ==
  ASSUME EngineInductive, StorageAnswers
  PROVE  EngineInductive'
<1>1. PICK k \in DOMAIN loads :
        /\ loads[k] = Asked
        /\ \A h \in 1..(k - 1) : loads[h] # Asked
        /\ \E failed \in BOOLEAN :
             /\ loads' = [loads EXCEPT ![k] = [pc |-> IF failed THEN "failed" ELSE "read",
                                              got |-> wanted]]
             /\ lostRead' = (lostRead \/ failed)
  BY DEF StorageAnswers
<1>2. PICK failed \in BOOLEAN :
        /\ loads' = [loads EXCEPT ![k] = [pc |-> IF failed THEN "failed" ELSE "read", got |-> wanted]]
        /\ lostRead' = (lostRead \/ failed)
  BY <1>1
<1> DEFINE answer == [pc |-> IF failed THEN "failed" ELSE "read", got |-> wanted]
<1>3. answer \in PriceReads /\ answer.got = wanted /\ (~failed => answer.pc = "read")
  BY DEF PriceReads, EngineInductive, EngineShapes
<1> HIDE DEF answer
<1>4. /\ loads \in Seq(PriceReads) /\ DOMAIN loads = 1..Len(loads) /\ Len(loads) \in Nat
      /\ k \in 1..Len(loads)
  BY DEF EngineInductive, EngineShapes
<1>5. loads' = [loads EXCEPT ![k] = answer]
  BY <1>2 DEF answer
<1>6. loads' \in Seq(PriceReads) /\ Len(loads') = Len(loads)
      /\ \A h \in 1..Len(loads) : loads'[h] = IF h = k THEN answer ELSE loads[h]
  BY <1>3, <1>4, <1>5
<1>7. UNCHANGED <<book, rated, wanted, unheard, copy, items, labels, missed, page>>
  BY DEF StorageAnswers
<1>8. EngineShapes'
  BY <1>6, <1>7 DEF EngineShapes, EngineInductive
<1>9. ~lostRead' => ~lostRead /\ ~failed
  BY <1>2
<1>10. ~lostRead' => NoneFailed'
  BY <1>3, <1>4, <1>6, <1>9 DEF NoneFailed, EngineInductive
<1>11. ~lostRead' /\ ~missed' => UpToDate'
  <2> SUFFICES ASSUME ~lostRead', ~missed' PROVE UpToDate'
    OBVIOUS
  <2>1. UpToDate /\ ~failed
    BY <1>7, <1>9 DEF EngineInductive
  <2>2. loads # <<>> /\ loads' # <<>>
    BY <1>4, <1>6
  <2>3. Len(loads) \in 1..Len(loads)
    BY <1>4
  <2>4. loads'[Len(loads')] = IF Len(loads) = k THEN answer ELSE loads[Len(loads)]
    BY <1>6, <2>3
  <2> QED
    BY <1>3, <1>7, <2>1, <2>2, <2>4 DEF UpToDate
<1>12. DrawnByTheCopy'
  BY <1>7, SamePrices DEF EngineInductive, DrawnByTheCopy, Labelled
<1> QED
  BY <1>7, <1>8, <1>10, <1>11, <1>12 DEF EngineInductive, Unblended

LEMMA LoadsAre ==
  ASSUME EngineInductive
  PROVE  loads \in Seq(PriceReads) /\ DOMAIN loads = 1..Len(loads) /\ Len(loads) \in Nat
BY DEF EngineInductive, EngineShapes

\* The read that ends is the oldest; if it is the last one, the copy has the settings as they are.
LEMMA LoadingIsSafe ==
  ASSUME EngineInductive, LoadEnds
  PROVE  EngineInductive'
<1>1. /\ loads # <<>> /\ Head(loads) # Asked /\ copy' = AfterRead(Head(loads)) /\ loads' = Tail(loads)
      /\ items' = [i \in Tags |-> IF page.kind = "inventory" /\ items[i] # NoLabel
                                 THEN Formatted(copy') ELSE items[i]]
      /\ labels' = [i \in Tags |-> IF Labelled(i) THEN LabelFor(i, copy', items') ELSE NoLabel]
      /\ UNCHANGED <<book, rated, wanted, unheard, missed, lostRead>>
  BY DEF LoadEnds
<1>2. page'.kind = page.kind /\ page' \in PageRecords
  BY DEF LoadEnds, EngineInductive, EngineShapes, PageRecords
<1>3. /\ loads \in Seq(PriceReads) /\ Len(loads) \in Nat /\ Len(loads) > 0 /\ Head(loads) = loads[1]
      /\ loads[1] \in PriceReads
  BY <1>1, LoadsAre
<1>4. /\ loads' \in Seq(PriceReads) /\ Len(loads') = Len(loads) - 1
      /\ \A k \in 1..Len(loads') : loads'[k] = loads[k + 1]
  BY <1>1, <1>3, HeadTailProperties
<1>5. copy' \in [settings : ChosenPrices, filled : BOOLEAN, loaded : BOOLEAN]
      /\ (loads[1].pc # "failed" => copy'.settings = Picked(loads[1].got))
  <2>1. CASE loads[1].pc = "failed"
    BY <1>1, <1>3, <2>1 DEF AfterRead, EngineInductive, EngineShapes
  <2>2. CASE loads[1].pc # "failed"
    <3>1. copy' = [settings |-> Picked(loads[1].got), filled |-> TRUE, loaded |-> TRUE]
      BY <1>1, <1>3, <2>2 DEF AfterRead
    <3>2. Picked(loads[1].got) \in ChosenPrices
      BY <1>3 DEF Picked, PriceReads, ChosenPrices
    <3> QED
      BY <3>1, <3>2
  <2> QED
    BY <2>1, <2>2
<1>6. EngineShapes'
  BY <1>1, <1>2, <1>4, <1>5 DEF EngineShapes, EngineInductive
<1>7. ~lostRead' => NoneFailed'
  BY <1>1, <1>3, <1>4 DEF NoneFailed, EngineInductive
<1>8. ~lostRead' /\ ~missed' => UpToDate'
  <2> SUFFICES ASSUME ~lostRead, ~missed, ~(unheard > 0) PROVE UpToDate'
    BY <1>1 DEF UpToDate
  <2>1. /\ UpToDate /\ loads[1].pc = "read" /\ loads[1] # Asked
    BY <1>1, <1>3 DEF EngineInductive, NoneFailed
  <2>2. loads[Len(loads)] = Asked \/ (loads[Len(loads)].pc = "read" /\ loads[Len(loads)].got = wanted)
    BY <1>1, <2>1 DEF UpToDate
  <2>3. CASE Len(loads) = 1
    <3>1. loads' = <<>>
      BY <1>4, <2>3
    <3>2. copy'.settings = Picked(wanted)
      BY <1>5, <2>1, <2>2, <2>3
    <3> QED
      BY <1>1, <3>1, <3>2 DEF UpToDate, Picked
  <2>4. CASE Len(loads) > 1
    <3>1. Len(loads') \in 1..Len(loads') /\ Len(loads') + 1 = Len(loads)
      BY <1>3, <1>4, <2>4
    <3>2. loads'[Len(loads')] = loads[Len(loads)] /\ loads' # <<>>
      BY <1>4, <3>1
    <3> QED
      BY <1>1, <2>2, <3>2 DEF UpToDate
  <2>5. Len(loads) = 1 \/ Len(loads) > 1
    <3>1. \A n \in Nat : n > 0 => n = 1 \/ n > 1
      OBVIOUS
    <3>2. Len(loads) \in Nat /\ Len(loads) > 0
      BY <1>3
    <3> QED
      BY <3>1, <3>2, Zenon
  <2> QED
    BY <2>3, <2>4, <2>5
<1>9. \A e : Formatted(e) # NoLabel /\ Unblended(Formatted(e))
  BY PricedIsLabelled, PricedByPhase DEF EngineInductive
<1>10. \A i \in Tags : /\ items'[i] = IF page.kind = "inventory" /\ items[i] # NoLabel
                                      THEN Formatted(copy') ELSE items[i]
                      /\ labels'[i] = IF Labelled(i)
                                       THEN IF items'[i] # NoLabel THEN items'[i] ELSE Formatted(copy')
                                       ELSE NoLabel
  BY <1>1 DEF LabelFor
<1>11. Formatted(copy)' = Formatted(copy')
  BY <1>1, SamePrices
<1>12. DrawnByTheCopy'
  BY <1>2, <1>9, <1>10, <1>11 DEF DrawnByTheCopy, Labelled, EngineInductive
<1>13. \A i \in Tags : Unblended(items'[i]) /\ Unblended(labels'[i])
  BY <1>9, <1>10, BareIsUnblended DEF EngineInductive
<1> QED
  BY <1>1, <1>6, <1>7, <1>8, <1>12, <1>13 DEF EngineInductive, Unblended

LEMMA ChangesAreSafe ==
  ASSUME EngineInductive, ChangeIsHeard \/ SettingsSwitch
  PROVE  EngineInductive'
<1>1. UNCHANGED <<book, rated, page, items, labels, lostRead>>
  BY DEF ChangeIsHeard, SettingsSwitch
<1>2. CASE SettingsSwitch
  <2>1. wanted' \in ChosenPrices /\ unheard' = unheard + 1 /\ UNCHANGED <<copy, loads, missed>>
    BY <1>2 DEF SettingsSwitch, ChosenPrices
  <2>2. EngineShapes' /\ UpToDate'
    BY <1>1, <2>1 DEF EngineInductive, EngineShapes, UpToDate
  <2>3. DrawnByTheCopy'
    BY <1>1, <2>1, SamePrices DEF EngineInductive, DrawnByTheCopy, Labelled
  <2> QED
    BY <1>1, <2>1, <2>2, <2>3 DEF EngineInductive, NoneFailed, Unblended
<1>3. CASE ChangeIsHeard /\ page.at = "listening"
  <2>1. /\ unheard' = unheard - 1 /\ unheard > 0 /\ loads' = Append(loads, Asked) /\ UNCHANGED missed
        /\ copy' = [copy EXCEPT !.loaded = FALSE] /\ UNCHANGED wanted
    BY <1>3 DEF ChangeIsHeard, Reload
  <2>2. Asked \in PriceReads
    BY DEF Asked, PriceReads, ChosenPrices
  <2>3. /\ loads' \in Seq(PriceReads) /\ Len(loads') = Len(loads) + 1 /\ loads'[Len(loads) + 1] = Asked
        /\ \A k \in 1..Len(loads) : loads'[k] = loads[k]
    BY <2>1, <2>2, LoadsAre, AppendProperties
  <2>4. /\ copy' \in [settings : ChosenPrices, filled : BOOLEAN, loaded : BOOLEAN]
        /\ copy'.settings = copy.settings /\ copy'.filled = copy.filled
    BY <2>1 DEF EngineInductive, EngineShapes
  <2>5. EngineShapes'
    BY <1>1, <2>1, <2>3, <2>4 DEF EngineInductive, EngineShapes
  <2>6. UpToDate'
    <3>1. loads' # <<>> /\ loads'[Len(loads')] = Asked
      BY <2>3, LoadsAre
    <3> QED
      BY <3>1 DEF UpToDate
  <2>7. ~lostRead' => NoneFailed'
    BY <1>1, <2>3, LoadsAre DEF EngineInductive, NoneFailed
  <2>8. Formatted(copy)' = Formatted(copy)
    BY <1>1, <2>4, SamePrices, SameCopy
  <2>9. DrawnByTheCopy'
    BY <1>1, <2>8 DEF EngineInductive, DrawnByTheCopy, Labelled
  <2> QED
    BY <1>1, <2>5, <2>6, <2>7, <2>9 DEF EngineInductive, Unblended
<1>4. CASE ChangeIsHeard /\ page.at # "listening"
  <2>1. /\ unheard' = unheard - 1 /\ unheard > 0 /\ missed' = TRUE
        /\ UNCHANGED <<copy, loads, wanted>>
    BY <1>4 DEF ChangeIsHeard
  <2>2. EngineShapes'
    BY <1>1, <2>1 DEF EngineInductive, EngineShapes
  <2>3. DrawnByTheCopy'
    BY <1>1, <2>1, SamePrices DEF EngineInductive, DrawnByTheCopy, Labelled
  <2> QED
    BY <1>1, <2>1, <2>2, <2>3 DEF EngineInductive, NoneFailed, Unblended
<1> QED
  BY <1>2, <1>3, <1>4

LEMMA DrawingIsSafe ==
  ASSUME EngineInductive, InventoryRead \/ \E i \in Tags : LabelDrawn(i)
  PROVE  EngineInductive'
<1>1. \A e : Formatted(e) # NoLabel /\ Unblended(Formatted(e))
  BY PricedIsLabelled, PricedByPhase DEF EngineInductive
<1>2. DOMAIN labels = Tags /\ DOMAIN items = Tags /\ items = [i \in Tags |-> items[i]]
      /\ page \in PageRecords
  BY DEF EngineInductive, EngineShapes
<1>3. CASE InventoryRead
  <2>1. PICK read \in SUBSET Tags \ {{}} :
          items' = [i \in Tags |-> IF i \in read THEN Formatted(copy) ELSE NoLabel]
    BY <1>3 DEF InventoryRead
  <2>2. UNCHANGED <<book, rated, wanted, unheard, copy, loads, lostRead, missed, page, labels>>
        /\ items = Bare
    BY <1>3 DEF InventoryRead
  <2>3. \A i \in Tags : items'[i] = (IF i \in read THEN Formatted(copy) ELSE NoLabel) /\ items[i] = NoLabel
    BY <2>1, <2>2 DEF Bare
  <2>4. Formatted(copy)' = Formatted(copy)
    BY <2>2, SamePrices
  <2>5. DrawnByTheCopy'
    BY <1>1, <2>2, <2>3, <2>4 DEF EngineInductive, DrawnByTheCopy, Labelled
  <2>6. \A i \in Tags : Unblended(items'[i]) /\ Unblended(labels'[i])
    BY <1>1, <2>2, <2>3, BareIsUnblended DEF EngineInductive
  <2> QED
    BY <1>2, <2>1, <2>2, <2>5, <2>6, EngineFrame
<1>4. CASE \E i \in Tags : LabelDrawn(i)
  <2>1. PICK i \in Tags : LabelDrawn(i)
    BY <1>4
  <2>2. /\ page.kind = "inventory" => items[i] # NoLabel
        /\ labels' = [labels EXCEPT ![i] = IF items[i] # NoLabel THEN items[i] ELSE Formatted(copy)]
        /\ UNCHANGED <<book, rated, wanted, unheard, copy, loads, lostRead, missed, page, items>>
    BY <2>1 DEF LabelDrawn, LabelFor
  <2>3. \A t \in Tags : labels'[t] = IF t # i THEN labels[t]
                                   ELSE IF items[i] # NoLabel THEN items[i] ELSE Formatted(copy)
    BY <1>2, <2>2
  <2>4. Formatted(copy)' = Formatted(copy)
    BY <2>2, SamePrices
  <2>5. DrawnByTheCopy'
    BY <1>1, <2>2, <2>3, <2>4 DEF EngineInductive, DrawnByTheCopy, Labelled
  <2>6. \A t \in Tags : Unblended(items'[t]) /\ Unblended(labels'[t])
    BY <1>1, <2>2, <2>3 DEF EngineInductive
  <2> QED
    BY <1>2, <2>2, <2>5, <2>6, EngineFrame
<1> QED
  BY <1>3, <1>4

LEMMA EngineStep == EngineInductive /\ [EngineNext]_engineVars => EngineInductive'
<1> SUFFICES ASSUME EngineInductive, [EngineNext]_engineVars PROVE EngineInductive'
  OBVIOUS
<1>1. CASE Listens \/ UNCHANGED engineVars
  <2>1. UNCHANGED <<book, rated, wanted, unheard, copy, loads, lostRead, missed, items, labels>>
        /\ page'.kind = page.kind /\ page' \in PageRecords
    BY <1>1 DEF Listens, engineVars, EngineInductive, EngineShapes, PageRecords
  <2>2. DrawnByTheCopy'
    BY <2>1, SamePrices DEF EngineInductive, DrawnByTheCopy, Labelled
  <2> QED
    BY <2>1, <2>2, EngineFrame DEF EngineInductive, EngineShapes
<1> QED
  BY <1>1, ReadsAreSafe, LoadingIsSafe, ChangesAreSafe, DrawingIsSafe DEF EngineNext

\* A drawn price is the one the settings ask for, by the phase where that has one.
THEOREM LabelsStayRight == EngineSpec => []LabelsAreRight
<1>1. EngineInductive => LabelsAreRight
  <2> SUFFICES ASSUME EngineInductive PROVE LabelsFollowSettings /\ PhasesAreNotBlended
    BY DEF LabelsAreRight
  <2>1. ASSUME Quiet, ~missed
        PROVE  [copy EXCEPT !.settings = Picked(wanted)] = copy
    <3>1. copy.settings = Picked(wanted)
      BY <2>1 DEF EngineInductive, UpToDate, Quiet
    <3> QED
      BY <3>1 DEF EngineInductive, EngineShapes
  <2>2. LabelsFollowSettings
    BY <2>1 DEF LabelsFollowSettings, EngineInductive, DrawnByTheCopy
  <2>3. PhasesAreNotBlended
    BY DEF PhasesAreNotBlended, EngineInductive, Unblended
  <2> QED
    BY <2>2, <2>3
<1> QED
  BY <1>1, EngineBegins, EngineStep, PTL DEF EngineSpec

-----------------------------------------------------------------------------

(***************************************************************************)
(* SellPanel.  Injecting makes everything beside the anchors be about      *)
(* them; Steam showing anything makes a frame due; nothing else takes an   *)
(* anchor from what stands beside it.                                      *)
(***************************************************************************)
PanelShapes ==
  /\ places \in [Places -> {Empty} \cup Views]
  /\ itemPanel = [at |-> itemPanel.at, good |-> itemPanel.good, prices |-> itemPanel.prices]
  /\ itemPanel.prices = "loading" => itemPanel.at \in Places
  /\ frame \in BOOLEAN
LookupInductive == PanelShapes /\ PanelSellsTheOpenItem

\* What an anchor is about bears its name, and is the asset of its link.
LEMMA AboutIsOfTheAnchor ==
  ASSUME NEW p \in Places, About(p) # NoGood
  PROVE  IsOf(About(p), p)
<1>1. CASE "inspect" \in places[p].marks
  BY <1>1 DEF About, IsOf
<1>2. CASE "inspect" \notin places[p].marks
  <2>1. \E g \in listed : Namesakes(p) = {g}
    BY <1>2 DEF About
  <2>2. About(p) = CHOOSE g \in listed : Namesakes(p) = {g}
    BY <1>2, <2>1 DEF About
  <2>3. Namesakes(p) = {About(p)}
    BY <2>1, <2>2
  <2>4. TitleOf[About(p)] = TitleOf[places[p].good]
    BY <2>3 DEF Namesakes
  <2>5. QED
    BY <1>2, <2>4 DEF IsOf
<1>3. QED
  BY <1>1, <1>2

LEMMA SellPlaceIsAnAnchor ==
  ASSUME SellableAt # {}
  PROVE  SellPlace \in Anchors /\ About(SellPlace) # NoGood
<1>1. \E p \in SellableAt : \A q \in SellableAt : p <= q
  <2>1. SellableAt \subseteq 1..2 /\ SellableAt # {}
    BY DEF SellableAt, Anchors, Bearing, Places
  <2>2. CASE 1 \in SellableAt
    <3>1. \A q \in SellableAt : 1 <= q
      BY <2>1
    <3>2. QED
      BY <2>2, <3>1
  <2>3. CASE 1 \notin SellableAt
    <3>1. \A q \in SellableAt : q = 2
      BY <2>1, <2>3
    <3>2. PICK r \in SellableAt : TRUE
      BY <2>1
    <3>3. r = 2 /\ \A q \in SellableAt : r <= q
      BY <3>1
    <3>4. QED
      BY <3>3
  <2>4. QED
    BY <2>2, <2>3
<1>2. SellPlace \in SellableAt
  BY <1>1 DEF SellPlace
<1>3. QED
  BY <1>2 DEF SellableAt

LEMMA InjectingIsSafe ==
  ASSUME PanelShapes, Inject, UNCHANGED places, frame' \in BOOLEAN
  PROVE  LookupInductive'
<1>1. Anchors \subseteq Places
  BY DEF Anchors, Bearing
<1>2. Anchors' = Anchors /\ \A g, p : IsOf(g, p)' = IsOf(g, p)
  BY DEF Anchors, Bearing, IsOf
<1>3. \A p \in Anchors : blocks'[p].about # NoGood => IsOf(blocks'[p].about, p)
  <2>1. \A p \in Anchors : blocks'[p].about = About(p)
    BY <1>1 DEF Inject, BlocksBeside
  <2>2. QED
    BY <1>1, <2>1, AboutIsOfTheAnchor
<1>4. /\ itemPanel' = [at |-> itemPanel'.at, good |-> itemPanel'.good, prices |-> itemPanel'.prices]
      /\ itemPanel'.prices = "loading" => itemPanel'.at \in Places
      /\ itemPanel'.at \in Anchors => IsOf(itemPanel'.good, itemPanel'.at)
  <2>1. CASE SellableAt # {}
    <3>1. PICK pr : itemPanel' = [at |-> SellPlace, good |-> About(SellPlace), prices |-> pr]
      BY <2>1 DEF Inject, PanelsFor
    <3>2. SellPlace \in Places /\ IsOf(About(SellPlace), SellPlace)
      BY <1>1, <2>1, SellPlaceIsAnAnchor, AboutIsOfTheAnchor
    <3>3. QED
      BY <3>1, <3>2
  <2>2. CASE SellableAt = {}
    <3>1. itemPanel' = [at |-> 0, good |-> NoGood, prices |-> "none"]
      BY <2>2 DEF Inject, PanelWhenCleared, NoPanel
    <3>2. 0 \notin Anchors
      BY <1>1 DEF Places
    <3>3. QED
      BY <3>1, <3>2
  <2>3. QED
    BY <2>1, <2>2
<1>5. PanelShapes'
  BY <1>4 DEF PanelShapes
<1>6. PanelSellsTheOpenItem'
  BY <1>2, <1>3, <1>4 DEF PanelSellsTheOpenItem
<1>7. QED
  BY <1>5, <1>6 DEF LookupInductive

\* Whether it injects or not: what fails to inject has no anchor.
LEMMA InjectOrRetryIsSafe ==
  ASSUME LookupInductive, NEW rest, NEW next, InjectOrRetry(rest, next), UNCHANGED places,
         frame' \in BOOLEAN
  PROVE  LookupInductive'
<1>1. CASE Anchors = {}
  <2>1. UNCHANGED <<blocks, itemPanel>>
    BY <1>1 DEF InjectOrRetry
  <2>2. Anchors' = {}
    BY <1>1 DEF Anchors, Bearing
  <2>3. QED
    BY <2>1, <2>2 DEF LookupInductive, PanelShapes, PanelSellsTheOpenItem
<1>2. CASE Anchors # {}
  BY <1>2, InjectingIsSafe DEF InjectOrRetry, LookupInductive
<1>3. QED
  BY <1>1, <1>2

LEMMA LookupBegins == SellPanelInit => LookupInductive
<1> SUFFICES ASSUME SellPanelInit PROVE LookupInductive
  OBVIOUS
<1>1. \A p \in Places : places[p] = Empty
  BY DEF SellPanelInit
<1>2. Anchors = {}
  BY <1>1 DEF Anchors, Bearing, Empty
<1>3. PanelShapes
  BY DEF PanelShapes, SellPanelInit, NoPanel
<1>4. QED
  BY <1>2, <1>3 DEF LookupInductive, PanelSellsTheOpenItem

LEMMA LookupStep == LookupInductive /\ [SellPanelNext]_sellPanelVars => LookupInductive'
<1> SUFFICES ASSUME LookupInductive, [SellPanelNext]_sellPanelVars PROVE LookupInductive'
  OBVIOUS
<1>0. PanelShapes /\ PanelSellsTheOpenItem
  BY DEF LookupInductive
<1>1. CASE FrameRuns
  BY <1>1, InjectOrRetryIsSafe DEF FrameRuns
<1>2. ASSUME NEW k \in Delays, Retry(k) PROVE LookupInductive'
  BY <1>0, <1>2, InjectOrRetryIsSafe DEF Retry, PanelShapes
<1>3. CASE LookupTimer
  BY <1>0, <1>3, InjectOrRetryIsSafe DEF LookupTimer, PanelShapes
<1>4. CASE DetailsTimer
  <2>0. UNCHANGED places /\ frame' \in {frame, TRUE}
    BY <1>4 DEF DetailsTimer
  <2>5. frame' = frame \/ frame' = TRUE
    BY <2>0
  <2>1. frame' \in BOOLEAN /\ UNCHANGED places /\ (~frame' => ~frame)
    BY <1>0, <2>0, <2>5 DEF PanelShapes
  <2>2. CASE InjectOrRetry(backoff, {1})
    BY <2>1, <2>2, InjectOrRetryIsSafe
  <2>3. CASE UNCHANGED <<blocks, itemPanel>>
    BY <1>0, <2>1, <2>3
       DEF LookupInductive, PanelShapes, PanelSellsTheOpenItem, Anchors, Bearing, IsOf
  <2>4. QED
    BY <1>4, <2>2, <2>3 DEF DetailsTimer
<1>5. CASE BookAnswer
  <2>1. PICK prices \in {"priced", "none"} : itemPanel' = [itemPanel EXCEPT !.prices = prices]
    BY <1>5 DEF BookAnswer
  <2>2. itemPanel' = [at |-> itemPanel.at, good |-> itemPanel.good, prices |-> prices]
    BY <1>0, <2>1 DEF PanelShapes
  <2>3. UNCHANGED <<places, blocks, frame>>
    BY <1>5 DEF BookAnswer
  <2>4. QED
    BY <1>0, <2>2, <2>3
       DEF LookupInductive, PanelShapes, PanelSellsTheOpenItem, Anchors, Bearing, IsOf
<1>6. CASE SteamShows
  <2>1. PICK p \in Places, face \in {Empty} \cup Views :
          /\ places' = [places EXCEPT ![p] = face]
          /\ itemPanel' \in {itemPanel} \cup IF itemPanel.at = p THEN {NoPanel} ELSE {}
    BY <1>6 DEF SteamShows
  <2>2. frame' = TRUE
    BY <1>6 DEF SteamShows
  <2>3. itemPanel' = itemPanel \/ itemPanel' = [at |-> 0, good |-> NoGood, prices |-> "none"]
    BY <2>1 DEF NoPanel
  <2>4. PanelShapes'
    BY <1>0, <2>1, <2>2, <2>3 DEF PanelShapes
  <2>5. QED
    BY <2>2, <2>4 DEF LookupInductive, PanelSellsTheOpenItem
<1>7. CASE ClickItem \/ ListChanges \/ UNCHANGED sellPanelVars
  <2>1. frame' \in BOOLEAN /\ UNCHANGED <<places, blocks, itemPanel>> /\ (~frame' => ~frame)
    BY <1>0, <1>7 DEF ClickItem, ListChanges, sellPanelVars, PanelShapes
  <2>2. QED
    BY <1>0, <2>1
       DEF LookupInductive, PanelShapes, PanelSellsTheOpenItem, Anchors, Bearing, IsOf
<1>8. QED
  BY <1>1, <1>2, <1>3, <1>4, <1>5, <1>6, <1>7 DEF SellPanelNext

\* What stands beside an item is about it: for any items, names, renderings and lists.
THEOREM PanelSellsWhatIsOpen == SellPanelSpec => []PanelSellsTheOpenItem
<1>1. LookupInductive => PanelSellsTheOpenItem
  BY DEF LookupInductive
<1>2. QED
  BY <1>1, LookupBegins, LookupStep, PTL DEF SellPanelSpec

-----------------------------------------------------------------------------

(***************************************************************************)
(* PortfolioCollector.  The account moves on while its pages are read, so  *)
(* a run cannot hold what the account has; it holds what stayed.  A shelf  *)
(* that was read down to a cursor has every asset down there that never    *)
(* moved; the log has the trades of the run's beginning down to its own    *)
(* cursor, unless it was cut.  What is called complete was read to its     *)
(* end, and packing chunks drops nothing from what is called so.           *)
(***************************************************************************)
Trades == 1..MaxTrades

LEMMA OldestIsLeast ==
  ASSUME NEW S \in SUBSET Nat, S # {}
  PROVE  Oldest(S) \in S /\ \A a \in S : Oldest(S) <= a
<1>1. \E a \in S : \A b \in S : a <= b
  BY LeastNumber
<1> QED
  BY <1>1 DEF Oldest

\* What is newer than a kept row is kept.
LEMMA NewestGoesUp ==
  ASSUME NEW S \in SUBSET Nat, IsFiniteSet(S), NEW n \in Nat, NEW a \in Newest(S, n),
         NEW b \in S, b >= a
  PROVE  b \in Newest(S, n)
<1> DEFINE Newer(x) == {y \in S : y > x}
<1>0. a \in Nat /\ b \in Nat /\ \A y \in S : y > b => y > a
  <2>1. a \in S
    BY DEF Newest
  <2>2. \A y \in Nat : y > b => y > a
    BY <2>1
  <2> QED
    BY <2>1, <2>2
<1>1. Newer(b) \subseteq Newer(a) /\ Newer(a) \subseteq S
  BY <1>0
<1>2. IsFiniteSet(Newer(a)) /\ IsFiniteSet(Newer(b))
  BY <1>1, FS_Subset
<1>3. Cardinality(Newer(b)) <= Cardinality(Newer(a))
  BY <1>1, <1>2, FS_Subset
<1>4. Cardinality(Newer(a)) \in Nat /\ Cardinality(Newer(b)) \in Nat
  BY <1>2, FS_CardinalityType
<1>5. Cardinality(Newer(a)) < n
  BY DEF Newest
<1> HIDE DEF Newer
<1>6. Cardinality(Newer(b)) < n
  BY <1>3, <1>4, <1>5
<1> QED
  BY <1>6 DEF Newest, Newer

\* No more rows are kept than asked for.
LEMMA NewestAreFew ==
  ASSUME NEW S \in SUBSET Nat, IsFiniteSet(S), NEW n \in Nat
  PROVE  IsFiniteSet(Newest(S, n)) /\ Cardinality(Newest(S, n)) <= n
<1> DEFINE Newer(x) == {y \in S : y > x}
           f == [a \in Newest(S, n) |-> Cardinality(Newer(a))]
<1>1. ASSUME NEW a \in S PROVE IsFiniteSet(Newer(a)) /\ Cardinality(Newer(a)) \in Nat
  BY FS_Subset, FS_CardinalityType
<1>2. ASSUME NEW a \in S, NEW b \in S, a < b PROVE Cardinality(Newer(a)) # Cardinality(Newer(b))
  <2>0. /\ \A y \in S : y > b => y > a
        /\ b > a /\ ~(b > b)
    <3>1. a \in Nat /\ b \in Nat
      OBVIOUS
    <3>2. \A y \in Nat : y > b => y > a
      BY <1>2, <3>1
    <3> QED
      BY <1>2, <3>1, <3>2
  <2>1. Newer(b) \subseteq Newer(a) /\ b \in Newer(a) /\ b \notin Newer(b)
    BY <1>2, <2>0
  <2>2. Newer(a) # Newer(b)
    BY <2>1
  <2> HIDE DEF Newer
  <2> QED
    BY <1>1, <2>1, <2>2, FS_Subset
<1>3. Newest(S, n) \subseteq S /\ \A a \in Newest(S, n) : Cardinality(Newer(a)) < n
  BY DEF Newest
<1> HIDE DEF Newer
<1>4. f \in [Newest(S, n) -> 0..(n - 1)]
  <2>1. \A a \in Newest(S, n) : Cardinality(Newer(a)) \in Nat /\ Cardinality(Newer(a)) < n
    BY <1>1, <1>3
  <2>2. \A a \in Newest(S, n) : Cardinality(Newer(a)) \in 0..(n - 1)
    BY <2>1
  <2> QED
    BY <2>2
<1>5. ASSUME NEW a \in Newest(S, n), NEW b \in Newest(S, n), f[a] = f[b] PROVE a = b
  <2>1. a \in S /\ b \in S /\ Cardinality(Newer(a)) = Cardinality(Newer(b))
    BY <1>3, <1>5
  <2>2. ~(a < b) /\ ~(b < a)
    BY <1>2, <2>1
  <2> QED
    BY <2>1, <2>2
<1> HIDE DEF f
<1>6. f \in Injection(Newest(S, n), 0..(n - 1))
  BY <1>4, <1>5 DEF Injection, IsInjective
<1>7. IsFiniteSet(0..(n - 1)) /\ Cardinality(0..(n - 1)) = n
  BY FS_Interval
<1> QED
  BY <1>6, <1>7, FS_Injection

\* Every one of them has its place.
LEMMA EveryoneHasAPlace ==
  ASSUME NEW ids \in SUBSET Nat, IsFiniteSet(ids), NEW a \in ids
  PROVE  \E i \in 1..Cardinality(ids) : Nth(ids, i) = a
<1> DEFINE Upto(x) == {y \in ids : y <= x}
<1>1. ASSUME NEW x \in ids
      PROVE  /\ Upto(x) \subseteq ids /\ IsFiniteSet(Upto(x)) /\ Cardinality(Upto(x)) \in Nat
             /\ Cardinality(Upto(x)) <= Cardinality(ids)
  BY FS_Subset, FS_CardinalityType
<1>2. ASSUME NEW x \in ids, NEW y \in ids, x < y PROVE Cardinality(Upto(x)) # Cardinality(Upto(y))
  <2>0. /\ \A z \in ids : z <= x => z <= y
        /\ ~(y <= x) /\ y <= y
    <3>1. x \in Nat /\ y \in Nat
      OBVIOUS
    <3>2. \A z \in Nat : z <= x => z <= y
      BY <1>2, <3>1
    <3> QED
      BY <1>2, <3>1, <3>2
  <2>1. Upto(x) \subseteq Upto(y) /\ y \in Upto(y) /\ y \notin Upto(x)
    BY <1>2, <2>0
  <2>2. Upto(x) # Upto(y)
    BY <2>1
  <2> HIDE DEF Upto
  <2> QED
    BY <1>1, <2>1, <2>2, FS_Subset
<1>3. a \in Upto(a)
  OBVIOUS
<1>4. Cardinality(Upto(a)) # 0
  BY <1>1, <1>3, FS_EmptySet
<1>5. Nth(ids, Cardinality(Upto(a))) = CHOOSE x \in ids : Cardinality(Upto(x)) = Cardinality(Upto(a))
  BY DEF Nth
<1> HIDE DEF Upto
<1>6. Nth(ids, Cardinality(Upto(a))) \in ids
      /\ Cardinality(Upto(Nth(ids, Cardinality(Upto(a))))) = Cardinality(Upto(a))
  BY <1>5
<1>7. Nth(ids, Cardinality(Upto(a))) = a
  <2> DEFINE b == Nth(ids, Cardinality(Upto(a)))
  <2> HIDE DEF b
  <2>1. b \in ids /\ ~(b < a) /\ ~(a < b)
    BY <1>2, <1>6 DEF b
  <2>2. a = b
    BY <2>1
  <2> QED
    BY <2>2 DEF b
<1>8. Cardinality(Upto(a)) \in 1..Cardinality(ids)
  <2>1. Cardinality(ids) \in Nat
    BY FS_CardinalityType
  <2> QED
    BY <1>1, <1>4, <2>1
<1> QED
  BY <1>7, <1>8

LEMMA InChunksIs ==
  ASSUME NEW chunks
  PROVE  \A x : x \in InChunks(chunks) <=> \E i \in DOMAIN chunks : x \in ToSet(chunks[i])
<1>1. \A x : x \in InChunks(chunks) <=> \E chunk \in ToSet(chunks) : x \in ToSet(chunk)
  BY DEF InChunks
<1>2. \A chunk : chunk \in ToSet(chunks) <=> \E i \in DOMAIN chunks : chunk = chunks[i]
  BY DEF ToSet
<1> QED
  BY <1>1, <1>2

\* A record that is stowed is in a chunk, beside what is there.
LEMMA StowedIsIn ==
  ASSUME NEW R, NEW chunks \in Seq(Seq(R)), chunks # <<>>, NEW record \in R
  PROVE  /\ Stowed(chunks, record) \in Seq(Seq(R)) /\ Stowed(chunks, record) # <<>>
         /\ InChunks(Stowed(chunks, record)) = InChunks(chunks) \cup {record}
<1> DEFINE n == Len(chunks)
           last == chunks[n]
           fuller == Append(last, record)
<1>1. n \in Nat /\ n \in 1..n /\ DOMAIN chunks = 1..n /\ last \in Seq(R)
  <2>1. n \in Nat /\ n # 0 /\ DOMAIN chunks = 1..n
    BY EmptySeq, LenProperties
  <2> QED
    BY <2>1, ElementOfSeq
<1>2. fuller \in Seq(R) /\ ToSet(fuller) = ToSet(last) \cup {record}
  <2>1. fuller \in Seq(R) /\ Len(fuller) = Len(last) + 1
        /\ \A i \in 1..Len(last) : fuller[i] = last[i] /\ fuller[Len(last) + 1] = record
    BY <1>1
  <2>2. fuller[Len(last) + 1] = record
    BY <1>1
  <2>3. DOMAIN last = 1..Len(last) /\ DOMAIN fuller = 1..(Len(last) + 1) /\ Len(last) \in Nat
    BY <1>1, <2>1, LenProperties
  <2> HIDE DEF fuller, last
  <2>4. 1..(Len(last) + 1) = (1..Len(last)) \cup {Len(last) + 1}
    BY <2>3
  <2> QED
    BY <2>1, <2>2, <2>3, <2>4 DEF ToSet
<1>3. CASE Fits(fuller)
  <2> DEFINE new == [chunks EXCEPT ![n] = fuller]
  <2>1. Stowed(chunks, record) = new
    BY <1>3 DEF Stowed
  <2>2. new \in [1..n -> Seq(R)] /\ DOMAIN new = 1..n
    BY <1>1, <1>2
  <2>3. new \in Seq(Seq(R)) /\ new # <<>>
    <3>0. \A m \in Nat : \A g \in [1..m -> Seq(R)] : g \in Seq(Seq(R))
      BY SeqDef
    <3>1. \A g \in [1..n -> Seq(R)] : g \in Seq(Seq(R))
      BY <1>1, <3>0
    <3>2. n \in DOMAIN new
      BY <1>1, <2>2
    <3> QED
      BY <2>2, <3>1, <3>2
  <2>4. \A i \in 1..n : new[i] = IF i = n THEN fuller ELSE chunks[i]
    BY <1>1
  <2> HIDE DEF new, fuller
  <2>5. \A x : x \in InChunks(new) <=> \E i \in 1..n : x \in ToSet(new[i])
    BY <2>2, InChunksIs
  <2>6. \A x : x \in InChunks(chunks) <=> \E i \in 1..n : x \in ToSet(chunks[i])
    BY <1>1, InChunksIs
  <2>7. ASSUME NEW x \in InChunks(new) PROVE x \in InChunks(chunks) \cup {record}
    BY <1>1, <1>2, <2>4, <2>5, <2>6
  <2>8. ASSUME NEW x \in InChunks(chunks) \cup {record} PROVE x \in InChunks(new)
    BY <1>1, <1>2, <2>4, <2>5, <2>6
  <2> QED
    BY <2>1, <2>3, <2>7, <2>8
<1>4. CASE ~Fits(fuller)
  <2> DEFINE new == Append(chunks, <<record>>)
  <2>1. Stowed(chunks, record) = new
    BY <1>4 DEF Stowed
  <2>2. <<record>> \in Seq(R) /\ ToSet(<<record>>) = {record}
    BY DEF ToSet
  <2>3. new \in Seq(Seq(R)) /\ new # <<>> /\ DOMAIN new = 1..(n + 1)
    <3> HIDE DEF fuller, last
    <3>1. new \in Seq(Seq(R))
      BY <2>2, AppendProperties
    <3>2. Len(new) = n + 1
      BY <2>2, AppendProperties
    <3>3. DOMAIN new = 1..Len(new)
      BY <3>1
    <3>4. new # <<>>
      BY <3>2, <1>1
    <3> QED
      BY <3>1, <3>2, <3>3, <3>4
  <2>4. new[n + 1] = <<record>> /\ \A i \in 1..n : new[i] = chunks[i]
    BY <1>1, <2>2
  <2> HIDE DEF new, fuller
  <2>5. \A x : x \in InChunks(new) <=> \E i \in 1..(n + 1) : x \in ToSet(new[i])
    BY <2>3, InChunksIs
  <2>6. \A x : x \in InChunks(chunks) <=> \E i \in 1..n : x \in ToSet(chunks[i])
    BY <1>1, InChunksIs
  <2>9. 1..(n + 1) = (1..n) \cup {n + 1}
    BY <1>1
  <2> HIDE DEF n
  <2>7. ASSUME NEW x \in InChunks(new) PROVE x \in InChunks(chunks) \cup {record}
    BY <2>2, <2>4, <2>5, <2>6, <2>9
  <2>8. ASSUME NEW x \in InChunks(chunks) \cup {record} PROVE x \in InChunks(new)
    BY <2>2, <2>4, <2>5, <2>6, <2>9
  <2> QED
    BY <2>1, <2>3, <2>7, <2>8
<1> QED
  BY <1>3, <1>4

\* The chunks hold the records that were packed, and nothing else.
LEMMA ChunksHoldTheRecords ==
  ASSUME NEW R, NEW records \in Seq(R)
  PROVE  Chunks(records) \in Seq(Seq(R)) /\ InChunks(Chunks(records)) = ToSet(records)
<1> DEFINE n == Len(records)
           Stows(f, m) ==
             f = [i \in 0..m |-> IF i = 0 THEN << <<>> >> ELSE Stowed(f[i - 1], records[i])]
           Undefined == {m \in 0..n : ~\E f : Stows(f, m)}
<1>0. n \in Nat /\ DOMAIN records = 1..n /\ \A i \in 1..n : records[i] \in R
  BY LenProperties, ElementOfSeq
<1>1. \E f : Stows(f, n)
  <2> SUFFICES ASSUME ~\E f : Stows(f, n) PROVE FALSE
    OBVIOUS
  <2>1. Undefined \in SUBSET Nat /\ Undefined # {}
    BY <1>0
  <2>2. PICK m \in Undefined : \A k \in Undefined : m <= k
    BY <2>1, LeastNumber
  <2>3. m \in 0..n /\ ~\E f : Stows(f, m)
    OBVIOUS
  <2>4. m # 0
    <3>1. Stows([i \in 0..0 |-> << <<>> >>], 0)
      OBVIOUS
    <3> QED
      BY <2>3, <3>1
  <2>5. m - 1 \in 0..n /\ ~(m <= m - 1)
    BY <1>0, <2>3, <2>4
  <2>8. m - 1 \notin Undefined
    BY <2>2, <2>5
  <2>6. PICK f : Stows(f, m - 1)
    BY <2>5, <2>8
  <2> DEFINE g == [i \in 0..m |-> IF i = m THEN Stowed(f[m - 1], records[m]) ELSE f[i]]
  <2>7. Stows(g, m)
    <3>1. ASSUME NEW i \in 0..m
          PROVE  g[i] = IF i = 0 THEN << <<>> >> ELSE Stowed(g[i - 1], records[i])
      <4>1. CASE i = m
        <5>1. m - 1 \in 0..m /\ m - 1 # m
          BY <2>3, <2>4
        <5> QED
          BY <2>4, <4>1, <5>1
      <4>2. CASE i # m /\ i # 0
        <5>1. i \in 0..(m - 1) /\ i - 1 \in 0..m /\ i - 1 # m
          BY <2>3, <4>2
        <5>2. f[i] = Stowed(f[i - 1], records[i])
          BY <2>6, <4>2, <5>1
        <5> QED
          BY <4>2, <5>1, <5>2
      <4>3. CASE i = 0
        <5>1. 0 \in 0..(m - 1) /\ m # 0
          BY <2>3, <2>4
        <5>2. f[0] = << <<>> >>
          BY <2>6, <5>1
        <5> QED
          BY <4>3, <5>1, <5>2
      <4> QED
        BY <4>1, <4>2, <4>3
    <3> QED
      BY <3>1
  <2> QED
    BY <2>3, <2>7
<1>2. PICK f : Stows(f, n) /\ Chunks(records) = f[n]
  <2> DEFINE f == CHOOSE g : Stows(g, n)
  <2>1. Stows(f, n)
    BY <1>1
  <2>2. Chunks(records) = f[n]
    BY DEF Chunks
  <2> HIDE DEF f
  <2> QED
    BY <2>1, <2>2
<1>3. f[0] = << <<>> >> /\ \A i \in 1..n : f[i] = Stowed(f[i - 1], records[i])
  <2>1. 0 \in 0..n /\ \A i \in 1..n : i \in 0..n /\ i # 0
    BY <1>0
  <2> QED
    BY <1>2, <2>1
<1> HIDE DEF Stows, Undefined, n
<1> DEFINE Right(i) == /\ f[i] \in Seq(Seq(R)) /\ f[i] # <<>>
                       /\ InChunks(f[i]) = {records[j] : j \in 1..i}
           Wrong == {i \in 0..n : ~Right(i)}
<1>4. Right(0)
  <2>1. << <<>> >> \in Seq(Seq(R)) /\ << <<>> >> # <<>> /\ InChunks(<< <<>> >>) = {}
    BY DEF InChunks, ToSet
  <2>2. 1..0 = {}
    OBVIOUS
  <2> QED
    BY <1>3, <2>1, <2>2
<1>5. ASSUME NEW i \in 1..n, Right(i - 1) PROVE Right(i)
  <2>1. 1..i = (1..(i - 1)) \cup {i}
    BY <1>0
  <2>2. f[i] = Stowed(f[i - 1], records[i]) /\ records[i] \in R
    BY <1>0, <1>3
  <2> DEFINE before == f[i - 1]
  <2>4. /\ InChunks(before) = {records[j] : j \in 1..(i - 1)} /\ f[i] = Stowed(before, records[i])
    BY <1>5, <2>2
  <2>7. before \in Seq(Seq(R)) /\ before # <<>> /\ records[i] \in R
    BY <1>5, <2>2
  <2> HIDE DEF before
  <2>6. ASSUME NEW r \in R
        PROVE  /\ Stowed(before, r) \in Seq(Seq(R)) /\ Stowed(before, r) # <<>>
               /\ InChunks(Stowed(before, r)) = InChunks(before) \cup {r}
    <3>1. Stowed(before, r) \in Seq(Seq(R)) /\ Stowed(before, r) # <<>>
      BY <2>7, StowedIsIn
    <3>2. InChunks(Stowed(before, r)) = InChunks(before) \cup {r}
      BY <2>7, StowedIsIn
    <3> QED
      BY <3>1, <3>2
  <2>3. f[i] \in Seq(Seq(R)) /\ f[i] # <<>> /\ InChunks(f[i]) = InChunks(before) \cup {records[i]}
    BY <2>4, <2>6, <2>7
  <2>5. {records[j] : j \in 1..i} = {records[j] : j \in 1..(i - 1)} \cup {records[i]}
    BY <2>1
  <2> QED
    BY <2>3, <2>4, <2>5
<1> HIDE DEF Right
<1>6. Right(n)
  <2> SUFFICES ASSUME ~Right(n) PROVE FALSE
    OBVIOUS
  <2>1. Wrong \in SUBSET Nat /\ Wrong # {}
    BY <1>0
  <2>2. PICK i \in Wrong : \A k \in Wrong : i <= k
    BY <2>1, LeastNumber
  <2>3. i \in 0..n /\ ~Right(i)
    OBVIOUS
  <2>4. i \in 1..n /\ i - 1 \in 0..n
    BY <1>0, <1>4, <2>3
  <2>5. i - 1 \notin Wrong
    BY <2>2, <2>4
  <2> QED
    BY <1>5, <2>3, <2>4, <2>5
<1> QED
  BY <1>0, <1>2, <1>6 DEF Right, ToSet

LEMMA JoinedHoldBoth ==
  ASSUME NEW R, NEW s \in Seq(R), NEW t \in Seq(R)
  PROVE  s \o t \in Seq(R) /\ ToSet(s \o t) = ToSet(s) \cup ToSet(t)
<1>1. /\ s \o t \in Seq(R) /\ Len(s) \in Nat /\ Len(t) \in Nat
      /\ DOMAIN s = 1..Len(s) /\ DOMAIN t = 1..Len(t) /\ DOMAIN (s \o t) = 1..(Len(s) + Len(t))
  BY ConcatProperties, LenProperties
<1>2. \A i \in 1..Len(s) : (s \o t)[i] = s[i]
  BY ConcatProperties
<1>3. \A i \in 1..Len(t) : (s \o t)[Len(s) + i] = t[i]
  BY ConcatProperties
<1>4. \A i \in 1..(Len(s) + Len(t)) : i \in 1..Len(s) \/ \E j \in 1..Len(t) : i = Len(s) + j
  <2>1. \A i \in 1..(Len(s) + Len(t)) : i \notin 1..Len(s) => i - Len(s) \in 1..Len(t)
                                       /\ i = Len(s) + (i - Len(s))
    BY <1>1
  <2> QED
    BY <2>1
<1>5. /\ \A i \in 1..Len(s) : i \in 1..(Len(s) + Len(t))
      /\ \A j \in 1..Len(t) : Len(s) + j \in 1..(Len(s) + Len(t))
  BY <1>1
<1> DEFINE st == s \o t
           n == Len(s)
           m == Len(t)
<1> HIDE DEF st, n, m
<1>6. ToSet(st) \subseteq ToSet(s) \cup ToSet(t)
  BY <1>1, <1>2, <1>3, <1>4 DEF ToSet, st, n, m
<1>7. ToSet(s) \cup ToSet(t) \subseteq ToSet(st)
  BY <1>1, <1>2, <1>3, <1>5 DEF ToSet, st, n, m
<1> QED
  BY <1>1, <1>6, <1>7 DEF st

\* Every id gets its record.
LEMMA RecordsAreAll ==
  ASSUME NEW ids \in SUBSET Nat, IsFiniteSet(ids), NEW kind
  PROVE  /\ Records(kind, ids) \in Seq(ToSet(Records(kind, ids)))
         /\ \A a \in ids : [kind |-> kind, id |-> a] \in ToSet(Records(kind, ids))
<1> DEFINE n == Cardinality(ids)
           s == Records(kind, ids)
<1>1. n \in Nat
  BY FS_CardinalityType
<1>2. s = [i \in 1..n |-> [kind |-> kind, id |-> Nth(ids, i)]]
  BY DEF Records
<1> HIDE DEF n, s
<1>3. s \in [1..n -> ToSet(s)]
  BY <1>2 DEF ToSet
<1>4. s \in Seq(ToSet(s))
  BY <1>1, <1>3, SeqDef
<1>5. ASSUME NEW a \in ids PROVE [kind |-> kind, id |-> a] \in ToSet(s)
  <2>1. PICK i \in 1..n : Nth(ids, i) = a
    BY EveryoneHasAPlace DEF n
  <2>2. i \in DOMAIN s /\ s[i] = [kind |-> kind, id |-> a]
    BY <1>2, <2>1
  <2> QED
    BY <2>2 DEF ToSet
<1> QED
  BY <1>4, <1>5 DEF s

LEMMA SeqsGrow ==
  ASSUME NEW R, NEW S, R \subseteq S, NEW s \in Seq(R)
  PROVE  s \in Seq(S)
BY SeqMonotonic

(***************************************************************************)
(* The invariant.                                                          *)
(***************************************************************************)
Shelves == [items : SUBSET AssetIds, after : Nat, pages : Nat, done : BOOLEAN]
Totals == 0..(MaxTrades + 2)
Logs == [found : SUBSET Trades, after : Totals, cursors : SUBSET Trades, total : Totals,
         pages : Nat, retried : BOOLEAN, since : 0..MaxTrades, cut : BOOLEAN]

OutcomeShape ==
  /\ outcome = [trades |-> outcome.trades, tradesComplete |-> outcome.tradesComplete,
                offers |-> outcome.offers, usable |-> outcome.usable,
                inventoryComplete |-> outcome.inventoryComplete, chunks |-> outcome.chunks]
  /\ outcome.tradesComplete \in BOOLEAN /\ outcome.inventoryComplete \in BOOLEAN
  /\ outcome.offers \in Nat

CollectorShapes ==
  /\ moved \in [assets : SUBSET AssetIds, times : 0..MaxMoves]
  /\ shelf \in [Contexts -> Shelves] /\ log \in Logs /\ OutcomeShape

\* The shelves hold what stayed where it was, down to the cursor.
AssetsAreRead ==
  /\ \A c \in Contexts : shelf[c].done \/ shelf[c].pages < MaxAssetPages
  /\ \A c \in Contexts : \A a \in AssetIds \ moved.assets :
       place[a] = c /\ (a >= shelf[c].after \/ shelf[c].done) => a \in shelf[c].items
  /\ at \in {"trades", "offers", "pack"} /\ "inventory" \in sources =>
       \A c \in Contexts : shelf[c].done

\* The log holds the trades of the run's begin, down to the cursor, and as many as counted.
TradesAreRead ==
  /\ log.since <= newest
  /\ log.after = Unknown => log.found = {}
  /\ log.after # Unknown => log.after \in log.found
  /\ \A t \in 1..log.since : t >= log.after => t \in log.found
  /\ log.after # Unknown /\ log.total # Unknown =>
       log.found \subseteq 1..log.total /\ log.since <= log.total

\* What is claimed of the trades is so before they are packed.
ClaimIsTrue ==
  /\ at \in {"idle", "inventory", "trades"} => ~outcome.tradesComplete
  /\ at = "idle" => log = FreshLog
  /\ at \in {"offers", "pack"} /\ outcome.tradesComplete /\ ~log.cut =>
       1..log.since \subseteq outcome.trades
  /\ at \in {"idle", "inventory", "trades", "offers", "pack"} => ~outcome.inventoryComplete

CollectorInductive ==
  /\ CollectorTypeOK /\ CollectorShapes /\ AssetsAreRead /\ TradesAreRead /\ ClaimIsTrue
  /\ CompleteIsComplete

LEMMA NextSources ==
  /\ NextSource("inventory") = IF "trades" \in sources THEN "trades" ELSE "offers"
  /\ NextSource("trades") = "offers"
BY DEF NextSource

LEMMA CollectorBegins == CollectorInit => CollectorInductive
<1> SUFFICES ASSUME CollectorInit PROVE CollectorInductive
  OBVIOUS
<1>1. FreshShelf \in Shelves /\ FreshShelf.items = {} /\ FreshShelf.pages = 0
      /\ FreshShelf.after = MaxAssets + 1 /\ FreshShelf.done = FALSE
  BY CollectorAssumption DEF FreshShelf, Shelves
<1>2. FreshLog \in Logs
  <2>1. {} \in SUBSET Trades /\ Unknown \in Totals /\ 0 \in 0..MaxTrades /\ 0 \in Nat
    BY CollectorAssumption DEF Unknown, Totals
  <2> QED
    BY <2>1 DEF FreshLog, Logs
<1>3. CollectorShapes
  <2>1. [assets |-> {}, times |-> 0] \in [assets : SUBSET AssetIds, times : 0..MaxMoves]
    BY CollectorAssumption
  <2>2. OutcomeShape
    BY DEF CollectorInit, NothingRead, OutcomeShape
  <2> QED
    BY <1>1, <1>2, <2>1, <2>2 DEF CollectorInit, CollectorShapes
<1>4. CollectorTypeOK
  <2>1. newest \in 0..MaxTrades
    BY CollectorAssumption DEF CollectorInit
  <2>2. place \in [AssetIds -> Contexts \cup {"none"}]
    BY DEF CollectorInit, Contexts
  <2>3. log.found = {} /\ log.pages = 0 /\ outcome.usable = {} /\ outcome.trades = {}
        /\ outcome.chunks = <<>>
    BY DEF CollectorInit, FreshLog, NothingRead
  <2>4. Cardinality(log.found) <= TradeLimit /\ log.pages < MaxTradePages
    BY <2>3, FS_EmptySet, CollectorAssumption
  <2>5. \A c \in Contexts : shelf[c].items \subseteq AssetIds /\ shelf[c].pages <= MaxAssetPages
    BY <1>1, CollectorAssumption DEF CollectorInit
  <2>6. moved.assets \subseteq AssetIds /\ moved.times \in 0..MaxMoves
    BY <1>3 DEF CollectorShapes
  <2>7. Len(outcome.chunks) <= MaxChunks
    BY <2>3, CollectorAssumption
  <2> QED
    BY <2>1, <2>2, <2>3, <2>4, <2>5, <2>6, <2>7 DEF CollectorInit, CollectorTypeOK
<1>5. AssetsAreRead
  <2>1. (\A a \in AssetIds : ~(a >= MaxAssets + 1)) /\ 0 < MaxAssetPages
    BY CollectorAssumption DEF AssetIds
  <2> QED
    BY <1>1, <2>1 DEF CollectorInit, AssetsAreRead
<1>6. TradesAreRead
  BY CollectorAssumption DEF CollectorInit, FreshLog, TradesAreRead
<1>7. ClaimIsTrue /\ CompleteIsComplete
  BY DEF CollectorInit, NothingRead, ClaimIsTrue, CompleteIsComplete
<1> QED
  BY <1>3, <1>4, <1>5, <1>6, <1>7 DEF CollectorInductive

\* What happens to the account is remembered as moved.
LEMMA MovesAreSafe ==
  ASSUME CollectorInductive, NEW a \in AssetIds, Moves({a}),
         newest' \in newest..MaxTrades, NEW context \in Contexts \cup {"none"},
         place' = [place EXCEPT ![a] = context]
  PROVE  CollectorInductive'
<1>1. /\ at \in {"inventory", "trades"} /\ UNCHANGED <<sources, at, shelf, log, outcome>>
      /\ moved' = [assets |-> moved.assets \cup {a}, times |-> moved.times + 1]
      /\ moved.times < MaxMoves
  BY DEF Moves
<1>2. CollectorTypeOK /\ CollectorShapes /\ AssetsAreRead /\ TradesAreRead /\ ClaimIsTrue
  BY DEF CollectorInductive
<1>3. CollectorShapes'
  <2>1. moved.assets \subseteq AssetIds /\ moved.times \in 0..MaxMoves
    BY <1>2 DEF CollectorTypeOK
  <2>2. moved.times + 1 \in 0..MaxMoves
    BY <1>1, <2>1, CollectorAssumption
  <2>3. moved' \in [assets : SUBSET AssetIds, times : 0..MaxMoves]
    BY <1>1, <2>1, <2>2
  <2> QED
    BY <1>1, <1>2, <2>3 DEF CollectorShapes, OutcomeShape
<1>4. CollectorTypeOK'
  <2>1. newest' \in 0..MaxTrades
    BY <1>2, CollectorAssumption DEF CollectorTypeOK
  <2>2. place' \in [AssetIds -> Contexts \cup {"none"}]
    BY <1>2 DEF CollectorTypeOK
  <2>3. moved'.assets \subseteq AssetIds /\ moved'.times \in 0..MaxMoves
    BY <1>3 DEF CollectorShapes
  <2> QED
    BY <1>1, <1>2, <2>1, <2>2, <2>3 DEF CollectorTypeOK
<1>5. AssetsAreRead'
  <2>1. moved'.assets = moved.assets \cup {a}
    BY <1>1
  <2>2. \A b \in AssetIds \ moved'.assets : b \in AssetIds \ moved.assets /\ place'[b] = place[b]
    BY <1>2, <2>1 DEF CollectorTypeOK
  <2> QED
    BY <1>1, <1>2, <2>2 DEF AssetsAreRead
<1>6. TradesAreRead'
  <2>1. log.since <= newest'
    BY <1>2, CollectorAssumption DEF TradesAreRead, CollectorTypeOK, CollectorShapes, Logs
  <2> QED
    BY <1>1, <1>2, <2>1 DEF TradesAreRead
<1>7. ClaimIsTrue' /\ CompleteIsComplete'
  BY <1>1, <1>2 DEF ClaimIsTrue, CompleteIsComplete
<1> QED
  BY <1>3, <1>4, <1>5, <1>6, <1>7 DEF CollectorInductive

LEMMA AccountIsSafe ==
  ASSUME CollectorInductive, TradeHappens \/ HoldEnds
  PROVE  CollectorInductive'
<1>1. newest \in 0..MaxTrades
  BY DEF CollectorInductive, CollectorTypeOK
<1>2. CASE TradeHappens
  <2>1. newest' \in newest..MaxTrades
    BY <1>1, <1>2, CollectorAssumption DEF TradeHappens
  <2>2. PICK a \in AssetIds : place' = [place EXCEPT ![a] = IF @ = "none" THEN "2" ELSE "none"]
                             /\ Moves({a})
    BY <1>2 DEF TradeHappens
  <2>3. (IF place[a] = "none" THEN "2" ELSE "none") \in Contexts \cup {"none"}
    BY DEF Contexts
  <2> QED
    BY <2>1, <2>2, <2>3, MovesAreSafe
<1>3. CASE HoldEnds
  <2>1. PICK a \in AssetIds : place' = [place EXCEPT ![a] = "2"] /\ Moves({a}) /\ UNCHANGED newest
    BY <1>3 DEF HoldEnds
  <2>2. newest' \in newest..MaxTrades
    BY <1>1, <2>1, CollectorAssumption
  <2>3. "2" \in Contexts \cup {"none"}
    BY DEF Contexts
  <2> QED
    BY <2>1, <2>2, <2>3, MovesAreSafe
<1> QED
  BY <1>2, <1>3

LEMMA StartIsSafe ==
  ASSUME CollectorInductive, CollectStarts
  PROVE  CollectorInductive'
<1>1. PICK enabled \in SUBSET Sources \ {{}} :
        /\ sources' = enabled
        /\ at' = IF "inventory" \in enabled THEN "inventory"
                 ELSE IF "trades" \in enabled THEN "trades" ELSE "offers"
  BY DEF CollectStarts
<1>2. /\ at = "idle" /\ log' = [FreshLog EXCEPT !.since = newest]
      /\ UNCHANGED <<newest, place, moved, shelf, outcome>>
  BY DEF CollectStarts, accountVars
<1>3. CollectorTypeOK /\ CollectorShapes /\ AssetsAreRead /\ ClaimIsTrue
  BY DEF CollectorInductive
<1>4. newest \in 0..MaxTrades
  BY <1>3 DEF CollectorTypeOK
<1>5. /\ log'.found = {} /\ log'.after = Unknown /\ log'.total = Unknown /\ log'.pages = 0
      /\ log'.since = newest /\ log' \in Logs
  <2>1. {} \in SUBSET Trades /\ Unknown \in Totals /\ 0 \in Nat
    BY CollectorAssumption DEF Unknown, Totals
  <2>2. log' = [found |-> {}, after |-> Unknown, cursors |-> {}, total |-> Unknown, pages |-> 0,
                retried |-> FALSE, since |-> newest, cut |-> FALSE]
    BY <1>2 DEF FreshLog
  <2> QED
    BY <1>4, <2>1, <2>2 DEF Logs
<1>6. CollectorShapes'
  BY <1>2, <1>3, <1>5 DEF CollectorShapes, OutcomeShape
<1>7. CollectorTypeOK'
  <2>1. Cardinality(log'.found) <= TradeLimit /\ log'.pages < MaxTradePages
    BY <1>5, FS_EmptySet, CollectorAssumption
  <2> QED
    BY <1>1, <1>2, <1>3, <1>5, <2>1 DEF CollectorTypeOK
<1>8. AssetsAreRead'
  BY <1>1, <1>2, <1>3 DEF AssetsAreRead
<1>9. TradesAreRead'
  <2>1. \A t \in 1..newest : ~(t >= Unknown)
    BY <1>4, CollectorAssumption DEF Unknown
  <2> QED
    BY <1>2, <1>4, <1>5, <2>1 DEF TradesAreRead
<1>10. ClaimIsTrue' /\ CompleteIsComplete'
  BY <1>1, <1>2, <1>3 DEF ClaimIsTrue, CompleteIsComplete
<1> QED
  BY <1>6, <1>7, <1>8, <1>9, <1>10 DEF CollectorInductive

LEMMA AssetsAreSafe ==
  ASSUME CollectorInductive, NEW c \in Contexts, AssetPageRead(c)
  PROVE  CollectorInductive'
<1> DEFINE s == shelf[c]
           left == {a \in AssetIds : place[a] = c /\ a < s.after}
<1>1. /\ at = "inventory" /\ ~s.done
      /\ UNCHANGED <<newest, place, moved, sources, log, outcome>>
  BY DEF AssetPageRead, accountVars
<1>2. PICK n \in 1..MaxAssets :
        LET rows == Newest(left, n)
            more == rows # left
            next == [items |-> s.items \cup rows, pages |-> s.pages + 1, done |-> ~more,
                     after |-> IF rows = {} THEN s.after ELSE Oldest(rows)] IN
        IF more /\ next.pages = MaxAssetPages
        THEN at' = "failed" /\ UNCHANGED shelf
        ELSE /\ shelf' = [shelf EXCEPT ![c] = next]
             /\ at' = IF \A d \in Contexts : shelf'[d].done THEN NextSource("inventory") ELSE at
  BY DEF AssetPageRead
<1> DEFINE rows == Newest(left, n)
           more == rows # left
           next == [items |-> s.items \cup rows, pages |-> s.pages + 1, done |-> ~more,
                    after |-> IF rows = {} THEN s.after ELSE Oldest(rows)]
<1>3. CollectorTypeOK /\ CollectorShapes /\ AssetsAreRead /\ TradesAreRead /\ ClaimIsTrue
  BY DEF CollectorInductive
<1>4. /\ s \in Shelves /\ s.items \subseteq AssetIds /\ s.pages \in Nat /\ s.after \in Nat
      /\ s.pages <= MaxAssetPages
  BY <1>3 DEF CollectorShapes, CollectorTypeOK, Shelves
<1>5. /\ left \in SUBSET Nat /\ left \subseteq AssetIds /\ IsFiniteSet(left) /\ n \in Nat
      /\ rows \subseteq left
  <2>0. MaxAssets \in Int /\ 1 \in Int
    BY CollectorAssumption
  <2>1. IsFiniteSet(AssetIds)
    BY <2>0, FS_Interval DEF AssetIds
  <2>2. AssetIds \subseteq Nat
    BY <2>0 DEF AssetIds
  <2>3. left \subseteq AssetIds /\ n \in Nat
    BY <2>0
  <2>4. rows \subseteq left
    BY DEF Newest
  <2> QED
    BY <2>1, <2>2, <2>3, <2>4, FS_Subset
<1>6. CASE more /\ next.pages = MaxAssetPages
  <2>1. at' = "failed" /\ UNCHANGED shelf
    BY <1>2, <1>6
  <2> QED
    BY <1>1, <1>3, <2>1 DEF CollectorInductive, CollectorTypeOK, CollectorShapes, OutcomeShape,
       AssetsAreRead, TradesAreRead, ClaimIsTrue, CompleteIsComplete
<1>7. CASE ~(more /\ next.pages = MaxAssetPages)
  <2>1. /\ shelf' = [shelf EXCEPT ![c] = next]
        /\ at' = IF \A d \in Contexts : shelf'[d].done THEN NextSource("inventory") ELSE at
    BY <1>2, <1>7
  <2>2. at' \in {"inventory", "trades", "offers"}
        /\ (at' # "inventory" => \A d \in Contexts : shelf'[d].done)
    BY <1>1, <2>1, NextSources
  <2>3. rows # {} => Oldest(rows) \in rows /\ \A a \in rows : Oldest(rows) <= a
    BY <1>5, OldestIsLeast
  <2> DEFINE after == IF rows = {} THEN s.after ELSE Oldest(rows)
  <2>4. after \in Nat
    BY <1>4, <1>5, <2>3
  <2>11. rows # {} => \A a \in left : a >= Oldest(rows) => a \in rows
    BY <1>5, <2>3, NewestGoesUp
  <2>5. /\ next \in Shelves /\ next.items = s.items \cup rows /\ next.done = ~more
        /\ next.after = after /\ next.pages = s.pages + 1
    <3>1. s.items \cup rows \in SUBSET AssetIds /\ s.pages + 1 \in Nat
      BY <1>4, <1>5
    <3> HIDE DEF rows, more, s, after
    <3>2. next = [items |-> s.items \cup rows, pages |-> s.pages + 1, done |-> ~more, after |-> after]
      BY DEF after
    <3> QED
      BY <2>4, <3>1, <3>2 DEF Shelves, more
  <2> HIDE DEF next
  <2>6. shelf'[c] = next /\ \A d \in Contexts \ {c} : shelf'[d] = shelf[d]
    BY <1>3, <2>1 DEF CollectorShapes
  <2>7. CollectorShapes'
    BY <1>1, <1>3, <2>1, <2>5 DEF CollectorShapes, OutcomeShape
  <2>8. CollectorTypeOK'
    <3>1. next.pages <= MaxAssetPages
      <4>1. s.pages < MaxAssetPages
        BY <1>1, <1>3 DEF AssetsAreRead
      <4> QED
        BY <1>4, <2>5, <4>1, CollectorAssumption
    <3> QED
      BY <1>1, <1>3, <2>2, <2>5, <2>6, <3>1 DEF CollectorTypeOK, Shelves
  <2>9. AssetsAreRead'
    <3>2. \A d \in Contexts : shelf'[d].done \/ shelf'[d].pages < MaxAssetPages
      <4>1. s.pages < MaxAssetPages
        BY <1>1, <1>3 DEF AssetsAreRead
      <4>2. next.done \/ next.pages < MaxAssetPages
        <5>1. next.done \/ next.pages # MaxAssetPages
          BY <1>7, <2>5
        <5>2. next.pages = s.pages + 1 /\ s.pages \in Nat /\ MaxAssetPages \in Nat
          BY <1>4, <2>5, CollectorAssumption
        <5>3. s.pages + 1 # MaxAssetPages => s.pages + 1 < MaxAssetPages
          BY <4>1, <5>2
        <5> QED
          BY <5>1, <5>2, <5>3
      <4> QED
        BY <1>3, <2>6, <4>2 DEF AssetsAreRead
    <3>1. ASSUME NEW d \in Contexts, NEW a \in AssetIds \ moved.assets, place[a] = d,
                 a >= shelf'[d].after \/ shelf'[d].done
          PROVE  a \in shelf'[d].items
      <4>1. CASE d # c
        BY <1>3, <2>6, <3>1, <4>1 DEF AssetsAreRead
      <4>2. CASE d = c
        <5>1. a >= after \/ ~more
          BY <2>5, <2>6, <3>1, <4>2
        <5>2. a >= s.after => a \in s.items
          BY <1>3, <3>1, <4>2 DEF AssetsAreRead
        <5>3. ~(a >= s.after) => a \in left
          BY <1>4, <3>1, <4>2, CollectorAssumption DEF AssetIds
        <5>5. rows = {} /\ a \in left => ~(a >= after)
          BY <1>4, <1>5
        <5>4. a \in left => a \in rows
          BY <2>11, <5>1, <5>5
        <5> QED
          BY <2>5, <2>6, <4>2, <5>2, <5>3, <5>4
      <4> QED
        BY <4>1, <4>2
    <3> QED
      BY <1>1, <2>2, <3>1, <3>2 DEF AssetsAreRead
  <2>10. TradesAreRead' /\ ClaimIsTrue' /\ CompleteIsComplete'
    BY <1>1, <1>3, <2>2 DEF TradesAreRead, ClaimIsTrue, CompleteIsComplete
  <2> QED
    BY <2>7, <2>8, <2>9, <2>10 DEF CollectorInductive
<1> QED
  BY <1>6, <1>7

(***************************************************************************)
(* The trades.                                                             *)
(***************************************************************************)
LEMMA LogNumbers ==
  /\ {} \in SUBSET Trades /\ Unknown \in Totals /\ 0 \in Nat
  /\ \A t \in Trades : ~(t >= Unknown) /\ t # Unknown
  /\ \A n \in 0..MaxTrades : 1..n \subseteq Trades
  /\ Cardinality({}) <= TradeLimit /\ 0 < MaxTradePages
BY FS_EmptySet, CollectorAssumption DEF Unknown, Totals, Trades

\* A log that was put away.
PutAway(since, cut) == [FreshLog EXCEPT !.since = since, !.cut = cut]
Away(l) ==
  /\ l \in Logs /\ l.found = {} /\ l.after = Unknown /\ l.total = Unknown /\ l.pages = 0

LEMMA PutAwayIs ==
  ASSUME NEW since, NEW cut, NEW l, l = PutAway(since, cut)
  PROVE  /\ l = [found |-> {}, after |-> Unknown, cursors |-> {}, total |-> Unknown, pages |-> 0,
                 retried |-> FALSE, since |-> since, cut |-> cut]
         /\ l.found = {} /\ l.after = Unknown /\ l.total = Unknown /\ l.pages = 0
         /\ l.since = since /\ l.cut = cut
<1>1. l = [FreshLog EXCEPT !.since = since, !.cut = cut]
  BY DEF PutAway
<1>2. l = [found |-> {}, after |-> Unknown, cursors |-> {}, total |-> Unknown, pages |-> 0,
           retried |-> FALSE, since |-> since, cut |-> cut]
  BY <1>1 DEF FreshLog
<1>3. l.found = {} /\ l.after = Unknown /\ l.total = Unknown /\ l.pages = 0 /\ l.since = since
  BY <1>1 DEF FreshLog
<1>4. l.cut = cut
  BY <1>1 DEF FreshLog
<1> QED
  BY <1>2, <1>3, <1>4

LEMMA PutAwayIsAway ==
  ASSUME NEW since \in 0..MaxTrades, NEW cut \in BOOLEAN
  PROVE  /\ Away(PutAway(since, cut))
         /\ PutAway(since, cut).since = since /\ PutAway(since, cut).cut = cut
<1>1. \A b \in BOOLEAN, n \in 0..MaxTrades :
        [found |-> {}, after |-> Unknown, cursors |-> {}, total |-> Unknown, pages |-> 0,
         retried |-> FALSE, since |-> n, cut |-> b] \in Logs
  BY LogNumbers DEF Logs
<1> DEFINE l == PutAway(since, cut)
<1>2. l = PutAway(since, cut)
  OBVIOUS
<1> HIDE DEF l
<1>3. /\ l = [found |-> {}, after |-> Unknown, cursors |-> {}, total |-> Unknown, pages |-> 0,
              retried |-> FALSE, since |-> since, cut |-> cut]
      /\ l.found = {} /\ l.after = Unknown /\ l.total = Unknown /\ l.pages = 0
      /\ l.since = since /\ l.cut = cut
  BY <1>2, PutAwayIs
<1>4. l \in Logs
  BY <1>1, <1>3
<1>5. Away(l) /\ l.since = since
  BY <1>3, <1>4 DEF Away
<1>6. l.cut = cut
  BY <1>3
<1> QED
  BY <1>5, <1>6 DEF l

LEMMA Verdicts ==
  ASSUME NEW l, NEW keeps, NEW more
  PROVE  LET v == PageVerdict(l, keeps, more) IN
         /\ v = "complete" => AtLeastTotal(l) \/ (~more /\ EndIsTheEnd(l))
         /\ v = "go on" => keeps # {} /\ ~LastPage(l)
BY DEF PageVerdict

\* The claim is made, or nothing of the trades is.
LEMMA TradesOverIsSafe ==
  ASSUME CollectorInductive, at = "trades", NEW found \in SUBSET Trades,
         UNCHANGED <<newest, place, moved, sources, shelf>>,
         Away(log'), log'.since = log.since, at' = NextSource("trades"),
         \/ outcome' = outcome
         \/ \E complete \in BOOLEAN :
              /\ outcome' = [outcome EXCEPT !.trades = found, !.tradesComplete = complete,
                                           !.usable = @ \cup {"trades"}]
              /\ complete /\ ~log'.cut => 1..log.since \subseteq found
  PROVE  CollectorInductive'
<1>1. CollectorTypeOK /\ CollectorShapes /\ AssetsAreRead /\ TradesAreRead /\ ClaimIsTrue
  BY DEF CollectorInductive
<1>2. log.since \in 0..MaxTrades /\ log.since <= newest
  BY <1>1 DEF CollectorShapes, TradesAreRead, Logs
<1>3. at' = "offers"
  BY NextSources
<1>4. /\ log'.found = {} /\ log'.after = Unknown /\ log'.total = Unknown /\ log'.pages = 0
      /\ log' \in Logs
  BY DEF Away
<1>5. /\ OutcomeShape' /\ outcome'.trades \subseteq Trades /\ outcome'.usable \subseteq Sources
      /\ outcome'.chunks = outcome.chunks /\ outcome'.inventoryComplete = outcome.inventoryComplete
      /\ outcome'.tradesComplete /\ ~log'.cut => 1..log.since \subseteq outcome'.trades
  <2>1. /\ OutcomeShape /\ outcome.trades \subseteq Trades /\ outcome.usable \subseteq Sources
        /\ ~outcome.tradesComplete
    BY <1>1 DEF CollectorShapes, CollectorTypeOK, ClaimIsTrue, Trades
  <2>2. CASE outcome' = outcome
    BY <2>1, <2>2 DEF OutcomeShape
  <2>3. ASSUME NEW complete \in BOOLEAN,
               outcome' = [outcome EXCEPT !.trades = found, !.tradesComplete = complete,
                                          !.usable = @ \cup {"trades"}],
               complete /\ ~log'.cut => 1..log.since \subseteq found
        PROVE  <1>5!:
    <3>1. outcome' = [trades |-> found, tradesComplete |-> complete, offers |-> outcome.offers,
                      usable |-> outcome.usable \cup {"trades"},
                      inventoryComplete |-> outcome.inventoryComplete, chunks |-> outcome.chunks]
      BY <2>1, <2>3 DEF OutcomeShape
    <3> QED
      BY <2>1, <2>3, <3>1 DEF OutcomeShape, Sources
  <2> QED
    BY <2>2, <2>3
<1>6. CollectorShapes'
  BY <1>1, <1>4, <1>5 DEF CollectorShapes
<1>7. CollectorTypeOK'
  <2>1. Cardinality(log'.found) <= TradeLimit /\ log'.pages < MaxTradePages
    BY <1>4, LogNumbers
  <2> QED
    BY <1>1, <1>3, <1>4, <1>5, <2>1 DEF CollectorTypeOK, Trades
<1>8. AssetsAreRead'
  BY <1>1, <1>3 DEF AssetsAreRead
<1>9. TradesAreRead'
  <2>0. 1..log.since \subseteq Trades
    BY <1>2, LogNumbers
  <2>1. \A t \in 1..log.since : ~(t >= Unknown)
    BY <2>0, LogNumbers
  <2> QED
    BY <1>2, <1>4, <2>1 DEF TradesAreRead
<1>10. ClaimIsTrue' /\ CompleteIsComplete'
  BY <1>1, <1>3, <1>4, <1>5 DEF ClaimIsTrue, CompleteIsComplete
<1> QED
  BY <1>6, <1>7, <1>8, <1>9, <1>10 DEF CollectorInductive

LEMMA TradesAreFinite == IsFiniteSet(Trades) /\ Trades \subseteq Nat
<1>1. MaxTrades \in Int /\ 1 \in Int
  BY CollectorAssumption
<1>2. IsFiniteSet(Trades)
  BY <1>1, FS_Interval DEF Trades
<1> QED
  BY <1>1, <1>2 DEF Trades

\* A page read: what it keeps, and what it leaves.
KeptOf(found, seen, n) == Newest(Newest(seen, n), TradeLimit - Cardinality(found))

LEMMA PageKeeps ==
  ASSUME NEW found \in SUBSET Trades, Cardinality(found) <= TradeLimit,
         NEW seen \in SUBSET Trades, NEW n \in Nat
  PROVE  /\ TradeLimit - Cardinality(found) \in Nat
         /\ Newest(seen, n) \subseteq seen
         /\ KeptOf(found, seen, n) \subseteq Newest(seen, n)
         /\ IsFiniteSet(found \cup KeptOf(found, seen, n))
         /\ Cardinality(found \cup KeptOf(found, seen, n)) \in Nat
         /\ Cardinality(found \cup KeptOf(found, seen, n)) <= TradeLimit
         /\ \A k \in KeptOf(found, seen, n), t \in seen :
              t >= k => t \in KeptOf(found, seen, n)
<1> DEFINE remaining == TradeLimit - Cardinality(found)
           rows == Newest(seen, n)
           keeps == Newest(rows, remaining)
<1>2. IsFiniteSet(found) /\ IsFiniteSet(seen) /\ seen \in SUBSET Nat
  BY TradesAreFinite, FS_Subset
<1>3. Cardinality(found) \in Nat
  BY <1>2, FS_CardinalityType
<1>4. remaining \in Nat
  BY <1>3, CollectorAssumption
<1>5. rows \subseteq seen /\ keeps \subseteq rows
  BY DEF Newest
<1> HIDE DEF rows
<1>6. IsFiniteSet(rows) /\ rows \in SUBSET Nat
  BY <1>2, <1>5, FS_Subset
<1>7. IsFiniteSet(keeps) /\ Cardinality(keeps) <= remaining
  BY <1>4, <1>6, NewestAreFew
<1> HIDE DEF keeps
<1>8. Cardinality(keeps) \in Nat
  BY <1>7, FS_CardinalityType
<1>9. /\ IsFiniteSet(found \cup keeps)
      /\ Cardinality(found \cup keeps) = Cardinality(found) + Cardinality(keeps) - Cardinality(found \cap keeps)
      /\ Cardinality(found \cap keeps) \in Nat
  BY <1>2, <1>7, FS_Union, FS_Intersection, FS_CardinalityType
<1>10. Cardinality(found \cup keeps) \in Nat
  BY <1>9, FS_CardinalityType
<1>11. Cardinality(found \cup keeps) <= TradeLimit
  BY <1>3, <1>7, <1>8, <1>9, <1>10, CollectorAssumption
<1>12. ASSUME NEW k \in keeps, NEW t \in seen, t >= k PROVE t \in keeps
  <2>1. k \in rows
    BY <1>5
  <2>2. t \in rows
    BY <1>2, <1>12, <2>1, NewestGoesUp DEF rows
  <2> HIDE DEF remaining
  <2> QED
    BY <1>4, <1>6, <1>12, <2>2, NewestGoesUp DEF keeps
<1> QED
  BY <1>4, <1>5, <1>9, <1>10, <1>11, <1>12 DEF keeps, rows, KeptOf

LEMMA TradePageIsSafe ==
  ASSUME CollectorInductive, TradePageRead
  PROVE  CollectorInductive'
<1> DEFINE remaining == TradeLimit - Cardinality(log.found)
           first == log.after = Unknown
           reachable == {t \in 1..newest : first \/ t < log.after}
<1>1. CollectorTypeOK /\ CollectorShapes /\ AssetsAreRead /\ TradesAreRead /\ ClaimIsTrue
  BY DEF CollectorInductive
<1>2. at = "trades" /\ UNCHANGED <<newest, place, moved, sources, shelf>>
  BY DEF TradePageRead, accountVars
<1>3. PICK again \in (IF first THEN {{}} ELSE {{}, {log.after}}), n \in 0..(remaining + 1),
           lags \in BOOLEAN, total \in (IF first THEN {newest, newest + 1, Unknown} ELSE {log.total}) :
       LET rows == Newest(reachable \cup again, n)
           keeps == Newest(rows, remaining)
           more == lags \/ reachable \ rows # {}
           l == [log EXCEPT !.found = @ \cup keeps, !.total = total, !.pages = @ + 1,
                            !.retried = FALSE,
                            !.cut = total = Unknown /\ rows # keeps /\ ~more]
       IN IF PageVerdict(l, keeps, more) = "go on"
          THEN /\ log' = [l EXCEPT !.after = Oldest(keeps), !.cursors = @ \cup {Oldest(keeps)}]
               /\ UNCHANGED <<at, outcome>>
          ELSE /\ log' = [FreshLog EXCEPT !.since = log.since, !.cut = l.cut]
               /\ TradesDone(l.found, PageVerdict(l, keeps, more) = "complete")
  BY DEF TradePageRead
<1> DEFINE rows == Newest(reachable \cup again, n)
           keeps == Newest(rows, remaining)
           more == lags \/ reachable \ rows # {}
           cut == total = Unknown /\ rows # keeps /\ ~more
           found == log.found \cup keeps
           l == [log EXCEPT !.found = @ \cup keeps, !.total = total, !.pages = @ + 1,
                            !.retried = FALSE, !.cut = total = Unknown /\ rows # keeps /\ ~more]
           ruling == PageVerdict(l, keeps, more)
<1>4. IF ruling = "go on"
      THEN /\ log' = [l EXCEPT !.after = Oldest(keeps), !.cursors = @ \cup {Oldest(keeps)}]
           /\ UNCHANGED <<at, outcome>>
      ELSE /\ log' = [FreshLog EXCEPT !.since = log.since, !.cut = l.cut]
           /\ TradesDone(l.found, ruling = "complete")
  BY <1>3
<1>5. /\ log \in Logs /\ log.found \subseteq Trades /\ log.pages \in Nat /\ log.since \in 0..MaxTrades
      /\ log.after \in Totals /\ log.total \in Totals /\ log.cursors \subseteq Trades
      /\ log.retried \in BOOLEAN
      /\ Cardinality(log.found) <= TradeLimit /\ newest \in 0..MaxTrades /\ log.pages < MaxTradePages
  BY <1>1 DEF CollectorShapes, CollectorTypeOK, Logs
<1>6. reachable \cup again \in SUBSET Trades
  <2>1. reachable \subseteq Trades
    BY <1>5, LogNumbers
  <2>2. ~first => log.after \in log.found
    BY <1>1 DEF TradesAreRead
  <2> QED
    BY <1>5, <2>1, <2>2
<1>7. Cardinality(log.found) \in Nat
  BY <1>5, TradesAreFinite, FS_Subset, FS_CardinalityType
<1>8. n \in Nat
  BY <1>5, <1>7, CollectorAssumption
<1>9. /\ remaining \in Nat /\ rows \subseteq reachable \cup again /\ keeps \subseteq rows
      /\ IsFiniteSet(found) /\ Cardinality(found) \in Nat /\ Cardinality(found) <= TradeLimit
      /\ \A k \in keeps, t \in reachable \cup again : t >= k => t \in keeps
  <2> DEFINE seen == reachable \cup again
  <2>1. rows = Newest(seen, n) /\ keeps = Newest(rows, remaining)
    OBVIOUS
  <2>2. seen \in SUBSET Trades /\ log.found \in SUBSET Trades
    BY <1>5, <1>6
  <2>3. remaining = TradeLimit - Cardinality(log.found) /\ Cardinality(log.found) <= TradeLimit
    BY <1>5
  <2> HIDE DEF seen, rows, keeps, remaining
  <2>4. /\ remaining \in Nat /\ rows \subseteq seen /\ keeps \subseteq rows
        /\ IsFiniteSet(log.found \cup keeps) /\ Cardinality(log.found \cup keeps) \in Nat
        /\ Cardinality(log.found \cup keeps) <= TradeLimit
        /\ \A k \in keeps, t \in seen : t >= k => t \in keeps
    <3>1. rows = Newest(seen, n) /\ keeps = KeptOf(log.found, seen, n)
          /\ remaining = TradeLimit - Cardinality(log.found)
      BY <2>1, <2>3 DEF KeptOf, rows
    <3> QED
      BY <1>8, <2>2, <2>3, <3>1, PageKeeps
  <2> QED
    BY <2>4 DEF seen
<1>10. found \in SUBSET Trades /\ keeps \subseteq Trades
  BY <1>5, <1>6, <1>9
<1>11. total \in Totals
  BY <1>5, LogNumbers, CollectorAssumption DEF Totals
<1>12. l.found = found /\ l.total = total /\ l.pages = log.pages + 1 /\ l.since = log.since
       /\ l.after = log.after /\ l.cursors = log.cursors
  BY <1>5 DEF Logs
<1>13. l.cut = cut
  BY <1>5, Zenon DEF Logs
\* A trade of the run's begin was found before or can be reached.
<1>14. \A t \in 1..log.since : t \in Trades /\ (t \in log.found \/ t \in reachable)
  <2>1. \A t \in 1..log.since : t \in Trades /\ t \in 1..newest
    BY <1>1, <1>5, LogNumbers DEF TradesAreRead
  <2>2. \A t \in 1..log.since : t >= log.after => t \in log.found
    BY <1>1 DEF TradesAreRead
  <2>3. \A t \in Trades : t >= log.after \/ t < log.after
    BY <1>5 DEF Trades, Totals
  <2> QED
    BY <2>1, <2>2, <2>3
\* What was counted is not less than what there was.
<1>15. total # Unknown => found \subseteq 1..total /\ log.since <= total
  <2>1. CASE first
    <3>1. log.found = {} /\ again = {} /\ log.since <= newest
      BY <1>1, <1>3, <2>1 DEF TradesAreRead
    <3>2. total # Unknown => total \in {newest, newest + 1}
      BY <1>3, <2>1
    <3>3. found \subseteq 1..newest
      BY <1>9, <3>1
    <3>4. \A m \in {newest, newest + 1} : 1..newest \subseteq 1..m /\ log.since <= m
      BY <1>5, <3>1
    <3> QED
      BY <3>2, <3>3, <3>4
  <2>2. CASE ~first
    <3>1. total = log.total /\ log.after \in log.found
      BY <1>1, <1>3, <2>2 DEF TradesAreRead
    <3>2. total # Unknown => log.found \subseteq 1..total /\ log.since <= total
      BY <1>1, <2>2, <3>1 DEF TradesAreRead
    <3>3. \A t \in keeps : t \in Trades /\ (t < log.after \/ t = log.after)
      BY <1>3, <1>9, <1>10, <2>2
    <3>4. ASSUME total # Unknown PROVE keeps \subseteq 1..total
      <4>1. log.after \in 1..total
        BY <3>1, <3>2, <3>4
      <4>2. \A t \in Trades : t < log.after \/ t = log.after => t \in 1..total
        BY <1>11, <4>1 DEF Trades, Totals
      <4> QED
        BY <3>3, <4>2
    <3> QED
      BY <3>2, <3>4
  <2> QED
    BY <2>1, <2>2
<1>16. CASE ruling = "go on"
  <2>1. log' = [l EXCEPT !.after = Oldest(keeps), !.cursors = @ \cup {Oldest(keeps)}]
        /\ UNCHANGED <<at, outcome>>
    BY <1>4, <1>16
  <2>2. keeps # {} /\ ~LastPage(l)
    BY <1>16, Verdicts
  <2>3. Oldest(keeps) \in keeps /\ Oldest(keeps) \in Trades /\ Trades \subseteq Nat
    BY <1>10, <2>2, OldestIsLeast DEF Trades
  <2>4. /\ log' \in Logs /\ log'.found = found /\ log'.after = Oldest(keeps) /\ log'.total = total
        /\ log'.pages = log.pages + 1 /\ log'.since = log.since
    <3>1. /\ Oldest(keeps) \in Totals /\ log.cursors \cup {Oldest(keeps)} \subseteq Trades
          /\ log.pages + 1 \in Nat
      BY <1>5, <2>3, CollectorAssumption DEF Trades, Totals
    <3>2. \A after \in Totals, cursors \in SUBSET Trades, b \in BOOLEAN, p \in Nat :
            [found |-> found, after |-> after, cursors |-> cursors, total |-> total, pages |-> p,
             retried |-> FALSE, since |-> log.since, cut |-> b] \in Logs
      BY <1>5, <1>10, <1>11 DEF Logs
    <3>3. log' = [found |-> found, after |-> Oldest(keeps), cursors |-> log.cursors \cup {Oldest(keeps)},
                  total |-> total, pages |-> log.pages + 1, retried |-> FALSE,
                  since |-> log.since, cut |-> cut]
      BY <1>5, <2>1 DEF Logs
    <3>4. cut \in BOOLEAN
      OBVIOUS
    <3> HIDE DEF found, cut, keeps
    <3>5. log' \in Logs
      BY <3>1, <3>2, <3>3, <3>4
    <3> QED
      BY <3>3, <3>5
  <2>5. log'.pages < MaxTradePages
    BY <1>5, <1>12, <2>2, <2>4, CollectorAssumption DEF LastPage
  <2>6. CollectorShapes'
    BY <1>1, <1>2, <2>1, <2>4 DEF CollectorShapes, OutcomeShape
  <2>7. CollectorTypeOK'
    BY <1>1, <1>2, <1>9, <1>10, <2>1, <2>4, <2>5 DEF CollectorTypeOK, Trades
  <2>8. AssetsAreRead'
    BY <1>1, <1>2, <2>1 DEF AssetsAreRead
  <2>9. TradesAreRead'
    <3>1. \A t \in 1..log.since : t >= Oldest(keeps) => t \in found
      BY <1>9, <1>14, <2>3
    <3>2. Oldest(keeps) # Unknown
      BY <2>3, LogNumbers
    <3>3. log.since <= newest
      BY <1>1 DEF TradesAreRead
    <3> QED
      BY <1>2, <1>15, <2>3, <2>4, <3>1, <3>2, <3>3 DEF TradesAreRead
  <2>10. ClaimIsTrue' /\ CompleteIsComplete'
    BY <1>1, <1>2, <2>1 DEF ClaimIsTrue, CompleteIsComplete
  <2> QED
    BY <2>6, <2>7, <2>8, <2>9, <2>10 DEF CollectorInductive
<1>17. CASE ruling # "go on"
  <2>1. log' = [FreshLog EXCEPT !.since = log.since, !.cut = l.cut]
        /\ TradesDone(found, ruling = "complete")
    BY <1>4, <1>12, <1>17
  <2>2. l.cut \in BOOLEAN
    BY <1>13
  <2>3. Away(log') /\ log'.since = log.since /\ log'.cut = l.cut
    <3> DEFINE c == l.cut
    <3>1. c \in BOOLEAN /\ log' = [FreshLog EXCEPT !.since = log.since, !.cut = c]
      BY <2>1, <2>2
    <3> HIDE DEF c
    <3>2. log' = PutAway(log.since, c)
      BY <3>1 DEF PutAway
    <3>3. Away(log') /\ log'.since = log.since /\ log'.cut = c
      BY <1>5, <3>1, <3>2, PutAwayIsAway
    <3> QED
      BY <3>3 DEF c
  <2>4. ASSUME ruling = "complete", ~l.cut PROVE 1..log.since \subseteq found
    <3>1. AtLeastTotal(l) \/ (~more /\ EndIsTheEnd(l))
      BY <2>4, Verdicts
    <3>2. CASE AtLeastTotal(l)
      <4>1. total # Unknown /\ Cardinality(found) >= total
        BY <1>12, <3>2 DEF AtLeastTotal
      <4>2. found \subseteq 1..total /\ log.since <= total /\ total \in Nat
        BY <1>11, <1>15, <4>1 DEF Totals
      <4>3. IsFiniteSet(1..total) /\ Cardinality(1..total) = total
        BY <4>2, FS_Interval
      <4> HIDE DEF found
      <4> DEFINE all == 1..total
      <4>8. IsFiniteSet(all) /\ found \in SUBSET all /\ Cardinality(all) = total
        BY <4>2, <4>3
      <4> HIDE DEF all
      <4>4. Cardinality(found) <= Cardinality(all)
        BY <4>8, FS_Subset
      <4>5. Cardinality(found) = Cardinality(all)
        BY <1>9, <4>1, <4>2, <4>4, <4>8
      <4>9. found = all
        BY <4>5, <4>8, FS_Subset
      <4>6. found = 1..total
        BY <4>9 DEF all
      <4>7. 1..log.since \subseteq 1..total
        BY <1>5, <4>2
      <4> QED
        BY <4>6, <4>7
    <3>3. CASE ~more /\ ~AtLeastTotal(l)
      <4>1. total = Unknown
        BY <1>12, <3>1, <3>3 DEF EndIsTheEnd
      <4>2. rows = keeps
        BY <1>13, <2>4, <3>3, <4>1
      <4>3. reachable \subseteq keeps
        BY <3>3, <4>2
      <4> QED
        BY <1>14, <4>3
    <3> QED
      BY <3>1, <3>2, <3>3
  <2>5. at' = NextSource("trades")
        /\ outcome' = [outcome EXCEPT !.trades = found, !.tradesComplete = (ruling = "complete"),
                                      !.usable = @ \cup {"trades"}]
    BY <2>1 DEF TradesDone
  <2> HIDE DEF ruling
  <2>6. \E complete \in BOOLEAN :
          /\ outcome' = [outcome EXCEPT !.trades = found, !.tradesComplete = complete,
                                       !.usable = @ \cup {"trades"}]
          /\ complete /\ ~log'.cut => 1..log.since \subseteq found
    <3> DEFINE claim == ruling = "complete"
    <3>1. claim \in BOOLEAN
      OBVIOUS
    <3>2. claim /\ ~log'.cut => 1..log.since \subseteq found
      BY <2>3, <2>4
    <3>3. outcome' = [outcome EXCEPT !.trades = found, !.tradesComplete = claim,
                                     !.usable = @ \cup {"trades"}]
      BY <2>5
    <3> HIDE DEF claim
    <3> WITNESS claim \in BOOLEAN
    <3> QED
      BY <3>2, <3>3
  <2> HIDE DEF found
  <2> QED
    BY <1>2, <1>10, <2>3, <2>5, <2>6, TradesOverIsSafe
<1> QED
  BY <1>16, <1>17

LEMMA OtherTradeStepsAreSafe ==
  ASSUME CollectorInductive, TradePageRefused \/ TradesFail
  PROVE  CollectorInductive'
<1>1. CollectorTypeOK /\ CollectorShapes /\ AssetsAreRead /\ TradesAreRead /\ ClaimIsTrue
  BY DEF CollectorInductive
<1>2. CASE TradePageRefused
  <2>1. /\ log' = [log EXCEPT !.retried = TRUE] /\ at = "trades"
        /\ UNCHANGED <<newest, place, moved, sources, at, shelf, outcome>>
    BY <1>2 DEF TradePageRefused, accountVars
  <2>2. /\ log' \in Logs /\ log'.found = log.found /\ log'.after = log.after
        /\ log'.total = log.total /\ log'.pages = log.pages /\ log'.since = log.since
    BY <1>1, <2>1 DEF CollectorShapes, Logs
  <2>3. CollectorShapes' /\ CollectorTypeOK'
    BY <1>1, <2>1, <2>2 DEF CollectorShapes, OutcomeShape, CollectorTypeOK
  <2>4. AssetsAreRead' /\ TradesAreRead'
    BY <1>1, <2>1, <2>2 DEF AssetsAreRead, TradesAreRead
  <2>5. ClaimIsTrue' /\ CompleteIsComplete'
    BY <1>1, <2>1 DEF ClaimIsTrue, CompleteIsComplete
  <2> QED
    BY <2>3, <2>4, <2>5 DEF CollectorInductive
<1>3. CASE TradesFail
  <2>1. /\ at = "trades" /\ at' = NextSource("trades") /\ log' = [FreshLog EXCEPT !.since = log.since]
        /\ UNCHANGED <<newest, place, moved, sources, shelf>> /\ outcome' = outcome
    BY <1>3 DEF TradesFail, accountVars
  <2>2. log.since \in 0..MaxTrades
    BY <1>1 DEF CollectorShapes, Logs
  <2>3. log' = [found |-> {}, after |-> Unknown, cursors |-> {}, total |-> Unknown, pages |-> 0,
                retried |-> FALSE, since |-> log.since, cut |-> FALSE]
    BY <2>1 DEF FreshLog
  <2>4. Away(log') /\ log'.since = log.since
    BY <2>2, <2>3, LogNumbers DEF Away, Logs
  <2> QED
    BY <2>1, <2>4, LogNumbers, TradesOverIsSafe
<1> QED
  BY <1>2, <1>3

LEMMA OffersAreSafe ==
  ASSUME CollectorInductive, OffersOver
  PROVE  CollectorInductive'
<1>1. CollectorTypeOK /\ CollectorShapes /\ AssetsAreRead /\ TradesAreRead /\ ClaimIsTrue
  BY DEF CollectorInductive
<1>2. at = "offers" /\ at' = "pack" /\ UNCHANGED <<newest, place, moved, sources, shelf, log>>
  BY DEF OffersOver, accountVars
<1>3. OutcomeShape /\ outcome.usable \subseteq Sources
  BY <1>1 DEF CollectorShapes, CollectorTypeOK
<1>4. /\ OutcomeShape' /\ outcome'.usable \subseteq Sources /\ outcome'.trades = outcome.trades
      /\ outcome'.chunks = outcome.chunks /\ outcome'.tradesComplete = outcome.tradesComplete
      /\ outcome'.inventoryComplete = outcome.inventoryComplete
  <2>1. CASE outcome' = outcome
    BY <1>3, <2>1 DEF OutcomeShape
  <2>2. ASSUME NEW n \in 0..1,
               outcome' = [outcome EXCEPT !.offers = n, !.usable = @ \cup {"offers"}]
        PROVE  <1>4!:
    <3>1. outcome' = [trades |-> outcome.trades, tradesComplete |-> outcome.tradesComplete,
                      offers |-> n, usable |-> outcome.usable \cup {"offers"},
                      inventoryComplete |-> outcome.inventoryComplete, chunks |-> outcome.chunks]
      BY <1>3, <2>2 DEF OutcomeShape
    <3> QED
      BY <1>3, <3>1 DEF OutcomeShape, Sources
  <2>3. outcome' = outcome
        \/ \E n \in 0..1 : outcome' = [outcome EXCEPT !.offers = n, !.usable = @ \cup {"offers"}]
    BY DEF OffersOver
  <2> QED
    BY <2>1, <2>2, <2>3
<1>5. CollectorShapes' /\ CollectorTypeOK'
  BY <1>1, <1>2, <1>4 DEF CollectorShapes, CollectorTypeOK
<1>6. AssetsAreRead' /\ TradesAreRead'
  BY <1>1, <1>2 DEF AssetsAreRead, TradesAreRead
<1>7. ClaimIsTrue' /\ CompleteIsComplete'
  BY <1>1, <1>2, <1>4 DEF ClaimIsTrue, CompleteIsComplete
<1> QED
  BY <1>5, <1>6, <1>7 DEF CollectorInductive

\* What is packed is in the chunks.
LEMMA PackedIsInChunks ==
  ASSUME CollectorTypeOK, CollectorShapes, NEW inventory \in BOOLEAN
  PROVE  /\ \A t \in WithinRecordLimit(outcome.trades) :
              [kind |-> "trade", id |-> t] \in InChunks(Chunks(Packed(inventory)))
         /\ inventory => \A c \in Contexts : \A a \in shelf[c].items :
              [kind |-> c, id |-> a] \in InChunks(Chunks(Packed(inventory)))
<1> DEFINE r16 == Records("16", shelf["16"].items)
           r2 == Records("2", shelf["2"].items)
           owned == IF inventory THEN r16 \o r2 ELSE <<>>
           trades == Records("trade", WithinRecordLimit(outcome.trades))
           offers == Records("offer", 1..outcome.offers)
           front == owned \o trades
           R == ToSet(r16) \cup ToSet(r2) \cup ToSet(trades) \cup ToSet(offers)
<1>1. IsFiniteSet(AssetIds) /\ AssetIds \subseteq Nat
  <2>1. MaxAssets \in Int /\ 1 \in Int
    BY CollectorAssumption
  <2>2. IsFiniteSet(AssetIds)
    BY <2>1, FS_Interval DEF AssetIds
  <2> QED
    BY <2>1, <2>2 DEF AssetIds
<1>2. \A c \in Contexts : shelf[c].items \in SUBSET Nat /\ IsFiniteSet(shelf[c].items)
  BY <1>1, FS_Subset DEF CollectorTypeOK
<1>3. WithinRecordLimit(outcome.trades) \in SUBSET Nat /\ IsFiniteSet(WithinRecordLimit(outcome.trades))
  <2>1. WithinRecordLimit(outcome.trades) \subseteq Trades
    BY DEF WithinRecordLimit, CollectorTypeOK, Trades
  <2> QED
    BY <2>1, TradesAreFinite, FS_Subset
<1>4. 1..outcome.offers \in SUBSET Nat /\ IsFiniteSet(1..outcome.offers)
  <2>1. outcome.offers \in Int /\ 1 \in Int
    BY DEF CollectorShapes, OutcomeShape
  <2>2. IsFiniteSet(1..outcome.offers)
    BY <2>1, FS_Interval
  <2> QED
    BY <2>1, <2>2
<1>5. /\ r16 \in Seq(ToSet(r16)) /\ \A a \in shelf["16"].items : [kind |-> "16", id |-> a] \in ToSet(r16)
  BY <1>2, RecordsAreAll DEF Contexts
<1>6. /\ r2 \in Seq(ToSet(r2)) /\ \A a \in shelf["2"].items : [kind |-> "2", id |-> a] \in ToSet(r2)
  BY <1>2, RecordsAreAll DEF Contexts
<1>7. /\ trades \in Seq(ToSet(trades))
      /\ \A t \in WithinRecordLimit(outcome.trades) : [kind |-> "trade", id |-> t] \in ToSet(trades)
  BY <1>3, RecordsAreAll
<1>8. offers \in Seq(ToSet(offers))
  BY <1>4, RecordsAreAll
<1>9. Packed(inventory) = front \o offers
  BY DEF Packed
<1> HIDE DEF r16, r2, trades, offers
<1>10. r16 \in Seq(R) /\ r2 \in Seq(R) /\ trades \in Seq(R) /\ offers \in Seq(R)
  BY <1>5, <1>6, <1>7, <1>8, SeqsGrow
<1> HIDE DEF R
<1>11. owned \in Seq(R) /\ (inventory => ToSet(owned) = ToSet(r16) \cup ToSet(r2))
  BY <1>10, JoinedHoldBoth, EmptySeq
<1> HIDE DEF owned
<1>12. front \in Seq(R) /\ ToSet(front) = ToSet(owned) \cup ToSet(trades)
  BY <1>10, <1>11, JoinedHoldBoth
<1> HIDE DEF front
<1>13. /\ Packed(inventory) \in Seq(R)
       /\ ToSet(Packed(inventory)) = ToSet(owned) \cup ToSet(trades) \cup ToSet(offers)
  BY <1>9, <1>10, <1>12, JoinedHoldBoth
<1>14. InChunks(Chunks(Packed(inventory))) = ToSet(Packed(inventory))
  BY <1>13, ChunksHoldTheRecords
<1>15. \A t \in WithinRecordLimit(outcome.trades) :
         [kind |-> "trade", id |-> t] \in InChunks(Chunks(Packed(inventory)))
  BY <1>7, <1>13, <1>14
<1>16. ASSUME inventory, NEW c \in Contexts, NEW a \in shelf[c].items
       PROVE  [kind |-> c, id |-> a] \in InChunks(Chunks(Packed(inventory)))
  <2>1. c = "2" \/ c = "16"
    BY DEF Contexts
  <2> QED
    BY <1>5, <1>6, <1>11, <1>13, <1>14, <1>16, <2>1
<1> QED
  BY <1>15, <1>16

LEMMA SnapshotIsSafe ==
  ASSUME CollectorInductive, Snapshot \/ SnapshotRefused
  PROVE  CollectorInductive'
<1> DEFINE chunks == Chunks(Packed(InventoryUsable))
<1>1. CollectorTypeOK /\ CollectorShapes /\ AssetsAreRead /\ TradesAreRead /\ ClaimIsTrue
  BY DEF CollectorInductive
<1>2. at = "pack" /\ UNCHANGED <<newest, place, moved, sources, shelf, log>>
  BY DEF Snapshot, SnapshotRefused, accountVars
<1>3. CASE at' = "failed" /\ UNCHANGED outcome
  BY <1>1, <1>2, <1>3 DEF CollectorInductive, CollectorTypeOK, CollectorShapes, OutcomeShape,
     AssetsAreRead, TradesAreRead, ClaimIsTrue, CompleteIsComplete
<1>4. CASE /\ at' = "done" /\ Len(chunks) <= MaxChunks
           /\ outcome' = [outcome EXCEPT !.chunks = chunks, !.inventoryComplete = InventoryUsable,
                !.tradesComplete = @ /\ WithinRecordLimit(outcome.trades) = outcome.trades]
  <2>1. OutcomeShape
    BY <1>1 DEF CollectorShapes
  <2>2. InventoryUsable \in BOOLEAN /\ (InventoryUsable => "inventory" \in sources)
    BY DEF InventoryUsable
  <2> DEFINE complete == outcome.tradesComplete /\ WithinRecordLimit(outcome.trades) = outcome.trades
  <2>3. outcome' = [trades |-> outcome.trades, tradesComplete |-> complete,
                    offers |-> outcome.offers, usable |-> outcome.usable,
                    inventoryComplete |-> InventoryUsable, chunks |-> chunks]
    BY <1>4, <2>1 DEF OutcomeShape
  <2>4. complete \in BOOLEAN
    OBVIOUS
  <2> HIDE DEF chunks, complete
  <2>5. /\ outcome'.trades = outcome.trades /\ outcome'.usable = outcome.usable
        /\ outcome'.offers = outcome.offers /\ outcome'.chunks = chunks
    BY <2>3
  <2>6. outcome'.tradesComplete = complete /\ outcome'.inventoryComplete = InventoryUsable
    BY <2>3, Zenon
  <2>7. OutcomeShape'
    BY <2>1, <2>2, <2>3, <2>4, <2>5, <2>6 DEF OutcomeShape
  <2>8. CollectorShapes' /\ CollectorTypeOK'
    BY <1>1, <1>2, <1>4, <2>5, <2>7 DEF CollectorShapes, CollectorTypeOK
  <2>9. AssetsAreRead' /\ TradesAreRead' /\ ClaimIsTrue'
    BY <1>1, <1>2, <1>4 DEF AssetsAreRead, TradesAreRead, ClaimIsTrue
  <2>10. /\ \A t \in WithinRecordLimit(outcome.trades) :
               [kind |-> "trade", id |-> t] \in InChunks(chunks)
         /\ InventoryUsable => \A c \in Contexts : \A a \in shelf[c].items :
               [kind |-> c, id |-> a] \in InChunks(chunks)
    BY <1>1, <2>2, PackedIsInChunks DEF chunks
  <2>11. ASSUME NEW k, NEW a, [kind |-> k, id |-> a] \in InChunks(chunks)
         PROVE  a \in {r.id : r \in {q \in InChunks(chunks) : q.kind = k}}
    <3> DEFINE q == [kind |-> k, id |-> a]
    <3>1. q.kind = k /\ q.id = a /\ q \in InChunks(chunks)
      BY <2>11
    <3> HIDE DEF q
    <3> QED
      BY <3>1
  <2>12. ASSUME complete, ~log.cut
         PROVE  1..log.since \subseteq {r.id : r \in {q \in InChunks(chunks) : q.kind = "trade"}}
    <3>1. 1..log.since \subseteq WithinRecordLimit(outcome.trades)
      BY <1>1, <1>2, <2>12 DEF ClaimIsTrue, complete
    <3> QED
      BY <2>10, <2>11, <3>1
  <2>13. ASSUME InventoryUsable, NEW a \in AssetIds \ moved.assets, place[a] # "none"
         PROVE  a \in {r.id : r \in {q \in InChunks(chunks) : q.kind = place[a]}}
    <3>1. place[a] \in Contexts
      BY <1>1, <2>13 DEF CollectorTypeOK
    <3>2. shelf[place[a]].done
      BY <1>1, <1>2, <2>2, <2>13, <3>1 DEF AssetsAreRead
    <3>3. a \in shelf[place[a]].items
      BY <1>1, <3>1, <3>2 DEF AssetsAreRead
    <3> QED
      BY <2>10, <2>11, <2>13, <3>1, <3>3
  <2>14. CompleteIsComplete'
    BY <1>2, <2>5, <2>6, <2>12, <2>13 DEF CompleteIsComplete, Carried
  <2> QED
    BY <2>8, <2>9, <2>14 DEF CollectorInductive
<1> QED
  BY <1>3, <1>4 DEF Snapshot, SnapshotRefused

LEMMA CollectorStep == CollectorInductive /\ [CollectorNext]_collectorVars => CollectorInductive'
<1> SUFFICES ASSUME CollectorInductive, [CollectorNext]_collectorVars PROVE CollectorInductive'
  OBVIOUS
<1>1. CASE TradeHappens \/ HoldEnds
  BY <1>1, AccountIsSafe
<1>2. CASE CollectStarts
  BY <1>2, StartIsSafe
<1>3. ASSUME NEW c \in Contexts, AssetPageRead(c) PROVE CollectorInductive'
  BY <1>3, AssetsAreSafe
<1>4. CASE AssetPageFails
  <2>1. at' = "failed" /\ UNCHANGED <<newest, place, moved, sources, shelf, log, outcome>>
    BY <1>4 DEF AssetPageFails, accountVars
  <2> QED
    BY <2>1 DEF CollectorInductive, CollectorTypeOK, CollectorShapes, OutcomeShape,
       AssetsAreRead, TradesAreRead, ClaimIsTrue, CompleteIsComplete
<1>5. CASE TradePageRead
  BY <1>5, TradePageIsSafe
<1>6. CASE TradePageRefused \/ TradesFail
  BY <1>6, OtherTradeStepsAreSafe
<1>7. CASE OffersOver
  BY <1>7, OffersAreSafe
<1>8. CASE Snapshot \/ SnapshotRefused
  BY <1>8, SnapshotIsSafe
<1>9. CASE UNCHANGED collectorVars
  BY <1>9 DEF collectorVars, CollectorInductive, CollectorTypeOK, CollectorShapes, OutcomeShape,
     AssetsAreRead, TradesAreRead, ClaimIsTrue, CompleteIsComplete, Carried
<1> QED
  BY <1>1, <1>2, <1>3, <1>4, <1>5, <1>6, <1>7, <1>8, <1>9 DEF CollectorNext

\* What a run calls complete is all there, in its chunks.
THEOREM CompleteStaysComplete == CollectorSpec => []CompleteIsComplete
<1>1. CollectorInductive => CompleteIsComplete
  BY DEF CollectorInductive
<1> QED
  BY <1>1, CollectorBegins, CollectorStep, PTL DEF CollectorSpec

\* The collector keeps its types: no more trades than the run's, no more pages, no more chunks.
THEOREM CollectorTypes == CollectorSpec => []CollectorTypeOK
<1>1. CollectorInductive => CollectorTypeOK
  BY DEF CollectorInductive
<1> QED
  BY <1>1, CollectorBegins, CollectorStep, PTL DEF CollectorSpec

-----------------------------------------------------------------------------
(***************************************************************************)
(* TradeOfferPage.  A page may be longer than it can be: Steam makes its   *)
(* elements after whatever is there already.  That sorting throws nothing  *)
(* away all the same rests on two facts.  A page never has more items than *)
(* fit, because Steam makes the pages in order and no item is on a page    *)
(* that Steam has not made (BlankAfter): what is shown fits on the pages   *)
(* made so far beside the empty holders (ShownFit), so that sorting fills  *)
(* the later pages with fillers only (ItemsComeFirst).  And the places of  *)
(* empty holders and of items are one-to-one, since both are counted from  *)
(* the first (RanksAreNumbers).  The holder of every item that is in the   *)
(* trade or has a listener is then still in one place.                     *)
(***************************************************************************)

\* The elements of a finite chain counted from the least: each number once, up to the last.
\* D[x] are the elements up to x.
IsChain(S, D) ==
  /\ D \in [S -> SUBSET S]
  /\ \A x \in S : x \in D[x]
  /\ \A x, y \in S : \/ x \in D[y] /\ D[x] \subseteq D[y]
                     \/ y \in D[x] /\ D[y] \subseteq D[x]
  /\ \A x, y \in S : x \in D[y] /\ y \in D[x] => x = y

LEMMA RanksAreNumbers ==
  ASSUME NEW S, IsFiniteSet(S), NEW D, IsChain(S, D)
  PROVE  /\ \A x \in S : Cardinality(D[x]) \in 1..Cardinality(S)
         /\ \A x, y \in S : Cardinality(D[x]) = Cardinality(D[y]) => x = y
         /\ \A n \in 1..Cardinality(S) : \E x \in S : Cardinality(D[x]) = n
<1>1. Cardinality(S) \in Nat
  BY FS_CardinalityType
<1>2. \A x \in S : D[x] \in SUBSET S /\ x \in D[x]
  BY DEF IsChain
<1>3. ASSUME NEW x \in S
      PROVE  IsFiniteSet(D[x]) /\ Cardinality(D[x]) \in 1..Cardinality(S)
  <2>1. D[x] \in SUBSET S /\ D[x] # {}
    BY <1>2
  <2>2. IsFiniteSet(D[x]) /\ Cardinality(D[x]) <= Cardinality(S)
    BY <2>1, FS_Subset
  <2>3. Cardinality(D[x]) \in Nat /\ Cardinality(D[x]) # 0
    BY <2>1, <2>2, FS_CardinalityType, FS_EmptySet
  <2> QED
    BY <1>1, <2>2, <2>3
<1>4. ASSUME NEW x \in S, NEW y \in S, Cardinality(D[x]) = Cardinality(D[y]), D[x] \subseteq D[y]
      PROVE  x = y
  <2>1. D[x] = D[y]
    <3>1. D[x] \in SUBSET D[y]
      BY <1>4
    <3>2. IsFiniteSet(D[y])
      BY <1>3
    <3> QED
      BY <3>1, <3>2, <1>4, FS_Subset
  <2>2. x \in D[y] /\ y \in D[x]
    BY <2>1, <1>2
  <2> QED
    BY <2>2 DEF IsChain
<1>5. \A x, y \in S : Cardinality(D[x]) = Cardinality(D[y]) => x = y
  BY <1>4 DEF IsChain
<1>6. ASSUME NEW n \in 1..Cardinality(S) PROVE \E x \in S : Cardinality(D[x]) = n
  <2> DEFINE f == [x \in S |-> Cardinality(D[x])]
  <2> DEFINE T == 1..Cardinality(S)
  <2>1. f \in Injection(S, T)
    BY <1>3, <1>5 DEF Injection, IsInjective
  <2>2. IsFiniteSet(T) /\ Cardinality(T) = Cardinality(S)
    BY <1>1, FS_Interval
  <2> HIDE DEF T
  <2>3. f \in Surjection(S, T)
    <3> HIDE DEF f
    <3> QED
      BY <2>1, <2>2, FS_Injection
  <2>4. n \in T
    BY DEF T
  <2> QED
    BY <2>3, <2>4 DEF Surjection
<1> QED
  BY <1>3, <1>5, <1>6

EmptyOn(sheet) == {k \in DOMAIN sheet : sheet[k] \in inTrade}
UpToPlace(S) == [k \in S |-> {j \in S : j <= k}]

LEMMA NumbersAreChain ==
  ASSUME NEW S \in SUBSET Nat
  PROVE  IsChain(S, UpToPlace(S))
<1>1. \A x, y \in Nat : x <= y \/ y <= x
  OBVIOUS
<1>2. \A x, y \in Nat : x <= y /\ y <= x => x = y
  OBVIOUS
<1>3. \A x, y, z \in Nat : x <= y /\ y <= z => x <= z
  OBVIOUS
<1>4. \A x \in S : x \in UpToPlace(S)[x]
  BY DEF UpToPlace
<1>5. \A x, y \in S : x \in UpToPlace(S)[y] /\ y \in UpToPlace(S)[x] => x = y
  BY <1>2 DEF UpToPlace
<1>6. ASSUME NEW x \in S, NEW y \in S, x <= y
      PROVE  x \in UpToPlace(S)[y] /\ UpToPlace(S)[x] \subseteq UpToPlace(S)[y]
  BY <1>6, <1>3 DEF UpToPlace
<1>7. UpToPlace(S) \in [S -> SUBSET S]
  BY DEF UpToPlace
<1> QED
  BY <1>1, <1>4, <1>5, <1>6, <1>7 DEF IsChain

\* A page's empty holders, each once, if they fit on the page.
LEMMA EmptiesAre ==
  ASSUME NEW sheet, NEW n \in Nat, DOMAIN sheet = 1..n,
         Cardinality(EmptyOn(sheet)) <= PageSize
  PROVE  /\ IsFiniteSet(EmptyOn(sheet)) /\ Cardinality(EmptyOn(sheet)) \in Nat
         /\ DOMAIN Empties(sheet) = 1..Cardinality(EmptyOn(sheet))
         /\ Len(Empties(sheet)) = Cardinality(EmptyOn(sheet))
         /\ \A i \in DOMAIN Empties(sheet) :
              \E k \in EmptyOn(sheet) :
                 Empties(sheet)[i] = sheet[k] /\ Cardinality(UpToPlace(EmptyOn(sheet))[k]) = i
         /\ \A k \in EmptyOn(sheet) : \E i \in DOMAIN Empties(sheet) : Empties(sheet)[i] = sheet[k]
<1> DEFINE S == EmptyOn(sheet)
<1> DEFINE c == Cardinality(S)
<1> DEFINE NthEmpty(i) == CHOOSE k \in S : Cardinality({j \in S : j <= k}) = i
<1>1. S \in SUBSET (1..n) /\ S \in SUBSET Nat
  BY DEF EmptyOn
<1>2. IsFiniteSet(S) /\ c \in Nat
  <2>1. IsFiniteSet(1..n)
    BY FS_Interval
  <2> QED
    BY <1>1, <2>1, FS_Subset, FS_CardinalityType
<1>3. Empties(sheet) = [i \in 1..(IF c < PageSize THEN c ELSE PageSize) |-> sheet[NthEmpty(i)]]
  BY DEF Empties, EmptyOn
<1>4. (IF c < PageSize THEN c ELSE PageSize) = c
  BY <1>2, TradePageAssumption
<1>5. Empties(sheet) = [i \in 1..c |-> sheet[NthEmpty(i)]]
  BY <1>3, <1>4
<1>6. \A k \in S : {j \in S : j <= k} = UpToPlace(S)[k]
  BY DEF UpToPlace
<1> HIDE DEF S
<1>7. /\ \A k \in S : Cardinality(UpToPlace(S)[k]) \in 1..c
      /\ \A k, l \in S : Cardinality(UpToPlace(S)[k]) = Cardinality(UpToPlace(S)[l]) => k = l
      /\ \A i \in 1..c : \E k \in S : Cardinality(UpToPlace(S)[k]) = i
  <2>1. IsChain(S, UpToPlace(S))
    BY <1>1, NumbersAreChain
  <2> QED
    BY <2>1, <1>2, RanksAreNumbers
<1>8. ASSUME NEW i \in 1..c
      PROVE  NthEmpty(i) \in S /\ Cardinality(UpToPlace(S)[NthEmpty(i)]) = i
  <2>1. \E k \in S : Cardinality({j \in S : j <= k}) = i
    BY <1>6, <1>7
  <2>2. NthEmpty(i) \in S /\ Cardinality({j \in S : j <= NthEmpty(i)}) = i
    BY <2>1
  <2> QED
    BY <2>2, <1>6
<1> HIDE DEF NthEmpty, c
<1>9. DOMAIN Empties(sheet) = 1..c /\ \A i \in 1..c : Empties(sheet)[i] = sheet[NthEmpty(i)]
  BY <1>5
<1>10. Len(Empties(sheet)) = c
  BY <1>2, <1>9, <1>5
<1>11. ASSUME NEW k \in S PROVE \E i \in 1..c : Empties(sheet)[i] = sheet[k]
  <2> DEFINE i == Cardinality(UpToPlace(S)[k])
  <2>1. i \in 1..c
    BY <1>7
  <2>2. NthEmpty(i) \in S /\ Cardinality(UpToPlace(S)[NthEmpty(i)]) = i
    BY <2>1, <1>8
  <2>3. NthEmpty(i) = k
    BY <2>2, <1>7
  <2> QED
    BY <2>1, <2>3, <1>9
<1>12. \A i \in 1..c : \E k \in S :
          Empties(sheet)[i] = sheet[k] /\ Cardinality(UpToPlace(S)[k]) = i
  BY <1>8, <1>9
<1> QED
  BY <1>2, <1>9, <1>10, <1>11, <1>12 DEF S, c

\* An inventory: its pages are sequences of holders of its own items, and fillers.
Sheets(party, old) ==
  old \in [DOMAIN PagesOf[party] -> Seq(ItemsOf(party) \cup {Filler})]
\* The items that have a holder in it.
ItemsIn(old) ==
  {a \in TradeItems : \E p \in DOMAIN old : \E k \in DOMAIN old[p] : old[p][k] = a}
\* No item has two.
Once(old) ==
  \A p, q \in DOMAIN old : \A k \in DOMAIN old[p], l \in DOMAIN old[q] :
    old[p][k] = old[q][l] /\ old[p][k] # Filler => p = q /\ k = l
RealOn(sheet) == {k \in DOMAIN sheet : sheet[k] # Filler}
PagesHold(old) == \A p \in DOMAIN old : Cardinality(RealOn(old[p])) <= PageSize
BlankAfter(old, m) ==
  \A p \in DOMAIN old : p > m => \A k \in DOMAIN old[p] : old[p][k] = Filler

ShownIn(old) == ItemsIn(old) \ inTrade
FreeTo(old, m) == {t \in Free(old) : t[1] <= m}

\* Places taken in turn: page after page, each number once.
LEMMA TurnsAreNumbers ==
  ASSUME NEW spots \in SUBSET (Nat \X Nat), IsFiniteSet(spots)
  PROVE  /\ \A t \in spots : Turn(t, spots) \in 1..Cardinality(spots)
         /\ \A s, t \in spots : Turn(s, spots) = Turn(t, spots) => s = t
         /\ \A n \in 1..Cardinality(spots) : \E t \in spots : Turn(t, spots) = n
<1> DEFINE D == [t \in spots |-> UpTo(t, spots)]
<1>0. \A s \in spots : s[1] \in Nat /\ s[2] \in Nat /\ s = <<s[1], s[2]>>
  OBVIOUS
<1>1. D \in [spots -> SUBSET spots]
  BY DEF UpTo
<1>2. \A t \in spots : t \in D[t]
  BY <1>0 DEF UpTo
<1>3. \A a, b, c, d \in Nat : (a < c \/ (a = c /\ b <= d)) \/ (c < a \/ (c = a /\ d <= b))
  OBVIOUS
<1>4. \A a, b, c, d, e, f \in Nat :
        (a < c \/ (a = c /\ b <= d)) /\ (c < e \/ (c = e /\ d <= f)) => (a < e \/ (a = e /\ b <= f))
  OBVIOUS
<1>5. ASSUME NEW s \in spots, NEW t \in spots, s[1] < t[1] \/ (s[1] = t[1] /\ s[2] <= t[2])
      PROVE  s \in D[t] /\ D[s] \subseteq D[t]
  <2>1. s \in D[t]
    BY <1>5 DEF UpTo
  <2>2. ASSUME NEW r \in D[s] PROVE r \in D[t]
    <3>1. r \in spots /\ (r[1] < s[1] \/ (r[1] = s[1] /\ r[2] <= s[2]))
      BY <2>2 DEF UpTo
    <3>2. r[1] < t[1] \/ (r[1] = t[1] /\ r[2] <= t[2])
      BY <3>1, <1>5, <1>0, <1>4
    <3> QED
      BY <3>1, <3>2 DEF UpTo
  <2> QED
    BY <2>1, <2>2
<1>6. \A s, t \in spots : (s \in D[t] /\ D[s] \subseteq D[t]) \/ (t \in D[s] /\ D[t] \subseteq D[s])
  BY <1>0, <1>3, <1>5
<1>7. ASSUME NEW s \in spots, NEW t \in spots, s \in D[t], t \in D[s] PROVE s = t
  <2>1. (s[1] < t[1] \/ (s[1] = t[1] /\ s[2] <= t[2])) /\ (t[1] < s[1] \/ (t[1] = s[1] /\ t[2] <= s[2]))
    BY <1>7 DEF UpTo
  <2>2. s[1] = t[1] /\ s[2] = t[2]
    BY <2>1, <1>0
  <2> QED
    BY <2>2, <1>0
<1>8. IsChain(spots, D)
  <2> HIDE DEF D
  <2> QED
    BY <1>1, <1>2, <1>6, <1>7 DEF IsChain
<1>9. \A t \in spots : Cardinality(D[t]) = Turn(t, spots)
  BY DEF Turn
<1> HIDE DEF D
<1> QED
  BY <1>8, <1>9, RanksAreNumbers

LEMMA FreeIsFinite ==
  ASSUME NEW party \in Parties, NEW old, Sheets(party, old)
  PROVE  /\ Free(old) \in SUBSET (Nat \X Nat) /\ IsFiniteSet(Free(old))
         /\ DOMAIN old = 1..Len(PagesOf[party]) /\ Len(PagesOf[party]) \in Nat
<1>1. DOMAIN old = 1..Len(PagesOf[party]) /\ Len(PagesOf[party]) \in Nat
  BY TradePageAssumption DEF Sheets
<1>2. Free(old) \in SUBSET ((1..Len(PagesOf[party])) \X (1..PageSize))
  BY <1>1 DEF Free
<1>3. IsFiniteSet((1..Len(PagesOf[party])) \X (1..PageSize))
  <2>1. IsFiniteSet(1..Len(PagesOf[party])) /\ IsFiniteSet(1..PageSize)
    BY <1>1, TradePageAssumption, FS_Interval
  <2> QED
    BY <2>1, FS_Product
<1> QED
  BY <1>1, <1>2, <1>3, FS_Subset, TradePageAssumption

\* What is shown fits on the pages that hold items.
LEMMA ShownFit ==
  ASSUME NEW party \in Parties, NEW old, NEW m \in Nat, Sheets(party, old),
         PagesHold(old), BlankAfter(old, m), inTrade \subseteq TradeItems
  PROVE  /\ IsFiniteSet(ShownIn(old)) /\ Cardinality(ShownIn(old)) \in Nat
         /\ IsFiniteSet(FreeTo(old, m)) /\ Cardinality(FreeTo(old, m)) \in Nat
         /\ Cardinality(ShownIn(old)) <= Cardinality(FreeTo(old, m))
<1> DEFINE ShownOn_(p) == {k \in DOMAIN old[p] : old[p][k] \in TradeItems \ inTrade}
<1> DEFINE P(a) == CHOOSE p \in DOMAIN old : \E k \in DOMAIN old[p] : old[p][k] = a
<1> DEFINE K(a) == CHOOSE k \in DOMAIN old[P(a)] : old[P(a)][k] = a
<1> DEFINE R(a) == Cardinality(UpToPlace(ShownOn_(P(a)))[K(a)])
<1> DEFINE g == [a \in ShownIn(old) |-> <<P(a), Len(Empties(old[P(a)])) + R(a)>>]
<1>1. /\ Free(old) \in SUBSET (Nat \X Nat) /\ IsFiniteSet(Free(old))
      /\ DOMAIN old = 1..Len(PagesOf[party]) /\ Len(PagesOf[party]) \in Nat
  BY FreeIsFinite
<1>2. FreeTo(old, m) \in SUBSET Free(old)
  BY DEF FreeTo
<1>3. IsFiniteSet(FreeTo(old, m)) /\ Cardinality(FreeTo(old, m)) \in Nat
  BY <1>1, <1>2, FS_Subset, FS_CardinalityType
<1>4. ASSUME NEW a \in ShownIn(old)
      PROVE  /\ a \in TradeItems \ inTrade /\ P(a) \in DOMAIN old
             /\ K(a) \in ShownOn_(P(a)) /\ old[P(a)][K(a)] = a
  <2>1. a \in TradeItems \ inTrade
    BY DEF ShownIn, ItemsIn
  <2>2. P(a) \in DOMAIN old /\ \E k \in DOMAIN old[P(a)] : old[P(a)][k] = a
    BY DEF ShownIn, ItemsIn
  <2>3. K(a) \in DOMAIN old[P(a)] /\ old[P(a)][K(a)] = a
    BY <2>2
  <2> QED
    BY <2>1, <2>2, <2>3
<1>5. ASSUME NEW p \in DOMAIN old
      PROVE  /\ IsFiniteSet(ShownOn_(p)) /\ ShownOn_(p) \in SUBSET Nat
             /\ Cardinality(ShownOn_(p)) \in Nat
             /\ Len(Empties(old[p])) \in Nat
             /\ Len(Empties(old[p])) + Cardinality(ShownOn_(p)) <= PageSize
  <2>1. old[p] \in Seq(ItemsOf(party) \cup {Filler})
    BY DEF Sheets
  <2>2. PICK n \in Nat : DOMAIN old[p] = 1..n
    BY <2>1
  <2>3. IsFiniteSet(1..n)
    BY FS_Interval
  <2>4. ShownOn_(p) \in SUBSET (1..n) /\ EmptyOn(old[p]) \in SUBSET (1..n) /\ RealOn(old[p]) \in SUBSET (1..n)
    BY <2>2 DEF EmptyOn, RealOn
  <2>5. IsFiniteSet(ShownOn_(p)) /\ IsFiniteSet(EmptyOn(old[p])) /\ IsFiniteSet(RealOn(old[p]))
    BY <2>3, <2>4, FS_Subset
  <2>6. ShownOn_(p) \cap EmptyOn(old[p]) = {}
    BY DEF EmptyOn
  <2>7. ShownOn_(p) \cup EmptyOn(old[p]) \in SUBSET RealOn(old[p])
    BY TradePageAssumption DEF EmptyOn, RealOn
  <2>8. Cardinality(RealOn(old[p])) <= PageSize
    BY DEF PagesHold
  <2>9. /\ Cardinality(ShownOn_(p)) \in Nat /\ Cardinality(EmptyOn(old[p])) \in Nat
        /\ Cardinality(RealOn(old[p])) \in Nat
    BY <2>5, FS_CardinalityType
  <2> HIDE DEF ShownOn_
  <2>10. Cardinality(ShownOn_(p) \cup EmptyOn(old[p])) = Cardinality(ShownOn_(p)) + Cardinality(EmptyOn(old[p]))
    <3>1. Cardinality(ShownOn_(p) \cap EmptyOn(old[p])) = 0
      BY <2>6, FS_EmptySet
    <3>2. Cardinality(ShownOn_(p) \cup EmptyOn(old[p]))
             = Cardinality(ShownOn_(p)) + Cardinality(EmptyOn(old[p]))
                 - Cardinality(ShownOn_(p) \cap EmptyOn(old[p]))
      BY <2>5, FS_Union
    <3>3. \A x, y \in Nat : x + y - 0 = x + y
      OBVIOUS
    <3> QED
      BY <2>9, <3>1, <3>2, <3>3
  <2>11. Cardinality(ShownOn_(p)) + Cardinality(EmptyOn(old[p])) <= PageSize
    <3>1. Cardinality(ShownOn_(p) \cup EmptyOn(old[p])) <= Cardinality(RealOn(old[p]))
      BY <2>5, <2>7, FS_Subset
    <3> QED
      BY <3>1, <2>8, <2>9, <2>10, TradePageAssumption
  <2>12. Cardinality(EmptyOn(old[p])) <= PageSize
    BY <2>9, <2>11, TradePageAssumption
  <2>13. Len(Empties(old[p])) = Cardinality(EmptyOn(old[p]))
    BY <2>2, <2>12, EmptiesAre
  <2> QED
    BY <2>4, <2>5, <2>9, <2>11, <2>13, TradePageAssumption
<1> HIDE DEF P, K
<1>6. ASSUME NEW p \in DOMAIN old
      PROVE  /\ \A k \in ShownOn_(p) :
                  Cardinality(UpToPlace(ShownOn_(p))[k]) \in 1..Cardinality(ShownOn_(p))
             /\ \A k, l \in ShownOn_(p) :
                  Cardinality(UpToPlace(ShownOn_(p))[k]) = Cardinality(UpToPlace(ShownOn_(p))[l]) => k = l
  <2> HIDE DEF ShownOn_
  <2>1. IsChain(ShownOn_(p), UpToPlace(ShownOn_(p)))
    BY <1>5, NumbersAreChain
  <2> QED
    BY <2>1, <1>5, RanksAreNumbers
<1>7. ASSUME NEW a \in ShownIn(old) PROVE g[a] \in FreeTo(old, m)
  <2>1. P(a) \in 1..Len(PagesOf[party]) /\ P(a) \in Nat
    BY <1>1, <1>4
  <2>2. P(a) <= m
    <3>1. old[P(a)][K(a)] # Filler /\ K(a) \in DOMAIN old[P(a)]
      BY <1>4, TradePageAssumption
    <3> QED
      BY <3>1, <2>1, <1>1 DEF BlankAfter
  <2>3. R(a) \in 1..Cardinality(ShownOn_(P(a)))
    <3> HIDE DEF ShownOn_
    <3> QED
      BY <1>4, <1>6
  <2> DEFINE e == Len(Empties(old[P(a)]))
  <2>4. e + R(a) \in 1..PageSize /\ e + R(a) > e
    <3> DEFINE c == Cardinality(ShownOn_(P(a)))
    <3>1. e \in Nat /\ c \in Nat /\ e + c <= PageSize
      BY <1>4, <1>5
    <3>2. R(a) \in 1..c
      BY <2>3
    <3> HIDE DEF e, c, R
    <3> QED
      BY <3>1, <3>2, TradePageAssumption
  <2>5. g[a] = <<P(a), e + R(a)>>
    OBVIOUS
  <2> HIDE DEF g, R
  <2>6. g[a] \in Free(old)
    BY <2>1, <2>4, <2>5, <1>1 DEF Free
  <2> QED
    BY <2>2, <2>5, <2>6 DEF FreeTo
<1>8. ASSUME NEW a \in ShownIn(old), NEW b \in ShownIn(old), g[a] = g[b] PROVE a = b
  <2>1. P(a) = P(b) /\ Len(Empties(old[P(a)])) + R(a) = Len(Empties(old[P(b)])) + R(b)
    BY <1>8
  <2>2. R(a) \in Nat /\ R(b) \in Nat /\ Len(Empties(old[P(a)])) \in Nat
    <3> HIDE DEF ShownOn_
    <3> QED
      BY <1>4, <1>5, <1>6
  <2>3. R(a) = R(b)
    <3> HIDE DEF R
    <3> QED
      BY <2>1, <2>2
  <2>4. K(a) \in ShownOn_(P(a)) /\ K(b) \in ShownOn_(P(a)) /\ P(a) \in DOMAIN old
    BY <1>4, <2>1
  <2>5. K(a) = K(b)
    <3> HIDE DEF ShownOn_
    <3> QED
      BY <1>6, <2>1, <2>3, <2>4
  <2> QED
    BY <1>4, <2>1, <2>5
<1>9. g \in Injection(ShownIn(old), FreeTo(old, m))
  <2>1. DOMAIN g = ShownIn(old) /\ g = [a \in ShownIn(old) |-> g[a]]
    OBVIOUS
  <2> HIDE DEF g
  <2>2. g \in [ShownIn(old) -> FreeTo(old, m)]
    BY <1>7, <2>1
  <2> QED
    BY <1>8, <2>1, <2>2 DEF Injection, IsInjective
<1>10. IsFiniteSet(ShownIn(old)) /\ Cardinality(ShownIn(old)) <= Cardinality(FreeTo(old, m))
  <2> HIDE DEF g
  <2> QED
    BY <1>3, <1>9, FS_Injection
<1>11. Cardinality(ShownIn(old)) \in Nat
  BY <1>10, FS_CardinalityType
<1> QED
  BY <1>3, <1>10, <1>11

\* Whatever is filled before the last of the items is shown, is on the pages that hold items.
LEMMA ItemsComeFirst ==
  ASSUME NEW party \in Parties, NEW old, NEW m \in Nat, Sheets(party, old),
         PagesHold(old), BlankAfter(old, m), inTrade \subseteq TradeItems,
         NEW t \in Free(old), Turn(t, Free(old)) <= Cardinality(ShownIn(old))
  PROVE  t[1] <= m
<1> SUFFICES ASSUME ~(t[1] <= m) PROVE FALSE
  OBVIOUS
<1> DEFINE f == FreeTo(old, m)
<1> DEFINE u == UpTo(t, Free(old))
<1>1. Free(old) \in SUBSET (Nat \X Nat) /\ IsFiniteSet(Free(old))
  BY FreeIsFinite
<1>2. /\ IsFiniteSet(f) /\ Cardinality(f) \in Nat
      /\ Cardinality(ShownIn(old)) \in Nat /\ Cardinality(ShownIn(old)) <= Cardinality(f)
  BY ShownFit
<1>3. t[1] \in Nat /\ t[2] \in Nat
  BY <1>1
<1>4. t \in u /\ t \notin f
  BY <1>3 DEF UpTo, FreeTo
<1>5. f \subseteq u
  <2>1. ASSUME NEW s \in f PROVE s \in u
    <3>1. s \in Free(old) /\ s[1] <= m /\ s[1] \in Nat
      BY <1>1 DEF FreeTo
    <3>2. s[1] < t[1]
      BY <3>1, <1>3
    <3> QED
      BY <3>1, <3>2 DEF UpTo
  <2> QED
    BY <2>1
<1>6. u \in SUBSET Free(old)
  BY DEF UpTo
<1>7. IsFiniteSet(u) /\ Cardinality(u) \in Nat
  BY <1>1, <1>6, FS_Subset, FS_CardinalityType
<1> HIDE DEF f, u
<1>8. IsFiniteSet(f \cup {t}) /\ Cardinality(f \cup {t}) = Cardinality(f) + 1
  BY <1>2, <1>4, FS_AddElement
<1>9. Cardinality(f \cup {t}) <= Cardinality(u)
  <2>1. f \cup {t} \in SUBSET u
    BY <1>4, <1>5
  <2> QED
    BY <2>1, <1>7, FS_Subset
<1>10. Cardinality(u) <= Cardinality(ShownIn(old))
  BY DEF Turn, u
<1> QED
  BY <1>2, <1>7, <1>8, <1>9, <1>10

\* What is in a place after a sorting: the holder of an item in the trade, an item that was
\* shown, or a filler.
EmptyStays(old, new, p, i) ==
  /\ i \in DOMAIN Empties(old[p])
  /\ \E k \in EmptyOn(old[p]) :
       new[p][i] = old[p][k] /\ Cardinality(UpToPlace(EmptyOn(old[p]))[k]) = i
ItemComes(old, new, lineup, p, i) ==
  /\ <<p, i>> \in Free(old)
  /\ Turn(<<p, i>>, Free(old)) \in 1..Cardinality(ShownIn(old))
  /\ new[p][i] = lineup[Turn(<<p, i>>, Free(old))] /\ new[p][i] \in ShownIn(old)

LEMMA PlacesAre ==
  ASSUME NEW party \in Parties, Sheets(party, pages[party]), PagesHold(pages[party]),
         NEW m \in Nat, BlankAfter(pages[party], m),
         inTrade \subseteq TradeItems, NEW lineup \in SetToSeqs(ShownIn(pages[party]))
  PROVE  LET old == pages[party]
             new == Repaged(party, lineup)
             N == Cardinality(ShownIn(old)) IN
         /\ DOMAIN new = DOMAIN old
         /\ N \in Nat /\ lineup \in [1..N -> ShownIn(old)]
         /\ \A i, j \in 1..N : lineup[i] = lineup[j] => i = j
         /\ \A a \in ShownIn(old) : \E i \in 1..N : lineup[i] = a
         /\ \A p \in DOMAIN old :
              /\ DOMAIN new[p] = 1..PageSize
              /\ IsFiniteSet(EmptyOn(old[p])) /\ EmptyOn(old[p]) \in SUBSET Nat
              /\ Cardinality(EmptyOn(old[p])) <= PageSize
              /\ \A k \in EmptyOn(old[p]) : \E i \in 1..PageSize :
                   new[p][i] = old[p][k]
              /\ \A i \in 1..PageSize :
                   \/ EmptyStays(old, new, p, i)
                   \/ ItemComes(old, new, lineup, p, i)
                   \/ new[p][i] = Filler
         /\ \A t \in Free(old) : Turn(t, Free(old)) \in 1..N =>
              /\ t[1] \in DOMAIN old /\ t[2] \in 1..PageSize
              /\ new[t[1]][t[2]] = lineup[Turn(t, Free(old))]
<1> DEFINE old == pages[party]
<1> DEFINE new == Repaged(party, lineup)
<1> DEFINE N == Cardinality(ShownIn(old))
<1> DEFINE next(n) == IF n \in DOMAIN lineup THEN lineup[n] ELSE Filler
<1> DEFINE holder(p, i) == IF i \in DOMAIN Empties(old[p]) THEN Empties(old[p])[i]
                           ELSE next(Turn(<<p, i>>, Free(old)))
<1>1. new = [p \in DOMAIN old |-> [i \in 1..PageSize |-> holder(p, i)]]
  BY DEF Repaged
<1>2. IsFiniteSet(ShownIn(old)) /\ N \in Nat
  BY ShownFit
<1>3. lineup \in [1..N -> ShownIn(old)] /\ \A i, j \in 1..N : lineup[i] = lineup[j] => i = j
  BY DEF SetToSeqs
<1> HIDE DEF holder
<1>4. DOMAIN new = DOMAIN old
  BY <1>1
<1>5. \A p \in DOMAIN old : DOMAIN new[p] = 1..PageSize /\ \A i \in 1..PageSize : new[p][i] = holder(p, i)
  BY <1>1
<1> HIDE DEF new, N
<1>6. ASSUME NEW a \in ShownIn(old) PROVE \E i \in 1..N : lineup[i] = a
  <2> DEFINE D == 1..N
  <2>1. IsFiniteSet(D) /\ Cardinality(D) = N
    BY <1>2, FS_Interval
  <2>2. lineup \in Injection(D, ShownIn(old))
    BY <1>3 DEF Injection, IsInjective
  <2>3. lineup \in Surjection(D, ShownIn(old))
    <3> HIDE DEF D
    <3>1. Cardinality(D) = Cardinality(ShownIn(old))
      BY <2>1 DEF N
    <3> QED
      BY <1>2, <2>1, <2>2, <3>1, FS_Injection
  <2> QED
    BY <2>3 DEF Surjection
<1>7. ASSUME NEW p \in DOMAIN old
      PROVE  /\ IsFiniteSet(EmptyOn(old[p])) /\ EmptyOn(old[p]) \in SUBSET Nat
             /\ Cardinality(EmptyOn(old[p])) \in Nat
             /\ Cardinality(EmptyOn(old[p])) <= PageSize
             /\ DOMAIN Empties(old[p]) = 1..Cardinality(EmptyOn(old[p]))
             /\ Len(Empties(old[p])) = Cardinality(EmptyOn(old[p]))
             /\ \A i \in DOMAIN Empties(old[p]) : \E k \in EmptyOn(old[p]) :
                  /\ Empties(old[p])[i] = old[p][k]
                  /\ Cardinality(UpToPlace(EmptyOn(old[p]))[k]) = i
             /\ \A k \in EmptyOn(old[p]) : \E i \in DOMAIN Empties(old[p]) :
                  Empties(old[p])[i] = old[p][k]
  <2>1. old[p] \in Seq(ItemsOf(party) \cup {Filler})
    BY DEF Sheets
  <2>2. PICK n \in Nat : DOMAIN old[p] = 1..n
    BY <2>1
  <2>3. IsFiniteSet(1..n)
    BY FS_Interval
  <2>4. EmptyOn(old[p]) \in SUBSET RealOn(old[p]) /\ RealOn(old[p]) \in SUBSET (1..n)
    BY <2>2, TradePageAssumption DEF EmptyOn, RealOn
  <2>5. IsFiniteSet(RealOn(old[p]))
    BY <2>3, <2>4, FS_Subset
  <2>6. /\ Cardinality(EmptyOn(old[p])) <= Cardinality(RealOn(old[p]))
        /\ Cardinality(EmptyOn(old[p])) \in Nat /\ Cardinality(RealOn(old[p])) \in Nat
    BY <2>4, <2>5, FS_Subset, FS_CardinalityType
  <2>7. Cardinality(EmptyOn(old[p])) <= PageSize
    <3>1. Cardinality(RealOn(old[p])) <= PageSize
      BY DEF PagesHold
    <3> QED
      BY <2>6, <3>1, TradePageAssumption
  <2>8. EmptyOn(old[p]) \in SUBSET Nat
    BY <2>4
  <2> HIDE DEF old
  <2> QED
    BY <2>2, <2>6, <2>7, <2>8, EmptiesAre
<1>8. ASSUME NEW p \in DOMAIN old, NEW i \in 1..PageSize
      PROVE  \/ EmptyStays(old, new, p, i)
             \/ ItemComes(old, new, lineup, p, i)
             \/ new[p][i] = Filler
  <2>1. CASE i \in DOMAIN Empties(old[p])
    <3>1. new[p][i] = Empties(old[p])[i]
      BY <2>1, <1>5 DEF holder
    <3>2. PICK k \in EmptyOn(old[p]) :
            /\ Empties(old[p])[i] = old[p][k]
            /\ Cardinality(UpToPlace(EmptyOn(old[p]))[k]) = i
      BY <2>1, <1>7
    <3>3. new[p][i] = old[p][k]
      BY <3>1, <3>2
    <3> HIDE DEF old
    <3> QED
      BY <2>1, <3>2, <3>3 DEF EmptyStays
  <2>2. CASE i \notin DOMAIN Empties(old[p])
    <3> DEFINE n == Turn(<<p, i>>, Free(old))
    <3>1. new[p][i] = next(n)
      BY <2>2, <1>5 DEF holder
    <3>2. <<p, i>> \in Free(old)
      <4>1. i > Len(Empties(old[p]))
        BY <2>2, <1>7, TradePageAssumption
      <4> QED
        BY <4>1 DEF Free
    <3>3. CASE n \in 1..N
      <4>1. new[p][i] = lineup[n] /\ lineup[n] \in ShownIn(old)
        BY <3>1, <3>3, <1>3
      <4> QED
        BY <4>1, <3>2, <3>3 DEF ItemComes, N
    <3>4. CASE n \notin 1..N
      <4>1. new[p][i] = Filler
        BY <3>1, <3>4, <1>3
      <4> QED
        BY <4>1
    <3> QED
      BY <3>3, <3>4
  <2> QED
    BY <2>1, <2>2
<1>9. ASSUME NEW p \in DOMAIN old, NEW k \in EmptyOn(old[p])
      PROVE  \E i \in 1..PageSize : new[p][i] = old[p][k]
  <2>1. PICK i \in DOMAIN Empties(old[p]) : Empties(old[p])[i] = old[p][k]
    BY <1>7
  <2>2. i \in 1..PageSize
    BY <1>7, TradePageAssumption
  <2>3. new[p][i] = Empties(old[p])[i]
    BY <2>2, <1>5 DEF holder
  <2> QED
    BY <2>1, <2>2, <2>3
<1>10. ASSUME NEW t \in Free(old), Turn(t, Free(old)) \in 1..N
       PROVE  /\ t[1] \in DOMAIN old /\ t[2] \in 1..PageSize
              /\ new[t[1]][t[2]] = lineup[Turn(t, Free(old))]
  <2>1. t[1] \in DOMAIN old /\ t[2] \in 1..PageSize /\ t = <<t[1], t[2]>> /\ t[2] > Len(Empties(old[t[1]]))
    BY DEF Free
  <2>2. t[2] \notin DOMAIN Empties(old[t[1]])
    BY <2>1, <1>7, TradePageAssumption
  <2>3. new[t[1]][t[2]] = next(Turn(<<t[1], t[2]>>, Free(old)))
    BY <2>1, <2>2, <1>5 DEF holder
  <2>4. new[t[1]][t[2]] = next(Turn(t, Free(old)))
    BY <2>1, <2>3
  <2> QED
    BY <2>1, <2>4, <1>10, <1>3
<1> QED
  BY <1>2, <1>3, <1>4, <1>5, <1>6, <1>7, <1>8, <1>9, <1>10 DEF old, new, N

\* What sorting keeps of an inventory, and that it loses nothing of it.
LEMMA SortKeeps ==
  ASSUME NEW party \in Parties, Sheets(party, pages[party]), PagesHold(pages[party]),
         Once(pages[party]), NEW m \in Nat, BlankAfter(pages[party], m),
         inTrade \subseteq TradeItems, NEW lineup \in SetToSeqs(ShownIn(pages[party]))
  PROVE  LET new == Repaged(party, lineup) IN
         /\ Sheets(party, new) /\ PagesHold(new) /\ Once(new) /\ BlankAfter(new, m)
         /\ ItemsIn(new) = ItemsIn(pages[party])
<1> DEFINE old == pages[party]
<1> DEFINE new == Repaged(party, lineup)
<1> DEFINE N == Cardinality(ShownIn(old))
<1> DEFINE S == ShownIn(old)
<1>1. /\ DOMAIN new = DOMAIN old
      /\ N \in Nat /\ lineup \in [1..N -> S]
      /\ \A i, j \in 1..N : lineup[i] = lineup[j] => i = j
      /\ \A a \in S : \E i \in 1..N : lineup[i] = a
      /\ \A p \in DOMAIN old :
              /\ DOMAIN new[p] = 1..PageSize
              /\ IsFiniteSet(EmptyOn(old[p])) /\ EmptyOn(old[p]) \in SUBSET Nat
              /\ Cardinality(EmptyOn(old[p])) <= PageSize
              /\ \A k \in EmptyOn(old[p]) : \E i \in 1..PageSize :
                   new[p][i] = old[p][k]
              /\ \A i \in 1..PageSize :
                   \/ EmptyStays(old, new, p, i)
                   \/ ItemComes(old, new, lineup, p, i)
                   \/ new[p][i] = Filler
      /\ \A t \in Free(old) : Turn(t, Free(old)) \in 1..N =>
              /\ t[1] \in DOMAIN old /\ t[2] \in 1..PageSize
              /\ new[t[1]][t[2]] = lineup[Turn(t, Free(old))]
  BY PlacesAre
<1>2. new = [p \in DOMAIN old |-> [i \in 1..PageSize |-> new[p][i]]]
  BY DEF Repaged
<1>3. Sheets(party, old) /\ PagesHold(old) /\ Once(old) /\ BlankAfter(old, m)
  OBVIOUS
<1>4. /\ Free(old) \in SUBSET (Nat \X Nat) /\ IsFiniteSet(Free(old))
      /\ DOMAIN old = 1..Len(PagesOf[party]) /\ Len(PagesOf[party]) \in Nat
  BY FreeIsFinite
<1>5. /\ \A t \in Free(old) : Turn(t, Free(old)) \in 1..Cardinality(Free(old))
      /\ \A s, t \in Free(old) : Turn(s, Free(old)) = Turn(t, Free(old)) => s = t
      /\ \A n \in 1..Cardinality(Free(old)) : \E t \in Free(old) : Turn(t, Free(old)) = n
  BY <1>4, TurnsAreNumbers
<1>6. \A t \in Free(old) : Turn(t, Free(old)) \in 1..N => t[1] <= m
  BY <1>1, ItemsComeFirst
<1>7. /\ Cardinality(Free(old)) \in Nat
      /\ N <= Cardinality(Free(old))
  <2>1. N <= Cardinality(FreeTo(old, m)) /\ Cardinality(FreeTo(old, m)) \in Nat
    BY ShownFit
  <2>2. FreeTo(old, m) \in SUBSET Free(old)
    BY DEF FreeTo
  <2>3. Cardinality(FreeTo(old, m)) <= Cardinality(Free(old)) /\ Cardinality(Free(old)) \in Nat
    BY <1>4, <2>2, FS_Subset, FS_CardinalityType
  <2> HIDE DEF N
  <2> QED
    BY <2>1, <2>3, <1>1
<1> HIDE DEF new, N
<1>8. \A p \in DOMAIN old : old[p] \in Seq(ItemsOf(party) \cup {Filler})
  BY <1>3 DEF Sheets
<1>9. ASSUME NEW p \in DOMAIN old, NEW k \in EmptyOn(old[p])
      PROVE  /\ k \in DOMAIN old[p] /\ old[p][k] \in inTrade /\ old[p][k] # Filler
             /\ old[p][k] \in ItemsOf(party)
  <2>1. k \in DOMAIN old[p] /\ old[p][k] \in inTrade
    BY DEF EmptyOn
  <2>2. old[p][k] # Filler
    BY <2>1, TradePageAssumption
  <2>3. old[p][k] \in ItemsOf(party) \cup {Filler}
    BY <2>1, <1>8
  <2> QED
    BY <2>1, <2>2, <2>3
<1>10. \A a \in S : a \in ItemsOf(party) /\ a \notin inTrade /\ a \in TradeItems /\ a # Filler
  <2>1. ASSUME NEW a \in S PROVE a \in ItemsOf(party) /\ a \notin inTrade /\ a \in TradeItems /\ a # Filler
    <3>1. a \in TradeItems /\ a \notin inTrade /\ \E p \in DOMAIN old : \E k \in DOMAIN old[p] : old[p][k] = a
      BY DEF ShownIn, ItemsIn
    <3>2. a # Filler
      BY <3>1, TradePageAssumption
    <3>3. a \in ItemsOf(party) \cup {Filler}
      BY <3>1, <1>8
    <3> QED
      BY <3>1, <3>2, <3>3
  <2> QED
    BY <2>1
<1>11. Sheets(party, new)
  <2>1. ASSUME NEW p \in DOMAIN old, NEW i \in 1..PageSize
        PROVE  new[p][i] \in ItemsOf(party) \cup {Filler}
    <3>1. CASE EmptyStays(old, new, p, i)
      BY <3>1, <1>9 DEF EmptyStays
    <3>2. CASE ItemComes(old, new, lineup, p, i)
      BY <3>2, <1>10 DEF ItemComes
    <3> QED
      BY <3>1, <3>2, <1>1
  <2>2. ASSUME NEW p \in DOMAIN old PROVE new[p] \in Seq(ItemsOf(party) \cup {Filler})
    <3>1. new[p] = [i \in 1..PageSize |-> new[p][i]]
      BY <1>2
    <3>2. new[p] \in [1..PageSize -> ItemsOf(party) \cup {Filler}]
      BY <2>1, <3>1
    <3>3. PageSize \in Nat
      BY TradePageAssumption
    <3> QED
      BY <3>2, <3>3
  <2>3. new = [p \in DOMAIN old |-> new[p]]
    BY <1>2
  <2>4. DOMAIN old = DOMAIN PagesOf[party]
    BY <1>3 DEF Sheets
  <2> HIDE DEF old
  <2>5. new \in [DOMAIN PagesOf[party] -> Seq(ItemsOf(party) \cup {Filler})]
    BY <2>2, <2>3, <2>4
  <2> QED
    BY <2>5 DEF Sheets
<1>12. PagesHold(new)
  <2>1. ASSUME NEW p \in DOMAIN new PROVE Cardinality(RealOn(new[p])) <= PageSize
    <3>1. RealOn(new[p]) \in SUBSET (1..PageSize)
      BY <2>1, <1>1 DEF RealOn
    <3>2. IsFiniteSet(1..PageSize) /\ Cardinality(1..PageSize) = PageSize
      BY TradePageAssumption, FS_Interval
    <3> QED
      BY <3>1, <3>2, FS_Subset
  <2> QED
    BY <2>1 DEF PagesHold
<1>13. BlankAfter(new, m)
  <2>1. ASSUME NEW p \in DOMAIN old, p > m, NEW i \in 1..PageSize PROVE new[p][i] = Filler
    <3>1. ~EmptyStays(old, new, p, i)
      <4>1. EmptyOn(old[p]) = {}
        <5>1. \A k \in EmptyOn(old[p]) : old[p][k] = Filler /\ old[p][k] # Filler
          BY <2>1, <1>3, <1>9 DEF BlankAfter
        <5> QED
          BY <5>1
      <4> QED
        BY <4>1 DEF EmptyStays
    <3>2. ~ItemComes(old, new, lineup, p, i)
      <4>1. SUFFICES ASSUME <<p, i>> \in Free(old), Turn(<<p, i>>, Free(old)) \in 1..N
                     PROVE  FALSE
        BY DEF ItemComes, N
      <4>2. p <= m
        BY <4>1, <1>6
      <4> QED
        BY <4>2, <2>1, <1>4
    <3> QED
      BY <3>1, <3>2, <1>1
  <2> QED
    <3>1. \A p \in DOMAIN new : p \in DOMAIN old /\ DOMAIN new[p] = 1..PageSize
      BY <1>1
    <3> HIDE DEF old
    <3> QED
      BY <2>1, <3>1 DEF BlankAfter
<1>14. ASSUME NEW p \in DOMAIN old, NEW q \in DOMAIN old, NEW i \in 1..PageSize, NEW j \in 1..PageSize,
              new[p][i] = new[q][j], new[p][i] # Filler
       PROVE  p = q /\ i = j
  <2>1. CASE EmptyStays(old, new, p, i) /\ EmptyStays(old, new, q, j)
    <3>1. PICK k \in EmptyOn(old[p]) :
            new[p][i] = old[p][k] /\ Cardinality(UpToPlace(EmptyOn(old[p]))[k]) = i
      BY <2>1 DEF EmptyStays
    <3>2. PICK l \in EmptyOn(old[q]) :
            new[q][j] = old[q][l] /\ Cardinality(UpToPlace(EmptyOn(old[q]))[l]) = j
      BY <2>1 DEF EmptyStays
    <3>3. p = q /\ k = l
      <4>1. k \in DOMAIN old[p] /\ l \in DOMAIN old[q] /\ old[p][k] # Filler
        BY <1>9
      <4>2. old[p][k] = old[q][l]
        BY <3>1, <3>2, <1>14
      <4>3. Once(old)
        BY <1>3
      <4> HIDE DEF old
      <4> QED
        BY <4>1, <4>2, <4>3 DEF Once
    <3> QED
      BY <3>1, <3>2, <3>3
  <2>2. CASE ItemComes(old, new, lineup, p, i) /\ ItemComes(old, new, lineup, q, j)
    <3> DEFINE s == <<p, i>>
    <3> DEFINE t == <<q, j>>
    <3>1. /\ s \in Free(old) /\ Turn(s, Free(old)) \in 1..N /\ new[p][i] = lineup[Turn(s, Free(old))]
          /\ t \in Free(old) /\ Turn(t, Free(old)) \in 1..N /\ new[q][j] = lineup[Turn(t, Free(old))]
      BY <2>2 DEF ItemComes, N
    <3>2. Turn(s, Free(old)) = Turn(t, Free(old))
      BY <3>1, <1>1, <1>14
    <3>3. s = t
      BY <3>1, <3>2, <1>5
    <3> QED
      BY <3>3
  <2>3. ASSUME NEW r \in DOMAIN old, NEW l \in 1..PageSize, EmptyStays(old, new, r, l)
        PROVE  new[r][l] \in inTrade
    BY <2>3, <1>9 DEF EmptyStays
  <2>4. ASSUME NEW r \in DOMAIN old, NEW l \in 1..PageSize, ItemComes(old, new, lineup, r, l)
        PROVE  new[r][l] \notin inTrade
    BY <2>4, <1>10 DEF ItemComes
  <2>5. EmptyStays(old, new, p, i) \/ ItemComes(old, new, lineup, p, i)
    BY <1>1, <1>14
  <2>6. EmptyStays(old, new, q, j) \/ ItemComes(old, new, lineup, q, j)
    BY <1>1, <1>14
  <2> QED
    BY <2>1, <2>2, <2>3, <2>4, <2>5, <2>6, <1>14
<1>15. Once(new)
  <2>1. \A p \in DOMAIN new : p \in DOMAIN old /\ DOMAIN new[p] = 1..PageSize
    BY <1>1
  <2>2. SUFFICES ASSUME NEW p \in DOMAIN new, NEW q \in DOMAIN new,
                        NEW i \in DOMAIN new[p], NEW j \in DOMAIN new[q],
                        new[p][i] = new[q][j], new[p][i] # Filler
                 PROVE  p = q /\ i = j
    BY DEF Once
  <2>3. p \in DOMAIN old /\ q \in DOMAIN old /\ i \in 1..PageSize /\ j \in 1..PageSize
    BY <2>1
  <2> QED
    BY <2>2, <2>3, <1>14
<1>16. ASSUME NEW a \in ItemsIn(new) PROVE a \in ItemsIn(old)
  <2>1. PICK p \in DOMAIN old, i \in 1..PageSize : new[p][i] = a
    BY <1>1, <1>16 DEF ItemsIn
  <2>2. a \in TradeItems /\ a # Filler
    BY <1>16, TradePageAssumption DEF ItemsIn
  <2>3. CASE EmptyStays(old, new, p, i)
    <3>1. PICK k \in EmptyOn(old[p]) : new[p][i] = old[p][k]
      BY <2>3 DEF EmptyStays
    <3> QED
      BY <2>1, <2>2, <3>1, <1>9 DEF ItemsIn
  <2>4. CASE ItemComes(old, new, lineup, p, i)
    BY <2>1, <2>4 DEF ItemComes, ShownIn
  <2> QED
    BY <2>1, <2>2, <2>3, <2>4, <1>1
<1>17. ASSUME NEW a \in ItemsIn(old) PROVE a \in ItemsIn(new)
  <2>0. PICK p \in DOMAIN old : \E k \in DOMAIN old[p] : old[p][k] = a
    BY <1>17 DEF ItemsIn
  <2>1. PICK k \in DOMAIN old[p] : old[p][k] = a
    BY <2>0
  <2>2. a \in TradeItems
    BY <1>17 DEF ItemsIn
  <2>3. CASE a \in inTrade
    <3>1. k \in EmptyOn(old[p])
      BY <2>1, <2>3 DEF EmptyOn
    <3>2. PICK i \in 1..PageSize : new[p][i] = old[p][k]
      BY <3>1, <1>1
    <3> QED
      BY <2>1, <2>2, <3>2, <1>1 DEF ItemsIn
  <2>4. CASE a \notin inTrade
    <3>1. a \in S
      BY <2>4, <1>17 DEF ShownIn
    <3>2. PICK n \in 1..N : lineup[n] = a
      BY <3>1, <1>1
    <3>3. n \in 1..Cardinality(Free(old))
      BY <1>1, <1>7
    <3>4. PICK t \in Free(old) : Turn(t, Free(old)) = n
      BY <3>3, <1>5
    <3>5. t[1] \in DOMAIN old /\ t[2] \in 1..PageSize /\ new[t[1]][t[2]] = a
      BY <3>2, <3>4, <1>1
    <3> QED
      <4>1. t[1] \in DOMAIN new /\ t[2] \in DOMAIN new[t[1]]
        BY <3>5, <1>1
      <4> QED
        BY <2>2, <3>5, <4>1 DEF ItemsIn
  <2> QED
    BY <2>3, <2>4
<1>18. ItemsIn(new) = ItemsIn(old)
  BY <1>16, <1>17
<1> QED
  BY <1>11, <1>12, <1>13, <1>15, <1>18 DEF new

ReadTo(party, old, m) ==
  \A q \in DOMAIN PagesOf[party] : q <= m => ToSet(PagesOf[party][q]) \subseteq ItemsIn(old)

InventoryKept(party, old) ==
  /\ Sheets(party, old) /\ Once(old) /\ PagesHold(old)
  /\ \E m \in Nat : ReadTo(party, old, m) /\ BlankAfter(old, m)

\* A page that Steam makes goes where only fillers are.
LEMMA MakingKeeps ==
  ASSUME NEW party \in Parties, NEW old, InventoryKept(party, old),
         NEW n \in DOMAIN PagesOf[party],
         ToSet(PagesOf[party][n]) \cap ItemsIn(old) = {},
         \A q \in 1..(n - 1) : ToSet(PagesOf[party][q]) \subseteq ItemsIn(old)
  PROVE  LET new == [old EXCEPT ![n] = @ \o PagesOf[party][n]] IN
         /\ InventoryKept(party, new)
         /\ ItemsIn(new) = ItemsIn(old) \cup ToSet(PagesOf[party][n])
<1> DEFINE fresh == PagesOf[party][n]
<1> DEFINE new == [old EXCEPT ![n] = @ \o fresh]
<1> DEFINE H == ItemsOf(party) \cup {Filler}
<1> DEFINE L == Len(old[n])
<1> DEFINE M == Len(fresh)
<1>1. PICK m \in Nat : ReadTo(party, old, m) /\ BlankAfter(old, m)
  BY DEF InventoryKept
<1>2. Sheets(party, old) /\ Once(old) /\ PagesHold(old)
  BY DEF InventoryKept
<1>3. /\ PagesOf[party] \in Seq(Seq(ItemsOf(party)))
      /\ M <= PageSize /\ IsInjective(fresh) /\ PageSize \in Nat
  BY TradePageAssumption
<1>4. /\ DOMAIN PagesOf[party] = 1..Len(PagesOf[party]) /\ Len(PagesOf[party]) \in Nat
      /\ fresh \in Seq(ItemsOf(party)) /\ n \in Nat /\ n >= 1
  BY <1>3
<1>5. DOMAIN old = DOMAIN PagesOf[party] /\ old = [q \in DOMAIN old |-> old[q]]
      /\ \A q \in DOMAIN old : old[q] \in Seq(H)
  BY <1>2 DEF Sheets
<1>6. /\ ItemsOf(party) \in SUBSET TradeItems /\ \A a \in ItemsOf(party) : a # Filler /\ a \in TradeItems
  BY TradePageAssumption DEF ItemsOf, TradeItems
<1>7. fresh \in Seq(H) /\ L \in Nat /\ M \in Nat /\ DOMAIN fresh = 1..M /\ DOMAIN old[n] = 1..L
  <2>1. fresh \in [1..M -> ItemsOf(party)] /\ M \in Nat
    BY <1>4, LenProperties
  <2>2. fresh \in [1..M -> H]
    BY <2>1
  <2>3. fresh \in Seq(H)
    BY <2>1, <2>2, SeqDef
  <2> QED
    BY <2>1, <2>3, <1>5, LenProperties
<1>8. DOMAIN new = DOMAIN old /\ new[n] = old[n] \o fresh /\ \A q \in DOMAIN old : q # n => new[q] = old[q]
  BY <1>5
<1>9. /\ new[n] \in Seq(H) /\ DOMAIN new[n] = 1..(L + M)
      /\ \A k \in 1..L : new[n][k] = old[n][k]
      /\ \A j \in 1..M : new[n][L + j] = fresh[j]
  <2> HIDE DEF H
  <2>1. /\ old[n] \o fresh \in Seq(H) /\ Len(old[n] \o fresh) = L + M
        /\ \A k \in 1..(L + M) : (old[n] \o fresh)[k] = IF k <= L THEN old[n][k] ELSE fresh[k - L]
    <3>1. old[n] \in Seq(H) /\ fresh \in Seq(H)
      BY <1>4, <1>5, <1>7
    <3> HIDE DEF fresh
    <3> QED
      BY <3>1, ConcatProperties
  <2> HIDE DEF new, L, M
  <2>2. \A k \in 1..L : k \in 1..(L + M) /\ k <= L
    BY <1>7
  <2>3. \A j \in 1..M : L + j \in 1..(L + M) /\ ~(L + j <= L) /\ (L + j) - L = j
    BY <1>7
  <2>4. new[n] = old[n] \o fresh
    BY <1>8
  <2>5. DOMAIN new[n] = 1..(L + M)
    BY <2>1, <2>4, LenProperties
  <2>6. \A k \in 1..L : new[n][k] = old[n][k]
    BY <2>1, <2>2, <2>4
  <2>7. ASSUME NEW j \in 1..M PROVE new[n][L + j] = fresh[j]
    <3>1. (old[n] \o fresh)[L + j] = fresh[(L + j) - L]
      BY <2>1, <2>3
    <3> QED
      BY <3>1, <2>3, <2>4
  <2> QED
    BY <2>1, <2>4, <2>5, <2>6, <2>7
<1>10. ToSet(fresh) = {fresh[j] : j \in 1..M}
  BY <1>7 DEF ToSet
<1> HIDE DEF new, L, M
<1>11. \A k \in 1..(L + M) : k \in 1..L \/ \E j \in 1..M : k = L + j
  <2>1. \A x, y \in Nat : \A k \in 1..(x + y) : k \in 1..x \/ (k - x \in 1..y /\ k = x + (k - x))
    OBVIOUS
  <2>2. ASSUME NEW k \in 1..(L + M), k \notin 1..L PROVE \E j \in 1..M : k = L + j
    <3>1. k - L \in 1..M /\ k = L + (k - L)
      BY <2>1, <2>2, <1>7
    <3> QED
      BY <3>1
  <2> QED
    BY <2>2
<1>12. \A j \in 1..M : L + j \in 1..(L + M)
  BY <1>7
<1>13. \A k \in 1..L : k \in 1..(L + M)
  BY <1>7
<1>14. ItemsIn(new) = ItemsIn(old) \cup ToSet(fresh)
  <2>1. ASSUME NEW a \in ItemsIn(new) PROVE a \in ItemsIn(old) \cup ToSet(fresh)
    <3>1. PICK q \in DOMAIN old : \E k \in DOMAIN new[q] : new[q][k] = a
      BY <1>8 DEF ItemsIn
    <3>2. PICK k \in DOMAIN new[q] : new[q][k] = a
      BY <3>1
    <3>3. a \in TradeItems
      BY DEF ItemsIn
    <3>4. CASE q = n
      <4>1. k \in 1..L \/ \E j \in 1..M : k = L + j
        BY <3>4, <1>9, <1>11
      <4>2. CASE k \in 1..L
        BY <4>2, <3>2, <3>3, <3>4, <1>7, <1>9 DEF ItemsIn
      <4>3. CASE \E j \in 1..M : k = L + j
        BY <4>3, <3>2, <3>4, <1>9, <1>10
      <4> QED
        BY <4>1, <4>2, <4>3
    <3>5. CASE q # n
      BY <3>2, <3>3, <3>5, <1>8 DEF ItemsIn
    <3> QED
      BY <3>4, <3>5
  <2>2. ASSUME NEW a \in ItemsIn(old) PROVE a \in ItemsIn(new)
    <3>1. PICK q \in DOMAIN old : \E k \in DOMAIN old[q] : old[q][k] = a
      BY DEF ItemsIn
    <3>2. PICK k \in DOMAIN old[q] : old[q][k] = a
      BY <3>1
    <3>3. a \in TradeItems
      BY DEF ItemsIn
    <3>4. CASE q = n
      <4>1. k \in DOMAIN new[n] /\ new[n][k] = a
        BY <3>2, <3>4, <1>7, <1>9, <1>13
      <4> QED
        BY <4>1, <3>3, <1>5, <1>8 DEF ItemsIn
    <3>5. CASE q # n
      <4>1. new[q] = old[q] /\ q \in DOMAIN new
        BY <3>5, <1>8
      <4> QED
        BY <4>1, <3>2, <3>3 DEF ItemsIn
    <3> QED
      BY <3>4, <3>5
  <2>3. ASSUME NEW a \in ToSet(fresh) PROVE a \in ItemsIn(new)
    <3>1. PICK j \in 1..M : a = fresh[j]
      BY <1>10
    <3>2. a \in TradeItems
      <4>1. fresh \in [1..M -> ItemsOf(party)]
        BY <1>4, LenProperties DEF M
      <4> QED
        BY <3>1, <4>1, <1>6
    <3>3. L + j \in DOMAIN new[n] /\ new[n][L + j] = a
      BY <3>1, <1>9, <1>12
    <3> QED
      BY <3>2, <3>3, <1>5, <1>8 DEF ItemsIn
  <2> QED
    BY <2>1, <2>2, <2>3
<1>15. CASE n <= m
  <2>1. ToSet(fresh) = {}
    BY <1>15, <1>1 DEF ReadTo
  <2>2. M = 0
    <3>1. ~(1 \in 1..M)
      BY <2>1, <1>10
    <3> QED
      BY <3>1, <1>7
  <2>3. new[n] = old[n]
    <3>1. fresh = << >>
      BY <2>2, <1>7, EmptySeq DEF M
    <3>2. old[n] \o << >> = old[n]
      BY <1>5, ConcatEmptySeq
    <3> QED
      BY <3>1, <3>2, <1>8
  <2>4. new = old
    <3>1. new = [q \in DOMAIN old |-> new[q]]
      BY DEF new
    <3>2. \A q \in DOMAIN old : new[q] = old[q]
      BY <2>3, <1>8
    <3> QED
      BY <3>1, <3>2, <1>5
  <2> QED
    BY <2>4, <1>14 DEF new
<1>16. CASE n > m
  <2>1. \A k \in 1..L : new[n][k] = Filler
    BY <1>16, <1>1, <1>5, <1>7, <1>9 DEF BlankAfter
  <2>2. Sheets(party, new)
    <3>1. \A q \in DOMAIN old : new[q] \in Seq(H)
      BY <1>5, <1>8, <1>9
    <3>2. new = [q \in DOMAIN old |-> new[q]]
      BY DEF new
    <3>3. new \in [DOMAIN PagesOf[party] -> Seq(H)]
      BY <3>1, <3>2, <1>5
    <3> QED
      BY <3>3 DEF Sheets
  <2>3. ASSUME NEW k \in DOMAIN new[n], new[n][k] # Filler
        PROVE  \E j \in 1..M : k = L + j /\ new[n][k] = fresh[j]
    <3>1. k \in 1..L \/ \E j \in 1..M : k = L + j
      BY <1>9, <1>11
    <3> QED
      BY <3>1, <2>1, <2>3, <1>9
  <2>4. ASSUME NEW q \in DOMAIN old, q # n, NEW l \in DOMAIN new[q],
               NEW k \in DOMAIN new[n], new[n][k] = new[q][l], new[n][k] # Filler
        PROVE  FALSE
    <3>1. PICK j \in 1..M : new[n][k] = fresh[j]
      BY <2>3, <2>4
    <3>2. fresh[j] \in ToSet(fresh) /\ fresh[j] \in TradeItems
      <4>1. fresh \in [1..M -> ItemsOf(party)]
        BY <1>4, LenProperties DEF M
      <4> QED
        BY <4>1, <1>6, <1>10
    <3>3. l \in DOMAIN old[q] /\ old[q][l] = fresh[j]
      BY <2>4, <3>1, <1>8
    <3>4. fresh[j] \in ItemsIn(old)
      BY <3>2, <3>3 DEF ItemsIn
    <3> QED
      BY <3>2, <3>4
  <2>5. Once(new)
    <3> SUFFICES ASSUME NEW q \in DOMAIN new, NEW r \in DOMAIN new,
                        NEW k \in DOMAIN new[q], NEW l \in DOMAIN new[r],
                        new[q][k] = new[r][l], new[q][k] # Filler
                 PROVE  q = r /\ k = l
      BY DEF Once
    <3>0. q \in DOMAIN old /\ r \in DOMAIN old
      BY <1>8
    <3>1. CASE q = n /\ r = n
      <4>1. PICK i \in 1..M : k = L + i /\ new[n][k] = fresh[i]
        BY <3>1, <2>3
      <4>2. PICK j \in 1..M : l = L + j /\ new[n][l] = fresh[j]
        BY <3>1, <2>3
      <4>3. i \in DOMAIN fresh /\ j \in DOMAIN fresh /\ fresh[i] = fresh[j]
        BY <3>1, <4>1, <4>2, <1>7
      <4>4. i = j
        BY <4>3, <1>3 DEF IsInjective
      <4> QED
        BY <3>1, <4>1, <4>2, <4>4
    <3>2. CASE q = n /\ r # n
      BY <3>0, <3>2, <2>4
    <3>3. CASE q # n /\ r = n
      BY <3>0, <3>3, <2>4
    <3>4. CASE q # n /\ r # n
      <4>1. new[q] = old[q] /\ new[r] = old[r]
        BY <3>0, <3>4, <1>8
      <4> QED
        BY <4>1, <3>0, <1>2 DEF Once
    <3> QED
      BY <3>1, <3>2, <3>3, <3>4
  <2>6. PagesHold(new)
    <3> SUFFICES ASSUME NEW q \in DOMAIN new PROVE Cardinality(RealOn(new[q])) <= PageSize
      BY DEF PagesHold
    <3>1. CASE q # n
      <4>1. new[q] = old[q] /\ q \in DOMAIN old
        BY <3>1, <1>8
      <4> QED
        BY <4>1, <1>2 DEF PagesHold
    <3>2. CASE q = n
      <4> DEFINE T == (L + 1)..(L + M)
      <4>1. RealOn(new[n]) \in SUBSET T
        <5>1. ASSUME NEW k \in RealOn(new[n]) PROVE k \in T
          <6>1. PICK j \in 1..M : k = L + j
            BY <2>3 DEF RealOn
          <6>2. \A x, y \in Nat : \A i \in 1..y : x + i \in (x + 1)..(x + y)
            OBVIOUS
          <6> QED
            BY <6>1, <6>2, <1>7
        <5> QED
          BY <5>1
      <4>2. L + 1 \in Int /\ L + M \in Int /\ ((L + 1 > L + M) => M = 0) /\ (L + M) - (L + 1) + 1 = M
        BY <1>7
      <4>3. IsFiniteSet(T) /\ Cardinality(T) = M
        BY <4>2, FS_Interval
      <4>4. IsFiniteSet(RealOn(new[n])) /\ Cardinality(RealOn(new[n])) <= M
        <5> HIDE DEF T
        <5> QED
          BY <4>1, <4>3, FS_Subset
      <4>5. Cardinality(RealOn(new[n])) \in Nat /\ M <= PageSize
        BY <4>4, FS_CardinalityType, <1>3 DEF M
      <4> QED
        BY <3>2, <4>4, <4>5, <1>3, <1>7
    <3> QED
      BY <3>1, <3>2
  <2>7. BlankAfter(new, n)
    <3>1. ASSUME NEW q \in DOMAIN new, q > n PROVE \A k \in DOMAIN new[q] : new[q][k] = Filler
      <4>1. q \in DOMAIN old /\ q \in Nat /\ q # n /\ q > m
        BY <3>1, <1>4, <1>5, <1>8, <1>16
      <4>2. new[q] = old[q]
        BY <4>1, <1>8
      <4> QED
        BY <4>1, <4>2, <1>1 DEF BlankAfter
    <3> QED
      BY <3>1 DEF BlankAfter
  <2>8. ReadTo(party, new, n)
    <3>1. ASSUME NEW q \in DOMAIN PagesOf[party], q <= n
          PROVE  ToSet(PagesOf[party][q]) \subseteq ItemsIn(new)
      <4>1. q = n \/ q \in 1..(n - 1)
        BY <3>1, <1>4
      <4> QED
        BY <4>1, <1>14
    <3> QED
      BY <3>1 DEF ReadTo
  <2>9. InventoryKept(party, new)
    BY <2>2, <2>5, <2>6, <2>7, <2>8, <1>4 DEF InventoryKept
  <2> QED
    BY <2>9, <1>14 DEF new
<1>17. n <= m \/ n > m
  BY <1>4
<1> QED
  BY <1>15, <1>16, <1>17

MadeIn(inventories) == {a \in TradeItems : \E party \in Parties : a \in ItemsIn(inventories[party])}

\* The reads left: of timers that are set, and of games that may be chosen.
Set(timer) == IF timer \in due THEN 1 ELSE 0
ReadsLeft == Set("initial") + Set("again") + (MaxGames - games)

TradeTypes ==
  /\ tries \in Nat /\ games \in 0..MaxGames /\ due \subseteq Timers /\ known \subseteq Parties
  /\ ReadsLeft <= 1 + MaxGames
  /\ tries < MaxTries \/ tries + ReadsLeft <= MaxTries + MaxGames
  /\ hooks \in [direct : SUBSET TradeItems, flagged : SUBSET TradeItems,
                whole : BOOLEAN, noticed : BOOLEAN]

TradeInductive ==
  /\ TradeTypes
  /\ DOMAIN pages = Parties /\ \A party \in Parties : InventoryKept(party, pages[party])
  /\ inTrade \cup hooks.direct \cup hooks.flagged \subseteq MadeIn(pages)

LEMMA MadeIs ==
  ASSUME \A party \in Parties : Sheets(party, pages[party])
  PROVE  /\ Made = MadeIn(pages)
         /\ \A party \in Parties : /\ ItemsIn(pages[party]) = Made \cap ItemsOf(party)
                                   /\ ItemsIn(pages[party]) \subseteq Made
<1>1. ASSUME NEW a PROVE a \in Made <=> a \in MadeIn(pages)
  BY DEF Made, MadeIn, ItemsIn, ToSet
<1>2. ASSUME NEW party \in Parties, NEW a \in ItemsIn(pages[party])
      PROVE  a \in ItemsOf(party) /\ a \in MadeIn(pages)
  <2>1. pages[party] \in [DOMAIN PagesOf[party] -> Seq(ItemsOf(party) \cup {Filler})]
    BY DEF Sheets
  <2>2. PICK p \in DOMAIN pages[party] : \E k \in DOMAIN pages[party][p] : pages[party][p][k] = a
    BY <1>2 DEF ItemsIn
  <2>3. pages[party][p] \in Seq(ItemsOf(party) \cup {Filler})
    BY <2>1
  <2>4. a \in ItemsOf(party) \cup {Filler}
    BY <2>2, <2>3
  <2>5. a \in TradeItems /\ a # Filler
    BY <1>2, TradePageAssumption DEF ItemsIn
  <2> QED
    BY <2>4, <2>5, <1>2 DEF MadeIn
<1>3. \A party \in Parties : \A other \in Parties : other # party => ItemsOf(party) \cap ItemsOf(other) = {}
  BY TradePageAssumption DEF Parties, ItemsOf
<1>4. ASSUME NEW party \in Parties, NEW a \in MadeIn(pages), a \in ItemsOf(party)
      PROVE  a \in ItemsIn(pages[party])
  <2>1. PICK other \in Parties : a \in ItemsIn(pages[other])
    BY DEF MadeIn
  <2>2. a \in ItemsOf(other)
    BY <2>1, <1>2
  <2> QED
    BY <2>1, <2>2, <1>3, <1>4
<1> QED
  BY <1>1, <1>2, <1>4

LEMMA TradeBegins == TradePageInit => TradeInductive
<1> SUFFICES ASSUME TradePageInit PROVE TradeInductive
  OBVIOUS
<1>1. tries = 0 /\ due = {"initial"} /\ known = {} /\ inTrade = {} /\ games = 0
      /\ hooks = [direct |-> {}, flagged |-> {}, whole |-> FALSE, noticed |-> FALSE]
      /\ pages = [party \in Parties |-> [p \in DOMAIN PagesOf[party] |-> <<>>]]
  BY DEF TradePageInit
<1>2. TradeTypes
  <2>1. Set("initial") = 1 /\ Set("again") = 0
    BY <1>1 DEF Set
  <2>2. MaxTries \in Nat /\ MaxTries # 0 /\ MaxGames \in Nat
    BY TradePageAssumption
  <2>3. ReadsLeft = 1 + MaxGames
    BY <2>1, <2>2, <1>1 DEF ReadsLeft
  <2> QED
    BY <2>2, <2>3, <1>1 DEF TradeTypes, Timers
<1>3. ASSUME NEW party \in Parties PROVE InventoryKept(party, pages[party])
  <2> DEFINE old == pages[party]
  <2>1. old = [p \in DOMAIN PagesOf[party] |-> <<>>]
    BY <1>1
  <2>2. DOMAIN PagesOf[party] = 1..Len(PagesOf[party])
    BY TradePageAssumption
  <2> HIDE DEF old
  <2>3. \A p \in DOMAIN old : old[p] = <<>> /\ DOMAIN old[p] = {}
    BY <2>1
  <2>4. Sheets(party, old)
    BY <2>1, EmptySeq DEF Sheets
  <2>5. Once(old) /\ BlankAfter(old, 0) /\ ReadTo(party, old, 0)
    BY <2>2, <2>3 DEF Once, BlankAfter, ReadTo
  <2>6. PagesHold(old)
    <3>1. ASSUME NEW p \in DOMAIN old PROVE Cardinality(RealOn(old[p])) <= PageSize
      <4>1. RealOn(old[p]) = {}
        BY <2>3 DEF RealOn
      <4> QED
        BY <4>1, FS_EmptySet, TradePageAssumption
    <3> QED
      BY <3>1 DEF PagesHold
  <2>7. InventoryKept(party, old)
    BY <2>4, <2>5, <2>6 DEF InventoryKept
  <2> QED
    BY <2>7 DEF old
<1> QED
  BY <1>1, <1>2, <1>3 DEF TradeInductive

\* Steps that leave the pages alone and put nothing that is not made into the trade or a hook.
LEMMA PagesStay ==
  ASSUME TradeInductive, TradeTypes', pages' = pages,
         inTrade' \cup hooks'.direct \cup hooks'.flagged \subseteq Made
  PROVE  TradeInductive'
<1>1. Made = MadeIn(pages)
  BY MadeIs DEF TradeInductive, InventoryKept
<1> QED
  BY <1>1 DEF TradeInductive

LEMMA SortedKeeps ==
  ASSUME TradeInductive, NEW party \in Parties, Sorted(party)
  PROVE  /\ DOMAIN pages' = Parties /\ \A q \in Parties : InventoryKept(q, pages'[q])
         /\ MadeIn(pages') = MadeIn(pages)
<1>1. /\ DOMAIN pages = Parties /\ \A q \in Parties : InventoryKept(q, pages[q])
      /\ inTrade \subseteq TradeItems
  BY DEF TradeInductive, MadeIn
<1>2. \A q \in Parties : Sheets(q, pages[q])
  BY <1>1 DEF InventoryKept
<1>3. ShownOn(party) = ShownIn(pages[party])
  BY <1>2, MadeIs DEF ShownOn, ShownIn
<1>4. PICK lineup \in SetToSeqs(ShownIn(pages[party])) :
        pages' = [pages EXCEPT ![party] = Repaged(party, lineup)]
  BY <1>3 DEF Sorted
<1> DEFINE new == Repaged(party, lineup)
<1>5. PICK m \in Nat : ReadTo(party, pages[party], m) /\ BlankAfter(pages[party], m)
  BY <1>1 DEF InventoryKept
<1>6. /\ Sheets(party, new) /\ PagesHold(new) /\ Once(new) /\ BlankAfter(new, m)
      /\ ItemsIn(new) = ItemsIn(pages[party])
  BY <1>1, <1>5, SortKeeps DEF InventoryKept
<1> HIDE DEF new
<1>7. DOMAIN pages' = Parties /\ pages'[party] = new /\ \A q \in Parties : q # party => pages'[q] = pages[q]
  BY <1>1, <1>4 DEF new
<1>8. InventoryKept(party, new)
  BY <1>5, <1>6 DEF InventoryKept, ReadTo
<1>9. \A q \in Parties : InventoryKept(q, pages'[q]) /\ ItemsIn(pages'[q]) = ItemsIn(pages[q])
  BY <1>1, <1>6, <1>7, <1>8
<1> QED
  BY <1>7, <1>9 DEF MadeIn

LEMMA MadePageKeeps ==
  ASSUME TradeInductive, NEW party \in Parties, NEW p \in DOMAIN PagesOf[party],
         SteamMakesPage(party, p)
  PROVE  /\ DOMAIN pages' = Parties /\ \A q \in Parties : InventoryKept(q, pages'[q])
         /\ MadeIn(pages) \subseteq MadeIn(pages')
<1>1. /\ DOMAIN pages = Parties /\ \A q \in Parties : InventoryKept(q, pages[q])
  BY DEF TradeInductive
<1>2. /\ \A q \in Parties : ItemsIn(pages[q]) = Made \cap ItemsOf(q)
  BY <1>1, MadeIs DEF InventoryKept
<1>3. ToSet(PagesOf[party][p]) \cap Made = {}
      /\ \A q \in 1..(p - 1) : ToSet(PagesOf[party][q]) \subseteq Made
      /\ pages' = [pages EXCEPT ![party][p] = @ \o PagesOf[party][p]]
  BY DEF SteamMakesPage
<1>4. \A q \in DOMAIN PagesOf[party] : ToSet(PagesOf[party][q]) \subseteq ItemsOf(party)
  <2>1. ASSUME NEW q \in DOMAIN PagesOf[party] PROVE ToSet(PagesOf[party][q]) \subseteq ItemsOf(party)
    <3>1. PagesOf[party][q] \in Seq(ItemsOf(party))
      BY TradePageAssumption
    <3> QED
      BY <3>1 DEF ToSet
  <2> QED
    BY <2>1
<1>5. DOMAIN PagesOf[party] = 1..Len(PagesOf[party]) /\ Len(PagesOf[party]) \in Nat
  BY TradePageAssumption
<1>6. \A q \in 1..(p - 1) : q \in DOMAIN PagesOf[party]
  BY <1>5
<1>7. ToSet(PagesOf[party][p]) \cap ItemsIn(pages[party]) = {}
  BY <1>2, <1>3
<1>8. \A q \in 1..(p - 1) : ToSet(PagesOf[party][q]) \subseteq ItemsIn(pages[party])
  BY <1>2, <1>3, <1>4, <1>6
<1> DEFINE new == [pages[party] EXCEPT ![p] = @ \o PagesOf[party][p]]
<1>9. InventoryKept(party, new) /\ ItemsIn(new) = ItemsIn(pages[party]) \cup ToSet(PagesOf[party][p])
  <2>1. InventoryKept(party, pages[party])
    BY <1>1
  <2> QED
    BY <2>1, <1>7, <1>8, MakingKeeps
<1>10. DOMAIN pages' = Parties /\ pages'[party] = new /\ \A q \in Parties : q # party => pages'[q] = pages[q]
  <2>3. pages' = [pages EXCEPT ![party] = new]
    BY DEF SteamMakesPage
  <2> HIDE DEF new
  <2> QED
    BY <1>1, <2>3
<1> HIDE DEF new
<1>11. \A q \in Parties : InventoryKept(q, pages'[q]) /\ ItemsIn(pages[q]) \subseteq ItemsIn(pages'[q])
  BY <1>1, <1>9, <1>10
<1> QED
  BY <1>10, <1>11 DEF MadeIn

LEMMA TradeTypesStay ==
  ASSUME TradeTypes, UNCHANGED <<tries, games>>, known' \subseteq Parties,
         due' \subseteq Timers, due' \cap {"initial", "again"} = due \cap {"initial", "again"},
         hooks' \in [direct : SUBSET TradeItems, flagged : SUBSET TradeItems,
                     whole : BOOLEAN, noticed : BOOLEAN]
  PROVE  TradeTypes'
<1>1. ReadsLeft' = ReadsLeft
  BY DEF ReadsLeft, Set
<1> QED
  BY <1>1 DEF TradeTypes

\* A read uses up its timer, or is repeated while there are tries left.
LEMMA ReadCounts ==
  ASSUME TradeTypes, NEW timer \in {"initial", "again"}, timer \in due,
         tries' = tries + 1, UNCHANGED games, known' \subseteq Parties, due' \subseteq Timers,
         \/ due' \cap {"initial", "again"} = (due \ {timer}) \cap {"initial", "again"}
         \/ tries' < MaxTries /\ due' = due,
         hooks' \in [direct : SUBSET TradeItems, flagged : SUBSET TradeItems,
                     whole : BOOLEAN, noticed : BOOLEAN]
  PROVE  TradeTypes'
<1>1. Set("initial") \in {0, 1} /\ Set("again") \in {0, 1} /\ games \in 0..MaxGames
      /\ MaxGames \in Nat /\ MaxTries \in Nat /\ tries \in Nat
  BY TradePageAssumption DEF Set, TradeTypes
<1>2. ReadsLeft <= 1 + MaxGames /\ (tries < MaxTries \/ tries + ReadsLeft <= MaxTries + MaxGames)
  BY DEF TradeTypes
<1>3. ReadsLeft \in Nat
  BY <1>1 DEF ReadsLeft
<1>4. CASE due' \cap {"initial", "again"} = (due \ {timer}) \cap {"initial", "again"}
  <2>1. ReadsLeft' = ReadsLeft - 1
    <3>1. CASE timer = "initial"
      <4>1. Set("initial") = 1 /\ Set("initial")' = 0 /\ Set("again")' = Set("again")
        BY <3>1, <1>4 DEF Set
      <4> QED
        BY <4>1, <1>1 DEF ReadsLeft
    <3>2. CASE timer = "again"
      <4>1. Set("again") = 1 /\ Set("again")' = 0 /\ Set("initial")' = Set("initial")
        BY <3>2, <1>4 DEF Set
      <4> QED
        BY <4>1, <1>1 DEF ReadsLeft
    <3> QED
      BY <3>1, <3>2
  <2>2. ReadsLeft' <= 1 + MaxGames /\ (tries' < MaxTries \/ tries' + ReadsLeft' <= MaxTries + MaxGames)
    <3>1. \A t, r, x, g \in Nat : r <= 1 + g /\ (t < x \/ t + r <= x + g) =>
            r - 1 <= 1 + g /\ (t + 1 < x \/ (t + 1) + (r - 1) <= x + g)
      OBVIOUS
    <3> QED
      BY <3>1, <2>1, <1>1, <1>2, <1>3
  <2> QED
    BY <2>2, <1>1 DEF TradeTypes
<1>5. CASE tries' < MaxTries /\ due' = due
  <2>1. ReadsLeft' = ReadsLeft
    BY <1>5 DEF ReadsLeft, Set
  <2> QED
    BY <2>1, <1>1, <1>2, <1>5 DEF TradeTypes
<1> QED
  BY <1>4, <1>5

\* Steps that change no page: they put only what is made into the trade and the hooks.
LEMMA ClicksKeep ==
  ASSUME TradeInductive, NEW moving, moving \subseteq Made, Move(moving)
  PROVE  TradeInductive'
<1>1. /\ TradeTypes /\ Made = MadeIn(pages) /\ MadeIn(pages) \subseteq TradeItems
      /\ inTrade \cup hooks.direct \cup hooks.flagged \subseteq Made
  BY MadeIs DEF TradeInductive, InventoryKept, MadeIn
<1>2. hooks \in [direct : SUBSET TradeItems, flagged : SUBSET TradeItems, whole : BOOLEAN, noticed : BOOLEAN]
  BY <1>1 DEF TradeTypes
<1>3. /\ UNCHANGED <<tries, due, known, pages, games>> /\ inTrade' \subseteq Made
      /\ hooks' = [hooks EXCEPT !.noticed = hooks.whole]
  BY <1>1 DEF Move, Moved
<1>4. /\ hooks' \in [direct : SUBSET TradeItems, flagged : SUBSET TradeItems, whole : BOOLEAN, noticed : BOOLEAN]
      /\ hooks'.direct = hooks.direct /\ hooks'.flagged = hooks.flagged
  BY <1>2, <1>3
<1>5. TradeTypes'
  BY <1>1, <1>3, <1>4, TradeTypesStay DEF TradeTypes
<1> QED
  BY <1>1, <1>3, <1>4, <1>5, PagesStay

LEMMA AttachedIs ==
  ASSUME TradeInductive, Attached
  PROVE  /\ hooks' \in [direct : SUBSET TradeItems, flagged : SUBSET TradeItems,
                        whole : BOOLEAN, noticed : BOOLEAN]
         /\ hooks'.direct \cup hooks'.flagged \subseteq Made
<1>1. /\ TradeTypes /\ Made \subseteq TradeItems
      /\ hooks.direct \cup hooks.flagged \subseteq Made
  BY MadeIs DEF TradeInductive, InventoryKept, MadeIn
<1>2. hooks' = [direct |-> hooks.direct \cup Made, flagged |-> hooks.flagged \cup Made,
                whole |-> TRUE, noticed |-> hooks.noticed]
  BY DEF Attached, FlaggedAfter
<1>3. hooks.noticed \in BOOLEAN
  BY <1>1 DEF TradeTypes
<1> QED
  BY <1>1, <1>2, <1>3

LEMMA SortingKeeps ==
  ASSUME TradeInductive, NEW party \in Parties, Sorted(party) \/ UNCHANGED pages,
         inTrade' = inTrade, hooks'.direct \cup hooks'.flagged \subseteq Made, TradeTypes'
  PROVE  TradeInductive'
<1>1. Made = MadeIn(pages)
  BY MadeIs DEF TradeInductive, InventoryKept
<1>2. /\ DOMAIN pages' = Parties /\ \A q \in Parties : InventoryKept(q, pages'[q])
      /\ MadeIn(pages') = MadeIn(pages)
  BY SortedKeeps DEF TradeInductive
<1> QED
  BY <1>1, <1>2 DEF TradeInductive

LEMMA TradeStep == TradeInductive /\ [TradePageNext]_tradePageVars => TradeInductive'
<1> SUFFICES ASSUME TradeInductive, [TradePageNext]_tradePageVars PROVE TradeInductive'
  OBVIOUS
<1> DEFINE Hooks == [direct : SUBSET TradeItems, flagged : SUBSET TradeItems,
                     whole : BOOLEAN, noticed : BOOLEAN]
<1>0. /\ TradeTypes /\ Made = MadeIn(pages) /\ Made \subseteq TradeItems
      /\ inTrade \cup hooks.direct \cup hooks.flagged \subseteq Made
      /\ hooks \in Hooks
  BY MadeIs DEF TradeInductive, InventoryKept, MadeIn, TradeTypes
<1>N. hooks' = [hooks EXCEPT !.noticed = hooks.whole] =>
        hooks' \in Hooks /\ hooks'.direct = hooks.direct /\ hooks'.flagged = hooks.flagged
  BY <1>0
<1> HIDE DEF Hooks
<1>T. \A h : h \in Hooks <=>
        h \in [direct : SUBSET TradeItems, flagged : SUBSET TradeItems,
               whole : BOOLEAN, noticed : BOOLEAN]
  BY DEF Hooks
<1>1. ASSUME NEW party \in Parties, NEW p \in DOMAIN PagesOf[party], SteamMakesPage(party, p)
      PROVE  TradeInductive'
  <2>1. UNCHANGED <<tries, due, known, inTrade, games>> /\ hooks' = [hooks EXCEPT !.noticed = hooks.whole]
    BY <1>1 DEF SteamMakesPage
  <2>2. TradeTypes'
    BY <2>1, <1>0, <1>N, <1>T, TradeTypesStay DEF TradeTypes
  <2>3. /\ DOMAIN pages' = Parties /\ \A q \in Parties : InventoryKept(q, pages'[q])
        /\ MadeIn(pages) \subseteq MadeIn(pages')
    BY <1>1, MadePageKeeps
  <2> QED
    BY <2>1, <2>2, <2>3, <1>0, <1>N DEF TradeInductive
<1>2. ASSUME NEW party \in Parties, NEW p \in DOMAIN PagesOf[party], TakePage(party, p)
      PROVE  TradeInductive'
  <2> DEFINE moving == (ToSet(pages[party][p]) \ {Filler}) \ inTrade
  <2>1. pages[party] \in [DOMAIN PagesOf[party] -> Seq(ItemsOf(party) \cup {Filler})]
    BY DEF TradeInductive, InventoryKept, Sheets
  <2>2. pages[party][p] \in Seq(ItemsOf(party) \cup {Filler}) /\ p \in DOMAIN pages[party]
    BY <2>1
  <2>3. moving \subseteq ItemsOf(party)
    BY <2>2 DEF ToSet
  <2>4. moving \subseteq Made
    BY <2>2, <2>3 DEF Made, ItemsOf, TradeItems
  <2>5. Move(moving)
    BY <1>2 DEF TakePage
  <2> HIDE DEF moving
  <2> QED
    BY <2>4, <2>5, ClicksKeep
<1>3. ASSUME NEW party \in Parties, TakeEverything(party) \/ RemoveEverything(party)
      PROVE  TradeInductive'
  <2> DEFINE taken == (Made \cap ItemsOf(party)) \ inTrade
  <2> DEFINE given == inTrade \cap ItemsOf(party)
  <2>1. taken \subseteq Made /\ given \subseteq Made
    BY <1>0
  <2>2. Move(taken) \/ Move(given)
    BY <1>3 DEF TakeEverything, RemoveEverything
  <2> HIDE DEF taken, given
  <2> QED
    BY <2>1, <2>2, ClicksKeep
<1>4. ASSUME NEW a \in TradeItems, SingleClick(a) \/ ControlClick(a)
      PROVE  TradeInductive'
  <2>1. a \in Made /\ (Move({a}) \/ Move(Alike(a)))
    BY <1>4 DEF SingleClick, ControlClick
  <2>2. {a} \subseteq Made /\ Alike(a) \subseteq Made
    BY <2>1 DEF Alike
  <2> QED
    BY <2>1, <2>2, ClicksKeep
<1>5. ASSUME NEW party \in Parties, ChooseSorting(party) PROVE TradeInductive'
  <2>1. Sorted(party) /\ hooks' = [hooks EXCEPT !.noticed = hooks.whole]
        /\ UNCHANGED <<tries, due, known, inTrade, games>>
    BY <1>5 DEF ChooseSorting
  <2>2. TradeTypes'
    BY <2>1, <1>0, <1>N, <1>T, TradeTypesStay DEF TradeTypes
  <2>3. hooks'.direct \cup hooks'.flagged \subseteq Made
    BY <2>1, <1>0, <1>N
  <2> QED
    BY <2>1, <2>2, <2>3, SortingKeeps
<1>6. ASSUME NEW party \in Parties, SavedSorting(party) PROVE TradeInductive'
  <2>1. (Sorted(party) \/ UNCHANGED pages) /\ hooks' = [hooks EXCEPT !.noticed = hooks.whole]
        /\ UNCHANGED <<tries, known, inTrade, games>> /\ due' = due \ {"sort"}
    BY <1>6 DEF SavedSorting
  <2>2. due' \subseteq Timers /\ known' \subseteq Parties
        /\ due' \cap {"initial", "again"} = due \cap {"initial", "again"}
    BY <2>1, <1>0 DEF TradeTypes
  <2>3. TradeTypes'
    BY <2>1, <2>2, <1>0, <1>N, <1>T, TradeTypesStay
  <2>4. hooks'.direct \cup hooks'.flagged \subseteq Made
    BY <2>1, <1>0, <1>N
  <2> QED
    BY <2>1, <2>3, <2>4, SortingKeeps
<1>7. ASSUME NEW party \in Parties, TabShown(party) PROVE TradeInductive'
  <2>1. (Sorted(party) \/ UNCHANGED pages) /\ Attached
        /\ UNCHANGED <<tries, known, inTrade, games>> /\ due' = due \ {"tab"}
    BY <1>7 DEF TabShown
  <2>2. due' \subseteq Timers /\ known' \subseteq Parties
        /\ due' \cap {"initial", "again"} = due \cap {"initial", "again"}
    BY <2>1, <1>0 DEF TradeTypes
  <2>3. hooks' \in Hooks /\ hooks'.direct \cup hooks'.flagged \subseteq Made
    BY <2>1, <1>T, AttachedIs
  <2>4. TradeTypes'
    BY <2>1, <2>2, <2>3, <1>0, <1>T, TradeTypesStay
  <2> QED
    BY <2>1, <2>3, <2>4, SortingKeeps
<1>8. ASSUME NEW timer \in Timers, InventoriesRead(timer) PROVE TradeInductive'
  <2>1. /\ timer \in due /\ timer \in {"initial", "again"} /\ tries' = tries + 1
        /\ due' = (due \ {timer}) \cup (IF timer = "initial" THEN {"sort"} ELSE {})
        /\ \E parties \in SUBSET Parties : known' = known \cup parties
        /\ Attached /\ UNCHANGED <<pages, inTrade, games>>
    BY <1>8 DEF InventoriesRead
  <2>2. /\ due' \subseteq Timers /\ known' \subseteq Parties
        /\ due' \cap {"initial", "again"} = (due \ {timer}) \cap {"initial", "again"}
    BY <2>1, <1>0 DEF TradeTypes, Timers
  <2>3. hooks' \in Hooks /\ hooks'.direct \cup hooks'.flagged \subseteq Made
    BY <2>1, <1>T, AttachedIs
  <2>4. TradeTypes'
    BY <2>1, <2>2, <2>3, <1>0, <1>T, ReadCounts
  <2> QED
    BY <2>1, <2>3, <2>4, <1>0, PagesStay
<1>9. ASSUME NEW timer \in Timers, InventoriesMissing(timer) PROVE TradeInductive'
  <2>1. /\ timer \in due /\ timer \in {"initial", "again"} /\ tries' = tries + 1
        /\ due' = IF tries' < MaxTries THEN due ELSE due \ {timer}
        /\ UNCHANGED <<known, pages, inTrade, hooks, games>>
    BY <1>9 DEF InventoriesMissing
  <2>2. /\ due' \subseteq Timers /\ known' \subseteq Parties
        /\ \/ due' \cap {"initial", "again"} = (due \ {timer}) \cap {"initial", "again"}
           \/ tries' < MaxTries /\ due' = due
    BY <2>1, <1>0 DEF TradeTypes
  <2>3. hooks' \in Hooks
    BY <2>1, <1>0
  <2>4. TradeTypes'
    BY <2>1, <2>2, <2>3, <1>0, <1>T, ReadCounts
  <2> QED
    BY <2>1, <2>4, <1>0, PagesStay
<1>10. CASE ObserverRuns
  <2>1. /\ hooks' = [hooks EXCEPT !.direct = @ \cup (Made \ hooks.flagged),
                                  !.flagged = @ \cup Made, !.noticed = FALSE]
        /\ UNCHANGED <<tries, due, known, pages, inTrade, games>>
    BY <1>10 DEF ObserverRuns
  <2>2. hooks' \in Hooks /\ hooks'.direct \cup hooks'.flagged \subseteq Made
    BY <2>1, <1>0 DEF Hooks
  <2>3. TradeTypes'
    BY <2>1, <2>2, <1>0, <1>T, TradeTypesStay DEF TradeTypes
  <2> QED
    BY <2>1, <2>2, <2>3, <1>0, PagesStay
<1>11. CASE ChooseGame
  <2>1. /\ games < MaxGames /\ games' = games + 1 /\ due' = due \cup {"again"}
        /\ UNCHANGED <<tries, known, pages, inTrade, hooks>>
    BY <1>11 DEF ChooseGame
  <2>2. /\ Set("initial") \in {0, 1} /\ Set("initial")' = Set("initial")
        /\ Set("again") \in {0, 1} /\ Set("again")' = 1
    BY <2>1 DEF Set
  <2>3. games \in Nat /\ MaxGames \in Nat /\ tries \in Nat /\ MaxTries \in Nat
    BY <1>0, TradePageAssumption DEF TradeTypes
  <2>4. ReadsLeft' <= ReadsLeft /\ ReadsLeft' \in Int /\ ReadsLeft \in Int
    BY <2>1, <2>2, <2>3 DEF ReadsLeft
  <2>5. ReadsLeft' <= 1 + MaxGames /\ (tries < MaxTries \/ tries + ReadsLeft' <= MaxTries + MaxGames)
    <3>1. ReadsLeft <= 1 + MaxGames /\ (tries < MaxTries \/ tries + ReadsLeft <= MaxTries + MaxGames)
      BY <1>0 DEF TradeTypes
    <3>2. \A r, s \in Int : \A t, x, g \in Nat :
            r <= 1 + g /\ (t < x \/ t + r <= x + g) /\ s <= r => s <= 1 + g /\ (t < x \/ t + s <= x + g)
      OBVIOUS
    <3> QED
      BY <3>1, <3>2, <2>3, <2>4
  <2>6. TradeTypes'
    BY <2>1, <2>3, <2>5, <1>0 DEF TradeTypes, Timers
  <2> QED
    BY <2>1, <2>6, <1>0, PagesStay
<1>12. CASE SwitchTab
  <2>1. due' = due \cup {"tab"} /\ Attached /\ UNCHANGED <<tries, known, pages, inTrade, games>>
    BY <1>12 DEF SwitchTab
  <2>2. due' \subseteq Timers /\ known' \subseteq Parties
        /\ due' \cap {"initial", "again"} = due \cap {"initial", "again"}
    BY <2>1, <1>0 DEF TradeTypes, Timers
  <2>3. hooks' \in Hooks /\ hooks'.direct \cup hooks'.flagged \subseteq Made
    BY <2>1, <1>T, AttachedIs
  <2>4. TradeTypes'
    BY <2>1, <2>2, <2>3, <1>0, <1>T, TradeTypesStay
  <2> QED
    BY <2>1, <2>3, <2>4, <1>0, PagesStay
<1>13. CASE UNCHANGED tradePageVars
  <2>1. UNCHANGED <<tries, due, known, pages, inTrade, hooks, games>>
    BY <1>13 DEF tradePageVars
  <2>2. TradeTypes'
    BY <2>1, <1>0, <1>T, TradeTypesStay DEF TradeTypes
  <2> QED
    BY <2>1, <2>2, <1>0, PagesStay
<1> QED
  BY <1>1, <1>2, <1>3, <1>4, <1>5, <1>6, <1>7, <1>8, <1>9, <1>10, <1>11, <1>12, <1>13
     DEF TradePageNext

LEMMA NothingLost == TradeInductive => NothingIsLost
<1> SUFFICES ASSUME TradeInductive, NEW party \in Parties, NEW a \in TradeItems
             PROVE  LET spots == UNION {{<<p, i>> : i \in {k \in DOMAIN pages[party][p] : pages[party][p][k] = a}} :
                           p \in DOMAIN pages[party]} IN
                    /\ Cardinality(spots) <= 1
                    /\ a \in (inTrade \cup hooks.direct) \cap ItemsOf(party) => spots # {}
  BY DEF NothingIsLost
<1> DEFINE old == pages[party]
<1> DEFINE there == UNION {{<<p, i>> : i \in {k \in DOMAIN pages[party][p] : pages[party][p][k] = a}} :
                           p \in DOMAIN pages[party]}
<1>1. Once(old) /\ a # Filler
  BY TradePageAssumption DEF TradeInductive, InventoryKept
<1>2. \A t : t \in there <=> \E p \in DOMAIN old : \E k \in DOMAIN old[p] : t = <<p, k>> /\ old[p][k] = a
  OBVIOUS
<1> HIDE DEF there
<1>3. \A s, t \in there : s = t
  BY <1>1, <1>2 DEF Once
<1>4. Cardinality(there) <= 1
  <2>1. CASE there = {}
    BY <2>1, FS_EmptySet
  <2>2. CASE there # {}
    <3>1. PICK t \in there : there = {t}
      BY <2>2, <1>3
    <3> QED
      BY <3>1, FS_Singleton
  <2> QED
    BY <2>1, <2>2
<1>5. ASSUME a \in inTrade \cup hooks.direct, a \in ItemsOf(party) PROVE there # {}
  <2>1. a \in Made /\ ItemsIn(old) = Made \cap ItemsOf(party)
    BY <1>5, MadeIs DEF TradeInductive, InventoryKept
  <2>2. a \in ItemsIn(old)
    BY <2>1, <1>5
  <2> QED
    BY <2>2, <1>2 DEF ItemsIn
<1> QED
  BY <1>4, <1>5 DEF there

\* Sorting loses no holder: every item Steam made has one place in its inventory, and only one.
THEOREM NothingEverLost == TradePageSpec => []NothingIsLost
  BY TradeBegins, TradeStep, NothingLost, PTL DEF TradePageSpec

\* The types of the trade-offer page, with the bound on how often the inventories are read.
THEOREM TradePageTypes == TradePageSpec => []TradePageTypeOK
<1>1. TradeInductive => TradePageTypeOK
  <2> SUFFICES ASSUME TradeInductive PROVE TradePageTypeOK
    OBVIOUS
  <2>1. /\ TradeTypes /\ MadeIn(pages) \subseteq TradeItems
        /\ inTrade \cup hooks.direct \cup hooks.flagged \subseteq MadeIn(pages)
    BY DEF TradeInductive, MadeIn
  <2>2. tries \in 0..(MaxTries + MaxGames)
    <3>1. Set("initial") \in {0, 1} /\ Set("again") \in {0, 1}
      BY DEF Set
    <3>2. games \in 0..MaxGames /\ MaxGames \in Nat /\ MaxTries \in Nat /\ tries \in Nat
      BY <2>1, TradePageAssumption DEF TradeTypes
    <3>3. ReadsLeft \in Nat
      BY <3>1, <3>2 DEF ReadsLeft
    <3>4. tries < MaxTries \/ tries + ReadsLeft <= MaxTries + MaxGames
      BY <2>1 DEF TradeTypes
    <3> QED
      BY <3>2, <3>3, <3>4
  <2>3. ASSUME NEW party \in Parties, NEW p \in DOMAIN PagesOf[party]
        PROVE  ToSet(pages[party][p]) \subseteq ItemsOf(party) \cup {Filler}
    <3>1. pages[party][p] \in Seq(ItemsOf(party) \cup {Filler})
      BY DEF TradeInductive, InventoryKept, Sheets
    <3> QED
      BY <3>1 DEF ToSet
  <2> QED
    BY <2>1, <2>2, <2>3 DEF TradePageTypeOK, TradeTypes
<1> QED
  BY <1>1, TradeBegins, TradeStep, PTL DEF TradePageSpec

-----------------------------------------------------------------------------

(***************************************************************************)
(* Types.  What the safety invariants do not say of the variables is a     *)
(* conjunction of each component (PanelRest, SettingsRest, ...), kept beside *)
(* them; together they are the component's type invariant.  Here the       *)
(* portfolio panel and the extension settings, whose handlers carry what   *)
(* they read from one await to the next.                                   *)
(***************************************************************************)
PanelRest ==
  {uploads, revoked, enrolled, fenced} \subseteq BOOLEAN /\ faults \in 0..MaxFaults

LEMMA PanelRestBegins == PanelInit => PanelRest
<1> SUFFICES ASSUME PanelInit PROVE PanelRest
  OBVIOUS
<1>1. uploads \in BOOLEAN /\ enrolled \in BOOLEAN /\ revoked = FALSE /\ fenced = FALSE
  BY DEF PanelInit
<1>2. faults \in 0..MaxFaults
  BY PanelAssumption DEF PanelInit
<1> QED
  BY <1>1, <1>2 DEF PanelRest

LEMMA PanelRestStep == PanelRest /\ [PanelNext]_panelVarsAll => PanelRest'
<1> SUFFICES ASSUME PanelRest, [PanelNext]_panelVarsAll PROVE PanelRest'
  OBVIOUS
<1>1. uploads' \in BOOLEAN
  BY UploadsType DEF PanelRest, UploadsTyped
<1>2. revoked' \in BOOLEAN /\ enrolled' \in BOOLEAN /\ fenced' \in BOOLEAN
  BY DEF PanelRest, PanelNext, PanelOpens, StatusLoaded, TimesOut, GatewayForgets, PanelStopped,
     Clicked, PairFails, PairPrepares, PairClears, PairRegisters, DisablesUploads, AwaitsOthers,
     RevokesRemotely, Destroys, Cleans, SyncRuns, panelVarsAll
<1>3. Fault \/ faults' = faults
  BY DEF PanelNext, PanelOpens, StatusLoaded, TimesOut, GatewayForgets, PanelStopped,
     Clicked, PairFails, PairPrepares, PairClears, PairRegisters, DisablesUploads, AwaitsOthers,
     RevokesRemotely, Destroys, Cleans, SyncRuns, panelVarsAll, NoFault
<1>4. faults' \in 0..MaxFaults
  BY <1>3, PanelAssumption DEF Fault, PanelRest
<1> QED
  BY <1>1, <1>2, <1>4 DEF PanelRest

\* Every variable of the popup's panel and of its handlers keeps its type.
THEOREM PanelKeepsTypes == PanelSpec => []PanelTypeOK
<1>1. PanelInductive /\ PanelRest => PanelTypeOK
  BY DEF PanelInductive, PanelTypes, PanelRest, PanelTypeOK, PanelCalls, Panels
<1>2. PanelInit => UploadsTyped
  BY DEF PanelInit, UploadsTyped
<1> QED
  BY <1>1, <1>2, PanelBegins, PanelStep, UploadsType, PanelRestBegins, PanelRestStep, PTL DEF PanelSpec

-----------------------------------------------------------------------------
\* What an object has of a currency is one that is supported.
CurrencyIn(object) == "currency" \in DOMAIN object => object["currency"] \in Currencies

\* A migration that goes on has not come to the last version.
JobRest(r) ==
  /\ r.pc \in {"up", "up write", "stamp"} => r.version < CurrentVersion
  /\ CurrencyIn(r.seen) /\ CurrencyIn(r.patch)

SettingsStatuses == {"idle", "syncing", "success", "warning", "error", "signed_out"}
SettingsRest ==
  /\ kept.version \in 0..CurrentVersion /\ CurrencyIn(kept.settings)
  /\ status \in SettingsStatuses /\ engine \in Currencies
  /\ popup.waits \in 0..MaxJobs /\ asked \subseteq OptIns /\ failures \in 0..MaxStorageFailures
  /\ \A j \in Jobs : JobRest(job[j])

LEMMA LaidCurrency ==
  ASSUME NEW a, NEW b, CurrencyIn(a), CurrencyIn(b)
  PROVE  CurrencyIn(Laid(a, b))
BY DEF CurrencyIn, Laid

LEMMA PlainCurrency ==
  /\ CurrencyIn(<<>>) /\ CurrencyIn(Defaults)
  /\ \A c \in Currencies : CurrencyIn(Only("currency", c))
  /\ \A switch \in Switches : \A value : CurrencyIn(Only(switch, value))
<1>1. CurrencyIn(<<>>)
  BY DEF CurrencyIn
<1>2. CurrencyIn(Defaults)
  BY SettingsAssumption DEF CurrencyIn, Defaults
<1>3. \A c \in Currencies : CurrencyIn(Only("currency", c))
  BY DEF CurrencyIn, Only
<1>4. \A switch \in Switches : \A value : CurrencyIn(Only(switch, value))
  BY DEF CurrencyIn, Only, Switches
<1> QED
  BY <1>1, <1>2, <1>3, <1>4

LEMMA IdleRests == JobRest(IdleJob) /\ JobRest(Finished)
<1>1. IdleJob.pc = "new" /\ IdleJob.seen = <<>> /\ IdleJob.patch = <<>>
  BY DEF IdleJob
<1>2. Finished.pc = "done" /\ Finished.seen = <<>> /\ Finished.patch = <<>>
  BY DEF IdleJob, Finished
<1> QED
  BY <1>1, <1>2, PlainCurrency DEF JobRest

LEMMA SettingsRestBegins == SettingsInit => SettingsRest
<1> SUFFICES ASSUME SettingsInit PROVE SettingsRest
  OBVIOUS
<1>1. kept.version \in 0..CurrentVersion /\ CurrencyIn(kept.settings)
  <2> DEFINE second == Only("currency", HomeCurrency)
             third == Laid(Only("uploads", TRUE), Laid(Only("follow", FALSE), second))
  <2>1. CurrencyIn(second) /\ CurrencyIn(third) /\ CurrencyIn(<<>>)
    BY SettingsAssumption, PlainCurrency, LaidCurrency DEF Switches
  <2>2. \/ kept = [version |-> 0, settings |-> <<>>] \/ kept = [version |-> 1, settings |-> second]
        \/ kept = [version |-> 2, settings |-> third]
    BY DEF SettingsInit, Installations
  <2> HIDE DEF second, third
  <2> QED
    BY <2>1, <2>2 DEF CurrentVersion
<1>2. popup.waits \in 0..MaxJobs /\ failures \in 0..MaxStorageFailures
  BY SettingsAssumption DEF SettingsInit, Closed
<1>3. \A j \in Jobs : JobRest(job[j])
  BY IdleRests DEF SettingsInit
<1> QED
  BY <1>1, <1>2, <1>3, SettingsAssumption DEF SettingsInit, SettingsRest, SettingsStatuses

\* One handler's record changes.
LEMMA RestChanges ==
  ASSUME SettingsInductive, SettingsRest, NEW j \in Jobs, NEW r, job' = [job EXCEPT ![j] = r], JobRest(r)
  PROVE  \A i \in Jobs : JobRest(job'[i])
<1>1. \A i \in Jobs : job'[i] = IF i = j THEN r ELSE job[i]
  BY DEF SettingsInductive
<1> QED
  BY <1>1 DEF SettingsRest

LEMMA PopupRests ==
  /\ Closed.waits = 0 /\ Restored.waits = 0 /\ 0 \in 0..MaxJobs
  /\ \A object : [Closed EXCEPT !.shown = object].waits = 0
BY SettingsAssumption DEF Closed, Restored

LEMMA FailuresRest ==
  ASSUME SettingsRest
  PROVE  /\ FailsOnce => failures' \in 0..MaxStorageFailures
         /\ MayFail => failures + 1 \in 0..MaxStorageFailures
BY SettingsAssumption DEF SettingsRest, FailsOnce, MayFail

LEMMA StepRests ==
  ASSUME SettingsInductive, SettingsRest, NEW j \in Jobs, NEW r, JobRest(r),
         job' = [job EXCEPT ![j] = r], kept'.version \in 0..CurrentVersion,
         CurrencyIn(kept'.settings), status' \in SettingsStatuses, engine' \in Currencies,
         popup'.waits \in 0..MaxJobs, asked' \subseteq OptIns, failures' \in 0..MaxStorageFailures
  PROVE  SettingsRest'
BY RestChanges DEF SettingsRest

\* A handler ends, goes elsewhere than to a migration, or carries something new.
LEMMA NextRests ==
  ASSUME NEW r \in JobRecords, JobRest(r)
  PROVE  /\ \A pc \in Steps \ {"up", "up write", "stamp"} : JobRest([r EXCEPT !.pc = pc])
         /\ \A pc \in Steps \ {"up", "up write", "stamp"} : \A object :
              CurrencyIn(object) => /\ JobRest([r EXCEPT !.pc = pc, !.seen = object])
                                    /\ JobRest([r EXCEPT !.pc = pc, !.patch = object])
         /\ \A pc \in Steps : \A object :
              CurrencyIn(object) /\ r.version < CurrentVersion =>
                /\ JobRest([r EXCEPT !.pc = pc, !.seen = object])
<1>1. ASSUME NEW pc \in Steps \ {"up", "up write", "stamp"} PROVE JobRest([r EXCEPT !.pc = pc])
  BY DEF JobRest, JobRecords
<1>2. ASSUME NEW pc \in Steps \ {"up", "up write", "stamp"}, NEW object, CurrencyIn(object)
      PROVE  JobRest([r EXCEPT !.pc = pc, !.seen = object])
  <2>1. [r EXCEPT !.pc = pc, !.seen = object].seen = object
        /\ [r EXCEPT !.pc = pc, !.seen = object].patch = r.patch
        /\ [r EXCEPT !.pc = pc, !.seen = object].pc = pc
    BY DEF JobRecords
  <2> QED
    BY <1>2, <2>1 DEF JobRest
<1>3. ASSUME NEW pc \in Steps \ {"up", "up write", "stamp"}, NEW object, CurrencyIn(object)
      PROVE  JobRest([r EXCEPT !.pc = pc, !.patch = object])
  <2>1. [r EXCEPT !.pc = pc, !.patch = object].seen = r.seen
        /\ [r EXCEPT !.pc = pc, !.patch = object].patch = object
        /\ [r EXCEPT !.pc = pc, !.patch = object].pc = pc
    BY DEF JobRecords
  <2> QED
    BY <1>3, <2>1 DEF JobRest
<1>4. ASSUME NEW pc \in Steps, NEW object, CurrencyIn(object), r.version < CurrentVersion
      PROVE  JobRest([r EXCEPT !.pc = pc, !.seen = object])
  <2>1. [r EXCEPT !.pc = pc, !.seen = object].seen = object
        /\ [r EXCEPT !.pc = pc, !.seen = object].patch = r.patch
        /\ [r EXCEPT !.pc = pc, !.seen = object].version = r.version
    BY DEF JobRecords
  <2> QED
    BY <1>4, <2>1 DEF JobRest
<1> QED
  BY <1>1, <1>2, <1>3, <1>4

\* The currency that is in force is supported.
LEMMA CurrencyOfNow ==
  ASSUME NEW object, CurrencyIn(object)
  PROVE  Laid(object, Defaults)["currency"] \in Currencies
<1>1. "currency" \in DOMAIN Laid(object, Defaults)
  BY SettingsFields DEF Laid
<1> QED
  BY <1>1, PlainCurrency, LaidCurrency DEF CurrencyIn

LEMMA EndingRests ==
  ASSUME SettingsInductive, SettingsRest, NEW j \in Jobs, NEW ok, Ends(j, ok),
         UNCHANGED <<kept, engine, asked>>, status' \in SettingsStatuses,
         failures' \in 0..MaxStorageFailures
  PROVE  SettingsRest'
<1>1. job' = [job EXCEPT ![j] = Finished]
  BY DEF Ends
<1>2. popup'.waits \in 0..MaxJobs
  BY PopupRests DEF Ends, SettingsRest
<1> QED
  BY <1>1, <1>2, IdleRests, StepRests DEF SettingsRest

LEMMA GoingRests ==
  ASSUME SettingsInductive, SettingsRest, NEW j \in Jobs, NEW pc \in Steps \ {"up", "up write", "stamp"},
         Goes(j, pc), UNCHANGED <<kept, engine, popup, asked>>, status' \in SettingsStatuses,
         failures' \in 0..MaxStorageFailures
  PROVE  SettingsRest'
<1>1. job' = [job EXCEPT ![j] = [job[j] EXCEPT !.pc = pc]]
  BY DEF Goes
<1>2. JobRest([job[j] EXCEPT !.pc = pc])
  BY WhatFits, NextRests DEF SettingsRest
<1> QED
  BY <1>1, <1>2, StepRests DEF SettingsRest

LEMMA BeginningRests ==
  ASSUME SettingsInductive, SettingsRest, NEW j \in Jobs, NEW r, JobRest(r), Begins(j, r),
         UNCHANGED <<kept, status, engine, failures>>, popup'.waits \in 0..MaxJobs, asked' \subseteq OptIns
  PROVE  SettingsRest'
<1>1. job' = [job EXCEPT ![j] = r]
  BY DEF Begins
<1> QED
  BY <1>1, StepRests DEF SettingsRest

LEMMA UserRests ==
  ASSUME SettingsInductive, SettingsRest, NEW j \in Jobs,
         UserChanges(j) \/ UploadsTurnedOff(j) \/ WorkerStarts(j)
  PROVE  SettingsRest'
<1>1. CASE UserChanges(j)
  <2>1. PICK patch \in Patches(popup.shown) :
          /\ Begins(j, [IdleJob EXCEPT !.kind = "user", !.pc = "read", !.patch = patch,
                                       !.force = patch = <<>>])
          /\ popup' = [shown |-> Laid(patch, popup.shown), before |-> popup.shown, waits |-> j,
                       restored |-> FALSE]
          /\ asked' = asked \cup {f \in OptIns \cap DOMAIN patch : patch[f]}
    BY <1>1 DEF UserChanges
  <2>2. CurrencyIn(patch)
    BY PlainCurrency DEF Patches
  <2> DEFINE r == [IdleJob EXCEPT !.kind = "user", !.pc = "read", !.patch = patch,
                                  !.force = patch = <<>>]
  <2>3. r.pc = "read" /\ r.seen = <<>> /\ r.patch = patch
    BY DEF IdleJob
  <2>4. JobRest(r)
    BY <2>2, <2>3, PlainCurrency DEF JobRest
  <2>5. Begins(j, r)
    BY <2>1
  <2> HIDE DEF r
  <2>6. j \in 0..MaxJobs
    BY SettingsAssumption DEF Jobs
  <2>7. popup'.waits \in 0..MaxJobs
    BY <2>1, <2>6
  <2>8. asked' \subseteq OptIns
    BY <2>1 DEF SettingsRest
  <2>9. UNCHANGED <<kept, status, engine, failures>>
    BY <1>1 DEF UserChanges
  <2> QED
    BY <2>4, <2>5, <2>7, <2>8, <2>9, BeginningRests
<1>2. CASE UploadsTurnedOff(j)
  <2> DEFINE r == [IdleJob EXCEPT !.kind = "off", !.pc = "read", !.patch = Only("uploads", FALSE)]
  <2>1. r.pc = "read" /\ r.seen = <<>> /\ r.patch = Only("uploads", FALSE)
    BY DEF IdleJob
  <2>2. JobRest(r)
    BY <2>1, PlainCurrency DEF JobRest, Switches
  <2>3. Begins(j, r) /\ UNCHANGED <<kept, status, engine, popup, asked, failures>>
    BY <1>2 DEF UploadsTurnedOff
  <2> HIDE DEF r
  <2> QED
    BY <2>2, <2>3, BeginningRests DEF SettingsRest
<1>3. CASE WorkerStarts(j)
  <2> DEFINE r == [IdleJob EXCEPT !.kind = "start", !.pc = "version"]
  <2>1. r.pc = "version" /\ r.seen = <<>> /\ r.patch = <<>>
    BY DEF IdleJob
  <2>2. JobRest(r)
    BY <2>1, PlainCurrency DEF JobRest
  <2>3. Begins(j, r) /\ UNCHANGED <<kept, status, engine, popup, asked, failures>>
    BY <1>3 DEF WorkerStarts
  <2> HIDE DEF r
  <2> QED
    BY <2>2, <2>3, BeginningRests DEF SettingsRest
<1> QED
  BY <1>1, <1>2, <1>3

\* A read, of the settings or of none.
LEMMA ReadingRests ==
  ASSUME SettingsInductive, SettingsRest, NEW j \in Jobs, SettingsRead(j) \/ MigrationReads(j)
  PROVE  SettingsRest'
<1> DEFINE pc == IF SettingsRead(j) THEN "write" ELSE "up write"
<1>1. PICK object \in {kept.settings, <<>>} : job' = [job EXCEPT ![j].pc = pc, ![j].seen = object]
  BY DEF SettingsRead, MigrationReads
<1>2. job' = [job EXCEPT ![j] = [job[j] EXCEPT !.pc = pc, !.seen = object]]
  BY <1>1, WhatFits
<1>3. CurrencyIn(object)
  BY PlainCurrency DEF SettingsRest
<1>4. pc \in Steps /\ (pc = "up write" => job[j].version < CurrentVersion)
  BY DEF Steps, MigrationReads, At, SettingsRest, JobRest
<1>5. pc \notin {"up", "stamp"}
  OBVIOUS
<1>6. UNCHANGED <<kept, status, engine, popup, asked>> /\ failures' \in 0..MaxStorageFailures
  BY FailuresRest DEF SettingsRead, MigrationReads, SettingsRest
<1> HIDE DEF pc
<1>7. JobRest([job[j] EXCEPT !.pc = pc, !.seen = object])
  BY <1>3, <1>4, <1>5, WhatFits, NextRests DEF SettingsRest
<1> QED
  BY <1>2, <1>6, <1>7, StepRests DEF SettingsRest

LEMMA WritingRests ==
  ASSUME SettingsInductive, SettingsRest, NEW j \in Jobs, SettingsWritten(j)
  PROVE  SettingsRest'
<1> DEFINE new == Laid(job[j].patch, Laid(job[j].seen, Defaults))
           r == IF job[j].kind = "off" THEN Finished ELSE Saved(job[j], new)
<1>1. CurrencyIn(new)
  BY PlainCurrency, LaidCurrency DEF SettingsRest, JobRest
<1>2. kept' = [version |-> kept.version, settings |-> new]
  BY WhatFits DEF SettingsWritten
<1>3. job' = [job EXCEPT ![j] = r] /\ UNCHANGED <<status, engine, popup, asked, failures>>
  BY <1>2 DEF SettingsWritten
<1>4. Saved(job[j], new).pc = "init" /\ Saved(job[j], new).seen = new /\ Saved(job[j], new).patch = job[j].patch
  BY WhatFits DEF Saved, JobRecords
<1> HIDE DEF new
<1>5. JobRest(Saved(job[j], new))
  BY <1>1, <1>4 DEF JobRest, SettingsRest
<1>6. JobRest(r)
  BY <1>5, IdleRests
<1> HIDE DEF r
<1>7. kept'.version \in 0..CurrentVersion /\ CurrencyIn(kept'.settings)
  BY <1>1, <1>2 DEF SettingsRest
<1> QED
  BY <1>3, <1>6, <1>7, StepRests DEF SettingsRest

LEMMA EngineRests ==
  ASSUME SettingsInductive, SettingsRest, NEW j \in Jobs, EngineUpdated(j) \/ EngineReads(j) \/ EngineWritten(j)
  PROVE  SettingsRest'
<1>0. job[j] \in JobRecords /\ JobRest(job[j])
  BY WhatFits DEF SettingsRest
<1>1. CASE EngineUpdated(j)
  <2>1. engine' \in Currencies
    BY <1>0, <1>1, WhatFits DEF EngineUpdated, At, JobFits, JobRest, CurrencyIn
  <2>2. job' = [job EXCEPT ![j] = [job[j] EXCEPT !.pc = "engine read", !.seen = <<>>]]
    BY <1>1, WhatFits DEF EngineUpdated
  <2>3. JobRest([job[j] EXCEPT !.pc = "engine read", !.seen = <<>>])
    BY <1>0, NextRests, PlainCurrency DEF Steps
  <2> QED
    BY <1>1, <2>1, <2>2, <2>3, StepRests DEF EngineUpdated, SettingsRest
<1>2. CASE EngineReads(j)
  <2>1. job' = [job EXCEPT ![j] = [job[j] EXCEPT !.pc = "engine write", !.seen = kept.settings]]
    BY <1>2, WhatFits DEF EngineReads
  <2>2. JobRest([job[j] EXCEPT !.pc = "engine write", !.seen = kept.settings])
    BY <1>0, NextRests DEF Steps, SettingsRest
  <2> QED
    BY <1>2, <2>1, <2>2, StepRests DEF EngineReads, SettingsRest
<1>3. CASE EngineWritten(j)
  <2> DEFINE new == Laid(Only("currency", engine), job[j].seen)
             r1 == [IdleJob EXCEPT !.kind = "site", !.pc = "look", !.force = TRUE]
             r2 == [job[j] EXCEPT !.pc = "answer", !.seen = <<>>]
             r == IF job[j].kind = "user" /\ job[j].force THEN r1 ELSE r2
  <2>1. kept' = [version |-> kept.version, settings |-> new] /\ CurrencyIn(new)
    BY <1>0, <1>3, WhatFits, PlainCurrency, LaidCurrency DEF EngineWritten, SettingsRest, JobRest
  <2>2. r1.pc = "look" /\ r1.seen = <<>> /\ r1.patch = <<>>
    BY DEF IdleJob
  <2>3. JobRest(r1)
    BY <2>2, PlainCurrency DEF JobRest
  <2>4. JobRest(r2)
    BY <1>0, NextRests, PlainCurrency DEF Steps
  <2>5. job' = [job EXCEPT ![j] = r]
    BY <1>3 DEF EngineWritten
  <2>6. JobRest(r)
    BY <2>3, <2>4
  <2>7. status' \in SettingsStatuses /\ UNCHANGED <<engine, popup, asked, failures>>
    BY <1>3 DEF EngineWritten, SettingsRest, SettingsStatuses
  <2> HIDE DEF r, new
  <2>8. kept'.version \in 0..CurrentVersion /\ CurrencyIn(kept'.settings)
    BY <2>1 DEF SettingsRest
  <2> QED
    BY <2>5, <2>6, <2>7, <2>8, StepRests DEF SettingsRest
<1> QED
  BY <1>1, <1>2, <1>3

LEMMA SiteRests ==
  ASSUME SettingsInductive, SettingsRest, NEW j \in Jobs, SyncLooks(j) \/ SiteAnswers(j)
  PROVE  SettingsRest'
<1>0. job[j] \in JobRecords /\ JobRest(job[j])
  BY WhatFits DEF SettingsRest
<1>1. CASE SyncLooks(j)
  <2>1. UNCHANGED <<kept, engine, popup, asked, failures>> /\ status' \in SettingsStatuses
    BY <1>1 DEF SyncLooks, SettingsStatuses
  <2>2. \/ Goes(j, "answer")
        \/ job' = [job EXCEPT ![j].kind = "site", ![j].pc = "ask"]
    BY <1>1 DEF SyncLooks
  <2>3. CASE Goes(j, "answer")
    BY <2>1, <2>3, GoingRests DEF Steps, SettingsRest
  <2>4. CASE job' = [job EXCEPT ![j].kind = "site", ![j].pc = "ask"]
    <3> DEFINE r == [job[j] EXCEPT !.kind = "site", !.pc = "ask"]
    <3>1. r.pc = "ask" /\ r.seen = job[j].seen /\ r.patch = job[j].patch
      BY <1>0 DEF JobRecords
    <3>2. JobRest(r)
      BY <1>0, <3>1 DEF JobRest
    <3>3. job' = [job EXCEPT ![j] = r]
      BY <2>4, WhatFits
    <3> HIDE DEF r
    <3> QED
      BY <2>1, <3>2, <3>3, StepRests DEF SettingsRest
  <2> QED
    BY <2>2, <2>3, <2>4
<1>2. CASE SiteAnswers(j)
  <2>1. UNCHANGED <<kept, engine, popup, asked, failures>>
    BY <1>2 DEF SiteAnswers
  <2>2. \/ status' \in SettingsStatuses /\ Goes(j, "answer")
        \/ /\ \E c \in Currencies : job' = [job EXCEPT ![j].pc = "read", ![j].patch = Only("currency", c)]
           /\ UNCHANGED status
    BY <1>2 DEF SiteAnswers, SettingsStatuses
  <2>3. CASE status' \in SettingsStatuses /\ Goes(j, "answer")
    BY <2>1, <2>3, GoingRests DEF Steps, SettingsRest
  <2>4. ASSUME NEW c \in Currencies, job' = [job EXCEPT ![j].pc = "read", ![j].patch = Only("currency", c)],
               UNCHANGED status
        PROVE  SettingsRest'
    <3>1. job' = [job EXCEPT ![j] = [job[j] EXCEPT !.pc = "read", !.patch = Only("currency", c)]]
      BY <2>4, WhatFits
    <3>2. JobRest([job[j] EXCEPT !.pc = "read", !.patch = Only("currency", c)])
      BY <1>0, NextRests, PlainCurrency DEF Steps
    <3> QED
      BY <2>1, <2>4, <3>1, <3>2, StepRests DEF SettingsRest
  <2> QED
    BY <2>2, <2>3, <2>4
<1> QED
  BY <1>1, <1>2

\* A migration is only run from a version before the last, to the next one.
LEMMA MigratingRests ==
  ASSUME SettingsInductive, SettingsRest, NEW j \in Jobs,
         VersionRead(j) \/ MigrationWrites(j) \/ MigrationStamped(j)
  PROVE  SettingsRest'
<1>0. job[j] \in JobRecords /\ JobRest(job[j]) /\ job[j].version \in Nat
  BY WhatFits DEF SettingsRest, JobRecords
<1>1. CASE VersionRead(j)
  <2>1. PICK v \in {kept.version} \cup (IF MayFail THEN {0} ELSE {}) :
          /\ failures' = IF v = kept.version THEN failures ELSE failures + 1
          /\ job' = [job EXCEPT ![j].version = v, ![j].pc = IF v = CurrentVersion THEN "look" ELSE "up"]
    BY <1>1 DEF VersionRead
  <2>2. v \in 0..CurrentVersion /\ failures' \in 0..MaxStorageFailures
    BY <2>1, FailuresRest, SettingsAssumption DEF SettingsRest, CurrentVersion
  <2> DEFINE pc == IF v = CurrentVersion THEN "look" ELSE "up"
             r == [job[j] EXCEPT !.version = v, !.pc = pc]
  <2>3. r.pc = pc /\ r.version = v /\ r.seen = job[j].seen /\ r.patch = job[j].patch
    BY <1>0 DEF JobRecords
  <2>5. job' = [job EXCEPT ![j] = r]
    BY <2>1, WhatFits
  <2>6. pc = "look" \/ (pc = "up" /\ v < CurrentVersion)
    BY <2>2 DEF CurrentVersion
  <2> HIDE DEF r, pc
  <2>4. JobRest(r)
    BY <1>0, <2>3, <2>6 DEF JobRest
  <2> QED
    BY <1>1, <2>2, <2>4, <2>5, StepRests DEF VersionRead, SettingsRest
<1>2. CASE MigrationWrites(j)
  <2> DEFINE new == MigratedFrom(job[j].seen)
             r == [job[j] EXCEPT !.pc = "stamp", !.seen = <<>>]
  <2>1. CurrencyIn(new)
    BY <1>0, PlainCurrency, LaidCurrency DEF MigratedFrom, JobRest
  <2>2. JobRest(r)
    BY <1>0, <1>2, NextRests, PlainCurrency DEF Steps, MigrationWrites, At, JobRest
  <2>3. job' = [job EXCEPT ![j] = r] /\ UNCHANGED <<status, engine, popup, asked, failures>>
    BY <1>2 DEF MigrationWrites
  <2>4. kept' = kept \/ kept' = [version |-> kept.version, settings |-> new]
    BY <1>2, WhatFits DEF MigrationWrites
  <2> HIDE DEF r, new
  <2>5. kept'.version \in 0..CurrentVersion /\ CurrencyIn(kept'.settings)
    BY <2>1, <2>4 DEF SettingsRest
  <2> QED
    BY <2>2, <2>3, <2>5, StepRests DEF SettingsRest
<1>3. CASE MigrationStamped(j)
  <2> DEFINE v == IF job[j].version + 1 = CurrentVersion THEN 0 ELSE job[j].version + 1
             pc == IF job[j].version + 1 = CurrentVersion THEN "look" ELSE "up"
             r == [job[j] EXCEPT !.version = v, !.pc = pc]
  <2>1. job[j].version < CurrentVersion
    BY <1>0, <1>3 DEF MigrationStamped, At, JobRest
  <2>2. r.pc = pc /\ r.version = v /\ r.seen = job[j].seen /\ r.patch = job[j].patch
    BY <1>0 DEF JobRecords
  <2>4. job' = [job EXCEPT ![j] = r] /\ UNCHANGED <<status, engine, popup, asked, failures>>
    BY <1>3 DEF MigrationStamped
  <2>5. kept' = [version |-> job[j].version + 1, settings |-> kept.settings]
    BY <1>3, WhatFits DEF MigrationStamped, Stamp
  <2>7. pc = "look" \/ (pc = "up" /\ v < CurrentVersion)
    BY <1>0, <2>1 DEF CurrentVersion
  <2> HIDE DEF r, pc, v
  <2>3. JobRest(r)
    BY <1>0, <2>2, <2>7 DEF JobRest
  <2>6. kept'.version \in 0..CurrentVersion /\ CurrencyIn(kept'.settings)
    BY <1>0, <2>1, <2>5 DEF SettingsRest, CurrentVersion
  <2> QED
    BY <2>3, <2>4, <2>6, StepRests DEF SettingsRest
<1> QED
  BY <1>1, <1>2, <1>3

LEMMA SettingsRestStep == SettingsInductive /\ SettingsRest /\ [SettingsNext]_settingsVars => SettingsRest'
<1> SUFFICES ASSUME SettingsInductive, SettingsRest, [SettingsNext]_settingsVars PROVE SettingsRest'
  OBVIOUS
<1>1. CASE PopupOpens \/ PopupGivesUp
  <2>1. UNCHANGED <<kept, status, engine, job, asked, failures>> /\ popup'.waits \in 0..MaxJobs
    BY <1>1, PopupRests DEF PopupOpens, PopupGivesUp
  <2> QED
    BY <2>1 DEF SettingsRest
<1>2. CASE WorkerStops
  <2>1. job' = [j \in Jobs |-> IF job[j] = IdleJob THEN IdleJob ELSE Finished]
    BY <1>2 DEF WorkerStops
  <2>2. \A j \in Jobs : JobRest(job'[j])
    BY <2>1, IdleRests
  <2>3. popup'.waits \in 0..MaxJobs /\ engine' \in Currencies /\ UNCHANGED <<kept, status, asked, failures>>
    BY <1>2, PopupRests, SettingsAssumption DEF WorkerStops, SettingsRest
  <2> QED
    BY <2>2, <2>3 DEF SettingsRest
<1>3. ASSUME NEW j \in Jobs, JobStep(j) PROVE SettingsRest'
  <2>1. CASE WriteFails(j)
    <3>1. UNCHANGED <<kept, engine, asked>> /\ failures' \in 0..MaxStorageFailures
      BY <2>1, FailuresRest DEF WriteFails
    <3>2. \/ status' = "error" /\ Goes(j, "answer") /\ UNCHANGED popup
          \/ Ends(j, FALSE) /\ UNCHANGED status
      BY <2>1 DEF WriteFails
    <3>3. CASE status' = "error" /\ Goes(j, "answer") /\ UNCHANGED popup
      BY <3>1, <3>3, GoingRests DEF Steps, SettingsStatuses
    <3>4. CASE Ends(j, FALSE) /\ UNCHANGED status
      BY <3>1, <3>4, EndingRests DEF SettingsRest
    <3> QED
      BY <3>2, <3>3, <3>4
  <2>2. CASE Answered(j)
    BY <2>2, EndingRests DEF Answered, SettingsRest
  <2>3. CASE MigrationFails(j)
    <3>1. Ends(j, FALSE) /\ UNCHANGED <<kept, status, engine, asked>> /\ failures' \in 0..MaxStorageFailures
      BY <2>3, FailuresRest DEF MigrationFails
    <3> QED
      BY <3>1, EndingRests DEF SettingsRest
  <2> QED
    BY <1>3, <2>1, <2>2, <2>3, ReadingRests, WritingRests, EngineRests, SiteRests, MigratingRests
    DEF JobStep
<1>4. CASE UNCHANGED settingsVars
  BY <1>4 DEF settingsVars, SettingsRest
<1> QED
  BY <1>1, <1>2, <1>3, <1>4, UserRests DEF SettingsNext

\* Every variable of the settings keeps its type: no migration goes beyond the last version, and
\* no field is stored that the settings do not have.
THEOREM SettingsKeepTypes == SettingsSpec => []SettingsTypeOK
<1>1. SettingsInductive /\ SettingsRest => SettingsTypeOK
  <2> SUFFICES ASSUME SettingsInductive, SettingsRest PROVE SettingsTypeOK
    OBVIOUS
  <2>1. DOMAIN kept.settings \subseteq DOMAIN Defaults
    BY DEF SettingsInductive, SettingsObjects
  <2>2. \A j \in Jobs : job[j].pc \in Steps
    BY WhatFits DEF JobRecords
  <2> QED
    BY <2>1, <2>2 DEF SettingsRest, SettingsTypeOK, SettingsStatuses
<1> QED
  BY <1>1, SettingsBegin, SettingsStep, SettingsRestBegins, SettingsRestStep, PTL DEF SettingsSpec

-----------------------------------------------------------------------------

(***************************************************************************)
(* Types of the Steam read session and of the trade history.               *)
(***************************************************************************)
\* Every variable of the Steam read session keeps its type.
THEOREM SessionKeepsTypes == SessionSpec => []SessionTypeOK
<1>1. SessionInductive => SessionTypeOK
  BY DEF SessionInductive, SessionShapes, ReaderRecords, Someone, SessionTypeOK
<1> QED
  BY <1>1, SessionBegins, SessionStep, PTL DEF SessionSpec

-----------------------------------------------------------------------------
Boxes == {"absent", "none", "Profit", "Loss", "Fair"}
HistoryRest == boxes \in [PastTrades -> Boxes] /\ looks \in BOOLEAN /\ overlapped \in BOOLEAN

LEMMA HistoryRestBegins == HistoryInit => HistoryRest
BY DEF HistoryInit, HistoryRest, Boxes

LEMMA HistoryRestStep == HistoryRest /\ [HistoryNext]_historyVars => HistoryRest'
<1> SUFFICES ASSUME HistoryRest, [HistoryNext]_historyVars PROVE HistoryRest'
  OBVIOUS
<1>0. \A t, told : TradeVerdict(t, told) \in Boxes /\ Boxed(t, told) \in Boxes
  BY DEF TradeVerdict, Boxed, Boxes
<1>1. ASSUME NEW v, FetchTrades(v) PROVE HistoryRest'
  <2>1. overlapped' \in BOOLEAN /\ UNCHANGED <<boxes, looks>>
    BY <1>1 DEF FetchTrades, HistoryRest
  <2> QED
    BY <2>1 DEF HistoryRest
<1>2. CASE Refreshes \/ SizeChanges \/ LoadsMore
  BY <1>1, <1>2 DEF Refreshes, SizeChanges, LoadsMore
<1>3. CASE FilterChanges \/ TradeMade \/ UNCHANGED historyVars
  BY <1>3 DEF FilterChanges, TradeMade, historyVars, HistoryRest
<1>4. CASE HistoryLooks
  <2>1. looks' = TRUE /\ UNCHANGED overlapped
    BY <1>4 DEF HistoryLooks
  <2>2. PICK told \in BOOLEAN :
          boxes' = [t \in PastTrades |-> IF boxes[t] = "none" THEN Boxed(t, told) ELSE boxes[t]]
    BY <1>4 DEF HistoryLooks
  <2>3. boxes' \in [PastTrades -> Boxes]
    BY <1>0, <2>2 DEF HistoryRest
  <2> QED
    BY <2>1, <2>3 DEF HistoryRest
<1>5. ASSUME NEW s \in Slots, HistoryAnswered(s) \/ TradesHeard(s) \/ TradesRefused(s) PROVE HistoryRest'
  BY <1>5 DEF HistoryAnswered, TradesHeard, TradesRefused, HistoryRest
<1>6. ASSUME NEW t \in PastTrades, RowDrawn(t) PROVE HistoryRest'
  <2>1. UNCHANGED <<looks, overlapped>>
    BY <1>6 DEF RowDrawn
  <2>2. PICK told \in BOOLEAN : boxes' = [boxes EXCEPT ![t] = IF looks THEN Boxed(t, told) ELSE "none"]
    BY <1>6 DEF RowDrawn
  <2>3. boxes' \in [PastTrades -> Boxes]
    BY <1>0, <2>2 DEF HistoryRest, Boxes
  <2> QED
    BY <2>1, <2>3 DEF HistoryRest
<1> QED
  BY <1>2, <1>3, <1>4, <1>5, <1>6 DEF HistoryNext

\* Every variable of both views of the past trades keeps its type.
THEOREM HistoryKeepsTypes == HistorySpec => []HistoryTypeOK
<1>1. HistoryInductive /\ HistoryRest => HistoryTypeOK
  BY DEF HistoryInductive, HistoryTypes, HistoryViews, AskRecords, HistoryRest, Boxes, HistoryTypeOK
<1> QED
  BY <1>1, HistoryBegins, HistoryStep, HistoryRestBegins, HistoryRestStep, PTL DEF HistorySpec

-----------------------------------------------------------------------------

(***************************************************************************)
(* Types of CSFloat's sell page: what is still to come is counted, so that *)
(* no counter leaves its bound.                                            *)
(***************************************************************************)
SaleEntries ==
  [item : Owned, price : [of : SUBSET Owned, percentage : Percentages \cup {0}], priced : BOOLEAN]
PollRecords == [of : Owned, use : SellSettings, left : 0..MaxPolls]
SellCards ==
  [drawn : BOOLEAN, tries : SUBSET (0..MaxMatches), line : SUBSET Owned, bound : BOOLEAN]

\* Every answer to come was asked for by an arrival the extension took in.
ArrivalsNoticed ==
  /\ site \in [selling : BOOLEAN, visits : 0..MaxSellVisits, toolbar : BOOLEAN]
  /\ noticed \in [selling : BOOLEAN, due : BOOLEAN]
  /\ fetching \in Nat
  /\ fetching + (IF noticed.selling # site.selling THEN 1 ELSE 0) <= site.visits + 1

SaleRest ==
  /\ adding \in Seq(Owned) /\ sale \in Seq(SaleEntries) /\ polls \in Seq(PollRecords)
  /\ counts \in [clicks : 0..MaxClicks, saves : 0..MaxSaves]

PanelOfSell == sellSettings \in SellSettings /\ sellPanel \in {"none", "waiting", "mounted"}

SellRest ==
  ArrivalsNoticed /\ SaleRest /\ PanelOfSell /\ sellCards \in [Owned -> SellCards]

LEMMA SellBounds ==
  /\ MaxMatches \in Nat /\ MaxPolls \in Nat /\ MaxSellVisits \in Nat /\ MaxClicks \in Nat
  /\ MaxSaves \in Nat /\ 100 \in Percentages
BY SellAssumption

LEMMA SellRestBegins == SellInit => SellRest
<1> SUFFICES ASSUME SellInit PROVE SellRest
  OBVIOUS
<1>1. PICK selling \in BOOLEAN :
       /\ site = [selling |-> selling, visits |-> 0, toolbar |-> FALSE]
       /\ noticed = [selling |-> selling, due |-> FALSE]
       /\ fetching = IF selling THEN 1 ELSE 0
       /\ sellPanel = IF selling THEN "waiting" ELSE "none"
  BY DEF SellInit
<1>2. ArrivalsNoticed
  BY <1>1, SellBounds DEF ArrivalsNoticed
<1>3. SaleRest
  BY SellBounds DEF SellInit, SaleRest
<1>4. PanelOfSell
  BY <1>1, SellBounds DEF SellInit, PanelOfSell, SellSettings
<1>5. sellCards \in [Owned -> SellCards]
  BY DEF SellInit, NoCard, SellCards
<1> QED
  BY <1>2, <1>3, <1>4, <1>5 DEF SellRest

\* A card is looked for no more often than it may.
LEMMA MatchedCard ==
  ASSUME NEW stock \in {<<>>, Inventory}, NEW card \in Owned, NEW c \in SellCards,
         NEW left \in 0..(MaxMatches + 1)
  PROVE  Matched(c, card, stock, left) \in SellCards
<1> DEFINE again == [c EXCEPT !.tries = @ \cup TriesLeft(left)]
           found == {i \in Found(stock, card) : Reference[i] > 0}
           lined == [c EXCEPT !.line = found, !.bound = TRUE]
<1>1. TriesLeft(left) \subseteq 0..MaxMatches
  BY SellBounds DEF TriesLeft
<1>2. again \in SellCards
  BY <1>1 DEF SellCards
<1>3. found \subseteq Owned
  BY FoundIsWorthTheSame
<1> HIDE DEF found
<1>4. lined \in SellCards
  BY <1>3 DEF SellCards
<1>5. Matched(c, card, stock, left) \in {c, again, lined}
  BY DEF Matched, found
<1> QED
  BY <1>2, <1>4, <1>5

LEMMA MatchedCards ==
  ASSUME sellCards \in [Owned -> SellCards], NEW stock \in {<<>>, Inventory}
  PROVE  AllMatched(stock) \in [Owned -> SellCards]
<1>1. MaxMatches + 1 \in 0..(MaxMatches + 1)
  BY SellBounds
<1>2. \A i \in Owned : Matched(sellCards[i], i, stock, MaxMatches + 1) \in SellCards
  BY <1>1, MatchedCard
<1> QED
  BY <1>2 DEF AllMatched

LEMMA CardStepsRest ==
  ASSUME SellRest, inventoryItems \in {<<>>, Inventory},
         InventoryHeard \/ InventoryFetched \/ InventoryFails \/ CardDrawn \/ TryAgain \/ PassAfterRoute
  PROVE  SellRest'
<1>0. sellCards \in [Owned -> SellCards] /\ ArrivalsNoticed /\ SaleRest /\ PanelOfSell
  BY DEF SellRest
<1>1. SaleRest' /\ PanelOfSell'
  <2>1. UNCHANGED <<queueVars, counts, sellSettings, sellPanel>>
    BY DEF InventoryHeard, InventoryFetched, InventoryFails, CardDrawn, TryAgain, PassAfterRoute
  <2> QED
    BY <1>0, <2>1 DEF SaleRest, PanelOfSell, queueVars
<1>2. ArrivalsNoticed'
  <2>1. CASE InventoryHeard \/ CardDrawn \/ TryAgain
    BY <1>0, <2>1 DEF InventoryHeard, CardDrawn, TryAgain, ArrivalsNoticed
  <2>2. CASE InventoryFetched \/ InventoryFails
    <3>1. fetching > 0 /\ fetching' = fetching - 1 /\ UNCHANGED <<site, noticed>>
      BY <2>2 DEF InventoryFetched, InventoryFails
    <3> QED
      BY <1>0, <3>1 DEF ArrivalsNoticed
  <2>3. CASE PassAfterRoute
    <3>1. noticed' = [noticed EXCEPT !.due = FALSE] /\ UNCHANGED <<site, fetching>>
      BY <2>3 DEF PassAfterRoute
    <3>2. noticed' \in [selling : BOOLEAN, due : BOOLEAN] /\ noticed'.selling = noticed.selling
      BY <1>0, <3>1 DEF ArrivalsNoticed
    <3> QED
      BY <1>0, <3>1, <3>2 DEF ArrivalsNoticed
  <2> QED
    BY <2>1, <2>2, <2>3
<1>3. sellCards' \in [Owned -> SellCards]
  <2>1. CASE InventoryHeard \/ InventoryFails
    BY <1>0, <2>1 DEF InventoryHeard, InventoryFails
  <2>2. CASE InventoryFetched \/ PassAfterRoute
    BY <1>0, <2>2, MatchedCards DEF InventoryFetched, PassAfterRoute
  <2>3. CASE CardDrawn
    <3>1. PICK i \in Owned : sellCards' =
            [sellCards EXCEPT ![i] =
               Matched([sellCards[i] EXCEPT !.drawn = TRUE], i, inventoryItems, MaxMatches + 1)]
      BY <2>3 DEF CardDrawn
    <3>5. sellCards[i] \in SellCards
      BY <1>0
    <3>2. [sellCards[i] EXCEPT !.drawn = TRUE] \in SellCards
      BY <3>5 DEF SellCards
    <3>3. MaxMatches + 1 \in 0..(MaxMatches + 1)
      BY SellBounds
    <3>4. Matched([sellCards[i] EXCEPT !.drawn = TRUE], i, inventoryItems, MaxMatches + 1) \in SellCards
      BY <3>2, <3>3, MatchedCard
    <3> QED
      BY <1>0, <3>1, <3>4
  <2>4. CASE TryAgain
    <3>1. PICK i \in Owned : \E left \in sellCards[i].tries : sellCards' =
            [sellCards EXCEPT ![i] =
               Matched([sellCards[i] EXCEPT !.tries = @ \ {left}], i, inventoryItems, left)]
      BY <2>4 DEF TryAgain
    <3>2. PICK left \in sellCards[i].tries : sellCards' =
            [sellCards EXCEPT ![i] =
               Matched([sellCards[i] EXCEPT !.tries = @ \ {left}], i, inventoryItems, left)]
      BY <3>1
    <3>6. sellCards[i] \in SellCards
      BY <1>0
    <3>7. [sellCards[i] EXCEPT !.tries = @ \ {left}] \in SellCards
      BY <3>6 DEF SellCards
    <3>8. left \in 0..MaxMatches
      BY <3>6 DEF SellCards
    <3>3. [sellCards[i] EXCEPT !.tries = @ \ {left}] \in SellCards /\ left \in 0..MaxMatches
      BY <3>7, <3>8
    <3>4. left \in 0..(MaxMatches + 1)
      BY <3>3, SellBounds
    <3>5. Matched([sellCards[i] EXCEPT !.tries = @ \ {left}], i, inventoryItems, left) \in SellCards
      BY <3>3, <3>4, MatchedCard
    <3> QED
      BY <1>0, <3>2, <3>5
  <2> QED
    BY <2>1, <2>2, <2>3, <2>4
<1> QED
  BY <1>1, <1>2, <1>3 DEF SellRest

LEMMA RouteStepsRest ==
  ASSUME SellRest, Navigates \/ AddressNoticed \/ ToolbarDrawn \/ PanelMounts \/ SavesSettings
  PROVE  SellRest'
<1>0. sellCards \in [Owned -> SellCards] /\ ArrivalsNoticed /\ SaleRest /\ PanelOfSell
  BY DEF SellRest
<1>1. CASE Navigates
  <2>1. /\ site.visits < MaxSellVisits /\ UNCHANGED <<noticed, fetching, sellSettings, polls, counts>>
        /\ site' = [selling |-> ~site.selling, visits |-> site.visits + 1, toolbar |-> FALSE]
        /\ adding' = <<>> /\ sale' = <<>> /\ sellCards' = [i \in Owned |-> NoCard]
        /\ sellPanel' = IF sellPanel = "mounted" THEN "none" ELSE sellPanel
    BY <1>1 DEF Navigates
  <2>2. ArrivalsNoticed'
    BY <1>0, <2>1, SellBounds DEF ArrivalsNoticed
  <2>3. SaleRest' /\ PanelOfSell'
    BY <1>0, <2>1 DEF SaleRest, PanelOfSell
  <2>4. sellCards' \in [Owned -> SellCards]
    BY <2>1 DEF NoCard, SellCards
  <2> QED
    BY <2>2, <2>3, <2>4 DEF SellRest
<1>2. CASE AddressNoticed
  <2>1. /\ noticed.selling # site.selling /\ UNCHANGED <<site, sellCards, sellSettings, queueVars, counts>>
        /\ noticed' = [selling |-> site.selling, due |-> TRUE]
        /\ fetching' = IF site.selling THEN fetching + 1 ELSE fetching
        /\ sellPanel' \in {sellPanel, "waiting"}
    BY <1>2 DEF AddressNoticed
  <2>2. ArrivalsNoticed'
    BY <1>0, <2>1 DEF ArrivalsNoticed
  <2>3. SaleRest' /\ PanelOfSell'
    BY <1>0, <2>1 DEF SaleRest, PanelOfSell, queueVars
  <2> QED
    BY <1>0, <2>1, <2>2, <2>3 DEF SellRest
<1>3. CASE ToolbarDrawn
  <2>1. /\ site' = [site EXCEPT !.toolbar = TRUE]
        /\ UNCHANGED <<noticed, fetching, sellCards, sellSettings, sellPanel, queueVars, counts>>
    BY <1>3 DEF ToolbarDrawn
  <2>2. /\ site' \in [selling : BOOLEAN, visits : 0..MaxSellVisits, toolbar : BOOLEAN]
        /\ site'.selling = site.selling /\ site'.visits = site.visits
    BY <1>0, <2>1 DEF ArrivalsNoticed
  <2>3. ArrivalsNoticed'
    BY <1>0, <2>1, <2>2 DEF ArrivalsNoticed
  <2> QED
    BY <1>0, <2>1, <2>3 DEF SellRest, SaleRest, PanelOfSell, queueVars
<1>4. CASE PanelMounts
  BY <1>0, <1>4 DEF PanelMounts, SellRest, ArrivalsNoticed, SaleRest, PanelOfSell, pageVars, queueVars
<1>5. CASE SavesSettings
  <2>1. /\ counts.saves < MaxSaves /\ counts' = [counts EXCEPT !.saves = @ + 1]
        /\ sellSettings' \in SellSettings /\ UNCHANGED <<pageVars, sellPanel, queueVars>>
    BY <1>5 DEF SavesSettings
  <2>2. counts' \in [clicks : 0..MaxClicks, saves : 0..MaxSaves]
    <3>1. counts \in [clicks : 0..MaxClicks, saves : 0..MaxSaves]
      BY <1>0 DEF SaleRest
    <3>2. counts.saves + 1 \in 0..MaxSaves
      BY <2>1, <3>1, SellBounds
    <3> QED
      BY <2>1, <3>1, <3>2
  <2> QED
    BY <1>0, <2>1, <2>2 DEF SellRest, ArrivalsNoticed, SaleRest, PanelOfSell, pageVars, queueVars
<1> QED
  BY <1>1, <1>2, <1>3, <1>4, <1>5

\* A turn of a poll fills in the last item or comes again.
LEMMA TurnRests ==
  ASSUME sale \in Seq(SaleEntries), NEW poll \in PollRecords, NEW others \in Seq(PollRecords),
         Polled(sale, poll, others)
  PROVE  sale' \in Seq(SaleEntries) /\ polls' \in Seq(PollRecords)
<1>1. CASE sale = <<>> \/ (sale # <<>> /\ Last(sale).priced)
  <2>1. /\ polls' = IF poll.left = 0 THEN others ELSE Append(others, [poll EXCEPT !.left = @ - 1])
        /\ UNCHANGED sale
    BY <1>1 DEF Polled
  <2>2. poll.left # 0 => [poll EXCEPT !.left = @ - 1] \in PollRecords
    <3>1. poll.left # 0 => poll.left - 1 \in 0..MaxPolls
      BY SellBounds DEF PollRecords
    <3> QED
      BY <3>1 DEF PollRecords
  <2>3. poll.left # 0 => Append(others, [poll EXCEPT !.left = @ - 1]) \in Seq(PollRecords)
    BY <2>2, AppendProperties
  <2> QED
    BY <2>1, <2>3
<1>2. CASE ~(sale = <<>> \/ (sale # <<>> /\ Last(sale).priced))
  <2>1. polls' = others /\ sale' = Append(Front(sale), Filled(Last(sale), poll)) /\ sale # <<>>
    BY <1>2 DEF Polled
  <2>2. Len(sale) \in Nat /\ Len(sale) # 0 /\ \A i \in 1..Len(sale) : sale[i] \in SaleEntries
    BY <2>1, EmptySeq, LenProperties
  <2>3. Last(sale) \in SaleEntries
    BY <2>2 DEF Last
  <2>4. Front(sale) \in Seq(SaleEntries)
    BY <2>2, SubSeqProperties DEF Front
  <2> DEFINE entry == Last(sale)
             price == IF poll.use.active THEN [of |-> {poll.of}, percentage |-> poll.use.percentage]
                      ELSE entry.price
  <2>5. price \in [of : SUBSET Owned, percentage : Percentages \cup {0}]
    BY <2>3 DEF PollRecords, SellSettings, SaleEntries
  <2>6. Filled(entry, poll) = [entry EXCEPT !.priced = TRUE, !.price = price]
    BY DEF Filled
  <2> HIDE DEF price, entry
  <2>7. Filled(entry, poll) \in SaleEntries
    BY <2>3, <2>5, <2>6 DEF SaleEntries, entry
  <2> QED
    BY <2>1, <2>4, <2>7, AppendProperties DEF entry
<1> QED
  BY <1>1, <1>2

LEMMA EntriesGo ==
  ASSUME NEW S, NEW s \in Seq(S), NEW k \in DOMAIN s
  PROVE  RemoveAt(s, k) \in Seq(S)
<1>1. Len(s) \in Nat /\ k \in 1..Len(s) /\ \A i \in 1..Len(s) : s[i] \in S
  BY LenProperties
<1>2. SubSeq(s, 1, k - 1) \in Seq(S) /\ SubSeq(s, k + 1, Len(s)) \in Seq(S)
  BY <1>1, SubSeqProperties
<1> QED
  BY <1>2, ConcatProperties DEF RemoveAt

LEMMA SaleStepsRest ==
  ASSUME SellRest, ClicksSell \/ PollTurn \/ ItemAdded \/ UserTypes \/ UserRemoves
  PROVE  SellRest'
<1>0. sellCards \in [Owned -> SellCards] /\ ArrivalsNoticed /\ SaleRest /\ PanelOfSell
  BY DEF SellRest
<1>1. ArrivalsNoticed' /\ PanelOfSell' /\ sellCards' \in [Owned -> SellCards]
  <2>1. UNCHANGED <<pageVars, sellSettings, sellPanel>>
    BY DEF ClicksSell, PollTurn, ItemAdded, UserTypes, UserRemoves
  <2> QED
    BY <1>0, <2>1 DEF ArrivalsNoticed, PanelOfSell, pageVars
<1>2. SaleRest'
  <2>0. adding \in Seq(Owned) /\ sale \in Seq(SaleEntries) /\ polls \in Seq(PollRecords)
        /\ counts \in [clicks : 0..MaxClicks, saves : 0..MaxSaves]
    BY <1>0 DEF SaleRest
  <2>1. CASE ClicksSell
    <3>1. counts' \in [clicks : 0..MaxClicks, saves : 0..MaxSaves]
      <4>1. counts.clicks < MaxClicks /\ counts' = [counts EXCEPT !.clicks = @ + 1]
        BY <2>1 DEF ClicksSell
      <4>2. counts.clicks + 1 \in 0..MaxClicks
        BY <2>0, <4>1, SellBounds
      <4> QED
        BY <2>0, <4>1, <4>2
    <3>2. PICK i \in Owned :
       /\ adding' = Append(adding, i)
       /\ IF sellCards[i].bound /\ sellCards[i].line # {}
            THEN Polled(sale, [of |-> CHOOSE l \in sellCards[i].line : TRUE, use |-> sellSettings,
                               left |-> MaxPolls], polls)
            ELSE UNCHANGED <<sale, polls>>
      BY <2>1 DEF ClicksSell
    <3> DEFINE poll == [of |-> CHOOSE l \in sellCards[i].line : TRUE, use |-> sellSettings,
                        left |-> MaxPolls]
    <3>3. sellCards[i].line # {} => poll \in PollRecords
      <4>1. sellCards[i].line \subseteq Owned
        BY <1>0 DEF SellCards
      <4>2. sellCards[i].line # {} => (CHOOSE l \in sellCards[i].line : TRUE) \in Owned
        BY <4>1
      <4> QED
        BY <1>0, <4>2, SellBounds DEF PollRecords, PanelOfSell
    <3>4. (Polled(sale, poll, polls) /\ sellCards[i].line # {}) \/ UNCHANGED <<sale, polls>>
      BY <3>2
    <3> HIDE DEF poll
    <3>5. sale' \in Seq(SaleEntries) /\ polls' \in Seq(PollRecords)
      BY <2>0, <3>3, <3>4, TurnRests
    <3>6. adding' \in Seq(Owned)
      BY <2>0, <3>2, AppendProperties
    <3> QED
      BY <3>1, <3>5, <3>6 DEF SaleRest
  <2>2. CASE PollTurn
    <3>1. polls # <<>> /\ Polled(sale, Head(polls), Tail(polls)) /\ UNCHANGED <<adding, counts>>
      BY <2>2 DEF PollTurn
    <3>2. Head(polls) \in PollRecords /\ Tail(polls) \in Seq(PollRecords)
      BY <2>0, <3>1, HeadTailProperties
    <3>3. sale' \in Seq(SaleEntries) /\ polls' \in Seq(PollRecords)
      BY <2>0, <3>1, <3>2, TurnRests
    <3> QED
      BY <2>0, <3>1, <3>3 DEF SaleRest
  <2>3. CASE ItemAdded
    <3> DEFINE entry == [item |-> Head(adding), price |-> Untyped, priced |-> FALSE]
    <3>1. adding # <<>> /\ adding' = Tail(adding) /\ sale' = Append(sale, entry) /\ UNCHANGED <<polls, counts>>
      BY <2>3 DEF ItemAdded
    <3>2. Head(adding) \in Owned /\ Tail(adding) \in Seq(Owned)
      BY <2>0, <3>1, HeadTailProperties
    <3>3. entry \in SaleEntries
      BY <3>2 DEF SaleEntries, Untyped
    <3> HIDE DEF entry
    <3>4. sale' \in Seq(SaleEntries)
      BY <2>0, <3>1, <3>3, AppendProperties
    <3> QED
      BY <2>0, <3>1, <3>2, <3>4 DEF SaleRest
  <2>4. CASE UserTypes
    <3>1. PICK k \in DOMAIN sale : sale' = [sale EXCEPT ![k].price = TypedPrice]
      BY <2>4 DEF UserTypes
    <3>2. k \in 1..Len(sale) /\ sale[k] \in SaleEntries
      BY <2>0, LenProperties
    <3>3. [sale[k] EXCEPT !.price = TypedPrice] \in SaleEntries
      BY <3>2, SellBounds DEF SaleEntries, TypedPrice
    <3>4. sale' = [sale EXCEPT ![k] = [sale[k] EXCEPT !.price = TypedPrice]]
      BY <3>1
    <3>5. sale' \in Seq(SaleEntries)
      BY <2>0, <3>2, <3>3, <3>4, ExceptSeq
    <3>6. UNCHANGED <<adding, polls, counts>>
      BY <2>4 DEF UserTypes
    <3> QED
      BY <2>0, <3>5, <3>6 DEF SaleRest
  <2>5. CASE UserRemoves
    <3>1. sale' \in Seq(SaleEntries) /\ UNCHANGED <<adding, polls, counts>>
      BY <2>0, <2>5, EntriesGo DEF UserRemoves
    <3> QED
      BY <2>0, <3>1 DEF SaleRest
  <2> QED
    BY <2>1, <2>2, <2>3, <2>4, <2>5
<1> QED
  BY <1>1, <1>2 DEF SellRest

LEMMA SellRestStep == SellInductive /\ SellRest /\ [SellNext]_sellVars => SellRest'
<1> SUFFICES ASSUME SellInductive, SellRest, [SellNext]_sellVars PROVE SellRest'
  OBVIOUS
<1>1. inventoryItems \in {<<>>, Inventory}
  BY DEF SellInductive
<1>2. CASE UNCHANGED sellVars
  BY <1>2 DEF sellVars, SellRest, ArrivalsNoticed, SaleRest, PanelOfSell
<1> QED
  BY <1>1, <1>2, CardStepsRest, RouteStepsRest, SaleStepsRest DEF SellNext

\* Every variable of the sell page keeps its type: no more answers are to come than arrivals asked
\* for, and no try or poll goes on longer than it may.
THEOREM SellKeepsTypes == SellSpec => []SellTypeOK
<1>1. SellInductive /\ SellRest => SellTypeOK
  <2> SUFFICES ASSUME SellInductive, SellRest PROVE SellTypeOK
    OBVIOUS
  <2>1. fetching \in 0..(MaxSellVisits + 1)
    BY SellBounds DEF SellRest, ArrivalsNoticed
  <2>2. ToSet(adding) \subseteq Owned
    BY LenProperties DEF SellRest, SaleRest, ToSet
  <2>5. (\A i \in DOMAIN sale : sale[i] \in SaleEntries) /\ \A i \in DOMAIN polls : polls[i] \in PollRecords
    BY LenProperties DEF SellRest, SaleRest
  <2>3. \A i \in DOMAIN sale : sale[i].item \in Owned
    BY <2>5 DEF SaleEntries
  <2>4. \A i \in DOMAIN polls : polls[i] \in [of : Owned, use : SellSettings, left : 0..MaxPolls]
    BY <2>5 DEF PollRecords
  <2> QED
    BY <2>1, <2>2, <2>3, <2>4
    DEF SellInductive, SellRest, ArrivalsNoticed, SaleRest, PanelOfSell, SellCards, SellTypeOK
<1> QED
  BY <1>1, SellBegins, SellStep, SellRestBegins, SellRestStep, PTL DEF SellSpec

-----------------------------------------------------------------------------

(***************************************************************************)
(* Types of the price engine: what it makes of any copy of the stored      *)
(* prices is a price of a row and of a source, or none.                    *)
(***************************************************************************)
CopyRecords == [settings : Selections, filled : BOOLEAN, loaded : BOOLEAN]
StoredPrices == book \in [Rows -> SUBSET SourceSet] /\ rated \subseteq MoneyOf
CopyAndReads ==
  /\ copy \in CopyRecords
  /\ loads \in Seq([pc : {"asked", "failed", "read"}, got : Selections \cup {Unset}])
\* Every change the page has to hear of was made.
ChangesMade ==
  /\ wanted \in Selections \cup {Unset}
  /\ switches \in 0..MaxSwitches /\ unheard \in 0..switches

EngineRest ==
  /\ StoredPrices /\ CopyAndReads /\ ChangesMade
  /\ page \in PageRecords
  /\ items \in [Tags -> Label] /\ labels \in [Tags -> Label]
  /\ missed \in BOOLEAN /\ lostRead \in BOOLEAN

LEMMA FirstSource == Head(PriceSources) \in SourceSet /\ "USD" \in MoneyOf /\ MaxSwitches \in Nat
<1>1. PriceSources \in Seq(STRING) /\ PriceSources # <<>> /\ "USD" \in MoneyOf /\ MaxSwitches \in Nat
  BY EngineAssumption
<1>2. 1 \in DOMAIN PriceSources /\ Head(PriceSources) = PriceSources[1]
  BY <1>1
<1> QED
  BY <1>1, <1>2 DEF SourceSet, ToSet

LEMMA DefaultIsOffered == Default \in Selections
BY FirstSource DEF Default, Selections

LEMMA EarliestIsOne ==
  ASSUME NEW S, NEW seq \in Seq(S), NEW these, \E k \in DOMAIN seq : seq[k] \in these
  PROVE  Earliest(seq, these) \in these /\ \E k \in DOMAIN seq : Earliest(seq, these) = seq[k]
<1> DEFINE P == {k \in DOMAIN seq : seq[k] \in these}
           Right(k) == seq[k] \in these /\ \A h \in 1..(k - 1) : seq[h] \notin these
<1>1. Len(seq) \in Nat /\ DOMAIN seq = 1..Len(seq)
  BY LenProperties
<1>2. P # {} /\ P \in SUBSET Nat
  BY <1>1
<1>3. PICK m \in P : \A h \in P : m <= h
  BY <1>2, LeastNumber
<1>4. \A h \in 1..(m - 1) : h \notin P
  BY <1>1, <1>3
<1>5. \A h \in 1..(m - 1) : h \in DOMAIN seq
  BY <1>1
<1>6. m \in DOMAIN seq /\ Right(m)
  BY <1>4, <1>5
<1> DEFINE c == CHOOSE k \in DOMAIN seq : Right(k)
<1>7. c \in DOMAIN seq /\ Right(c)
  BY <1>6
<1>8. Earliest(seq, these) = seq[c]
  BY DEF Earliest
<1> QED
  BY <1>7, <1>8

\* What the engine gives is a price of a row and of a source, or none.
LEMMA PricesAreOffered ==
  ASSUME StoredPrices, NEW e \in CopyRecords
  PROVE  Formatted(e) \in Label
<1> DEFINE source == e.settings.source
<1>1. source \in SourceSet /\ e.settings.currency \in MoneyOf /\ e.filled \in BOOLEAN
  BY DEF CopyRecords, Selections
<1>2. \A row \in Rows : Held(e, row) \subseteq SourceSet
  BY DEF Held, StoredPrices
<1>3. \A row \in Rows : \A s : OnlyPreferred(e, row, s) \in Prices \cup {NoPrice}
  BY <1>2 DEF OnlyPreferred, Prices
<1> HIDE DEF source
<1>4. PickPhase(e, "phase", source) \in Prices \cup {NoPrice}
  <2>0. "phase" \in Rows
    BY DEF Rows
  <2>1. CASE source \in Held(e, "phase") \/ Held(e, "phase") = {}
    BY <1>3, <2>0, <2>1 DEF PickPhase
  <2>2. CASE ~(source \in Held(e, "phase") \/ Held(e, "phase") = {})
    <3>1. PICK s \in Held(e, "phase") : TRUE
      BY <2>2
    <3>2. s \in SourceSet
      BY <1>2, <2>0, <3>1
    <3>3. \E k \in DOMAIN PriceSources : PriceSources[k] \in Held(e, "phase")
      BY <3>1, <3>2 DEF SourceSet, ToSet
    <3>4. Earliest(PriceSources, Held(e, "phase")) \in Held(e, "phase")
      BY <3>3, EngineAssumption, EarliestIsOne
    <3>5. Earliest(PriceSources, Held(e, "phase")) \in SourceSet
      BY <1>2, <2>0, <3>4
    <3> QED
      BY <2>0, <2>2, <3>5 DEF PickPhase, Prices
  <2> QED
    BY <2>1, <2>2
<1>5. GetPrice(e) \in Prices \cup {NoPrice}
  BY <1>3, <1>4 DEF GetPrice, source, Rows
<1>6. GetBuffPrices(e) \in Prices \cup {NoPrice}
  <2> DEFINE there == {r \in Rows : Held(e, r) # {}}
             rows == <<"phase", "exact", "base">>
  <2>1. CASE there = {}
    BY <2>1 DEF GetBuffPrices
  <2>2. CASE there # {}
    <3>1. rows \in Seq(Rows) /\ DOMAIN rows = 1..3 /\ rows[1] = "phase" /\ rows[2] = "exact" /\ rows[3] = "base"
      BY DEF Rows
    <3>2. \E k \in DOMAIN rows : rows[k] \in there
      BY <2>2, <3>1 DEF Rows
    <3> HIDE DEF rows, there
    <3>3. Earliest(rows, there) \in there
      BY <3>1, <3>2, EarliestIsOne
    <3>4. Earliest(rows, there) \in Rows
      BY <3>3 DEF there
    <3>5. GetBuffPrices(e) = OnlyPreferred(e, Earliest(rows, there), Head(PriceSources))
      BY <2>2 DEF GetBuffPrices, rows, there
    <3> QED
      BY <1>3, <3>4, <3>5
  <2> QED
    BY <2>1, <2>2
<1> QED
  BY <1>1, <1>5, <1>6 DEF Formatted, Label

LEMMA NothingIsALabel == NoLabel \in Label
BY FirstSource DEF NoLabel, Label

LEMMA EngineRestBegins == EngineInit => EngineRest
<1> SUFFICES ASSUME EngineInit PROVE EngineRest
  OBVIOUS
<1>1. StoredPrices
  BY DEF EngineInit, StoredPrices
<1>2. CopyAndReads
  <2> DEFINE Read == [pc : {"asked", "failed", "read"}, got : Selections \cup {Unset}]
  <2>1. loads = <<Asked>> /\ Asked \in Read
    BY DefaultIsOffered DEF EngineInit, Asked
  <2> HIDE DEF Read
  <2>2. loads \in Seq(Read)
    BY <2>1
  <2>3. copy \in CopyRecords
    BY DefaultIsOffered DEF EngineInit, CopyRecords
  <2> QED
    BY <2>2, <2>3 DEF CopyAndReads, Read
<1>3. ChangesMade
  <2>1. switches = 0 /\ unheard = 0 /\ wanted \in Selections \cup {Unset}
    BY DEF EngineInit
  <2>2. MaxSwitches \in Nat
    BY FirstSource
  <2>3. switches \in 0..MaxSwitches /\ unheard \in 0..switches
    BY <2>1, <2>2
  <2> QED
    BY <2>1, <2>3 DEF ChangesMade
<1>5. page \in PageRecords
  BY DEF EngineInit, PageRecords
<1>4. items \in [Tags -> Label] /\ labels \in [Tags -> Label]
  BY NothingIsALabel DEF EngineInit, Bare
<1> QED
  BY <1>1, <1>2, <1>3, <1>4, <1>5 DEF EngineRest, EngineInit

LEMMA EngineReadsRest ==
  ASSUME EngineRest, StorageAnswers PROVE EngineRest'
<1> DEFINE Read == [pc : {"asked", "failed", "read"}, got : Selections \cup {Unset}]
<1>1. PICK k \in DOMAIN loads :
        \E failed \in BOOLEAN :
          /\ loads' = [loads EXCEPT ![k] = [pc |-> IF failed THEN "failed" ELSE "read",
                                            got |-> wanted]]
          /\ lostRead' = (lostRead \/ failed)
  BY DEF StorageAnswers
<1>2. PICK failed \in BOOLEAN :
        /\ loads' = [loads EXCEPT ![k] = [pc |-> IF failed THEN "failed" ELSE "read", got |-> wanted]]
        /\ lostRead' = (lostRead \/ failed)
  BY <1>1
<1>3. [pc |-> IF failed THEN "failed" ELSE "read", got |-> wanted] \in Read
  BY DEF EngineRest, ChangesMade
<1>4. loads \in Seq(Read)
  BY DEF EngineRest, CopyAndReads
<1>5. loads' \in Seq(Read)
  BY <1>2, <1>3, <1>4, ExceptSeq
<1>6. UNCHANGED <<book, rated, wanted, switches, page, unheard, copy, items, labels, missed>>
  BY DEF StorageAnswers
<1> QED
  BY <1>2, <1>5, <1>6 DEF EngineRest, StoredPrices, CopyAndReads, ChangesMade

LEMMA EngineLoadRest ==
  ASSUME EngineRest, LoadEnds PROVE EngineRest'
<1> DEFINE Read == [pc : {"asked", "failed", "read"}, got : Selections \cup {Unset}]
<1>1. /\ loads # <<>> /\ copy' = AfterRead(Head(loads)) /\ loads' = Tail(loads)
      /\ items' = [i \in Tags |-> IF page.kind = "inventory" /\ items[i] # NoLabel
                                 THEN Formatted(copy') ELSE items[i]]
      /\ labels' = [i \in Tags |-> IF Labelled(i) THEN LabelFor(i, copy', items') ELSE NoLabel]
      /\ UNCHANGED <<book, rated, wanted, switches, unheard, missed, lostRead>>
  BY DEF LoadEnds
<1>2. loads \in Seq(Read) /\ copy \in CopyRecords
  BY DEF EngineRest, CopyAndReads
<1>3. Head(loads) \in Read /\ Tail(loads) \in Seq(Read)
  BY <1>1, <1>2, HeadTailProperties
<1>4. copy' \in CopyRecords
  <2>1. CASE Head(loads).pc = "failed"
    BY <1>1, <1>2, <2>1 DEF AfterRead, CopyRecords
  <2>2. CASE Head(loads).pc # "failed"
    <3>1. Picked(Head(loads).got) \in Selections
      BY <1>3, DefaultIsOffered DEF Picked
    <3> QED
      BY <1>1, <2>2, <3>1 DEF AfterRead, CopyRecords
  <2> QED
    BY <2>1, <2>2
<1>5. Formatted(copy') \in Label
  BY <1>4, PricesAreOffered DEF EngineRest
<1>6. items' \in [Tags -> Label]
  <2>1. \A i \in Tags : items[i] \in Label
    BY DEF EngineRest
  <2> HIDE DEF Read
  <2> QED
    BY <1>1, <1>5, <2>1
<1>7. labels' \in [Tags -> Label]
  <2>1. \A i \in Tags : items'[i] \in Label
    BY <1>6
  <2>2. \A i \in Tags : LabelFor(i, copy', items') \in Label
    BY <1>5, <2>1 DEF LabelFor
  <2> QED
    BY <1>1, <2>2, NothingIsALabel
<1>8. page' \in PageRecords
  BY DEF LoadEnds, EngineRest, PageRecords
<1>9. CopyAndReads' /\ StoredPrices' /\ ChangesMade'
  BY <1>1, <1>3, <1>4 DEF EngineRest, CopyAndReads, StoredPrices, ChangesMade
<1> QED
  BY <1>1, <1>6, <1>7, <1>8, <1>9 DEF EngineRest

LEMMA EngineChangesRest ==
  ASSUME EngineRest, ChangeIsHeard \/ SettingsSwitch \/ Listens PROVE EngineRest'
<1> DEFINE Read == [pc : {"asked", "failed", "read"}, got : Selections \cup {Unset}]
<1>1. UNCHANGED <<book, rated, items, labels, lostRead>> /\ missed' \in BOOLEAN
  BY DEF ChangeIsHeard, SettingsSwitch, Listens, EngineRest
<1>2. StoredPrices' /\ items' \in [Tags -> Label] /\ labels' \in [Tags -> Label] /\ lostRead' \in BOOLEAN
  BY <1>1 DEF EngineRest, StoredPrices
<1>3. page' \in PageRecords
  BY DEF ChangeIsHeard, SettingsSwitch, Listens, EngineRest, PageRecords
<1>4. ChangesMade'
  <2>0. switches \in 0..MaxSwitches /\ unheard \in 0..switches /\ MaxSwitches \in Nat
        /\ wanted \in Selections \cup {Unset}
    BY FirstSource DEF EngineRest, ChangesMade
  <2>1. CASE ChangeIsHeard
    <3>1. unheard > 0 /\ unheard' = unheard - 1 /\ UNCHANGED <<wanted, switches>>
      BY <2>1 DEF ChangeIsHeard
    <3> QED
      BY <2>0, <3>1 DEF ChangesMade
  <2>2. CASE SettingsSwitch
    <3>1. /\ switches < MaxSwitches /\ switches' = switches + 1 /\ unheard' = unheard + 1
          /\ wanted' \in Selections
      BY <2>2 DEF SettingsSwitch
    <3> QED
      BY <2>0, <3>1 DEF ChangesMade
  <2>3. CASE Listens
    BY <2>0, <2>3 DEF Listens, ChangesMade
  <2> QED
    BY <2>1, <2>2, <2>3
<1>5. CopyAndReads'
  <2>0. copy \in CopyRecords /\ loads \in Seq(Read)
    BY DEF EngineRest, CopyAndReads
  <2>1. CASE UNCHANGED <<copy, loads>>
    BY <2>0, <2>1 DEF CopyAndReads
  <2>2. CASE loads' = Reload /\ copy' = [copy EXCEPT !.loaded = FALSE]
    <3>1. Asked \in Read
      BY DefaultIsOffered DEF Asked
    <3>2. loads' \in Seq(Read)
      BY <2>0, <2>2, <3>1, AppendProperties DEF Reload
    <3>3. copy' \in CopyRecords
      BY <2>0, <2>2 DEF CopyRecords
    <3> QED
      BY <3>2, <3>3 DEF CopyAndReads
  <2> QED
    BY <2>1, <2>2 DEF ChangeIsHeard, SettingsSwitch, Listens
<1> QED
  BY <1>1, <1>2, <1>3, <1>4, <1>5 DEF EngineRest

LEMMA EngineDrawsRest ==
  ASSUME EngineRest, InventoryRead \/ \E i \in Tags : LabelDrawn(i) PROVE EngineRest'
<1>1. Formatted(copy) \in Label /\ NoLabel \in Label /\ (\A i \in Tags : items[i] \in Label)
  BY PricesAreOffered, NothingIsALabel DEF EngineRest, CopyAndReads
<1>2. UNCHANGED <<book, rated, wanted, switches, page, unheard, copy, loads, missed, lostRead>>
  BY DEF InventoryRead, LabelDrawn
<1>3. items' \in [Tags -> Label] /\ labels' \in [Tags -> Label]
  <2>1. CASE InventoryRead
    <3>1. PICK read \in SUBSET Tags \ {{}} :
            items' = [i \in Tags |-> IF i \in read THEN Formatted(copy) ELSE NoLabel]
      BY <2>1 DEF InventoryRead
    <3> QED
      BY <1>1, <2>1, <3>1 DEF InventoryRead, EngineRest
  <2>2. CASE \E i \in Tags : LabelDrawn(i)
    <3>1. PICK i \in Tags : LabelDrawn(i)
      BY <2>2
    <3>2. LabelFor(i, copy, items) \in Label
      BY <1>1 DEF LabelFor
    <3> QED
      BY <3>1, <3>2 DEF LabelDrawn, EngineRest
  <2> QED
    BY <2>1, <2>2
<1> QED
  BY <1>2, <1>3 DEF EngineRest, StoredPrices, CopyAndReads, ChangesMade

LEMMA EngineRestStep == EngineRest /\ [EngineNext]_engineVars => EngineRest'
<1> SUFFICES ASSUME EngineRest, [EngineNext]_engineVars PROVE EngineRest'
  OBVIOUS
<1>1. CASE UNCHANGED engineVars
  BY <1>1 DEF engineVars, EngineRest, StoredPrices, CopyAndReads, ChangesMade
<1> QED
  BY <1>1, EngineReadsRest, EngineLoadRest, EngineChangesRest, EngineDrawsRest DEF EngineNext

LEMMA EngineRestIsTyped == EngineRest => EngineTypeOK
<1> SUFFICES ASSUME EngineRest PROVE EngineTypeOK
  OBVIOUS
<1>1. switches \in 0..MaxSwitches /\ unheard \in 0..MaxSwitches
  BY FirstSource DEF EngineRest, ChangesMade
<1>2. \A i \in DOMAIN loads :
        loads[i] \in [pc : {"asked", "failed", "read"}, got : Selections \cup {Unset}]
  <2> DEFINE Read == [pc : {"asked", "failed", "read"}, got : Selections \cup {Unset}]
  <2>1. loads \in Seq(Read)
    BY DEF EngineRest, CopyAndReads
  <2> HIDE DEF Read
  <2>2. \A i \in DOMAIN loads : loads[i] \in Read
    BY <2>1, LenProperties
  <2> QED
    BY <2>2 DEF Read
<1> QED
  BY <1>1, <1>2 DEF EngineTypeOK, EngineRest, StoredPrices, CopyAndReads, ChangesMade, CopyRecords, PageRecords

\* Every variable of the price engine keeps its type, and every price it gives is one of a row and
\* of a source that has it.
THEOREM EngineKeepsTypes == EngineSpec => []EngineTypeOK
BY EngineRestBegins, EngineRestStep, EngineRestIsTyped, PTL DEF EngineSpec

-----------------------------------------------------------------------------

(***************************************************************************)
(* Types of the panel that sells the open item.                            *)
(***************************************************************************)
BlockRecords == [title : Titles \cup {NoGood}, about : Goods \cup {NoGood}]
ItemPanels ==
  {NoPanel} \cup [at : Places, good : Goods, prices : {"blocked", "none", "loading", "priced"}]

LEMMA AnchorsShowItems ==
  ASSUME SellPanelTypeOK, NEW p \in Anchors
  PROVE  p \in Places /\ places[p].good \in Goods /\ About(p) \in Goods \cup {NoGood}
<1>1. p \in Places /\ places[p].marks # {}
  BY DEF Anchors, Bearing
<1>2. places[p] \in Views
  BY <1>1 DEF SellPanelTypeOK, Empty
<1>3. places[p].good \in Goods
  BY <1>2 DEF Views
<1>4. listed \subseteq Goods
  BY DEF SellPanelTypeOK
<1>5. About(p) \in Goods \cup {NoGood}
  <2>1. CASE "inspect" \in places[p].marks
    BY <1>3, <2>1 DEF About
  <2>2. CASE "inspect" \notin places[p].marks /\ \E g \in listed : Namesakes(p) = {g}
    BY <1>4, <2>2 DEF About
  <2>3. CASE "inspect" \notin places[p].marks /\ ~\E g \in listed : Namesakes(p) = {g}
    BY <2>3 DEF About
  <2> QED
    BY <2>1, <2>2, <2>3
<1> QED
  BY <1>1, <1>3, <1>5

LEMMA InjectingKeepsTypes ==
  ASSUME SellPanelTypeOK, Inject
  PROVE  blocks' \in [Places -> BlockRecords] /\ itemPanel' \in ItemPanels
<1>1. NoBlock \in BlockRecords
  BY DEF NoBlock, BlockRecords
<1>2. \A p \in Anchors : [title |-> TitleOf[places[p].good], about |-> About(p)] \in BlockRecords
  BY AnchorsShowItems DEF BlockRecords, Titles
<1>3. blocks' \in [Places -> BlockRecords]
  BY <1>1, <1>2 DEF Inject, BlocksBeside
<1>4. CASE SellableAt # {}
  <2>1. SellPlace \in Anchors /\ About(SellPlace) # NoGood
    BY <1>4, SellPlaceIsAnAnchor
  <2>2. SellPlace \in Places /\ About(SellPlace) \in Goods
    BY <2>1, AnchorsShowItems
  <2>3. itemPanel' \in PanelsFor(SellPlace)
    BY <1>4 DEF Inject
  <2>4. PICK pr \in {"blocked", "priced", "none", "loading"} :
          itemPanel' = [at |-> SellPlace, good |-> About(SellPlace), prices |-> pr]
    BY <2>3 DEF PanelsFor
  <2> QED
    BY <1>3, <2>2, <2>4 DEF ItemPanels
<1>5. CASE SellableAt = {}
  BY <1>3, <1>5 DEF Inject, PanelWhenCleared, ItemPanels
<1> QED
  BY <1>4, <1>5

LEMMA RetryingKeepsTypes ==
  ASSUME SellPanelTypeOK, NEW rest \in SUBSET Delays, NEW next \in SUBSET Delays,
         InjectOrRetry(rest, next)
  PROVE  blocks' \in [Places -> BlockRecords] /\ itemPanel' \in ItemPanels /\ backoff' \subseteq Delays
<1>1. CASE Anchors = {}
  BY <1>1 DEF InjectOrRetry, SellPanelTypeOK, BlockRecords, ItemPanels
<1>2. CASE Anchors # {}
  BY <1>2, InjectingKeepsTypes DEF InjectOrRetry
<1> QED
  BY <1>1, <1>2

LEMMA FirstDelay == 1 \in Delays /\ MaxShows \in Nat /\ MaxLists \in Nat
BY SellPanelAssumption DEF Delays

LEMMA SellPanelTypesBegin == SellPanelInit => SellPanelTypeOK
<1> SUFFICES ASSUME SellPanelInit PROVE SellPanelTypeOK
  OBVIOUS
<1>1. places \in [Places -> {Empty} \cup Views]
  BY DEF SellPanelInit
<1>2. blocks \in [Places -> [title : Titles \cup {NoGood}, about : Goods \cup {NoGood}]]
  BY DEF SellPanelInit, NoBlock
<1>3. backoff \subseteq Delays /\ shows \in 0..MaxShows /\ lists \in 0..MaxLists
  BY FirstDelay DEF SellPanelInit
<1> QED
  BY <1>1, <1>2, <1>3 DEF SellPanelInit, SellPanelTypeOK

LEMMA SellPanelTypesStep == SellPanelTypeOK /\ [SellPanelNext]_sellPanelVars => SellPanelTypeOK'
<1> SUFFICES ASSUME SellPanelTypeOK, [SellPanelNext]_sellPanelVars PROVE SellPanelTypeOK'
  OBVIOUS
<1> DEFINE InjectedOK == blocks' \in [Places -> BlockRecords] /\ itemPanel' \in ItemPanels
                         /\ backoff' \subseteq Delays
<1>0. /\ places \in [Places -> {Empty} \cup Views] /\ listed \subseteq Goods /\ frame \in BOOLEAN
      /\ clickTimers \subseteq {"lookup", "details"}
      /\ shows \in 0..MaxShows /\ lists \in 0..MaxLists
      /\ blocks \in [Places -> BlockRecords] /\ itemPanel \in ItemPanels /\ backoff \subseteq Delays
  BY DEF SellPanelTypeOK, BlockRecords, ItemPanels
<1>1. CASE FrameRuns \/ LookupTimer \/ \E k \in Delays : Retry(k)
  <2>1. InjectedOK
    <3>1. CASE FrameRuns \/ LookupTimer
      <4>1. InjectOrRetry(backoff, {1})
        BY <3>1 DEF FrameRuns, LookupTimer
      <4> QED
        BY <1>0, <4>1, FirstDelay, RetryingKeepsTypes
    <3>2. CASE \E k \in Delays : Retry(k)
      <4>1. PICK k \in Delays : InjectOrRetry(backoff \ {k}, {k + 1} \cap Delays)
        BY <3>2 DEF Retry
      <4>2. backoff \ {k} \in SUBSET Delays /\ {k + 1} \cap Delays \in SUBSET Delays
        BY <1>0
      <4> QED
        BY <4>1, <4>2, RetryingKeepsTypes
    <3> QED
      BY <1>1, <3>1, <3>2
  <2>2. /\ UNCHANGED <<places, listed, shows, lists>> /\ frame' \in BOOLEAN
        /\ clickTimers' \subseteq clickTimers
    BY <1>0, <1>1 DEF FrameRuns, LookupTimer, Retry
  <2> QED
    BY <1>0, <2>1, <2>2 DEF SellPanelTypeOK, BlockRecords, ItemPanels
<1>2. CASE DetailsTimer
  <2>1. InjectedOK
    <3>1. CASE UNCHANGED <<blocks, itemPanel, backoff>>
      BY <1>0, <3>1
    <3>2. CASE InjectOrRetry(backoff, {1})
      BY <1>0, <3>2, FirstDelay, RetryingKeepsTypes
    <3> QED
      BY <1>2, <3>1, <3>2 DEF DetailsTimer
  <2>2. /\ UNCHANGED <<places, listed, shows, lists>> /\ frame' \in BOOLEAN
        /\ clickTimers' \subseteq clickTimers
    BY <1>0, <1>2 DEF DetailsTimer
  <2> QED
    BY <1>0, <2>1, <2>2 DEF SellPanelTypeOK, BlockRecords, ItemPanels
<1>3. CASE BookAnswer
  <2>1. PICK prices \in {"priced", "none"} : itemPanel' = [itemPanel EXCEPT !.prices = prices]
    BY <1>3 DEF BookAnswer
  <2>2. itemPanel.prices = "loading"
        /\ UNCHANGED <<places, blocks, listed, frame, backoff, clickTimers, shows, lists>>
    BY <1>3 DEF BookAnswer
  <2>3. itemPanel # NoPanel
    BY <2>2 DEF NoPanel
  <2>4. itemPanel' \in ItemPanels
    BY <1>0, <2>1, <2>3 DEF ItemPanels
  <2> QED
    BY <1>0, <2>2, <2>4 DEF SellPanelTypeOK, BlockRecords, ItemPanels
<1>4. CASE ClickItem
  BY <1>0, <1>4 DEF ClickItem, SellPanelTypeOK, BlockRecords, ItemPanels
<1>5. CASE SteamShows
  <2>1. shows' \in 0..MaxShows /\ frame' = TRUE /\ UNCHANGED <<listed, backoff, clickTimers, lists>>
    BY <1>0, <1>5, FirstDelay DEF SteamShows
  <2>2. PICK p \in Places : \E shown \in {Empty} \cup Views :
          /\ places' = [places EXCEPT ![p] = shown]
          /\ blocks' \in {blocks, [blocks EXCEPT ![p] = NoBlock]}
          /\ itemPanel' \in {itemPanel} \cup IF itemPanel.at = p THEN {NoPanel} ELSE {}
    BY <1>5 DEF SteamShows
  <2>3. places' \in [Places -> {Empty} \cup Views]
    BY <1>0, <2>2
  <2>4. NoBlock \in BlockRecords /\ NoPanel \in ItemPanels
    BY DEF NoBlock, BlockRecords, ItemPanels
  <2>5. blocks' \in [Places -> BlockRecords] /\ itemPanel' \in ItemPanels
    BY <1>0, <2>2, <2>4
  <2> QED
    BY <1>0, <2>1, <2>3, <2>5 DEF SellPanelTypeOK, BlockRecords, ItemPanels
<1>6. CASE ListChanges
  <2>1. lists' \in 0..MaxLists /\ UNCHANGED <<places, blocks, itemPanel, backoff, clickTimers, shows>>
    BY <1>0, <1>6, FirstDelay DEF ListChanges
  <2>2. listed' \subseteq Goods /\ frame' \in BOOLEAN
    BY <1>0, <1>6 DEF ListChanges
  <2> QED
    BY <1>0, <2>1, <2>2 DEF SellPanelTypeOK, BlockRecords, ItemPanels
<1>7. CASE UNCHANGED sellPanelVars
  BY <1>7 DEF sellPanelVars, SellPanelTypeOK
<1> QED
  BY <1>1, <1>2, <1>3, <1>4, <1>5, <1>6, <1>7 DEF SellPanelNext

\* Every variable of the inventory page's panel keeps its type: a retry is one of the delays, and
\* the panel stands at a place and is about an item.
THEOREM SellPanelKeepsTypes == SellPanelSpec => []SellPanelTypeOK
BY SellPanelTypesBegin, SellPanelTypesStep, PTL DEF SellPanelSpec

-----------------------------------------------------------------------------

(***************************************************************************)
(* The whole of MCFurtherParts.                                            *)
(***************************************************************************)
\* A step of the whole is a step of one part, and leaves the others as they are.
LEMMA PartsStep ==
  ASSUME [Next]_vars
  PROVE  /\ [CollectorNext]_collectorVars
         /\ [SettingsNext]_settingsVars
         /\ [PanelNext]_panelVarsAll
         /\ [RoutingNext]_routingVars
         /\ [SessionNext]_sessionVars
         /\ [EngineNext]_engineVars
         /\ [GridNext]_gridVars
         /\ [SellNext]_sellVars
         /\ [HistoryNext]_historyVars
         /\ [TradePageNext]_tradePageVars
         /\ [SellPanelNext]_sellPanelVars
<1>1. [CollectorNext]_collectorVars
  BY DEF Next, vars, Collector, Settings, PortfolioTab, Routing, Session, Engine, Grid, SellPage, History, Trade, SellingPanel
<1>2. [SettingsNext]_settingsVars
  BY DEF Next, vars, Collector, Settings, PortfolioTab, Routing, Session, Engine, Grid, SellPage, History, Trade, SellingPanel
<1>3. [PanelNext]_panelVarsAll
  BY DEF Next, vars, Collector, Settings, PortfolioTab, Routing, Session, Engine, Grid, SellPage, History, Trade, SellingPanel
<1>4. [RoutingNext]_routingVars
  BY DEF Next, vars, Collector, Settings, PortfolioTab, Routing, Session, Engine, Grid, SellPage, History, Trade, SellingPanel
<1>5. [SessionNext]_sessionVars
  BY DEF Next, vars, Collector, Settings, PortfolioTab, Routing, Session, Engine, Grid, SellPage, History, Trade, SellingPanel
<1>6. [EngineNext]_engineVars
  BY DEF Next, vars, Collector, Settings, PortfolioTab, Routing, Session, Engine, Grid, SellPage, History, Trade, SellingPanel
<1>7. [GridNext]_gridVars
  BY DEF Next, vars, Collector, Settings, PortfolioTab, Routing, Session, Engine, Grid, SellPage, History, Trade, SellingPanel
<1>8. [SellNext]_sellVars
  BY DEF Next, vars, Collector, Settings, PortfolioTab, Routing, Session, Engine, Grid, SellPage, History, Trade, SellingPanel
<1>9. [HistoryNext]_historyVars
  BY DEF Next, vars, Collector, Settings, PortfolioTab, Routing, Session, Engine, Grid, SellPage, History, Trade, SellingPanel
<1>10. [TradePageNext]_tradePageVars
  BY DEF Next, vars, Collector, Settings, PortfolioTab, Routing, Session, Engine, Grid, SellPage, History, Trade, SellingPanel
<1>11. [SellPanelNext]_sellPanelVars
  BY DEF Next, vars, Collector, Settings, PortfolioTab, Routing, Session, Engine, Grid, SellPage, History, Trade, SellingPanel
<1> QED
  BY <1>1, <1>2, <1>3, <1>4, <1>5, <1>6, <1>7, <1>8, <1>9, <1>10, <1>11

\* So a behaviour of the whole is one of every part, and what is proved of a part holds in it.
THEOREM PartsRun ==
  Spec => /\ CollectorSpec
          /\ SettingsSpec
          /\ PanelSpec
          /\ RoutingSpec
          /\ SessionSpec
          /\ EngineSpec
          /\ GridSpec
          /\ SellSpec
          /\ HistorySpec
          /\ TradePageSpec
          /\ SellPanelSpec
<1>1. Init => CollectorInit /\ SettingsInit /\ PanelInit /\ RoutingInit /\ SessionInit /\ EngineInit
              /\ GridInit /\ SellInit /\ HistoryInit /\ TradePageInit /\ SellPanelInit
  BY DEF Init
<1>2. Spec => CollectorSpec
  BY <1>1, PartsStep, PTL DEF Spec, CollectorSpec
<1>3. Spec => SettingsSpec
  BY <1>1, PartsStep, PTL DEF Spec, SettingsSpec
<1>4. Spec => PanelSpec
  BY <1>1, PartsStep, PTL DEF Spec, PanelSpec
<1>5. Spec => RoutingSpec
  BY <1>1, PartsStep, PTL DEF Spec, RoutingSpec
<1>6. Spec => SessionSpec
  BY <1>1, PartsStep, PTL DEF Spec, SessionSpec
<1>7. Spec => EngineSpec
  BY <1>1, PartsStep, PTL DEF Spec, EngineSpec
<1>8. Spec => GridSpec
  BY <1>1, PartsStep, PTL DEF Spec, GridSpec
<1>9. Spec => SellSpec
  BY <1>1, PartsStep, PTL DEF Spec, SellSpec
<1>10. Spec => HistorySpec
  BY <1>1, PartsStep, PTL DEF Spec, HistorySpec
<1>11. Spec => TradePageSpec
  BY <1>1, PartsStep, PTL DEF Spec, TradePageSpec
<1>12. Spec => SellPanelSpec
  BY <1>1, PartsStep, PTL DEF Spec, SellPanelSpec
<1> QED
  BY <1>2, <1>3, <1>4, <1>5, <1>6, <1>7, <1>8, <1>9, <1>10, <1>11, <1>12

\* Every variable of every part keeps its type.
THEOREM FurtherTypes == Spec => []FurtherTypeOK
<1>1. CollectorTypeOK /\ SettingsTypeOK /\ PanelTypeOK /\ SessionTypeOK /\ EngineTypeOK
      /\ GridTypeOK /\ SellTypeOK /\ HistoryTypeOK /\ TradePageTypeOK /\ SellPanelTypeOK
      => FurtherTypeOK
  BY DEF FurtherTypeOK
<1> QED
  BY <1>1, PartsRun, CollectorTypes, SettingsKeepTypes, PanelKeepsTypes, SessionKeepsTypes,
     EngineKeepsTypes, GridTypes, SellKeepsTypes, HistoryKeepsTypes, TradePageTypes, SellPanelKeepsTypes, PTL
=============================================================================
