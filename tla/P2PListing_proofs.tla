------------------------- MODULE P2PListing_proofs -------------------------
(***************************************************************************)
(* For every set of assets and prices and every number of reviews: the     *)
(* popup says "published" only of what took effect, and the panel, the     *)
(* controller and the backend together implement ListingContract.  What    *)
(* carries both is that the three copies of an offer agree: the one shown, *)
(* the one of the backend's intent, and the one the user confirmed.        *)
(***************************************************************************)
EXTENDS P2PListing, TLAPS

Changes == 0..MaxChanges
SeenBooks == {Unseen} \cup [Assets -> [price : Prices \cup {Unlisted}, revision : Changes]]
Popups ==
  [busy : {"no", "load", "prepare", "confirm"}, seen : SeenBooks,
   review : Reviews \cup {NoReview}, offer : Offers \cup {NoOffer},
   notice : {"none", "done", "refused", "unknown", "cancelled"},
   about : Reviews \cup {NoReview}]
Prepares ==
  [pc : {"idle", "assets", "intent"}, offer : Offers \cup {NoOffer}, revision : Changes]

BackendTypes ==
  /\ market \in [Assets -> Prices \cup {Unlisted}] /\ revision \in [Assets -> Changes]
  /\ intents \in [Reviews -> Intents]
  /\ committed \subseteq Reviews /\ network \subseteq Reviews
  /\ replies \in [Reviews -> {"none", "ok", "terminal"}]
WorkerTypes ==
  /\ prepare \in Prepares
  /\ reviews \in [Reviews -> {"none", "live", "expired"}] /\ confirming \subseteq Reviews
UserTypes ==
  /\ popup \in Popups /\ confirmed \in [Reviews -> Offers \cup {NoOffer}]
  /\ workerStops \in 0..MaxWorkerStops
Types == BackendTypes /\ WorkerTypes /\ UserTypes

\* A prepare in flight is of a real offer, for which a review is free; if the popup still
\* waits, the offer is the one it waits for.
PrepareIsWanted ==
  prepare.pc # "idle" =>
    /\ prepare.offer \in Offers
    /\ \E r \in Reviews : intents[r] = NoIntent
    /\ popup.busy = "prepare" => popup.offer = prepare.offer

\* While a review is prepared none is shown.
PrepareShowsNone == popup.busy = "prepare" => popup.review = NoReview

\* The popup waits for the confirmation of the review it shows, and names it.
ConfirmIsAboutReview ==
  popup.busy = "confirm" => popup.review # NoReview /\ popup.about = popup.review

\* What is shown is what the backend's intent says.
ShownIsIntended ==
  popup.review # NoReview =>
    popup.offer \in Offers /\ intents[popup.review].offer = popup.offer

\* What the user confirmed is what the backend's intent says: also of a second confirmation.
ConfirmedIsIntended ==
  \A r \in Reviews : confirmed[r] # NoOffer => intents[r].offer = confirmed[r]

\* Nothing is asked of the backend, or took effect, that was not confirmed.
AskedIsConfirmed == \A r \in network \cup committed : confirmed[r] # NoOffer

\* The backend says "ok" only of what took effect.
RepliesAreTrue == \A r \in Reviews : replies[r] = "ok" => r \in committed

ListingInv ==
  /\ Types /\ PrepareIsWanted /\ PrepareShowsNone /\ ConfirmIsAboutReview
  /\ ShownIsIntended /\ ConfirmedIsIntended /\ AskedIsConfirmed /\ RepliesAreTrue
  /\ DoneIsCommitted

-----------------------------------------------------------------------------
\* The offer of no asset is not an offer.
LEMMA NoOfferIsNone == NoOffer \notin Offers
BY ListingAssumption DEF NoOffer, Offers

LEMMA IdleTypes == IdlePrepare \in Prepares /\ IdlePrepare.pc = "idle"
BY ListingAssumption DEF IdlePrepare, Prepares, NoOffer, Changes

LEMMA ListingBegins == ListingInit => ListingInv
<1> SUFFICES ASSUME ListingInit PROVE ListingInv
  OBVIOUS
<1> USE DEF ListingInit
<1>1. popup \in Popups /\ popup.busy = "no" /\ popup.review = NoReview /\ popup.notice = "none"
  BY DEF OpenPopup, Popups, SeenBooks, NoReview
<1>2. NoIntent \in Intents
  BY ListingAssumption DEF NoIntent, Intents
<1>3. Types
  BY <1>1, <1>2, IdleTypes, ListingAssumption
     DEF Types, BackendTypes, WorkerTypes, UserTypes, Changes
<1> QED
  BY <1>1, <1>3, IdleTypes
     DEF ListingInv, PrepareIsWanted, PrepareShowsNone, ConfirmIsAboutReview, ShownIsIntended,
         ConfirmedIsIntended, AskedIsConfirmed, RepliesAreTrue, DoneIsCommitted

\* What the popup becomes when it is told of a prepare that failed, of a refusal, of an answer
\* that does not come, or when it is closed and opened again.
LEMMA NotPreparedTypes ==
  ASSUME popup \in Popups
  PROVE  /\ NotPrepared \in Popups /\ NotPrepared.busy = "no"
         /\ NotPrepared.review = popup.review /\ NotPrepared.notice = "refused"
BY DEF NotPrepared, Popups

LEMMA PopupAnswers ==
  ASSUME popup \in Popups, NEW r \in Reviews
  PROVE  /\ Refused(popup, r) \in Popups /\ Refused(popup, r).busy = "load"
         /\ Refused(popup, r).review = NoReview /\ Refused(popup, r).notice = "refused"
         /\ Ambiguous \in Popups /\ Ambiguous.busy = "no" /\ Ambiguous.notice = "unknown"
         /\ Ambiguous.review = popup.review /\ Ambiguous.offer = popup.offer
         /\ OpenPopup \in Popups /\ OpenPopup.busy = "load" /\ OpenPopup.review = NoReview
         /\ OpenPopup.notice = "none"
BY DEF Refused, Ambiguous, OpenPopup, Popups, SeenBooks, NoReview

\* The backend's intent takes a number that was free; the popup shows it only if it is of the
\* offer that was asked for.
LEMMA IntentStep ==
  ASSUME Types, PrepareIsWanted, IntentCreated
  PROVE  \E got \in Offers, n \in Reviews :
           /\ intents[n] = NoIntent /\ n = NewReview
           /\ intents' = [intents EXCEPT ![n] = [offer |-> got, revision |-> prepare.revision]]
           /\ [offer |-> got, revision |-> prepare.revision] \in Intents
           /\ reviews' \in [Reviews -> {"none", "live", "expired"}]
           /\ \/ popup' = popup
              \/ popup.busy = "prepare" /\ popup' = NotPrepared
              \/ /\ popup.busy = "prepare" /\ got = prepare.offer
                 /\ popup' = [popup EXCEPT !.busy = "no", !.review = n]
<1> USE DEF Types, WorkerTypes, BackendTypes
<1>1. prepare.pc = "intent"
  BY DEF IntentCreated
<1>2. \E n \in Reviews : intents[n] = NoIntent
  BY <1>1 DEF PrepareIsWanted
<1>3. NewReview \in Reviews /\ intents[NewReview] = NoIntent
  BY <1>2 DEF NewReview
<1>4. PICK got \in {prepare.offer} \cup {[prepare.offer EXCEPT !.price = p] : p \in Prices} :
        /\ intents' = [intents EXCEPT ![NewReview] =
                         [offer |-> got, revision |-> prepare.revision]]
        /\ \/ /\ BindingMatches(got)
              /\ reviews' = [reviews EXCEPT ![NewReview] = "live"]
              /\ popup' = PopupHears("prepare",
                            [popup EXCEPT !.busy = "no", !.review = NewReview])
           \/ /\ ~BindingMatches(got)
              /\ popup' = PopupHears("prepare", NotPrepared)
              /\ UNCHANGED reviews
  BY DEF IntentCreated
<1>5. got \in Offers
  <2>1. prepare.offer \in Offers
    BY <1>1 DEF PrepareIsWanted
  <2>2. ASSUME NEW p \in Prices PROVE [prepare.offer EXCEPT !.price = p] \in Offers
    BY <2>1 DEF Offers
  <2> QED
    BY <2>1, <2>2
<1>6. [offer |-> got, revision |-> prepare.revision] \in Intents
  BY <1>5 DEF Intents, Prepares, Changes
<1>7. popup.busy = "prepare" \/ popup' = popup
  BY <1>4 DEF PopupHears
<1>8. reviews' \in [Reviews -> {"none", "live", "expired"}]
  BY <1>3, <1>4
<1>9. \/ popup' = popup
      \/ popup.busy = "prepare" /\ popup' = NotPrepared
      \/ /\ popup.busy = "prepare" /\ got = prepare.offer
         /\ popup' = [popup EXCEPT !.busy = "no", !.review = NewReview]
  BY <1>4 DEF PopupHears, BindingMatches
<1> QED
  BY <1>3, <1>4, <1>5, <1>6, <1>8, <1>9

\* The click on a review: the confirmation, or the refusal of a review that is no more.
LEMMA ConfirmStep ==
  ASSUME Types, Confirm
  PROVE  /\ popup.review \in Reviews /\ popup' \in Popups
         /\ confirmed' = [confirmed EXCEPT ![popup.review] = popup.offer]
         /\ confirmed' \in [Reviews -> Offers \cup {NoOffer}]
         /\ \/ /\ popup'.busy = "confirm" /\ popup'.notice = "none"
               /\ popup'.about = popup.review /\ popup'.review = popup.review
               /\ popup'.offer = popup.offer
            \/ /\ popup'.busy = "load" /\ popup'.notice = "refused"
               /\ popup'.review = NoReview
         /\ network' \subseteq network \cup {popup.review}
<1> USE DEF Types, UserTypes, WorkerTypes
<1>1. popup.review \in Reviews
  BY DEF Confirm, Popups
<1>2. confirmed' = [confirmed EXCEPT ![popup.review] = popup.offer]
  BY DEF Confirm
<1>3. confirmed' \in [Reviews -> Offers \cup {NoOffer}]
  BY <1>1, <1>2 DEF Popups
<1>4. network' \subseteq network \cup {popup.review}
  BY DEF Confirm
<1>5. CASE popup' = [popup EXCEPT !.busy = "confirm", !.notice = "none", !.about = popup.review]
  BY <1>1, <1>2, <1>3, <1>4, <1>5 DEF Popups
<1>6. CASE popup' = Refused(popup, popup.review)
  BY <1>1, <1>2, <1>3, <1>4, <1>6, PopupAnswers
<1> QED
  BY <1>5, <1>6 DEF Confirm

LEMMA ListingTypesStep == Types /\ PrepareIsWanted /\ [ListingNext]_listingVars => Types'
<1> SUFFICES ASSUME Types, PrepareIsWanted, [ListingNext]_listingVars PROVE Types'
  OBVIOUS
<1> USE ListingAssumption, IdleTypes
<1> USE DEF Types, BackendTypes, WorkerTypes, UserTypes
<1>1. CASE LoadAnswered
  <2>1. [a \in Assets |-> [price |-> market[a], revision |-> revision[a]]] \in SeenBooks
    BY DEF SeenBooks
  <2>2. popup' \in Popups
    BY <1>1, <2>1 DEF LoadAnswered, Popups, SeenBooks
  <2> QED
    BY <1>1, <2>2 DEF LoadAnswered, backend, worker
<1>2. CASE Refresh
  BY <1>2 DEF Refresh, backend, worker, Popups, NoReview
<1>3. CASE Confirm
  BY <1>3, ConfirmStep DEF Confirm
<1>4. CASE Cancel
  BY <1>4 DEF Cancel, Popups, backend
<1>5. CASE PopupTimesOut
  <2>1. popup' \in Popups
    <3>1. [popup EXCEPT !.busy = "no", !.seen = Unseen] \in Popups
      BY DEF Popups, SeenBooks
    <3>2. NotPrepared \in Popups /\ Ambiguous \in Popups
      BY DEF NotPrepared, Ambiguous, Popups
    <3>3. popup.busy \in {"load", "prepare", "confirm"}
      BY <1>5 DEF PopupTimesOut, Popups
    <3> QED
      BY <1>5, <3>1, <3>2, <3>3 DEF PopupTimesOut, GivesUp
  <2> QED
    BY <1>5, <2>1 DEF PopupTimesOut, backend, worker
<1>6. CASE PopupReopens
  <2>1. OpenPopup \in Popups
    BY DEF OpenPopup, Popups, SeenBooks, NoReview
  <2> QED
    BY <1>6, <2>1 DEF PopupReopens, backend, worker
<1>7. ASSUME NEW a \in Assets, NEW p \in Prices \cup {Unlisted}, Prepare(a, p) PROVE Types'
  <2>1. [asset |-> a, price |-> p] \in Offers /\ popup.seen[a].revision \in Changes
    BY <1>7 DEF Prepare, Offers, Popups, SeenBooks
  <2>2. prepare' \in Prepares
    BY <1>7, <2>1 DEF Prepare, Prepares
  <2>3. popup' \in Popups
    BY <1>7, <2>1 DEF Prepare, Popups, NoReview
  <2> QED
    BY <1>7, <2>2, <2>3 DEF Prepare, backend
<1>8. CASE PrepareChecked
  BY <1>8 DEF PrepareChecked, Prepares, backend
<1>9. CASE IntentCreated
  <2>1. PICK got \in Offers, n \in Reviews :
          /\ intents' = [intents EXCEPT ![n] = [offer |-> got, revision |-> prepare.revision]]
          /\ [offer |-> got, revision |-> prepare.revision] \in Intents
          /\ reviews' \in [Reviews -> {"none", "live", "expired"}]
          /\ \/ popup' = popup \/ popup' = NotPrepared
             \/ popup' = [popup EXCEPT !.busy = "no", !.review = n]
    BY <1>9, IntentStep
  <2>2. popup' \in Popups
    BY <2>1, NotPreparedTypes DEF Popups
  <2> QED
    BY <1>9, <2>1, <2>2 DEF IntentCreated
<1>10. CASE PrepareFails
  BY <1>10, NotPreparedTypes DEF PrepareFails, PopupHears, backend
<1>11. ASSUME NEW r \in Reviews,
              BackendCommits(r) \/ BackendRepeats(r) \/ BackendRefuses(r)
       PROVE  Types'
  <2>1. CASE BackendCommits(r)
    <3>1. /\ intents[r].offer.price \in Prices \cup {Unlisted}
          /\ intents[r].revision \in Changes
      BY DEF Intents, Offers, NoOffer, Changes
    <3>2. market' \in [Assets -> Prices \cup {Unlisted}]
      BY <2>1, <3>1 DEF BackendCommits
    <3>3. revision' \in [Assets -> Changes]
      <4> DEFINE a == intents[r].offer.asset
      <4>1. a \in Assets => revision[a] + 1 \in Changes
        BY <2>1, <3>1 DEF BackendCommits, Fresh, Changes
      <4>2. revision' = [revision EXCEPT ![a] = revision[a] + 1]
        BY <2>1 DEF BackendCommits
      <4> HIDE DEF a
      <4> QED
        BY <4>1, <4>2
    <3> QED
      BY <2>1, <3>2, <3>3 DEF BackendCommits, Replies, worker
  <2>2. CASE BackendRepeats(r)
    BY <2>2 DEF BackendRepeats, Replies, worker
  <2>3. CASE BackendRefuses(r)
    BY <2>3 DEF BackendRefuses, Replies, worker
  <2> QED
    BY <1>11, <2>1, <2>2, <2>3
<1>12. ASSUME NEW r \in Reviews, ConfirmSucceeds(r) \/ ConfirmRefused(r) \/ ConfirmAmbiguous(r)
       PROVE  Types'
  <2>1. popup' \in Popups
    <3>1. [popup EXCEPT !.busy = "load", !.review = NoReview, !.offer = NoOffer,
                        !.notice = "done"] \in Popups
      BY DEF Popups
    <3> QED
      BY <1>12, <3>1, PopupAnswers DEF ConfirmSucceeds, ConfirmRefused, ConfirmAmbiguous
  <2> QED
    BY <1>12, <2>1 DEF ConfirmSucceeds, ConfirmRefused, ConfirmAmbiguous, ConfirmEnds
<1>13. ASSUME NEW r \in Reviews, ReviewExpires(r) PROVE Types'
  BY <1>13 DEF ReviewExpires, backend
<1>14. ASSUME NEW a \in Assets, AssetChanges(a) PROVE Types'
  BY <1>14 DEF AssetChanges, Changes, worker
<1>15. CASE ListingWorkerStops
  BY <1>15 DEF ListingWorkerStops
<1>16. CASE UNCHANGED listingVars
  BY <1>16 DEF listingVars, backend, worker
<1> QED
  BY <1>1, <1>2, <1>3, <1>4, <1>5, <1>6, <1>7, <1>8, <1>9, <1>10, <1>11, <1>12, <1>13, <1>14,
     <1>15, <1>16
     DEF ListingNext

\* What the backend is asked for and what it answers stays about what the user confirmed.
LEMMA MarketSide ==
  ListingInv /\ [ListingNext]_listingVars
    => ConfirmedIsIntended' /\ AskedIsConfirmed' /\ RepliesAreTrue'
<1> SUFFICES ASSUME ListingInv, [ListingNext]_listingVars
             PROVE  ConfirmedIsIntended' /\ AskedIsConfirmed' /\ RepliesAreTrue'
  OBVIOUS
<1> USE DEF ListingInv, ConfirmedIsIntended, AskedIsConfirmed, RepliesAreTrue
<1>types. /\ confirmed \in [Reviews -> Offers \cup {NoOffer}] /\ intents \in [Reviews -> Intents]
          /\ network \subseteq Reviews /\ committed \subseteq Reviews
          /\ replies \in [Reviews -> {"none", "ok", "terminal"}]
  BY DEF Types, UserTypes, BackendTypes
<1>1. CASE UNCHANGED <<backend, confirmed>>
  BY <1>1 DEF backend
<1>2. CASE Confirm
  <2>1. /\ popup.review \in Reviews /\ popup.review # NoReview
        /\ confirmed' = [confirmed EXCEPT ![popup.review] = popup.offer]
        /\ network' \subseteq network \cup {popup.review}
        /\ UNCHANGED <<intents, committed, replies>>
    BY <1>2, ConfirmStep DEF Confirm
  <2>2. popup.offer # NoOffer /\ intents[popup.review].offer = popup.offer
    BY <2>1, NoOfferIsNone DEF ShownIsIntended
  <2> QED
    BY <1>types, <2>1, <2>2
<1>3. CASE IntentCreated
  <2>1. PICK got \in Offers, n \in Reviews :
          /\ intents[n] = NoIntent
          /\ intents' = [intents EXCEPT ![n] = [offer |-> got, revision |-> prepare.revision]]
    BY <1>3, IntentStep
  <2>2. UNCHANGED <<committed, network, replies, confirmed>>
    BY <1>3 DEF IntentCreated
  <2>3. confirmed[n] = NoOffer
    BY <2>1 DEF NoIntent
  <2> QED
    BY <1>types, <2>1, <2>2, <2>3
<1>4. ASSUME NEW r \in Reviews, BackendCommits(r) \/ BackendRepeats(r) \/ BackendRefuses(r)
      PROVE  ConfirmedIsIntended' /\ AskedIsConfirmed' /\ RepliesAreTrue'
  <2>1. CASE BackendCommits(r)
    BY <1>types, <2>1 DEF BackendCommits, Replies
  <2>2. CASE BackendRepeats(r)
    BY <1>types, <2>2 DEF BackendRepeats, Replies
  <2>3. CASE BackendRefuses(r)
    BY <1>types, <2>3 DEF BackendRefuses, Replies
  <2> QED
    BY <1>4, <2>1, <2>2, <2>3
<1>5. ASSUME NEW r \in Reviews, ConfirmEnds(r)
      PROVE  ConfirmedIsIntended' /\ AskedIsConfirmed' /\ RepliesAreTrue'
  BY <1>types, <1>5 DEF ConfirmEnds
<1>6. ASSUME NEW a \in Assets, AssetChanges(a)
      PROVE  ConfirmedIsIntended' /\ AskedIsConfirmed' /\ RepliesAreTrue'
  BY <1>6 DEF AssetChanges
<1>7. CASE ListingWorkerStops
  BY <1>7 DEF ListingWorkerStops
<1> QED
  BY <1>1, <1>2, <1>3, <1>4, <1>5, <1>6, <1>7
     DEF ListingNext, listingVars, LoadAnswered, Refresh, Cancel, PopupTimesOut, PopupReopens,
         Prepare, PrepareChecked, PrepareFails, ConfirmSucceeds, ConfirmRefused,
         ConfirmAmbiguous, ReviewExpires

\* What the popup shows and says stays about the intent and about what took effect.
LEMMA PanelSide ==
  ListingInv /\ [ListingNext]_listingVars
    => /\ ConfirmIsAboutReview' /\ ShownIsIntended' /\ DoneIsCommitted'
       /\ PrepareIsWanted' /\ PrepareShowsNone'
<1> SUFFICES ASSUME ListingInv, [ListingNext]_listingVars
             PROVE  /\ ConfirmIsAboutReview' /\ ShownIsIntended' /\ DoneIsCommitted'
                    /\ PrepareIsWanted' /\ PrepareShowsNone'
  OBVIOUS
<1> DEFINE Goal == /\ ConfirmIsAboutReview' /\ ShownIsIntended' /\ DoneIsCommitted'
                   /\ PrepareIsWanted' /\ PrepareShowsNone'
<1> USE DEF ListingInv, ConfirmIsAboutReview, ShownIsIntended, DoneIsCommitted, PrepareIsWanted,
            PrepareShowsNone
<1>types. /\ popup \in Popups /\ prepare \in Prepares /\ intents \in [Reviews -> Intents]
          /\ committed \subseteq Reviews
  BY DEF Types, UserTypes, BackendTypes, WorkerTypes
<1>1. CASE LoadAnswered
  <2>1. /\ popup'.busy = "no" /\ popup'.review = popup.review /\ popup'.offer = popup.offer
        /\ popup'.notice = popup.notice /\ popup'.about = popup.about
    BY <1>types, <1>1 DEF LoadAnswered, Popups
  <2> QED
    BY <1>1, <2>1 DEF LoadAnswered, backend, worker
<1>2. CASE Refresh
  BY <1>types, <1>2 DEF Refresh, backend, worker, Popups
<1>3. CASE Confirm
  BY <1>types, <1>3, ConfirmStep DEF Confirm
<1>4. CASE Cancel
  BY <1>types, <1>4 DEF Cancel, backend, Popups
<1>5. CASE PopupTimesOut
  BY <1>types, <1>5 DEF PopupTimesOut, backend, worker, Popups, GivesUp, NotPrepared, Ambiguous
<1>6. CASE PopupReopens
  BY <1>6 DEF PopupReopens, backend, worker, OpenPopup
<1>7. ASSUME NEW a \in Assets, NEW p \in Prices \cup {Unlisted}, Prepare(a, p) PROVE Goal
  <2>1. [asset |-> a, price |-> p] \in Offers
    BY DEF Offers
  <2>2. /\ prepare'.pc = "assets" /\ prepare'.offer = [asset |-> a, price |-> p]
        /\ popup'.busy = "prepare" /\ popup'.review = NoReview
        /\ popup'.offer = [asset |-> a, price |-> p] /\ popup'.notice = "none"
        /\ UNCHANGED intents /\ \E r \in Reviews : intents[r] = NoIntent
    BY <1>types, <1>7 DEF Prepare, Popups, backend
  <2> QED
    BY <2>1, <2>2
<1>8. CASE PrepareChecked
  BY <1>types, <1>8 DEF PrepareChecked, Prepares, backend
<1>9. CASE IntentCreated
  <2>1. PICK got \in Offers, n \in Reviews :
          /\ intents[n] = NoIntent
          /\ intents' = [intents EXCEPT ![n] = [offer |-> got, revision |-> prepare.revision]]
          /\ \/ popup' = popup
             \/ popup.busy = "prepare" /\ popup' = NotPrepared
             \/ /\ popup.busy = "prepare" /\ got = prepare.offer
                /\ popup' = [popup EXCEPT !.busy = "no", !.review = n]
    BY <1>9, IntentStep
  <2>2. prepare.pc = "intent" /\ prepare'.pc = "idle" /\ UNCHANGED committed
    BY <1>9, IdleTypes DEF IntentCreated
  <2>3. popup.review # NoReview => popup.review # n
    BY <2>1, NoOfferIsNone DEF NoIntent
  <2>4. CASE popup' = popup
    BY <1>types, <2>1, <2>2, <2>3, <2>4 DEF Popups
  <2>5. CASE popup.busy = "prepare" /\ popup' = NotPrepared
    BY <1>types, <2>1, <2>2, <2>3, <2>5
       DEF Popups, NotPrepared
  <2>6. CASE /\ popup.busy = "prepare" /\ got = prepare.offer
             /\ popup' = [popup EXCEPT !.busy = "no", !.review = n]
    BY <1>types, <2>1, <2>2, <2>6 DEF Popups
  <2> QED
    BY <2>1, <2>4, <2>5, <2>6
<1>10. CASE PrepareFails
  BY <1>types, <1>10, IdleTypes
     DEF PrepareFails, backend, PopupHears, NotPrepared, Popups
<1>11. ASSUME NEW r \in Reviews, BackendCommits(r) \/ BackendRepeats(r) \/ BackendRefuses(r)
       PROVE  Goal
  BY <1>11 DEF BackendCommits, BackendRepeats, BackendRefuses, worker
<1>12. ASSUME NEW r \in Reviews, ConfirmSucceeds(r) PROVE Goal
  BY <1>types, <1>12
     DEF ConfirmSucceeds, ConfirmEnds, Waiting, Popups, RepliesAreTrue
<1>13. ASSUME NEW r \in Reviews, ConfirmRefused(r) PROVE Goal
  BY <1>types, <1>13 DEF ConfirmRefused, ConfirmEnds, Refused, Popups
<1>14. ASSUME NEW r \in Reviews, ConfirmAmbiguous(r) PROVE Goal
  BY <1>types, <1>14 DEF ConfirmAmbiguous, ConfirmEnds, Ambiguous, Popups
<1>15. ASSUME NEW r \in Reviews, ReviewExpires(r) PROVE Goal
  BY <1>15 DEF ReviewExpires, backend
<1>16. ASSUME NEW a \in Assets, AssetChanges(a) PROVE Goal
  BY <1>16 DEF AssetChanges, worker
<1>17. CASE ListingWorkerStops
  BY <1>17, IdleTypes DEF ListingWorkerStops
<1>18. CASE UNCHANGED listingVars
  BY <1>18 DEF listingVars, backend, worker
<1> QED
  BY <1>1, <1>2, <1>3, <1>4, <1>5, <1>6, <1>7, <1>8, <1>9, <1>10, <1>11, <1>12, <1>13, <1>14,
     <1>15, <1>16, <1>17, <1>18
     DEF ListingNext

-----------------------------------------------------------------------------
\* The inductive invariant: the offer shown, the offer of the backend's intent and the offer
\* confirmed are one, and nothing is asked, answered or said that is not about it.
THEOREM ListingInvariant == ListingSpec => []ListingInv
<1>1. ListingInv /\ [ListingNext]_listingVars => ListingInv'
  BY ListingTypesStep, MarketSide, PanelSide DEF ListingInv
<1> QED
  BY <1>1, ListingBegins, PTL DEF ListingSpec

\* "Published" and "unpublished" are said only of what took effect.
THEOREM NoticesAreTrue == ListingSpec => []DoneIsCommitted
<1>1. ListingInv => DoneIsCommitted
  BY DEF ListingInv
<1> QED
  BY <1>1, ListingInvariant, PTL

\* The variables are of their types.
THEOREM ListingTypes == ListingSpec => []ListingTypeOK
<1>1. ListingInv => ListingTypeOK
  BY DEF ListingInv, Types, BackendTypes, WorkerTypes, UserTypes, ListingTypeOK, Popups, SeenBooks,
         Prepares, Changes
<1> QED
  BY <1>1, ListingInvariant, PTL

-----------------------------------------------------------------------------
\* A confirmation is the contract's: the first of a review confirms what is shown, a second
\* one changes nothing.
LEMMA ConfirmRefines ==
  ASSUME ListingInv, Confirm
  PROVE  [Contract!MarketStep]_(Contract!market_vars)
<1>1. /\ popup.review \in Reviews /\ popup.review # NoReview
      /\ confirmed' = [confirmed EXCEPT ![popup.review] = popup.offer]
      /\ UNCHANGED <<market, committed>>
  BY ConfirmStep DEF Confirm, ListingInv
<1>2. popup.offer \in Offers /\ intents[popup.review].offer = popup.offer
  BY <1>1 DEF ListingInv, ShownIsIntended
<1>3. confirmed \in [Reviews -> Offers \cup {NoOffer}]
  BY DEF ListingInv, Types, UserTypes
<1>4. CASE confirmed[popup.review] = NoOffer
  <2>1. popup.offer \in Contract!Published \cup Contract!Withdrawn
    BY <1>2 DEF Contract!Published, Contract!Withdrawn, Contract!Unlisted, Offers, Unlisted
  <2>2. Contract!UserConfirms(popup.review, popup.offer)
    BY <1>1, <1>4 DEF Contract!UserConfirms, Contract!NoOffer, Contract!Unlisted, NoOffer, Unlisted
  <2> QED
    BY <1>1, <2>1, <2>2 DEF Contract!MarketStep, Contract!Reviews, Reviews
<1>5. CASE confirmed[popup.review] # NoOffer
  <2>1. confirmed[popup.review] = popup.offer
    BY <1>1, <1>2, <1>5 DEF ListingInv, ConfirmedIsIntended
  <2>2. confirmed' = confirmed
    BY <1>1, <1>3, <2>1
  <2> QED
    BY <1>1, <2>2 DEF Contract!market_vars
<1> QED
  BY <1>4, <1>5

\* A commit of the backend is the contract's: of a confirmed offer, once, as it was confirmed.
LEMMA CommitRefines ==
  ASSUME ListingInv, NEW r \in Reviews, BackendCommits(r)
  PROVE  Contract!OfferTakesEffect(r)
<1>1. /\ r \in network /\ r \notin committed /\ committed' = committed \cup {r}
      /\ market' = [market EXCEPT ![intents[r].offer.asset] = intents[r].offer.price]
      /\ UNCHANGED confirmed
  BY DEF BackendCommits, Fresh
<1>2. confirmed[r] # NoOffer
  BY <1>1 DEF ListingInv, AskedIsConfirmed
<1>3. intents[r].offer = confirmed[r]
  BY <1>2 DEF ListingInv, ConfirmedIsIntended
<1> QED
  BY <1>1, <1>2, <1>3
     DEF Contract!OfferTakesEffect, Contract!NoOffer, Contract!Unlisted, NoOffer, Unlisted

\* The panel, the controller and the backend implement the contract: whatever is lost,
\* repeated, timed out or forgotten, the market changes only as confirmed, and at most once.
THEOREM ListingRefines == ListingSpec => ImplementsListing
<1>1. ListingInit => Contract!NothingConfirmed
  BY DEF ListingInit, Contract!NothingConfirmed, Contract!Unlisted, Contract!Reviews,
         Contract!NoOffer, Unlisted, Reviews, NoOffer
<1>2. ListingInv /\ [ListingNext]_listingVars => [Contract!MarketStep]_(Contract!market_vars)
  <2> SUFFICES ASSUME ListingInv, [ListingNext]_listingVars
               PROVE  [Contract!MarketStep]_(Contract!market_vars)
    OBVIOUS
  <2>1. CASE UNCHANGED <<market, confirmed, committed>>
    BY <2>1 DEF Contract!market_vars
  <2>2. CASE Confirm
    BY <2>2, ConfirmRefines
  <2>3. ASSUME NEW r \in Reviews, BackendCommits(r) PROVE Contract!MarketStep
    BY <2>3, CommitRefines DEF Contract!MarketStep, Contract!Reviews, Reviews
  <2>4. ASSUME NEW a \in Assets, AssetChanges(a) PROVE Contract!MarketStep
    BY <2>4 DEF AssetChanges, Contract!MarketStep, Contract!ChangesElsewhere,
                Contract!Unlisted, Unlisted
  <2> QED
    BY <2>1, <2>2, <2>3, <2>4
       DEF ListingNext, listingVars, backend, worker, LoadAnswered, Refresh, Cancel,
           PopupTimesOut, PopupReopens, Prepare, PrepareChecked, IntentCreated, PrepareFails,
           BackendRepeats, BackendRefuses, ConfirmSucceeds, ConfirmRefused, ConfirmAmbiguous,
           ConfirmEnds, ReviewExpires, ListingWorkerStops
<1> QED
  BY <1>1, <1>2, ListingInvariant, PTL DEF ListingSpec, ImplementsListing, Contract!MarketSpec
=============================================================================
