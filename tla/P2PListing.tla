----------------------------- MODULE P2PListing -----------------------------
(***************************************************************************)
(* Publishing to and withdrawing from CSBOARD's P2P market: the popup's    *)
(* listing panel (popup/popup.ts), the controller in the service worker    *)
(* (background/p2p-listing-client.ts) and, external, the backend.          *)
(*                                                                         *)
(* The popup prepares a review, shows it, and confirms it with a separate  *)
(* click.  A review, its intent at the backend and its idempotency key are *)
(* one-to-one and share a number here.  Every answer can be lost, every    *)
(* request can be late, and the worker, which keeps reviews in memory      *)
(* only, can stop at any time.                                             *)
(***************************************************************************)
EXTENDS Integers, FiniteSets

CONSTANTS
  Assets, Prices,
  MaxReviews,     \* bound: reviews that are ever prepared
  MaxChanges,     \* bound: revisions of an asset
  MaxWorkerStops  \* bound: stops of the worker

ASSUME ListingAssumption ==
  /\ Prices \subseteq Nat \ {0} /\ "none" \notin Assets
  /\ MaxReviews \in Nat /\ MaxChanges \in Nat /\ MaxWorkerStops \in Nat

Reviews == 1..MaxReviews
NoReview == 0
Unlisted == 0
NoOffer == [asset |-> "none", price |-> Unlisted]
Offers == [asset : Assets, price : Prices \cup {Unlisted}]   \* Unlisted: an unpublish

VARIABLES
  market,     \* backend: the price every asset is listed at
  revision,   \* backend: the revision of every asset
  intents,    \* backend: the offer and revision an intent was created for
  committed,  \* backend: the intents whose offer took effect
  network,    \* commit requests that may still reach the backend
  replies,    \* answers of the backend on their way to the worker
  prepare,    \* worker: the prepare in flight
  reviews,    \* worker memory: what is known of every review
  confirming, \* worker memory: the reviews with a confirmation in flight
  popup,      \* popup: what it waits for, the assets and the review it shows, its notice
  confirmed,  \* history: the offer shown when the user confirmed a review
  workerStops \* history: stops of the worker

backend == <<market, revision, intents, committed, network, replies>>
worker == <<prepare, reviews, confirming>>
listingVars == <<backend, worker, popup, confirmed, workerStops>>

Intents == [offer : Offers \cup {NoOffer}, revision : 0..MaxChanges]
NoIntent == [offer |-> NoOffer, revision |-> 0]
IdlePrepare == [pc |-> "idle", offer |-> NoOffer, revision |-> 0]
Unseen == [a \in {} |-> 0]
OpenPopup == [busy |-> "load", seen |-> Unseen, review |-> NoReview, offer |-> NoOffer,
              notice |-> "none", about |-> NoReview]

ListingTypeOK ==
  /\ market \in [Assets -> Prices \cup {Unlisted}]
  /\ revision \in [Assets -> 0..MaxChanges]
  /\ intents \in [Reviews -> Intents]
  /\ committed \subseteq Reviews /\ network \subseteq Reviews
  /\ replies \in [Reviews -> {"none", "ok", "terminal"}]
  /\ prepare \in [pc : {"idle", "assets", "intent"}, offer : Offers \cup {NoOffer},
                  revision : 0..MaxChanges]
  /\ reviews \in [Reviews -> {"none", "live", "expired"}]
  /\ confirming \subseteq Reviews
  /\ popup.seen = Unseen \/ popup.seen \in [Assets -> [price : Prices \cup {Unlisted},
                                                       revision : 0..MaxChanges]]
  /\ popup \in [busy : {"no", "load", "prepare", "confirm"}, seen : {popup.seen},
                review : Reviews \cup {NoReview}, offer : Offers \cup {NoOffer},
                notice : {"none", "done", "refused", "unknown", "cancelled"},
                about : Reviews \cup {NoReview}]
  /\ confirmed \in [Reviews -> Offers \cup {NoOffer}]
  /\ workerStops \in 0..MaxWorkerStops

ListingInit ==
  /\ market \in [Assets -> Prices \cup {Unlisted}]
  /\ revision = [a \in Assets |-> 0]
  /\ intents = [r \in Reviews |-> NoIntent] /\ committed = {}
  /\ network = {} /\ replies = [r \in Reviews |-> "none"]
  /\ prepare = IdlePrepare /\ reviews = [r \in Reviews |-> "none"] /\ confirming = {}
  /\ popup = [OpenPopup EXCEPT !.busy = "no"]   \* not open yet
  /\ confirmed = [r \in Reviews |-> NoOffer] /\ workerStops = 0

(***************************************************************************)
(* The popup loads the assets, and prepares a review of one of them: an    *)
(* unpublish if it saw a listing, a publish at a price otherwise.          *)
(***************************************************************************)
LoadAnswered ==
  /\ popup.busy = "load"
  /\ \/ popup' = [popup EXCEPT !.busy = "no",
          !.seen = [a \in Assets |-> [price |-> market[a], revision |-> revision[a]]]]
     \/ popup' = [popup EXCEPT !.busy = "no", !.seen = Unseen]
  /\ UNCHANGED <<backend, worker, confirmed, workerStops>>

Refresh ==
  /\ popup.busy = "no" /\ popup.review = NoReview
  /\ popup' = [popup EXCEPT !.busy = "load", !.notice = "none", !.about = NoReview]
  /\ UNCHANGED <<backend, worker, confirmed, workerStops>>

NewReview == CHOOSE r \in Reviews : intents[r] = NoIntent

Prepare(a, price) ==
  /\ popup.busy = "no" /\ popup.review = NoReview /\ popup.seen # Unseen
  /\ prepare = IdlePrepare                              \* bound: one prepare at a time
  /\ \E r \in Reviews : intents[r] = NoIntent          \* bound
  /\ price = Unlisted <=> popup.seen[a].price # Unlisted
  /\ prepare' = [pc |-> "assets", offer |-> [asset |-> a, price |-> price],
                 revision |-> popup.seen[a].revision]
  /\ popup' = [popup EXCEPT !.busy = "prepare", !.notice = "none", !.about = NoReview,
                            !.offer = [asset |-> a, price |-> price]]
  /\ UNCHANGED <<backend, reviews, confirming, confirmed, workerStops>>

NotPrepared == [popup EXCEPT !.busy = "no", !.offer = NoOffer, !.notice = "refused"]
PopupHears(busy, answer) == IF popup.busy = busy THEN answer ELSE popup

\* The controller asks for the assets again and compares the revision, then eligibility (a
\* publish) or the listing (an unpublish).
StillOffered ==
  /\ revision[prepare.offer.asset] = prepare.revision
  /\ prepare.offer.price = Unlisted <=> market[prepare.offer.asset] # Unlisted

PrepareChecked ==
  /\ prepare.pc = "assets" /\ StillOffered
  /\ prepare' = [prepare EXCEPT !.pc = "intent"]
  /\ UNCHANGED <<backend, reviews, confirming, popup, confirmed, workerStops>>

BindingIgnored(got) == TRUE   \* mutant
\* The intent must repeat asset, action, price and revision of the request.
BindingMatches(got) == got = prepare.offer

\* The backend creates an intent; it may get it wrong, and the controller must notice.
IntentCreated ==
  /\ prepare.pc = "intent"
  /\ \E got \in {prepare.offer} \cup {[prepare.offer EXCEPT !.price = p] : p \in Prices} :
       /\ intents' = [intents EXCEPT ![NewReview] =
                        [offer |-> got, revision |-> prepare.revision]]
       /\ \/ /\ BindingMatches(got)
             /\ reviews' = [reviews EXCEPT ![NewReview] = "live"]
             /\ popup' = PopupHears("prepare",
                           [popup EXCEPT !.busy = "no", !.review = NewReview])
          \/ /\ ~BindingMatches(got)
             /\ popup' = PopupHears("prepare", NotPrepared)
             /\ UNCHANGED reviews
  /\ prepare' = IdlePrepare
  /\ UNCHANGED <<market, revision, committed, network, replies, confirming, confirmed,
                 workerStops>>

PrepareFails ==
  /\ prepare.pc # "idle"
  /\ prepare' = IdlePrepare
  /\ popup' = PopupHears("prepare", NotPrepared)
  /\ UNCHANGED <<backend, reviews, confirming, confirmed, workerStops>>

(***************************************************************************)
(* Confirm: callers of one review share the confirmation in flight.        *)
(***************************************************************************)
Refused(p, r) ==
  [p EXCEPT !.busy = "load", !.review = NoReview, !.offer = NoOffer, !.notice = "refused",
            !.about = r]

Confirm ==
  LET r == popup.review IN
  /\ popup.busy = "no" /\ r # NoReview
  /\ confirmed' = [confirmed EXCEPT ![r] = popup.offer]
  /\ \/ /\ r \in confirming \/ reviews[r] = "live"
        /\ confirming' = confirming \cup {r}
        /\ network' = IF r \in confirming THEN network ELSE network \cup {r}
        /\ popup' = [popup EXCEPT !.busy = "confirm", !.notice = "none", !.about = r]
        /\ UNCHANGED reviews
     \/ /\ r \notin confirming /\ reviews[r] # "live"    \* not found, or expired
        /\ reviews' = [reviews EXCEPT ![r] = "none"]
        /\ popup' = Refused(popup, r)
        /\ UNCHANGED <<confirming, network>>
  /\ UNCHANGED <<market, revision, intents, committed, replies, prepare, workerStops>>

(***************************************************************************)
(* The backend, external.  It recognises a repeated key, and refuses an    *)
(* intent whose asset has another revision by now.                         *)
(***************************************************************************)
Fresh(r) == r \notin committed /\ revision[intents[r].offer.asset] = intents[r].revision

Replies(r, answer) ==
  /\ network' = network \ {r}
  /\ replies' = IF r \in confirming THEN [replies EXCEPT ![r] = answer] ELSE replies

BackendCommits(r) ==
  /\ r \in network /\ Fresh(r) /\ intents[r].revision < MaxChanges
  /\ market' = [market EXCEPT ![intents[r].offer.asset] = intents[r].offer.price]
  /\ revision' = [revision EXCEPT ![intents[r].offer.asset] = @ + 1]
  /\ committed' = committed \cup {r}
  /\ Replies(r, "ok")
  /\ UNCHANGED <<intents, worker, popup, confirmed, workerStops>>

BackendRepeats(r) ==
  /\ r \in network /\ r \in committed
  /\ Replies(r, "ok")
  /\ UNCHANGED <<market, revision, intents, committed, worker, popup, confirmed, workerStops>>

\* Stale or expired, signed out, rate limited, or any other 4xx.
BackendRefuses(r) ==
  /\ r \in network
  /\ Replies(r, "terminal")
  /\ UNCHANGED <<market, revision, intents, committed, worker, popup, confirmed, workerStops>>

AssetChanges(a) ==
  /\ revision[a] < MaxChanges
  /\ revision' = [revision EXCEPT ![a] = @ + 1]
  /\ \E p \in Prices \cup {Unlisted} : market' = [market EXCEPT ![a] = p]
  /\ UNCHANGED <<intents, committed, network, replies, worker, popup, confirmed, workerStops>>

(***************************************************************************)
(* What the answer does: success and a terminal error drop the review; an  *)
(* ambiguous one (timeout, lost, 5xx, malformed) keeps it for a retry.     *)
(***************************************************************************)
ConfirmEnds(r) ==
  /\ confirming' = confirming \ {r}
  /\ replies' = [replies EXCEPT ![r] = "none"]
  /\ UNCHANGED <<market, revision, intents, committed, network, prepare, confirmed, workerStops>>

Waiting(r) == popup.busy = "confirm" /\ popup.review = r

ConfirmSucceeds(r) ==
  /\ r \in confirming /\ replies[r] = "ok"
  /\ reviews' = [reviews EXCEPT ![r] = "none"]
  /\ popup' = IF Waiting(r)
              THEN [popup EXCEPT !.busy = "load", !.review = NoReview, !.offer = NoOffer,
                                  !.notice = "done"]
              ELSE popup
  /\ ConfirmEnds(r)

ConfirmRefused(r) ==
  /\ r \in confirming /\ replies[r] = "terminal"
  /\ reviews' = [reviews EXCEPT ![r] = "none"]
  /\ popup' = IF Waiting(r) THEN Refused(popup, r) ELSE popup
  /\ ConfirmEnds(r)

AmbiguousIsDone ==   \* mutant
  [popup EXCEPT !.busy = "load", !.review = NoReview, !.notice = "done"]
Ambiguous == [popup EXCEPT !.busy = "no", !.notice = "unknown"]

ConfirmAmbiguous(r) ==
  /\ r \in confirming
  /\ popup' = IF Waiting(r) THEN Ambiguous ELSE popup
  /\ ConfirmEnds(r)
  /\ UNCHANGED reviews

Cancel ==
  LET r == popup.review IN
  /\ popup.busy = "no" /\ r # NoReview
  /\ popup' = [popup EXCEPT !.review = NoReview, !.offer = NoOffer, !.notice = "cancelled",
                            !.about = r]
  /\ reviews' = IF r \in confirming THEN reviews ELSE [reviews EXCEPT ![r] = "none"]
  /\ UNCHANGED <<backend, prepare, confirming, confirmed, workerStops>>

(***************************************************************************)
(* Clocks, the popup's own timeouts, and stops.                            *)
(***************************************************************************)
ReviewExpires(r) ==
  /\ reviews[r] = "live"
  /\ reviews' = [reviews EXCEPT ![r] = "expired"]
  /\ UNCHANGED <<backend, prepare, confirming, popup, confirmed, workerStops>>

\* sendPopupMessage rejects after 10 s (a confirm after 15 s), also when the worker is gone.
GivesUp ==
  CASE popup.busy = "confirm" -> Ambiguous
    [] popup.busy = "load" -> [popup EXCEPT !.busy = "no", !.seen = Unseen]
    [] popup.busy = "prepare" -> NotPrepared

PopupTimesOut ==
  /\ popup.busy # "no" /\ popup' = GivesUp
  /\ UNCHANGED <<backend, worker, confirmed, workerStops>>

PopupReopens ==
  /\ popup' = OpenPopup
  /\ UNCHANGED <<backend, worker, confirmed, workerStops>>

ListingWorkerStops ==
  /\ workerStops < MaxWorkerStops /\ workerStops' = workerStops + 1
  /\ prepare' = IdlePrepare /\ reviews' = [r \in Reviews |-> "none"] /\ confirming' = {}
  /\ replies' = [r \in Reviews |-> "none"]
  /\ UNCHANGED <<market, revision, intents, committed, network, popup, confirmed>>

ListingNext ==
  \/ LoadAnswered \/ Refresh \/ Confirm \/ Cancel \/ PopupTimesOut \/ PopupReopens
  \/ \E a \in Assets, p \in Prices \cup {Unlisted} : Prepare(a, p)
  \/ PrepareChecked \/ IntentCreated \/ PrepareFails
  \/ \E r \in Reviews :
       \/ BackendCommits(r) \/ BackendRepeats(r) \/ BackendRefuses(r)
       \/ ConfirmSucceeds(r) \/ ConfirmRefused(r) \/ ConfirmAmbiguous(r) \/ ReviewExpires(r)
  \/ \E a \in Assets : AssetChanges(a)
  \/ ListingWorkerStops

ListingSpec == ListingInit /\ [][ListingNext]_listingVars

(***************************************************************************)
(* Properties                                                              *)
(***************************************************************************)
Contract == INSTANCE ListingContract

\* The market changes only by offers the user confirmed, exactly as shown, each at most once:
\* whatever prepare, retry, timeout, cancel and restart do.
ImplementsListing == Contract!MarketSpec

\* The popup says "published" or "unpublished" only of an offer that took effect: a timeout or
\* a malformed answer is reported as unknown, never as done.
DoneIsCommitted == popup.notice = "done" => popup.about \in committed
=============================================================================
