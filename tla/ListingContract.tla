--------------------------- MODULE ListingContract ---------------------------
(***************************************************************************)
(* What publishing to CSBOARD's P2P market promises the user, whatever is  *)
(* lost, repeated or delayed on the way: the extension changes the market  *)
(* only by offers the user confirmed, each exactly as it was shown and at  *)
(* most once.                                                              *)
(***************************************************************************)
EXTENDS Integers

CONSTANTS
  Assets,      \* assets of the user
  Prices,      \* asking prices
  MaxReviews   \* bound: reviews that are ever prepared

Reviews == 1..MaxReviews
Unlisted == 0
Withdrawn == [asset : Assets, price : {Unlisted}]      \* the effect of an unpublish
Published == [asset : Assets, price : Prices]
NoOffer == [asset |-> "none", price |-> Unlisted]

VARIABLES
  market,     \* the price every asset is listed at, or Unlisted
  confirmed,  \* the offer the user confirmed under a review, or NoOffer
  committed   \* the reviews whose offer took effect

market_vars == <<market, confirmed, committed>>

NothingConfirmed ==
  /\ market \in [Assets -> Prices \cup {Unlisted}]
  /\ confirmed = [r \in Reviews |-> NoOffer] /\ committed = {}

UserConfirms(r, offer) ==
  /\ confirmed[r] = NoOffer
  /\ confirmed' = [confirmed EXCEPT ![r] = offer]
  /\ UNCHANGED <<market, committed>>

OfferTakesEffect(r) ==
  /\ confirmed[r] # NoOffer /\ r \notin committed
  /\ committed' = committed \cup {r}
  /\ market' = [market EXCEPT ![confirmed[r].asset] = confirmed[r].price]
  /\ UNCHANGED confirmed

\* A sale, a trade, or the user's own action on the web site.
ChangesElsewhere(a) ==
  /\ \E p \in Prices \cup {Unlisted} : market' = [market EXCEPT ![a] = p]
  /\ UNCHANGED <<confirmed, committed>>

MarketStep ==
  \/ \E r \in Reviews, offer \in Published \cup Withdrawn : UserConfirms(r, offer)
  \/ \E r \in Reviews : OfferTakesEffect(r)
  \/ \E a \in Assets : ChangesElsewhere(a)

MarketSpec == NothingConfirmed /\ [][MarketStep]_market_vars
==============================================================================
