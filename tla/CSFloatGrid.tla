---------------------------- MODULE CSFloatGrid ----------------------------
(***************************************************************************)
(* The cards of CSFloat's market (content-scripts/csfloat/csfloat.ts): the *)
(* page's own answers are overheard and put in a queue, and every card     *)
(* that appears takes the next listing of it; the Buff line a card is      *)
(* given follows the currency of the site.                                 *)
(*                                                                         *)
(* A card is named after the listing it shows, which the extension cannot  *)
(* see.  CSFloat draws the cards of an answer together and anew, before or *)
(* after the answer is overheard; cards it uses again for other listings   *)
(* are left out.                                                           *)
(***************************************************************************)
EXTENDS Integers, Sequences, SequencesExt

CONSTANTS
  MarketCards, Strip,        \* the cards of the market, and of the similar items, in their order
  PageEnds,                  \* how many of the market's there are up to the end of every page
  Priced,                    \* the listings the extension has a Buff price of
  Foreign,                   \* the site's currencies other than USD
  MaxTimers,                 \* how often a card is tried again; csfloat.ts: 6
  MaxRates, MaxRoutes        \* bounds: rates and addresses of the site

Cards == ToSet(MarketCards) \cup ToSet(Strip)
SiteCurrencies == {"USD"} \cup Foreign

\* A listing is shown once.
ASSUME GridAssumption ==
  /\ {MarketCards, Strip} \subseteq Seq(Cards) /\ ToSet(Strip) \cap ToSet(MarketCards) = {}
  /\ \A these \in {MarketCards, Strip} :
       \A i, k \in DOMAIN these : these[i] = these[k] => i = k
  /\ PageEnds \in Seq(0..Len(MarketCards)) /\ PageEnds # <<>>
  /\ \A i, k \in DOMAIN PageEnds : i <= k => PageEnds[i] <= PageEnds[k]
  /\ "USD" \notin Foreign
  /\ {MaxTimers, MaxRates, MaxRoutes} \subseteq Nat

PageEnd(page) == IF page = 0 THEN 0 ELSE PageEnds[page]
Page(page) == SubSeq(MarketCards, PageEnd(page - 1) + 1, PageEnd(page))

VARIABLES
  market,    \* CSFloat: its page asked for, those not overheard yet, the page drawn last
  strip,     \* CSFloat: whether the similar items were overheard, and whether they are drawn
  queues,    \* listingsQueue and similarQueue
  cards,     \* what the extension put on every card: its listing, its badge, its line
  timers,    \* the retries of cards, the next one first
  csfCurrency, csfRates, refreshScheduled,
  boot,      \* how far initUI has come
  routes,    \* addresses seen so far
  outOfStep  \* an answer, or the next page, came at a time that takes queue and cards apart

gridVars == <<market, strip, queues, cards, timers, csfCurrency, csfRates, refreshScheduled,
              boot, routes, outOfStep>>
moneyVars == <<csfCurrency, csfRates, refreshScheduled>>
cardVars == <<queues, cards, timers>>

Shows == [currency : SiteCurrencies, rates : 0..MaxRates]
Kinds == {"grid", "similar"}
Worn == [data : SUBSET Cards, age : SUBSET Cards, line : SUBSET [of : Cards, shown : Shows]]

GridTypeOK ==
  /\ market.page \in DOMAIN PageEnds /\ market.drawn \in 0..Len(PageEnds)
  /\ market.unheard \subseteq DOMAIN PageEnds /\ strip \in [heard : BOOLEAN, drawn : BOOLEAN]
  /\ DOMAIN queues = Kinds /\ \A k \in Kinds : ToSet(queues[k]) \subseteq Cards
  /\ cards \in [Cards -> Worn]
  /\ ToSet(timers) \subseteq [card : Cards, left : 0..MaxTimers]
  /\ csfCurrency \in SiteCurrencies /\ csfRates.asOf \in 0..MaxRates
  /\ csfRates.known \subseteq Foreign /\ {refreshScheduled, outOfStep} \subseteq BOOLEAN
  /\ boot \in {"engine", "waiting", "done"}
  /\ routes \in 0..MaxRoutes

\* The rates the site left in its own storage are those before the first answer.
GridInit ==
  /\ market = [page |-> 1, unheard |-> {1}, drawn |-> 0]
  /\ strip = [heard |-> FALSE, drawn |-> FALSE]
  /\ queues = [k \in Kinds |-> <<>>]
  /\ cards = [c \in Cards |-> [data |-> {}, age |-> {}, line |-> {}]] /\ timers = <<>>
  /\ csfCurrency = "USD" /\ csfRates \in {[asOf |-> 0, known |-> s] : s \in SUBSET Foreign}
  /\ refreshScheduled = FALSE /\ boot = "engine"
  /\ routes = 0 /\ outOfStep = FALSE

(***************************************************************************)
(* A card and its line.                                                    *)
(***************************************************************************)
\* formatCsfPrice: in the site's currency, or in USD as long as its rate is not known.
Shown ==
  IF csfCurrency \in csfRates.known THEN [currency |-> csfCurrency, rates |-> csfRates.asOf]
  ELSE [currency |-> "USD", rates |-> 0]

KindOfCard(card) == IF card \in ToSet(Strip) THEN "similar" ELSE "grid"

FirstOf(queue) == {queue[1] : i \in DOMAIN queue \cap {1}}

\* getItemData: what the card was given before, else the next listing of its queue.
ItemData(s, card) ==
  IF s.cards[card].data # {} THEN s.cards[card].data ELSE FirstOf(s.queues[KindOfCard(card)])

\* injectListingMetadata, and injectPriceOverlay where the extension has a price: neither is put
\* on a second time.
Metadata(worn, listing) == IF worn.age = {} THEN listing ELSE worn.age
PriceOverlay(worn, listing) ==
  IF worn.line # {} THEN worn.line ELSE {[of |-> l, shown |-> Shown] : l \in listing \cap Priced}

Dressed(s, card) ==
  LET listing == ItemData(s, card)
      worn == s.cards[card]
  IN [s EXCEPT
        !.queues[KindOfCard(card)] = IF worn.data = listing THEN @ ELSE Tail(@),
        !.cards[card] = [data |-> listing, age |-> Metadata(worn, listing),
                         line |-> PriceOverlay(worn, listing)]]

Again(card, left) == IF left = 0 THEN <<>> ELSE <<[card |-> card, left |-> left - 1]>>

\* A card with nothing to wear is tried again after half a second.
Tried(s, card, left) ==
  IF s.cards[card].line # {} THEN s
  ELSE IF ItemData(s, card) # {} THEN Dressed(s, card)
  ELSE [s EXCEPT !.timers = @ \o Again(card, left)]

Script(t) == [queues |-> queues, cards |-> cards, timers |-> t]
Becomes(s) == queues' = s.queues /\ cards' = s.cards /\ timers' = s.timers

\* processCard for each of these, in their order.
Process(these) ==
  LET after[i \in 0..Len(these)] ==
        IF i = 0 THEN Script(timers) ELSE Tried(after[i - 1], these[i], MaxTimers + 1)
  IN Becomes(after[Len(these)])

\* What is drawn of the market and of the similar items; the market stands first.
Row(kind) == IF kind = "grid" THEN MarketCards ELSE Strip
HowFar(kind) ==
  IF kind = "grid" THEN PageEnd(market.drawn) ELSE IF strip.drawn THEN Len(Strip) ELSE 0
InDocument == SubSeq(Row("grid"), 1, HowFar("grid")) \o SubSeq(Row("similar"), 1, HowFar("similar"))

TimerFires ==
  /\ timers # <<>>
  /\ Becomes(Tried(Script(Tail(timers)), Head(timers).card, Head(timers).left))
  /\ UNCHANGED <<market, strip, moneyVars, boot, routes, outOfStep>>

\* The drawn cards of a kind that have no listing yet, and the retries of one, by their places.
Unserved(kind) == {k \in 1..HowFar(kind) : cards[Row(kind)[k]].data = {}}
Retries(kind, k) == {i \in DOMAIN timers : timers[i].card = Row(kind)[k]}

\* Cards waiting for the answer are retried in their order, or not at all any more.
InTurn(kind) ==
  \/ \A k \in Unserved(kind) : Retries(kind, k) = {}
  \/ \A k \in Unserved(kind) :
       /\ Retries(kind, k) # {}
       /\ \A n \in Unserved(kind), i \in Retries(kind, k) :
            n < k => \E j \in Retries(kind, n) : j < i

(***************************************************************************)
(* What is overheard of the site, in whatever order it comes.              *)
(***************************************************************************)
\* Listings take the place of those left of the answer before; an answer without any does not.
Reset(queue, kind, these) ==
  IF these = <<>> THEN UNCHANGED <<queues, outOfStep>>
  ELSE /\ queues' = [queues EXCEPT ![queue] = these]
       /\ outOfStep' = (outOfStep \/ ~InTurn(kind))

ListingsHeard ==
  /\ \E page \in market.unheard :
       /\ market' = [market EXCEPT !.unheard = @ \ {page}]
       /\ Reset("grid", "grid", Page(page))
  /\ UNCHANGED <<strip, cards, timers, moneyVars, boot, routes>>

\* The similar items have a queue of their own.
OneQueue == "grid"  \* a mutant
QueueOfSimilar == "similar"
SimilarHeard ==
  /\ ~strip.heard /\ strip' = [strip EXCEPT !.heard = TRUE]
  /\ Reset(QueueOfSimilar, "similar", Strip)
  /\ UNCHANGED <<market, cards, timers, moneyVars, boot, routes>>

\* scheduleRefresh: one repaint for what comes together.
ScheduleRefresh(changed) == refreshScheduled' = (refreshScheduled \/ changed)

CurrencyHeard ==
  /\ \E currency \in SiteCurrencies \ {csfCurrency} :
       /\ csfCurrency' = currency /\ ScheduleRefresh(TRUE)
  /\ UNCHANGED <<market, strip, cardVars, csfRates, boot, routes, outOfStep>>

\* /v1/meta/exchange-rates, as the site asks for it or, once and with no rates yet, as
\* ensureExchangeRatesLoaded does.
RatesHeard ==
  /\ csfRates.asOf < MaxRates
  /\ \E known \in SUBSET Foreign : csfRates' = [asOf |-> csfRates.asOf + 1, known |-> known]
  /\ ScheduleRefresh(TRUE)
  /\ UNCHANGED <<market, strip, cardVars, csfCurrency, boot, routes, outOfStep>>

\* refreshOverlayCurrencies, at the end of the microtask.
RefreshOverlays ==
  /\ refreshScheduled /\ refreshScheduled' = FALSE
  /\ cards' = [c \in Cards |->
       [cards[c] EXCEPT !.line = {[l EXCEPT !.shown = Shown] : l \in @}]]
  /\ UNCHANGED <<market, strip, queues, timers, csfCurrency, csfRates, boot, routes,
                 outOfStep>>

(***************************************************************************)
(* The page.                                                               *)
(***************************************************************************)
Drawn(these) == IF boot = "engine" THEN UNCHANGED cardVars ELSE Process(these)

GridDrawn ==
  /\ market.drawn < market.page /\ market' = [market EXCEPT !.drawn = @ + 1]
  /\ Drawn(Page(market.drawn + 1))
  /\ UNCHANGED <<strip, moneyVars, boot, routes, outOfStep>>

StripDrawn ==
  /\ ~strip.drawn /\ market.drawn > 0 /\ strip' = [strip EXCEPT !.drawn = TRUE]
  /\ Drawn(Strip)
  /\ UNCHANGED <<market, moneyVars, boot, routes, outOfStep>>

\* The user comes to the end of the cards.
Scrolls ==
  /\ market.drawn = market.page /\ market.page < Len(PageEnds)
  /\ market' = [market EXCEPT !.page = @ + 1, !.unheard = @ \cup {market.page + 1}]
  /\ outOfStep' = (outOfStep \/ Unserved("grid") # {})
  /\ UNCHANGED <<strip, cardVars, moneyVars, boot, routes>>

\* initUI, from the observer on, and its first pass over the cards once there are any or it has
\* waited long enough.
UIStarts ==
  /\ boot = "engine" /\ boot' = "waiting"
  /\ UNCHANGED <<market, strip, cardVars, moneyVars, routes, outOfStep>>

FirstPass ==
  /\ boot = "waiting" /\ boot' = "done" /\ Process(InDocument)
  /\ UNCHANGED <<market, strip, moneyVars, routes, outOfStep>>

\* The address has changed a second ago: all cards are gone through again.
ProcessAllCards ==
  /\ boot = "done" /\ routes < MaxRoutes /\ routes' = routes + 1 /\ Process(InDocument)
  /\ UNCHANGED <<market, strip, moneyVars, boot, outOfStep>>

GridNext ==
  \/ TimerFires \/ ListingsHeard \/ SimilarHeard \/ CurrencyHeard \/ RatesHeard
  \/ RefreshOverlays \/ GridDrawn \/ StripDrawn \/ Scrolls \/ UIStarts \/ FirstPass
  \/ ProcessAllCards

GridSpec == GridInit /\ [][GridNext]_gridVars

(***************************************************************************)
(* Properties.                                                             *)
(***************************************************************************)
\* The queue and the cards keep in step: whatever the order of answers, cards, retries and
\* passes over them, a card wears its own listing, as long as no page is asked for before the
\* cards of the one before it have theirs and no answer falls between the retries of a row.
CardsWearTheirOwn ==
  ~outOfStep => \A c \in Cards :
    /\ cards[c].data \cup cards[c].age \subseteq {c}
    /\ \A l \in cards[c].line : l.of = c

\* Once the repaint that was scheduled has run, every line shows the site's currency at its
\* latest rate, or USD where there is no rate: never an old rate under the new sign.
LinesFollowTheSite ==
  ~refreshScheduled => \A c \in Cards : \A l \in cards[c].line : l.shown = Shown

\* What a card says is so: whose listing it is, and what that costs in the site's currency.
CardsAreTrue == CardsWearTheirOwn /\ LinesFollowTheSite
=============================================================================
