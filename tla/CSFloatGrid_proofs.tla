---------------------------- MODULE CSFloatGrid_proofs ----------------------------
(***************************************************************************)
(* That the cards of CSFloat's market say what is so (CardsAreTrue), and   *)
(* the types of what is kept, proved for every value of the constants.     *)
(*                                                                         *)
(* The queue of listings has no names in it: a card takes whatever stands  *)
(* first.  So the invariant counts: of every row, the first n cards have   *)
(* their own listings and the others none, and what is left of the queue   *)
(* are the listings from the card n + 1 on.  That survives a retry only    *)
(* because the retries of the cards that wait come in the order of the     *)
(* row, the first of all being that of the card n + 1 (FirstRetry); and it *)
(* survives a pass over many cards because those come in the order of the  *)
(* row as well, from a card on that is not beyond the next one             *)
(* (Contiguous, TrialsKeepStep).                                           *)
(***************************************************************************)
EXTENDS CSFloatGrid, FiniteSetTheorems, SequenceTheorems, WellFoundedInduction, TLAPS

(***************************************************************************)
(* The inductive invariant.                                                *)
(***************************************************************************)
Ticks == [card : Cards, left : 0..MaxTimers]
Scripts == [queues : [Kinds -> Seq(Cards)], cards : [Cards -> Worn], timers : Seq(Ticks)]

\* Where the cards of the last answer end, and where they begin; whether it is still to come.
Goal(kind) == IF kind = "grid" THEN PageEnd(market.page) ELSE Len(Strip)
Begun(kind) == IF kind = "grid" THEN PageEnd(market.page - 1) ELSE 0
Awaited(kind) == IF kind = "grid" THEN market.page \in market.unheard ELSE ~strip.heard

RetriesOf(ts, c) == {i \in DOMAIN ts : ts[i].card = c}
Ordered(ts, row, n, far) ==
  \/ \A k \in (n + 1)..far : RetriesOf(ts, row[k]) = {}
  \/ \A k \in (n + 1)..far :
       /\ RetriesOf(ts, row[k]) # {}
       /\ \A m \in (n + 1)..(k - 1), i \in RetriesOf(ts, row[k]) :
            \E j \in RetriesOf(ts, row[m]) : j < i

\* The first n cards of a row have their own listings, the others none; the queue has those of the
\* next.
RowServed(s, kind, far, goal, n) ==
  /\ n \in 0..far
  /\ \A k \in DOMAIN Row(kind) :
       s.cards[Row(kind)[k]].data = IF k <= n THEN {Row(kind)[k]} ELSE {}
  /\ s.queues[kind] = <<>> \/ s.queues[kind] = SubSeq(Row(kind), n + 1, goal)
RowInStep(s, kind, far, goal, n) ==
  /\ RowServed(s, kind, far, goal, n)
  /\ s.queues[kind] # <<>> => Ordered(s.timers, Row(kind), n, far)

IsDrawn(c, far) == \E k \in 1..far : Row(KindOfCard(c))[k] = c

\* A card without a listing wears nothing; what a card wears is its own, and at the latest rate.
BareIn(s) == \A c \in Cards : s.cards[c].data = {} => s.cards[c].age = {} /\ s.cards[c].line = {}
OwnIn(s) ==
  \A c \in Cards : /\ s.cards[c].data \cup s.cards[c].age \subseteq {c}
                   /\ \A l \in s.cards[c].line : l.of = c
FreshIn(s) == \A c \in Cards : \A l \in s.cards[c].line : l.shown = Shown

\* Processing cards leaves none half dressed, and puts on nothing but the latest rate.
Clean(s, fresh, drawn) ==
  /\ s \in Scripts /\ BareIn(s) /\ (fresh => FreshIn(s))
  /\ \A i \in DOMAIN s.timers : s.timers[i].card \in drawn

GridFlags ==
  /\ {refreshScheduled, outOfStep} \subseteq BOOLEAN /\ boot \in {"engine", "waiting", "done"}
  /\ routes \in 0..MaxRoutes
  /\ csfCurrency \in SiteCurrencies /\ csfRates \in [asOf : 0..MaxRates, known : SUBSET Foreign]

GridShapes ==
  /\ market \in [page : DOMAIN PageEnds, unheard : SUBSET DOMAIN PageEnds, drawn : 0..Len(PageEnds)]
  /\ market.drawn \in {market.page - 1, market.page}
  /\ strip \in [heard : BOOLEAN, drawn : BOOLEAN]

Appeared == {c \in Cards : IsDrawn(c, HowFar(KindOfCard(c)))}

\* A row is in step from where the cards of the last answer begin; before it comes, there.
RowReady(s, kind, begun, far, goal, awaited) ==
  \E n \in begun..far : /\ RowInStep(s, kind, far, goal, n)
                        /\ awaited => n = begun /\ s.queues[kind] = <<>>
InStep ==
  /\ \A kind \in Kinds :
       RowReady(Script(timers), kind, Begun(kind), HowFar(kind), Goal(kind), Awaited(kind))
  /\ \A page \in market.unheard : page = market.page \/ Page(page) = <<>>

GridInductive ==
  /\ GridFlags /\ GridShapes
  /\ Clean(Script(timers), ~refreshScheduled, Appeared)
  /\ ~outOfStep => OwnIn(Script(timers)) /\ InStep

-----------------------------------------------------------------------------

(***************************************************************************)
(* The rows and the pages.                                                 *)
(***************************************************************************)
\* Every set of numbers that has one has a least one.
LEMMA LeastNumber ==
  ASSUME NEW T \in SUBSET Nat, T # {}
  PROVE  \E x \in T : \A y \in T : x <= y
<1> DEFINE Less == OpToRel(<, Nat)
<1>1. IsWellFoundedOn(Less, Nat)
  BY NatLessThanWellFounded
<1>2. ASSUME NEW x \in Nat, NEW y \in Nat, y < x PROVE <<y, x>> \in Less
  BY <1>2 DEF OpToRel
<1> HIDE DEF Less
<1>3. PICK x \in T : \A y \in T : ~ (<<y, x>> \in Less)
  BY <1>1, WFMin
<1>4. ASSUME NEW y \in T PROVE x <= y
  <2>1. x \in Nat /\ y \in Nat /\ ~(y < x)
    BY <1>2, <1>3
  <2>2. QED
    BY <2>1
<1>5. QED
  BY <1>4

\* What stands in a row.
LEMMA RowFacts ==
  /\ \A kind \in Kinds : Row(kind) \in Seq(Cards)
  /\ \A kind \in Kinds : \A i, k \in DOMAIN Row(kind) : Row(kind)[i] = Row(kind)[k] => i = k
  /\ \A kind \in Kinds : \A k \in DOMAIN Row(kind) :
       Row(kind)[k] \in Cards /\ KindOfCard(Row(kind)[k]) = kind
  /\ \A c \in Cards : KindOfCard(c) \in Kinds
<1>1. MarketCards \in Seq(Cards) /\ Strip \in Seq(Cards)
  BY GridAssumption
<1>2. /\ \A i, k \in DOMAIN MarketCards : MarketCards[i] = MarketCards[k] => i = k
      /\ \A i, k \in DOMAIN Strip : Strip[i] = Strip[k] => i = k
  BY GridAssumption
<1>3. \A k \in DOMAIN MarketCards : MarketCards[k] \notin ToSet(Strip)
  BY GridAssumption DEF ToSet
<1>4. \A k \in DOMAIN Strip : Strip[k] \in ToSet(Strip)
  BY DEF ToSet
<1>5. \A k \in DOMAIN MarketCards : KindOfCard(MarketCards[k]) = "grid"
  BY <1>3 DEF KindOfCard
<1>6. \A k \in DOMAIN Strip : KindOfCard(Strip[k]) = "similar"
  BY <1>4 DEF KindOfCard
<1>7. Row("grid") = MarketCards /\ Row("similar") = Strip /\ Kinds = {"grid", "similar"}
  BY DEF Row, Kinds
<1>8. \A c \in Cards : KindOfCard(c) \in Kinds
  BY DEF KindOfCard, Kinds
<1>9. \A kind \in Kinds : Row(kind) \in Seq(Cards)
  BY <1>1, <1>7
<1>10. \A kind \in Kinds : \A i, k \in DOMAIN Row(kind) : Row(kind)[i] = Row(kind)[k] => i = k
  BY <1>2, <1>7
<1>11. \A kind \in Kinds : \A k \in DOMAIN Row(kind) : KindOfCard(Row(kind)[k]) = kind
  BY <1>5, <1>6, <1>7
<1>12. \A kind \in Kinds : \A k \in DOMAIN Row(kind) : Row(kind)[k] \in Cards
  BY <1>9
<1> QED
  BY <1>8, <1>9, <1>10, <1>11, <1>12

\* Where the pages end.
LEMMA PageFacts ==
  /\ \A page \in 0..Len(PageEnds) : PageEnd(page) \in 0..Len(MarketCards)
  /\ \A page \in 1..Len(PageEnds) : PageEnd(page - 1) <= PageEnd(page)
  /\ Len(MarketCards) \in Nat /\ Len(PageEnds) \in Nat /\ DOMAIN PageEnds = 1..Len(PageEnds)
<1>1. PageEnds \in Seq(0..Len(MarketCards)) /\ Len(MarketCards) \in Nat
  BY GridAssumption
<1>2. \A page \in 1..Len(PageEnds) : PageEnds[page] \in 0..Len(MarketCards)
  BY <1>1
<1>3. \A i, k \in DOMAIN PageEnds : i <= k => PageEnds[i] <= PageEnds[k]
  BY GridAssumption
<1>4. DOMAIN PageEnds = 1..Len(PageEnds) /\ Len(PageEnds) \in Nat
  BY <1>1
<1>5. \A page \in 0..Len(PageEnds) : PageEnd(page) \in 0..Len(MarketCards)
  BY <1>1, <1>2, <1>4 DEF PageEnd
<1>6. ASSUME NEW page \in 1..Len(PageEnds) PROVE PageEnd(page - 1) <= PageEnd(page)
  <2>1. CASE page = 1
    BY <1>4, <1>5, <2>1 DEF PageEnd
  <2>2. CASE page # 1
    <3>1. page - 1 \in DOMAIN PageEnds /\ page \in DOMAIN PageEnds /\ page - 1 <= page /\ page - 1 # 0 /\ page # 0
      BY <1>4, <2>2
    <3> QED
      BY <1>3, <3>1 DEF PageEnd
  <2> QED
    BY <2>1, <2>2
<1> QED
  BY <1>1, <1>4, <1>5, <1>6

-----------------------------------------------------------------------------

(***************************************************************************)
(* The order of the retries.                                               *)
(***************************************************************************)
\* Retries in the order of a row stay in it: when a card has been served, when another is tried
\* again, and when the first of them has come due.
LEMMA OrderedLater ==
  ASSUME NEW ts, NEW row, NEW n \in Nat, NEW far \in Nat, NEW m \in n..far, Ordered(ts, row, n, far)
  PROVE  Ordered(ts, row, m, far)
<1>1. \A k \in (m + 1)..far : k \in (n + 1)..far /\ \A l \in (m + 1)..(k - 1) : l \in (n + 1)..(k - 1)
  OBVIOUS
<1> QED
  BY <1>1 DEF Ordered

LEMMA OrderedAppend ==
  ASSUME NEW ts \in Seq(Ticks), NEW row, NEW n \in Nat, NEW far \in Nat, NEW x \in Ticks,
         \A k \in (n + 1)..far : row[k] # x.card, Ordered(ts, row, n, far)
  PROVE  Ordered(Append(ts, x), row, n, far)
<1>1. \A c : c # x.card => RetriesOf(Append(ts, x), c) = RetriesOf(ts, c)
  BY DEF RetriesOf
<1>2. \A k \in (n + 1)..far : RetriesOf(Append(ts, x), row[k]) = RetriesOf(ts, row[k])
  BY <1>1
<1>3. \A k \in (n + 1)..far : \A m \in (n + 1)..(k - 1) : m \in (n + 1)..far
  OBVIOUS
<1> QED
  BY <1>2, <1>3 DEF Ordered

LEMMA OrderedTail ==
  ASSUME NEW ts \in Seq(Ticks), ts # <<>>, NEW row, NEW n \in Nat, NEW far \in Nat,
         \A k \in (n + 1)..far : row[k] # Head(ts).card, Ordered(ts, row, n, far)
  PROVE  Ordered(Tail(ts), row, n, far)
<1>1. ASSUME NEW c, c # Head(ts).card
      PROVE  /\ \A i \in RetriesOf(Tail(ts), c) : i \in Nat /\ i + 1 \in RetriesOf(ts, c)
             /\ \A i \in RetriesOf(ts, c) : i \in Nat /\ i > 1 /\ i - 1 \in RetriesOf(Tail(ts), c)
  BY <1>1 DEF RetriesOf
<1>2. CASE \A k \in (n + 1)..far : RetriesOf(ts, row[k]) = {}
  <2>1. \A k \in (n + 1)..far : RetriesOf(Tail(ts), row[k]) = {}
    BY <1>1, <1>2
  <2> QED
    BY <2>1 DEF Ordered
<1>3. CASE \A k \in (n + 1)..far :
             /\ RetriesOf(ts, row[k]) # {}
             /\ \A m \in (n + 1)..(k - 1), i \in RetriesOf(ts, row[k]) :
                  \E j \in RetriesOf(ts, row[m]) : j < i
  <2>1. ASSUME NEW k \in (n + 1)..far PROVE RetriesOf(Tail(ts), row[k]) # {}
    BY <1>1, <1>3
  <2>2. ASSUME NEW k \in (n + 1)..far, NEW m \in (n + 1)..(k - 1), NEW i \in RetriesOf(Tail(ts), row[k])
        PROVE  \E j \in RetriesOf(Tail(ts), row[m]) : j < i
    <3>1. m \in (n + 1)..far /\ row[m] # Head(ts).card /\ row[k] # Head(ts).card
      OBVIOUS
    <3>2. i \in Nat /\ i + 1 \in RetriesOf(ts, row[k])
      BY <1>1, <3>1
    <3>3. PICK j \in RetriesOf(ts, row[m]) : j < i + 1
      BY <1>3, <3>2
    <3>4. j \in Nat /\ j > 1 /\ j - 1 \in RetriesOf(Tail(ts), row[m])
      BY <1>1, <3>1
    <3>5. j - 1 < i
      BY <3>2, <3>3, <3>4
    <3> QED
      BY <3>4, <3>5
  <2> QED
    BY <2>1, <2>2 DEF Ordered
<1> QED
  BY <1>2, <1>3 DEF Ordered

\* The first retry of all is that of the first card that waits.
LEMMA FirstRetry ==
  ASSUME NEW ts \in Seq(Ticks), ts # <<>>, NEW row, NEW n \in Nat, NEW far \in Nat,
         NEW k \in (n + 1)..far, row[k] = Head(ts).card, Ordered(ts, row, n, far)
  PROVE  k = n + 1
<1>1. 1 \in RetriesOf(ts, row[k])
  BY DEF RetriesOf
<1>2. SUFFICES ASSUME k # n + 1 PROVE FALSE
  OBVIOUS
<1>3. n + 1 \in (n + 1)..(k - 1)
  BY <1>2
<1>4. \E j \in RetriesOf(ts, row[n + 1]) : j < 1
  BY <1>1, <1>3 DEF Ordered
<1>5. \A j \in RetriesOf(ts, row[n + 1]) : j \in 1..Len(ts)
  BY DEF RetriesOf
<1> QED
  BY <1>4, <1>5

-----------------------------------------------------------------------------

(***************************************************************************)
(* A card that is tried.                                                   *)
(***************************************************************************)
\* What trying a card makes of a script: nothing, a retry to come, or a dressed card.
Trial(s, t, c) ==
  LET kind == KindOfCard(c)
      q == s.queues[kind]
      w == s.cards[c]
  IN /\ t \in Scripts
     /\ \A d \in Cards \ {c} : t.cards[d] = s.cards[d]
     /\ \A other \in Kinds \ {kind} : t.queues[other] = s.queues[other]
     /\ \/ t = s /\ w.data # {}
        \/ /\ t.queues = s.queues /\ t.cards = s.cards /\ w.data = {} /\ q = <<>>
           /\ \/ t.timers = s.timers
              \/ \E x \in Ticks : x.card = c /\ t.timers = Append(s.timers, x)
        \/ \E listing \in SUBSET Cards :
             /\ t.timers = s.timers
             /\ \/ listing = w.data /\ w.data # {} /\ t.queues = s.queues
                \/ /\ w.data = {} /\ q # <<>> /\ listing = {q[1]}
                   /\ t.queues[kind] = Tail(q)
             /\ t.cards[c] = [data |-> listing, age |-> Metadata(w, listing),
                              line |-> PriceOverlay(w, listing)]

LEMMA TriedIs ==
  ASSUME NEW s \in Scripts, NEW c \in Cards, NEW left \in 0..(MaxTimers + 1), BareIn(s),
         Shown \in Shows
  PROVE  Trial(s, Tried(s, c, left), c)
<1> DEFINE t == Tried(s, c, left)
           kind == KindOfCard(c)
           q == s.queues[kind]
           w == s.cards[c]
           listing == ItemData(s, c)
           dress == [data |-> listing, age |-> Metadata(w, listing), line |-> PriceOverlay(w, listing)]
<1>1. /\ s = [queues |-> s.queues, cards |-> s.cards, timers |-> s.timers]
      /\ s.queues \in [Kinds -> Seq(Cards)] /\ s.cards \in [Cards -> Worn] /\ s.timers \in Seq(Ticks)
  BY DEF Scripts
<1>2. kind \in Kinds /\ q \in Seq(Cards) /\ w \in Worn
  BY <1>1, RowFacts
<1>3. w.data \subseteq Cards /\ w.age \subseteq Cards /\ w.line \subseteq [of : Cards, shown : Shows]
      /\ (w.data = {} => w.line = {})
  BY <1>2 DEF Worn, BareIn
<1>4. CASE w.line # {}
  <2>1. t = s
    BY <1>4 DEF Tried
  <2> QED
    BY <1>3, <1>4, <2>1 DEF Trial
<1>5. ASSUME w.line = {}, listing = {}
      PROVE  /\ w.data = {} /\ q = <<>>
             /\ t = [s EXCEPT !.timers = @ \o Again(c, left)]
  <2>1. t = [s EXCEPT !.timers = @ \o Again(c, left)]
    BY <1>5 DEF Tried
  <2>2. w.data = {} /\ FirstOf(q) = {}
    BY <1>5 DEF ItemData
  <2>3. q = <<>>
    <3>1. SUFFICES ASSUME q # <<>> PROVE FALSE
      OBVIOUS
    <3>2. 1 \in DOMAIN q
      BY <1>2, <3>1
    <3>3. q[1] \in FirstOf(q)
      BY <3>2 DEF FirstOf
    <3> QED
      BY <2>2, <3>3
  <2> QED
    BY <2>1, <2>2, <2>3
<1>6. CASE w.line = {} /\ listing = {}
  <2>1. /\ t.queues = s.queues /\ t.cards = s.cards /\ t.timers = s.timers \o Again(c, left)
        /\ t = [queues |-> s.queues, cards |-> s.cards, timers |-> s.timers \o Again(c, left)]
    BY <1>1, <1>5, <1>6
  <2>2. CASE left = 0
    <3>1. t.timers = s.timers
      BY <1>1, <2>1, <2>2 DEF Again
    <3>2. t \in Scripts
      BY <1>1, <2>1, <3>1 DEF Scripts
    <3> QED
      BY <1>5, <1>6, <2>1, <3>1, <3>2 DEF Trial
  <2>3. CASE left # 0
    <3> DEFINE x == [card |-> c, left |-> left - 1]
    <3>1. x \in Ticks /\ x.card = c
      BY <2>3, GridAssumption DEF Ticks
    <3>2. Again(c, left) = <<x>>
      BY <2>3 DEF Again
    <3> HIDE DEF x
    <3>3. t.timers = Append(s.timers, x) /\ s.timers \o <<x>> \in Seq(Ticks)
      BY <1>1, <2>1, <3>1, <3>2
    <3>4. t \in Scripts
      BY <1>1, <2>1, <3>2, <3>3 DEF Scripts
    <3> QED
      BY <1>5, <1>6, <2>1, <3>1, <3>3, <3>4 DEF Trial
  <2> QED
    BY <2>2, <2>3
<1>7. CASE w.line = {} /\ listing # {}
  <2>1. t = Dressed(s, c)
    BY <1>7 DEF Tried
  <2>2. t = [s EXCEPT !.queues[kind] = IF w.data = listing THEN @ ELSE Tail(@), !.cards[c] = dress]
    BY <2>1 DEF Dressed
  <2> DEFINE queue == IF w.data = listing THEN q ELSE Tail(q)
  <2>3. /\ t.queues = [s.queues EXCEPT ![kind] = queue]
        /\ t.cards = [s.cards EXCEPT ![c] = dress] /\ t.timers = s.timers
        /\ t = [queues |-> t.queues, cards |-> t.cards, timers |-> t.timers]
    BY <1>1, <2>2
  <2>4. \/ w.data # {} /\ listing = w.data
        \/ w.data = {} /\ q # <<>> /\ listing = {q[1]}
    <3>1. CASE w.data # {}
      BY <3>1 DEF ItemData
    <3>2. CASE w.data = {}
      <4>1. listing = FirstOf(q)
        BY <3>2 DEF ItemData
      <4>2. 1 \in DOMAIN q
        BY <1>7, <4>1 DEF FirstOf
      <4>3. FirstOf(q) = {q[1]}
        BY <4>2 DEF FirstOf
      <4> QED
        BY <1>2, <3>2, <4>1, <4>2, <4>3
    <3> QED
      BY <3>1, <3>2
  <2>5. listing \in SUBSET Cards /\ queue \in Seq(Cards)
    BY <1>2, <1>3, <2>4
  <2>6. dress \in Worn
    <3>1. Metadata(w, listing) \in SUBSET Cards
      BY <1>3, <2>5 DEF Metadata
    <3>2. PriceOverlay(w, listing) \in SUBSET [of : Cards, shown : Shows]
      BY <1>3, <2>5 DEF PriceOverlay
    <3> QED
      BY <2>5, <3>1, <3>2 DEF Worn
  <2> HIDE DEF dress, queue, listing, t, w
  <2>7. t \in Scripts
    BY <1>1, <1>2, <2>3, <2>5, <2>6 DEF Scripts
  <2>8. /\ t.queues[kind] = queue /\ \A other \in Kinds \ {kind} : t.queues[other] = s.queues[other]
        /\ t.cards[c] = dress /\ \A d \in Cards \ {c} : t.cards[d] = s.cards[d]
    BY <1>1, <1>2, <2>3
  <2>9. w.data = listing => t.queues = s.queues
    BY <1>1, <1>2, <2>3 DEF queue
  <2>10. w.data # listing => t.queues[kind] = Tail(q)
    BY <2>8 DEF queue
  <2>11. \/ listing = w.data /\ w.data # {} /\ t.queues = s.queues
         \/ w.data = {} /\ q # <<>> /\ listing = {q[1]} /\ t.queues[kind] = Tail(q)
    BY <2>4, <2>9, <2>10
  <2> QED
    BY <2>3, <2>5, <2>7, <2>8, <2>11 DEF Trial, dress, t, w
<1> QED
  BY <1>4, <1>6, <1>7

\* Trying a card leaves no card half dressed, and puts on nothing but the latest rate.
LEMMA TriedIsDressed ==
  ASSUME NEW s \in Scripts, NEW c \in Cards, NEW left \in 0..(MaxTimers + 1), BareIn(s),
         Shown \in Shows
  PROVE  LET t == Tried(s, c, left)
         IN /\ t \in Scripts /\ BareIn(t) /\ (FreshIn(s) => FreshIn(t))
            /\ \A i \in DOMAIN t.timers :
                 t.timers[i].card = c \/ \E k \in DOMAIN s.timers : t.timers[i] = s.timers[k]
<1> DEFINE t == Tried(s, c, left)
           kind == KindOfCard(c)
           q == s.queues[kind]
           w == s.cards[c]
<1>1. /\ t \in Scripts
      /\ \A d \in Cards \ {c} : t.cards[d] = s.cards[d]
      /\ \/ t = s
         \/ /\ t.cards = s.cards
            /\ \/ t.timers = s.timers
               \/ \E x \in Ticks : x.card = c /\ t.timers = Append(s.timers, x)
         \/ \E listing \in SUBSET Cards :
              /\ t.timers = s.timers /\ listing # {}
              /\ t.cards[c] = [data |-> listing, age |-> Metadata(w, listing),
                               line |-> PriceOverlay(w, listing)]
  <2>1. Trial(s, t, c)
    BY TriedIs
  <2> HIDE DEF t
  <2> QED
    BY <2>1 DEF Trial
<1>2. s.timers \in Seq(Ticks)
  BY DEF Scripts
<1> HIDE DEF t
<1>3. \A i \in DOMAIN t.timers :
        t.timers[i].card = c \/ \E k \in DOMAIN s.timers : t.timers[i] = s.timers[k]
  <2>1. CASE t.timers = s.timers
    BY <2>1
  <2>2. CASE \E x \in Ticks : x.card = c /\ t.timers = Append(s.timers, x)
    BY <1>2, <2>2
  <2> QED
    BY <1>1, <2>1, <2>2
<1>4. CASE t.cards = s.cards
  BY <1>1, <1>3, <1>4 DEF BareIn, FreshIn, t
<1>5. CASE t.cards # s.cards
  <2>1. PICK listing \in SUBSET Cards :
          /\ listing # {}
          /\ t.cards[c] = [data |-> listing, age |-> Metadata(w, listing),
                           line |-> PriceOverlay(w, listing)]
    BY <1>1, <1>5
  <2>2. t.cards[c].data # {} /\ t.cards[c].line = PriceOverlay(w, listing)
    BY <2>1
  <2>3. BareIn(t)
    BY <1>1, <2>2 DEF BareIn
  <2>4. ASSUME FreshIn(s) PROVE \A l \in t.cards[c].line : l.shown = Shown
    BY <2>2, <2>4 DEF PriceOverlay, FreshIn
  <2>5. FreshIn(s) => FreshIn(t)
    BY <1>1, <2>4 DEF FreshIn
  <2> QED
    BY <1>1, <1>3, <2>3, <2>5 DEF t
<1> QED
  BY <1>4, <1>5

\* The far end of a row, and where its answer ends.
Within(kind, far, goal) ==
  kind \in Kinds /\ far \in 0..Len(Row(kind)) /\ goal \in 0..Len(Row(kind))

\* A card that is next takes its own listing; one that is not changes nothing of its row.
LEMMA TriedServes ==
  ASSUME NEW s \in Scripts, NEW c \in Cards, NEW left \in 0..(MaxTimers + 1), BareIn(s),
         Shown \in Shows, OwnIn(s), NEW kind, NEW far, NEW goal, Within(kind, far, goal), NEW n,
         RowServed(s, kind, far, goal, n),
         KindOfCard(c) = kind => \E k \in 1..far :
           c = Row(kind)[k] /\ (s.queues[kind] = <<>> \/ k <= n + 1)
  PROVE  LET t == Tried(s, c, left)
             m == IF KindOfCard(c) = kind /\ s.queues[kind] # <<>> /\ c = Row(kind)[n + 1]
                  THEN n + 1 ELSE n
         IN /\ m \in n..far /\ RowServed(t, kind, far, goal, m)
            /\ s.queues[kind] = <<>> => t.queues[kind] = <<>>
            /\ \/ t.timers = s.timers
               \/ \E x \in Ticks : /\ x.card = c /\ t.timers = Append(s.timers, x)
                                   /\ KindOfCard(c) = kind => s.queues[kind] = <<>>
<1> DEFINE t == Tried(s, c, left)
           row == Row(kind)
           q == s.queues[kind]
           m == IF KindOfCard(c) = kind /\ q # <<>> /\ c = row[n + 1] THEN n + 1 ELSE n
<1>1. /\ kind \in Kinds /\ row \in Seq(Cards) /\ far \in 0..Len(row) /\ goal \in 0..Len(row)
      /\ n \in 0..far /\ Len(row) \in Nat /\ DOMAIN row = 1..Len(row)
      /\ \A k \in 1..Len(row) : row[k] \in Cards /\ KindOfCard(row[k]) = kind
      /\ \A i, k \in 1..Len(row) : row[i] = row[k] => i = k
  <2>1. kind \in Kinds /\ far \in 0..Len(row) /\ goal \in 0..Len(row) /\ n \in 0..far
    BY DEF Within, RowServed
  <2>2. row \in Seq(Cards)
    BY <2>1, RowFacts
  <2>3. Len(row) \in Nat /\ DOMAIN row = 1..Len(row)
    BY <2>2
  <2>4. \A i, k \in DOMAIN row : row[i] = row[k] => i = k
    BY <2>1, RowFacts
  <2>5. \A k \in DOMAIN row : row[k] \in Cards /\ KindOfCard(row[k]) = kind
    BY <2>1, RowFacts
  <2> QED
    BY <2>1, <2>2, <2>3, <2>4, <2>5
<1>2. /\ t \in Scripts
      /\ \A d \in Cards \ {c} : t.cards[d] = s.cards[d]
      /\ \A other \in Kinds \ {KindOfCard(c)} : t.queues[other] = s.queues[other]
      /\ \/ t = s /\ s.cards[c].data # {}
         \/ /\ t.queues = s.queues /\ t.cards = s.cards /\ s.cards[c].data = {}
            /\ s.queues[KindOfCard(c)] = <<>>
            /\ \/ t.timers = s.timers
               \/ \E x \in Ticks : x.card = c /\ t.timers = Append(s.timers, x)
         \/ \E listing \in SUBSET Cards :
              /\ t.timers = s.timers
              /\ \/ listing = s.cards[c].data /\ s.cards[c].data # {} /\ t.queues = s.queues
                 \/ /\ s.cards[c].data = {} /\ s.queues[KindOfCard(c)] # <<>>
                    /\ listing = {s.queues[KindOfCard(c)][1]}
                    /\ t.queues[KindOfCard(c)] = Tail(s.queues[KindOfCard(c)])
              /\ t.cards[c].data = listing
  <2>1. Trial(s, t, c)
    BY TriedIs
  <2> HIDE DEF t
  <2>2. CASE t = s /\ s.cards[c].data # {}
    BY <2>1, <2>2 DEF Trial
  <2>3. CASE /\ t.queues = s.queues /\ t.cards = s.cards /\ s.cards[c].data = {}
             /\ s.queues[KindOfCard(c)] = <<>>
             /\ \/ t.timers = s.timers
                \/ \E x \in Ticks : x.card = c /\ t.timers = Append(s.timers, x)
    BY <2>1, <2>3 DEF Trial
  <2>4. ASSUME NEW listing \in SUBSET Cards,
               t.timers = s.timers,
               \/ listing = s.cards[c].data /\ s.cards[c].data # {} /\ t.queues = s.queues
               \/ /\ s.cards[c].data = {} /\ s.queues[KindOfCard(c)] # <<>>
                  /\ listing = {s.queues[KindOfCard(c)][1]}
                  /\ t.queues[KindOfCard(c)] = Tail(s.queues[KindOfCard(c)]),
               t.cards[c] = [data |-> listing, age |-> Metadata(s.cards[c], listing),
                             line |-> PriceOverlay(s.cards[c], listing)]
        PROVE  <1>2!:
    <3>1. t.cards[c].data = listing
      BY <2>4
    <3> QED
      BY <2>1, <2>4, <3>1 DEF Trial
  <2> QED
    BY <2>1, <2>2, <2>3, <2>4 DEF Trial
<1>3. /\ \A k \in 1..Len(row) : s.cards[row[k]].data = IF k <= n THEN {row[k]} ELSE {}
      /\ q = <<>> \/ q = SubSeq(row, n + 1, goal)
  BY <1>1 DEF RowServed
<1> HIDE DEF t, row
<1>4. CASE KindOfCard(c) # kind
  <2>1. t.queues[kind] = q /\ \A k \in 1..Len(row) : t.cards[row[k]] = s.cards[row[k]]
    BY <1>1, <1>2, <1>4
  <2>2. RowServed(t, kind, far, goal, n)
    BY <1>1, <1>3, <2>1 DEF RowServed, row
  <2>3. m = n
    BY <1>4
  <2>4. t.timers = s.timers \/ \E x \in Ticks : x.card = c /\ t.timers = Append(s.timers, x)
    BY <1>2
  <2> QED
    BY <1>1, <1>4, <2>1, <2>2, <2>3, <2>4 DEF t, row
<1>5. CASE KindOfCard(c) = kind
  <2>1. PICK k \in 1..far : c = row[k] /\ (q = <<>> \/ k <= n + 1)
    BY <1>5 DEF row
  <2>2. k \in 1..Len(row) /\ k \in Nat /\ n \in Nat
    BY <1>1
  <2>3. CASE s.cards[c].data # {}
    <3>1. k <= n
      BY <1>3, <2>1, <2>2, <2>3
    <3>2. m = n
      <4>1. n + 1 \in 1..Len(row) => row[n + 1] # c
        BY <1>1, <2>1, <2>2, <3>1
      <4>2. q # <<>> => n + 1 \in 1..Len(row)
        <5>1. goal < n + 1 => SubSeq(row, n + 1, goal) = <<>>
          BY <1>1, <2>2
        <5> QED
          BY <1>1, <1>3, <2>2, <5>1
      <4> QED
        BY <4>1, <4>2
    <3>3. t.queues[kind] = q /\ t.timers = s.timers /\ t.cards[c].data = s.cards[c].data
      BY <1>2, <2>3
    <3>4. \A i \in 1..Len(row) : t.cards[row[i]].data = s.cards[row[i]].data
      BY <1>1, <1>2, <3>3
    <3>5. RowServed(t, kind, far, goal, n)
      BY <1>1, <1>3, <3>3, <3>4 DEF RowServed, row
    <3> QED
      BY <1>1, <2>2, <3>2, <3>3, <3>5 DEF t, row
  <2>4. CASE s.cards[c].data = {} /\ q = <<>>
    <3>1. t.queues = s.queues /\ t.cards = s.cards
          /\ (t.timers = s.timers \/ \E x \in Ticks : x.card = c /\ t.timers = Append(s.timers, x))
      BY <1>2, <1>5, <2>4
    <3>2. m = n
      BY <2>4
    <3>3. RowServed(t, kind, far, goal, n)
      BY <1>1, <1>3, <3>1 DEF RowServed, row
    <3> QED
      BY <1>1, <2>2, <2>4, <3>1, <3>2, <3>3 DEF t, row
  <2>5. CASE s.cards[c].data = {} /\ q # <<>>
    <3>1. k = n + 1
      <4>1. s.cards[row[k]].data = {}
        BY <2>1, <2>5
      <4>2. ~(k <= n)
        BY <1>3, <2>2, <4>1
      <4> QED
        BY <2>1, <2>2, <2>5, <4>2
    <3>2. m = n + 1 /\ m \in n..far
      BY <1>5, <2>1, <2>2, <2>5, <3>1
    <3>3. q = SubSeq(row, n + 1, goal) /\ n + 1 <= goal
      BY <1>1, <1>3, <2>2, <2>5
    <3>4. q[1] = row[n + 1] /\ Tail(q) = SubSeq(row, n + 2, goal)
      <4>1. n + 1 \in 1..Len(row) /\ goal \in (n + 1)..Len(row)
        BY <1>1, <2>2, <3>3
      <4>2. Head(q) = row[n + 1] /\ Tail(q) = SubSeq(row, (n + 1) + 1, goal)
        BY <1>1, <3>3, <4>1, HeadTailOfSubSeq
      <4>3. (n + 1) + 1 = n + 2
        BY <2>2
      <4>4. Head(q) = q[1]
        OBVIOUS
      <4> QED
        BY <4>2, <4>3, <4>4
    <3>5. t.timers = s.timers /\ t.cards[c].data = {q[1]} /\ t.queues[kind] = Tail(q)
      BY <1>2, <1>5, <2>5
    <3>6. \A i \in 1..Len(row) : i # k => t.cards[row[i]] = s.cards[row[i]]
      BY <1>1, <1>2, <2>1, <2>2
    <3>7. \A i \in 1..Len(row) : t.cards[row[i]].data = IF i <= n + 1 THEN {row[i]} ELSE {}
      <4>1. t.cards[row[k]].data = {row[k]}
        BY <2>1, <3>1, <3>4, <3>5
      <4>2. ASSUME NEW i \in 1..Len(row), i # k
            PROVE  t.cards[row[i]].data = IF i <= n + 1 THEN {row[i]} ELSE {}
        <5>1. i <= n + 1 <=> i <= n
          BY <2>2, <3>1, <4>2
        <5> QED
          BY <1>3, <3>6, <4>2, <5>1
      <4>3. ASSUME NEW i \in 1..Len(row), i = k
            PROVE  t.cards[row[i]].data = IF i <= n + 1 THEN {row[i]} ELSE {}
        <5>1. i <= n + 1
          BY <2>2, <3>1, <4>3
        <5> QED
          BY <4>1, <4>3, <5>1
      <4> QED
        BY <4>2, <4>3
    <3>8. (n + 1) + 1 = n + 2
      BY <2>2
    <3>9. RowServed(t, kind, far, goal, m)
      <4>0. n + 1 \in 0..far
        BY <2>1, <2>2, <3>1
      <4>1. t.queues[kind] = SubSeq(row, (n + 1) + 1, goal) /\ n + 1 \in 0..far
        BY <3>4, <3>5, <3>8, <4>0
      <4>2. RowServed(t, kind, far, goal, n + 1)
        BY <1>1, <3>7, <4>1 DEF RowServed, row
      <4> QED
        BY <3>2, <4>2
    <3> QED
      BY <2>5, <3>2, <3>5, <3>9 DEF t, row
  <2> QED
    BY <2>3, <2>4, <2>5
<1> QED
  BY <1>4, <1>5

\* The same, under a name.
Taken(s, t, kind, far, goal, n, c) ==
  LET m == IF KindOfCard(c) = kind /\ s.queues[kind] # <<>> /\ c = Row(kind)[n + 1]
           THEN n + 1 ELSE n
  IN /\ m \in n..far /\ RowServed(t, kind, far, goal, m)
     /\ s.queues[kind] = <<>> => t.queues[kind] = <<>>
     /\ \/ t.timers = s.timers
        \/ \E x \in Ticks : /\ x.card = c /\ t.timers = Append(s.timers, x)
                            /\ KindOfCard(c) = kind => s.queues[kind] = <<>>

LEMMA TriedTakes ==
  ASSUME NEW s \in Scripts, NEW c \in Cards, NEW left \in 0..(MaxTimers + 1), BareIn(s),
         Shown \in Shows, OwnIn(s), NEW kind, NEW far, NEW goal, Within(kind, far, goal), NEW n,
         RowServed(s, kind, far, goal, n),
         KindOfCard(c) = kind => \E k \in 1..far :
           c = Row(kind)[k] /\ (s.queues[kind] = <<>> \/ k <= n + 1)
  PROVE  Taken(s, Tried(s, c, left), kind, far, goal, n, c)
BY TriedServes DEF Taken

\* Trying a card puts nothing on it but its own listing, when that is what it is given.
LEMMA TriedIsOwn ==
  ASSUME NEW s \in Scripts, NEW c \in Cards, NEW left \in 0..(MaxTimers + 1), BareIn(s),
         Shown \in Shows, OwnIn(s), Tried(s, c, left).cards[c].data \subseteq {c}
  PROVE  OwnIn(Tried(s, c, left))
<1> DEFINE t == Tried(s, c, left)
           w == s.cards[c]
<1>1. Trial(s, t, c) /\ t.cards[c].data \subseteq {c}
  BY TriedIs
<1> HIDE DEF t
<1>2. CASE t.cards = s.cards
  BY <1>2 DEF OwnIn, t
<1>3. CASE t.cards # s.cards
  <2>1. \A d \in Cards \ {c} : t.cards[d] = s.cards[d]
    BY <1>1 DEF Trial
  <2>2. PICK listing \in SUBSET Cards :
          t.cards[c] = [data |-> listing, age |-> Metadata(w, listing), line |-> PriceOverlay(w, listing)]
    BY <1>1, <1>3 DEF Trial
  <2>3. listing \subseteq {c} /\ t.cards[c].age = Metadata(w, listing) /\ t.cards[c].data = listing
        /\ t.cards[c].line = PriceOverlay(w, listing)
    BY <1>1, <2>2
  <2>4. w.age \subseteq {c} /\ \A l \in w.line : l.of = c
    BY DEF OwnIn
  <2>5. Metadata(w, listing) \subseteq {c}
    BY <2>3, <2>4 DEF Metadata
  <2>6. \A l \in PriceOverlay(w, listing) : l.of = c
    BY <2>3, <2>4 DEF PriceOverlay
  <2>7. t.cards[c].data \cup t.cards[c].age \subseteq {c} /\ \A l \in t.cards[c].line : l.of = c
    BY <2>3, <2>5, <2>6
  <2> QED
    BY <2>1, <2>7 DEF OwnIn, t
<1> QED
  BY <1>2, <1>3

\* A card in step is given its own listing.
LEMMA ServedIsOwn ==
  ASSUME NEW t, NEW kind \in Kinds, NEW far, NEW goal, NEW n, RowServed(t, kind, far, goal, n),
         NEW k \in DOMAIN Row(kind)
  PROVE  t.cards[Row(kind)[k]].data \subseteq {Row(kind)[k]}
<1>1. t.cards[Row(kind)[k]].data = IF k <= n THEN {Row(kind)[k]} ELSE {}
  BY DEF RowServed
<1> QED
  BY <1>1

\* A row stays in step when a card is tried that is next, or one whose turn has passed.
LEMMA TriedKeepsStep ==
  ASSUME NEW s \in Scripts, NEW c \in Cards, NEW left \in 0..(MaxTimers + 1), BareIn(s),
         Shown \in Shows, OwnIn(s), NEW kind, NEW far, NEW goal, Within(kind, far, goal), NEW n,
         RowInStep(s, kind, far, goal, n),
         KindOfCard(c) = kind => \E k \in 1..far :
           c = Row(kind)[k] /\ (s.queues[kind] = <<>> \/ k <= n + 1)
  PROVE  \E m \in n..far :
           /\ RowInStep(Tried(s, c, left), kind, far, goal, m)
           /\ s.queues[kind] = <<>> => m = n /\ Tried(s, c, left).queues[kind] = <<>>
           /\ s.queues[kind] # <<>> /\ c = Row(kind)[n + 1] => m = n + 1
<1> DEFINE t == Tried(s, c, left)
           row == Row(kind)
           m == IF KindOfCard(c) = kind /\ s.queues[kind] # <<>> /\ c = row[n + 1] THEN n + 1 ELSE n
<1>1. RowServed(s, kind, far, goal, n)
  BY DEF RowInStep
<1>2. /\ m \in n..far /\ RowServed(t, kind, far, goal, m)
      /\ s.queues[kind] = <<>> => t.queues[kind] = <<>>
      /\ \/ t.timers = s.timers
         \/ \E x \in Ticks : /\ x.card = c /\ t.timers = Append(s.timers, x)
                             /\ KindOfCard(c) = kind => s.queues[kind] = <<>>
  BY <1>1, TriedServes
<1>3. n \in Nat /\ far \in Nat /\ far <= Len(row) /\ row \in Seq(Cards) /\ kind \in Kinds
  BY <1>1, RowFacts DEF Within, RowServed
<1>4. s.queues[kind] = <<>> => m = n
  OBVIOUS
<1>6. s.queues[kind] # <<>> /\ c = row[n + 1] => m = n + 1
  <2> SUFFICES ASSUME s.queues[kind] # <<>>, c = row[n + 1] PROVE KindOfCard(c) = kind
    OBVIOUS
  <2>1. n + 1 <= goal /\ goal \in 0..Len(row)
    <3>1. s.queues[kind] = SubSeq(row, n + 1, goal) /\ goal \in 0..Len(row)
      BY <1>1 DEF RowServed, Within
    <3> QED
      BY <1>3, <3>1
  <2>2. n + 1 \in DOMAIN row
    BY <1>3, <2>1
  <2> QED
    BY <1>3, <2>2, RowFacts
<1> HIDE DEF m, t
<1>5. ASSUME t.queues[kind] # <<>> PROVE Ordered(t.timers, row, m, far)
  <2>1. Ordered(s.timers, row, n, far) /\ s.queues[kind] # <<>>
    BY <1>2, <1>5 DEF RowInStep
  <2>2. Ordered(s.timers, row, m, far)
    BY <1>2, <1>3, <2>1, OrderedLater
  <2>3. CASE t.timers = s.timers
    BY <2>2, <2>3
  <2>4. CASE \E x \in Ticks : /\ x.card = c /\ t.timers = Append(s.timers, x)
                              /\ KindOfCard(c) = kind => s.queues[kind] = <<>>
    <3>1. PICK x \in Ticks : /\ x.card = c /\ t.timers = Append(s.timers, x)
                             /\ KindOfCard(c) = kind => s.queues[kind] = <<>>
      BY <2>4
    <3>2. KindOfCard(x.card) # kind
      BY <2>1, <3>1
    <3>3. \A k \in (m + 1)..far : k \in DOMAIN row
      BY <1>2, <1>3
    <3>4. \A k \in (m + 1)..far : row[k] # x.card
      BY <1>3, <3>2, <3>3, RowFacts
    <3>5. s.timers \in Seq(Ticks) /\ m \in Nat
      BY <1>2, <1>3 DEF Scripts
    <3> QED
      BY <1>3, <2>2, <3>1, <3>4, <3>5, OrderedAppend
  <2> QED
    BY <1>2, <2>3, <2>4
<1>7. RowInStep(t, kind, far, goal, m)
  BY <1>2, <1>5 DEF RowInStep
<1> QED
  BY <1>2, <1>4, <1>6, <1>7 DEF t

-----------------------------------------------------------------------------

(***************************************************************************)
(* Cards that are gone through, one after another.                         *)
(***************************************************************************)

\* A property of the numbers from 0 that every next one has if the one before has it.
LEMMA CountsUp ==
  ASSUME NEW n \in Nat, NEW S, 0 \in S, \A i \in 1..n : i - 1 \in S => i \in S
  PROVE  \A i \in 0..n : i \in S
<1> DEFINE Missed == {i \in 0..n : i \notin S}
<1> SUFFICES ASSUME NEW m \in 0..n, m \notin S PROVE FALSE
  OBVIOUS
<1>1. Missed \in SUBSET Nat /\ Missed # {}
  OBVIOUS
<1>2. PICK i \in Missed : \A k \in Missed : i <= k
  BY <1>1, LeastNumber
<1>3. i \in 1..n /\ i - 1 \in 0..n /\ ~(i <= i - 1)
  OBVIOUS
<1> QED
  BY <1>2, <1>3

\* The scripts between the cards that are processed.
LEMMA ProcessIs ==
  ASSUME NEW these \in Seq(Cards), Process(these)
  PROVE  \E after :
           /\ after[0] = Script(timers)
           /\ \A i \in 1..Len(these) :
                after[i] = Tried(after[i - 1], these[i], MaxTimers + 1)
           /\ Becomes(after[Len(these)])
<1> DEFINE n == Len(these)
           Stages(f, m) ==
             f = [i \in 0..m |-> IF i = 0 THEN Script(timers)
                                 ELSE Tried(f[i - 1], these[i], MaxTimers + 1)]
           Staged(m) == \E f : Stages(f, m)
           There == {m \in 0..n : Staged(m)}
<1>0. n \in Nat /\ 0 \in 0..n
  OBVIOUS
<1>1. 0 \in There
  <2> DEFINE f == [i \in 0..0 |-> Script(timers)]
  <2>1. Stages(f, 0)
    OBVIOUS
  <2>2. Staged(0)
    BY <2>1
  <2> HIDE DEF Staged, n
  <2> QED
    BY <1>0, <2>2
<1>2. ASSUME NEW m \in 1..n, m - 1 \in There PROVE m \in There
  <2>0. Staged(m - 1)
    <3> HIDE DEF Staged
    <3> QED
      BY <1>2
  <2>1. PICK f : Stages(f, m - 1)
    BY <2>0
  <2> DEFINE g == [i \in 0..m |-> IF i = m THEN Tried(f[m - 1], these[m], MaxTimers + 1) ELSE f[i]]
  <2>7. Stages(g, m)
    <3>1. ASSUME NEW i \in 0..m
          PROVE  g[i] = IF i = 0 THEN Script(timers) ELSE Tried(g[i - 1], these[i], MaxTimers + 1)
      <4>1. CASE i = m
        <5>1. m - 1 \in 0..m /\ m - 1 # m /\ m # 0
          OBVIOUS
        <5> QED
          BY <4>1, <5>1
      <4>2. CASE i # m /\ i # 0
        <5>1. i \in 0..(m - 1) /\ i - 1 \in 0..m /\ i - 1 # m
          BY <4>2
        <5>2. f[i] = Tried(f[i - 1], these[i], MaxTimers + 1)
          BY <2>1, <4>2, <5>1
        <5> QED
          BY <4>2, <5>1, <5>2
      <4>3. CASE i = 0
        <5>1. 0 \in 0..(m - 1) /\ m # 0
          OBVIOUS
        <5>2. f[0] = Script(timers)
          BY <2>1, <5>1
        <5> QED
          BY <4>3, <5>1, <5>2
      <4> QED
        BY <4>1, <4>2, <4>3
    <3> QED
      BY <3>1
  <2>8. Staged(m)
    <3> HIDE DEF Stages, g
    <3> QED
      BY <2>7
  <2>9. m \in 0..n
    BY <1>0
  <2> HIDE DEF Staged, n
  <2> QED
    BY <2>8, <2>9
<1>3. Staged(n)
  <2>1. n \in 0..n
    BY <1>0
  <2> HIDE DEF There, n, Staged
  <2>2. \A i \in 0..n : i \in There
    BY <1>0, <1>1, <1>2, CountsUp
  <2> QED
    BY <2>1, <2>2 DEF There
<1>4. PICK f : Stages(f, n) /\ Becomes(f[n])
  <2> DEFINE f == CHOOSE g : Stages(g, n)
  <2>1. Stages(f, n)
    BY <1>3
  <2>2. Becomes(f[n])
    BY DEF Process
  <2> HIDE DEF f
  <2> QED
    BY <2>1, <2>2
<1>5. f[0] = Script(timers) /\ \A i \in 1..n : f[i] = Tried(f[i - 1], these[i], MaxTimers + 1)
  <2>1. 0 \in 0..n /\ \A i \in 1..n : i \in 0..n /\ i # 0
    BY <1>0
  <2> QED
    BY <1>4, <2>1
<1> QED
  BY <1>4, <1>5

Trials(after, these) ==
  \A i \in 1..Len(these) : after[i] = Tried(after[i - 1], these[i], MaxTimers + 1)

LEMMA TriedIsClean ==
  ASSUME NEW s, NEW c \in Cards, NEW left \in 0..(MaxTimers + 1), Shown \in Shows,
         NEW fresh, NEW drawn, Clean(s, fresh, drawn), c \in drawn
  PROVE  Clean(Tried(s, c, left), fresh, drawn)
<1> DEFINE t == Tried(s, c, left)
<1>1. s \in Scripts /\ BareIn(s)
  BY DEF Clean
<1>2. /\ t \in Scripts /\ BareIn(t) /\ (FreshIn(s) => FreshIn(t))
      /\ \A i \in DOMAIN t.timers :
           t.timers[i].card = c \/ \E k \in DOMAIN s.timers : t.timers[i] = s.timers[k]
  BY <1>1, TriedIsDressed
<1> HIDE DEF t
<1> QED
  BY <1>2 DEF Clean, t

\* One after another, they all stay clean.
LEMMA TrialsAreClean ==
  ASSUME NEW these \in Seq(Cards), NEW after, Trials(after, these), Shown \in Shows,
         NEW fresh, NEW drawn, Clean(after[0], fresh, drawn),
         \A i \in 1..Len(these) : these[i] \in drawn
  PROVE  \A i \in 0..Len(these) : Clean(after[i], fresh, drawn)
<1> DEFINE n == Len(these)
           S == {i \in 0..n : Clean(after[i], fresh, drawn)}
<1>0. n \in Nat /\ 0 \in 0..n /\ \A i \in 1..n : i \in 0..n
  OBVIOUS
<1>1. 0 \in S
  BY <1>0
<1>2. ASSUME NEW i \in 1..n, i - 1 \in S PROVE i \in S
  <2>1. these[i] \in Cards /\ these[i] \in drawn /\ after[i] = Tried(after[i - 1], these[i], MaxTimers + 1)
    BY DEF Trials
  <2>2. MaxTimers + 1 \in 0..(MaxTimers + 1)
    BY GridAssumption
  <2>3. Clean(after[i - 1], fresh, drawn)
    BY <1>2
  <2>4. Clean(after[i], fresh, drawn)
    BY <2>1, <2>2, <2>3, TriedIsClean
  <2> QED
    BY <1>0, <2>4
<1> HIDE DEF S, n
<1>3. \A i \in 0..n : i \in S
  BY <1>0, <1>1, <1>2, CountsUp
<1> QED
  BY <1>3 DEF S, n

\* Cards that come in the order of their row, from the next one on or from one before.
Contiguous(these, kind, n) ==
  \A i \in 1..Len(these), k \in DOMAIN Row(kind) :
    these[i] = Row(kind)[k] =>
      k <= n + 1 \/ (k > 1 /\ \E j \in 1..(i - 1) : these[j] = Row(kind)[k - 1])

\* A row after i of the cards were tried: none of them is ahead of those served.
StagedRow(s, these, i, kind, far, goal, n, empty) ==
  \E m \in n..far :
    /\ RowInStep(s, kind, far, goal, m)
    /\ empty => m = n /\ s.queues[kind] = <<>>
    /\ s.queues[kind] # <<>> =>
         \A j \in 1..i, k \in DOMAIN Row(kind) : these[j] = Row(kind)[k] => k <= m

\* One more of them, for one row; for both; and all of them.
LEMMA StagedRowGoesOn ==
  ASSUME NEW these \in Seq(Cards), NEW i \in 1..Len(these), NEW s \in Scripts, BareIn(s), OwnIn(s),
         Shown \in Shows, NEW kind, NEW far, NEW goal, Within(kind, far, goal),
         NEW n \in Nat, NEW empty \in BOOLEAN, empty \/ Contiguous(these, kind, n),
         StagedRow(s, these, i - 1, kind, far, goal, n, empty),
         KindOfCard(these[i]) = kind => \E k \in 1..far : these[i] = Row(kind)[k]
  PROVE  StagedRow(Tried(s, these[i], MaxTimers + 1), these, i, kind, far, goal, n, empty)
<1> DEFINE c == these[i]
           t == Tried(s, c, MaxTimers + 1)
           row == Row(kind)
<1>1. PICK m \in n..far :
        /\ RowInStep(s, kind, far, goal, m)
        /\ empty => m = n /\ s.queues[kind] = <<>>
        /\ s.queues[kind] # <<>> =>
             \A j \in 1..(i - 1), k \in DOMAIN row : these[j] = row[k] => k <= m
  BY DEF StagedRow
<1>2. kind \in Kinds /\ far \in Nat /\ far <= Len(row) /\ row \in Seq(Cards) /\ m \in Nat /\ c \in Cards
  BY RowFacts DEF Within
<1>3. MaxTimers + 1 \in 0..(MaxTimers + 1)
  BY GridAssumption
<1>4. ASSUME KindOfCard(c) = kind
      PROVE  \E k \in 1..far : c = row[k] /\ (s.queues[kind] = <<>> \/ k <= m + 1)
  <2>1. PICK k \in 1..far : c = row[k]
    BY <1>4
  <2>2. ASSUME s.queues[kind] # <<>> PROVE k <= m + 1
    <3>1. Contiguous(these, kind, n) /\ k \in DOMAIN row
      BY <1>1, <1>2, <2>2
    <3>2. CASE k <= n + 1
      BY <1>2, <3>2
    <3>3. CASE k > 1 /\ \E j \in 1..(i - 1) : these[j] = row[k - 1]
      <4>1. k - 1 \in DOMAIN row
        BY <1>2, <3>1, <3>3
      <4>2. k - 1 <= m
        BY <1>1, <2>2, <3>3, <4>1
      <4> QED
        BY <1>2, <4>2
    <3> QED
      BY <2>1, <3>1, <3>2, <3>3 DEF Contiguous
  <2> QED
    BY <2>1, <2>2
<1>5. PICK p \in m..far :
        /\ RowInStep(t, kind, far, goal, p)
        /\ s.queues[kind] = <<>> => p = m /\ t.queues[kind] = <<>>
        /\ s.queues[kind] # <<>> /\ c = row[m + 1] => p = m + 1
  BY <1>1, <1>2, <1>3, <1>4, TriedKeepsStep
<1> HIDE DEF t
<1>6. p \in n..far
  OBVIOUS
<1>7. empty => p = n /\ t.queues[kind] = <<>>
  BY <1>1, <1>5
<1>8. ASSUME t.queues[kind] # <<>>, NEW j \in 1..i, NEW k \in DOMAIN row, these[j] = row[k]
      PROVE  k <= p
  <2>1. s.queues[kind] # <<>>
    BY <1>5, <1>8
  <2>2. CASE j # i
    <3>1. j \in 1..(i - 1)
      BY <2>2
    <3>2. k <= m
      BY <1>1, <1>8, <2>1, <3>1
    <3> QED
      BY <1>2, <3>2
  <2>3. CASE j = i
    <3>1. c = row[k] /\ KindOfCard(c) = kind
      BY <1>2, <1>8, <2>3, RowFacts
    <3>2. PICK l \in 1..far : c = row[l] /\ l <= m + 1
      BY <1>4, <2>1, <3>1
    <3>3. l \in DOMAIN row
      BY <1>2
    <3>4. l = k
      BY <1>2, <3>1, <3>2, <3>3, RowFacts
    <3>5. CASE k = m + 1
      BY <1>5, <2>1, <3>1, <3>5
    <3>6. CASE k # m + 1
      BY <1>2, <3>2, <3>4, <3>6
    <3> QED
      BY <3>5, <3>6
  <2> QED
    BY <2>2, <2>3
<1> QED
  BY <1>5, <1>6, <1>7, <1>8 DEF StagedRow, t

StagedRows(s, these, i, far, goal, from, bare) ==
  /\ OwnIn(s)
  /\ \A kind \in Kinds :
       StagedRow(s, these, i, kind, far[kind], goal[kind], from[kind], bare[kind])

LEMMA StagedGoesOn ==
  ASSUME NEW these \in Seq(Cards), NEW i \in 1..Len(these), NEW s \in Scripts, BareIn(s),
         Shown \in Shows, NEW far, NEW goal, \A kind \in Kinds : Within(kind, far[kind], goal[kind]),
         NEW from \in [Kinds -> Nat], NEW bare \in [Kinds -> BOOLEAN],
         \A kind \in Kinds : bare[kind] \/ Contiguous(these, kind, from[kind]),
         StagedRows(s, these, i - 1, far, goal, from, bare),
         IsDrawn(these[i], far[KindOfCard(these[i])])
  PROVE  StagedRows(Tried(s, these[i], MaxTimers + 1), these, i, far, goal, from, bare)
<1> DEFINE c == these[i]
           t == Tried(s, c, MaxTimers + 1)
<1>1. OwnIn(s) /\ c \in Cards
  BY DEF StagedRows
<1>2. ASSUME NEW kind \in Kinds
      PROVE  StagedRow(t, these, i, kind, far[kind], goal[kind], from[kind], bare[kind])
  <2>1. StagedRow(s, these, i - 1, kind, far[kind], goal[kind], from[kind], bare[kind])
    BY DEF StagedRows
  <2>2. KindOfCard(c) = kind => \E k \in 1..far[kind] : c = Row(kind)[k]
    BY DEF IsDrawn
  <2>3. from[kind] \in Nat /\ bare[kind] \in BOOLEAN /\ Within(kind, far[kind], goal[kind])
        /\ (bare[kind] \/ Contiguous(these, kind, from[kind]))
    OBVIOUS
  <2> QED
    BY <1>1, <2>1, <2>2, <2>3, StagedRowGoesOn
<1>3. KindOfCard(c) \in Kinds
  BY <1>1, RowFacts
<1> DEFINE kind == KindOfCard(c)
<1>4. PICK m : RowServed(t, kind, far[kind], goal[kind], m)
  BY <1>2, <1>3 DEF StagedRow, RowInStep
<1>5. PICK k \in 1..far[kind] : Row(kind)[k] = c
  BY DEF IsDrawn
<1>6. k \in DOMAIN Row(kind)
  BY <1>3, <1>5, RowFacts DEF Within
<1>7. t.cards[c].data \subseteq {c}
  <2>0. kind \in Kinds
    BY <1>3
  <2> HIDE DEF t, kind
  <2>1. t.cards[Row(kind)[k]].data \subseteq {Row(kind)[k]}
    BY <1>4, <1>6, <2>0, ServedIsOwn
  <2> QED
    BY <1>5, <2>1
<1>8. MaxTimers + 1 \in 0..(MaxTimers + 1)
  BY GridAssumption
<1>9. OwnIn(t)
  BY <1>1, <1>7, <1>8, TriedIsOwn
<1> QED
  BY <1>2, <1>9 DEF StagedRows

LEMMA TrialsKeepStep ==
  ASSUME NEW these \in Seq(Cards), NEW after, Trials(after, these), Shown \in Shows,
         \A i \in 0..Len(these) : after[i] \in Scripts /\ BareIn(after[i]),
         NEW far, NEW goal, \A kind \in Kinds : Within(kind, far[kind], goal[kind]),
         NEW from \in [Kinds -> Nat], NEW bare \in [Kinds -> BOOLEAN],
         \A kind \in Kinds : bare[kind] \/ Contiguous(these, kind, from[kind]),
         StagedRows(after[0], these, 0, far, goal, from, bare),
         \A i \in 1..Len(these) : IsDrawn(these[i], far[KindOfCard(these[i])])
  PROVE  StagedRows(after[Len(these)], these, Len(these), far, goal, from, bare)
<1> DEFINE n == Len(these)
           S == {i \in 0..n : StagedRows(after[i], these, i, far, goal, from, bare)}
<1>0. n \in Nat /\ 0 \in 0..n /\ n \in 0..n /\ \A i \in 1..n : i \in 0..n /\ i - 1 \in 0..n
  OBVIOUS
<1>1. 0 \in S
  BY <1>0
<1>2. ASSUME NEW i \in 1..n, i - 1 \in S PROVE i \in S
  <2>1. after[i - 1] \in Scripts /\ BareIn(after[i - 1])
        /\ after[i] = Tried(after[i - 1], these[i], MaxTimers + 1)
    BY <1>0 DEF Trials
  <2>2. StagedRows(after[i - 1], these, i - 1, far, goal, from, bare)
    BY <1>2
  <2>3. IsDrawn(these[i], far[KindOfCard(these[i])])
    OBVIOUS
  <2>4. StagedRows(after[i], these, i, far, goal, from, bare)
    BY <2>1, <2>2, <2>3, StagedGoesOn
  <2> QED
    BY <1>0, <2>4
<1> HIDE DEF S, n
<1>3. \A i \in 0..n : i \in S
  BY <1>0, <1>1, <1>2, CountsUp
<1>4. n \in S
  BY <1>0, <1>3
<1> QED
  BY <1>4 DEF S, n

-----------------------------------------------------------------------------

(***************************************************************************)
(* What the invariant says of the site and the rows.                       *)
(***************************************************************************)
LEMMA ShownIs == GridFlags => Shown \in Shows
<1> SUFFICES ASSUME GridFlags PROVE Shown \in Shows
  OBVIOUS
<1>1. csfRates.asOf \in 0..MaxRates /\ 0 \in 0..MaxRates /\ csfCurrency \in SiteCurrencies
      /\ "USD" \in SiteCurrencies
  BY GridAssumption DEF GridFlags, SiteCurrencies
<1> QED
  BY <1>1 DEF Shown, Shows

\* How far the rows are drawn, and where their answers begin and end.
LEMMA DrawnFacts ==
  ASSUME GridShapes
  PROVE  /\ \A kind \in Kinds : Within(kind, HowFar(kind), Goal(kind))
         /\ \A kind \in Kinds : Begun(kind) \in Nat /\ HowFar(kind) \in Nat /\ Goal(kind) \in Nat
         /\ \A kind \in Kinds : Begun(kind) <= HowFar(kind)
         /\ market.page \in 1..Len(PageEnds) /\ market.page - 1 \in 0..Len(PageEnds)
         /\ market.page \in Nat /\ market.drawn \in 0..Len(PageEnds) /\ Len(PageEnds) \in Nat
<1>1. /\ market.page \in 1..Len(PageEnds) /\ market.drawn \in 0..Len(PageEnds) /\ Len(PageEnds) \in Nat
      /\ market.drawn \in {market.page - 1, market.page}
  BY PageFacts DEF GridShapes
<1>2. market.page - 1 \in 0..Len(PageEnds) /\ market.page \in 0..Len(PageEnds) /\ market.page \in Nat
  BY <1>1
<1>3. /\ PageEnd(market.page) \in 0..Len(MarketCards) /\ PageEnd(market.page - 1) \in 0..Len(MarketCards)
      /\ PageEnd(market.drawn) \in 0..Len(MarketCards)
      /\ PageEnd(market.page - 1) <= PageEnd(market.page) /\ Len(MarketCards) \in Nat
  BY <1>1, <1>2, PageFacts
<1>4. PageEnd(market.page - 1) <= PageEnd(market.drawn)
  BY <1>1, <1>3
<1>5. Len(Strip) \in Nat
  BY GridAssumption
<1>6. HowFar("similar") \in 0..Len(Strip) /\ HowFar("similar") \in Nat
  BY <1>5 DEF HowFar
<1>7. /\ Within("grid", HowFar("grid"), Goal("grid")) /\ Begun("grid") \in Nat
      /\ HowFar("grid") \in Nat /\ Goal("grid") \in Nat /\ Begun("grid") <= HowFar("grid")
  BY <1>3, <1>4 DEF HowFar, Goal, Begun, Within, Row, Kinds
<1>8. /\ Within("similar", HowFar("similar"), Goal("similar")) /\ Begun("similar") \in Nat
      /\ Goal("similar") \in Nat /\ Begun("similar") <= HowFar("similar")
  BY <1>5, <1>6 DEF Goal, Begun, Within, Row, Kinds
<1> QED
  BY <1>1, <1>2, <1>6, <1>7, <1>8 DEF Kinds

\* What processing makes of the cards.
LEMMA ProcessIsClean ==
  ASSUME NEW these \in Seq(Cards), Process(these), Shown \in Shows, NEW fresh, NEW drawn,
         Clean(Script(timers), fresh, drawn), \A i \in 1..Len(these) : these[i] \in drawn
  PROVE  \E s : Becomes(s) /\ Clean(s, fresh, drawn)
<1>1. PICK after : /\ after[0] = Script(timers)
                   /\ \A i \in 1..Len(these) :
                        after[i] = Tried(after[i - 1], these[i], MaxTimers + 1)
                   /\ Becomes(after[Len(these)])
  BY ProcessIs
<1>2. Trials(after, these) /\ Clean(after[0], fresh, drawn)
  BY <1>1 DEF Trials
<1>3. \A i \in 0..Len(these) : Clean(after[i], fresh, drawn)
  BY <1>2, TrialsAreClean
<1>4. Len(these) \in 0..Len(these)
  OBVIOUS
<1>5. Clean(after[Len(these)], fresh, drawn)
  BY <1>3, <1>4
<1> QED
  BY <1>1, <1>5

\* Cards to be gone through that come in the order of their rows.
GoodPass(these, drawn, far, goal, from) ==
  /\ Clean(Script(timers), FALSE, drawn) /\ OwnIn(Script(timers))
  /\ \A i \in 1..Len(these) :
       these[i] \in drawn /\ IsDrawn(these[i], far[KindOfCard(these[i])])
  /\ from \in [Kinds -> Nat]
  /\ \A kind \in Kinds :
       /\ Within(kind, far[kind], goal[kind])
       /\ queues[kind] = <<>> \/ Contiguous(these, kind, from[kind])
       /\ RowInStep(Script(timers), kind, far[kind], goal[kind], from[kind])

LEMMA ProcessKeepsStep ==
  ASSUME NEW these \in Seq(Cards), Process(these), Shown \in Shows, NEW drawn, NEW far, NEW goal,
         NEW from, GoodPass(these, drawn, far, goal, from)
  PROVE  \E s : /\ Becomes(s) /\ OwnIn(s)
                /\ \A kind \in Kinds : \E m \in from[kind]..far[kind] :
                     /\ RowInStep(s, kind, far[kind], goal[kind], m)
                     /\ queues[kind] = <<>> => m = from[kind] /\ s.queues[kind] = <<>>
<1>10. /\ Clean(Script(timers), FALSE, drawn) /\ OwnIn(Script(timers))
       /\ \A i \in 1..Len(these) : these[i] \in drawn /\ IsDrawn(these[i], far[KindOfCard(these[i])])
       /\ from \in [Kinds -> Nat]
       /\ \A kind \in Kinds : Within(kind, far[kind], goal[kind])
       /\ \A kind \in Kinds : queues[kind] = <<>> \/ Contiguous(these, kind, from[kind])
       /\ \A kind \in Kinds : RowInStep(Script(timers), kind, far[kind], goal[kind], from[kind])
  BY DEF GoodPass
<1> DEFINE bare == [kind \in Kinds |-> queues[kind] = <<>>]
           n == Len(these)
<1>0. /\ bare \in [Kinds -> BOOLEAN] /\ Script(timers).queues = queues
      /\ \A kind \in Kinds : bare[kind] <=> queues[kind] = <<>>
  BY DEF Script
<1>1. PICK after : /\ after[0] = Script(timers)
                   /\ \A i \in 1..Len(these) :
                        after[i] = Tried(after[i - 1], these[i], MaxTimers + 1)
                   /\ Becomes(after[Len(these)])
  BY ProcessIs
<1>2. Trials(after, these) /\ Clean(after[0], FALSE, drawn)
  BY <1>1, <1>10 DEF Trials
<1>3. \A i \in 0..Len(these) : after[i] \in Scripts /\ BareIn(after[i])
  <2>1. \A i \in 0..Len(these) : Clean(after[i], FALSE, drawn)
    BY <1>2, <1>10, TrialsAreClean
  <2> QED
    BY <2>1 DEF Clean
<1> HIDE DEF bare
<1>4. ASSUME NEW kind \in Kinds
      PROVE  StagedRow(after[0], these, 0, kind, far[kind], goal[kind], from[kind], bare[kind])
  <2>1. RowInStep(after[0], kind, far[kind], goal[kind], from[kind])
    BY <1>1, <1>10
  <2>2. from[kind] \in 0..far[kind] /\ far[kind] \in Nat
    BY <2>1, <1>10 DEF RowInStep, RowServed, Within
  <2>3. from[kind] \in from[kind]..far[kind] /\ \A j \in 1..0 : FALSE
    BY <2>2
  <2>4. bare[kind] => after[0].queues[kind] = <<>>
    BY <1>0, <1>1
  <2> QED
    BY <2>1, <2>3, <2>4 DEF StagedRow
<1>5. StagedRows(after[0], these, 0, far, goal, from, bare)
  BY <1>1, <1>4, <1>10 DEF StagedRows
<1>6. \A kind \in Kinds : bare[kind] \/ Contiguous(these, kind, from[kind])
  BY <1>0, <1>10
<1>7. StagedRows(after[n], these, n, far, goal, from, bare)
  BY <1>0, <1>2, <1>3, <1>5, <1>6, <1>10, TrialsKeepStep
<1>8. ASSUME NEW kind \in Kinds
      PROVE  \E m \in from[kind]..far[kind] :
               /\ RowInStep(after[n], kind, far[kind], goal[kind], m)
               /\ queues[kind] = <<>> => m = from[kind] /\ after[n].queues[kind] = <<>>
  BY <1>0, <1>7, <1>10 DEF StagedRows, StagedRow
<1>9. OwnIn(after[n])
  BY <1>7 DEF StagedRows
<1> QED
  BY <1>1, <1>8, <1>9

-----------------------------------------------------------------------------

(***************************************************************************)
(* The step to the next state.                                             *)
(***************************************************************************)
LEMMA ScriptNext ==
  ASSUME NEW s \in Scripts, Becomes(s)
  PROVE  Script(timers)' = s
<1>1. s = [queues |-> s.queues, cards |-> s.cards, timers |-> s.timers]
  BY DEF Scripts
<1> QED
  BY <1>1 DEF Script, Becomes

LEMMA CleanNext ==
  ASSUME NEW s, Becomes(s), NEW fresh, NEW drawn, Clean(s, fresh, drawn),
         ~refreshScheduled' => fresh /\ Shown' = Shown, drawn \subseteq Appeared'
  PROVE  Clean(Script(timers), ~refreshScheduled, Appeared)'
<1>1. Script(timers)' = s
  BY ScriptNext DEF Clean
<1> QED
  BY <1>1 DEF Clean, FreshIn, BareIn

LEMMA StepNext ==
  ASSUME NEW s \in Scripts, Becomes(s), OwnIn(s),
         \A kind \in Kinds :
           RowReady(s, kind, Begun(kind)', HowFar(kind)', Goal(kind)', Awaited(kind)'),
         \A page \in market'.unheard : page = market'.page \/ Page(page) = <<>>
  PROVE  OwnIn(Script(timers))' /\ InStep'
<1>1. Script(timers)' = s
  BY ScriptNext
<1>2. OwnIn(Script(timers))'
  BY <1>1 DEF OwnIn
<1>3. InStep'
  BY <1>1 DEF InStep
<1> QED
  BY <1>2, <1>3

-----------------------------------------------------------------------------

(***************************************************************************)
(* The actions.                                                            *)
(***************************************************************************)
\* What only concerns the site, or the page's own progress, leaves the cards in step.
LEMMA SteadyActions ==
  ASSUME GridInductive,
         \/ CurrencyHeard \/ RatesHeard \/ UIStarts \/ UNCHANGED gridVars
  PROVE  GridInductive'
<1>1. /\ UNCHANGED <<market, strip, cardVars, outOfStep>>
      /\ ~refreshScheduled' => ~refreshScheduled /\ UNCHANGED <<csfCurrency, csfRates>>
  <2>1. CASE CurrencyHeard
    BY <2>1 DEF CurrencyHeard, ScheduleRefresh, cardVars
  <2>2. CASE RatesHeard
    BY <2>2 DEF RatesHeard, ScheduleRefresh, cardVars
  <2>3. CASE UIStarts
    BY <2>3 DEF UIStarts, moneyVars, cardVars
  <2>4. CASE UNCHANGED gridVars
    BY <2>4 DEF gridVars, cardVars
  <2> QED
    BY <2>1, <2>2, <2>3, <2>4
<1>2. GridFlags'
  <2>1. CASE CurrencyHeard
    BY <2>1 DEF CurrencyHeard, ScheduleRefresh, GridFlags, GridInductive
  <2>2. CASE RatesHeard
    <3>1. csfRates' \in [asOf : 0..MaxRates, known : SUBSET Foreign]
      BY <2>2, GridAssumption DEF RatesHeard, GridFlags, GridInductive
    <3>2. refreshScheduled' \in BOOLEAN
      BY <2>2 DEF RatesHeard, ScheduleRefresh, GridFlags, GridInductive
    <3> QED
      BY <2>2, <3>1, <3>2 DEF RatesHeard, GridFlags, GridInductive
  <2>3. CASE UIStarts
    BY <2>3 DEF UIStarts, moneyVars, GridFlags, GridInductive
  <2>4. CASE UNCHANGED gridVars
    BY <2>4 DEF gridVars, GridFlags, GridInductive
  <2> QED
    BY <2>1, <2>2, <2>3, <2>4
<1>3. GridShapes'
  BY <1>1 DEF GridShapes, GridInductive
<1>4. Clean(Script(timers), ~refreshScheduled, Appeared)'
  <2>1. Clean(Script(timers), ~refreshScheduled, Appeared)
    BY DEF GridInductive
  <2>2. Appeared' = Appeared
    BY <1>1 DEF Appeared, HowFar, IsDrawn
  <2>3. Becomes(Script(timers))
    BY <1>1 DEF Script, Becomes, cardVars
  <2>4. ~refreshScheduled' => Shown' = Shown
    BY <1>1 DEF Shown
  <2> QED
    BY <1>1, <2>1, <2>2, <2>3, <2>4, CleanNext
<1>5. ASSUME ~outOfStep' PROVE OwnIn(Script(timers))' /\ InStep'
  <2>1. OwnIn(Script(timers)) /\ InStep
    BY <1>1, <1>5 DEF GridInductive
  <2>2. Script(timers)' = Script(timers)
    BY <1>1 DEF Script, cardVars
  <2> QED
    BY <1>1, <2>1, <2>2 DEF OwnIn, InStep, Begun, HowFar, Goal, Awaited
<1> QED
  BY <1>2, <1>3, <1>4, <1>5 DEF GridInductive

\* The repaint keeps whose line it is, and shows the latest rate.
LEMMA OverlaysRefreshed ==
  ASSUME GridInductive, RefreshOverlays
  PROVE  GridInductive'
<1> DEFINE line(c) == {[l EXCEPT !.shown = Shown] : l \in cards[c].line}
           s == [queues |-> queues, timers |-> timers,
                 cards |-> [c \in Cards |-> [data |-> cards[c].data, age |-> cards[c].age, line |-> line(c)]]]
<1>1. Shown \in Shows /\ GridFlags /\ GridShapes /\ Clean(Script(timers), ~refreshScheduled, Appeared)
  BY ShownIs DEF GridInductive
<1>2. /\ queues \in [Kinds -> Seq(Cards)] /\ cards \in [Cards -> Worn] /\ timers \in Seq(Ticks)
      /\ \A c \in Cards : cards[c].data = {} => cards[c].age = {} /\ cards[c].line = {}
      /\ \A i \in DOMAIN timers : timers[i].card \in Appeared
  BY <1>1 DEF Clean, Scripts, Script, BareIn
<1>3. ASSUME NEW c \in Cards
      PROVE  /\ cards[c] = [data |-> cards[c].data, age |-> cards[c].age, line |-> cards[c].line]
             /\ cards[c].data \subseteq Cards /\ cards[c].age \subseteq Cards
             /\ cards[c].line \subseteq [of : Cards, shown : Shows]
  <2>1. cards[c] \in Worn
    BY <1>2
  <2> QED
    BY <2>1 DEF Worn
<1>4. /\ cards' = [c \in Cards |-> [cards[c] EXCEPT !.line = line(c)]]
      /\ ~refreshScheduled' /\ UNCHANGED <<market, strip, queues, timers, csfCurrency, csfRates, boot, routes, outOfStep>>
      /\ refreshScheduled' \in BOOLEAN
  BY DEF RefreshOverlays
<1>5. cards' = [c \in Cards |-> [data |-> cards[c].data, age |-> cards[c].age, line |-> line(c)]]
  <2>1. \A c \in Cards : [cards[c] EXCEPT !.line = line(c)]
                       = [data |-> cards[c].data, age |-> cards[c].age, line |-> line(c)]
    <3>1. ASSUME NEW r, NEW d, NEW a, NEW w, r = [data |-> d, age |-> a, line |-> w]
          PROVE  \A v : [r EXCEPT !.line = v] = [data |-> d, age |-> a, line |-> v]
      BY <3>1
    <3>2. ASSUME NEW c \in Cards
          PROVE  [cards[c] EXCEPT !.line = line(c)]
                   = [data |-> cards[c].data, age |-> cards[c].age, line |-> line(c)]
      <4> DEFINE v == line(c)
                 r == cards[c]
                 d == cards[c].data
                 a == cards[c].age
                 w == cards[c].line
      <4>1. r = [data |-> d, age |-> a, line |-> w]
        BY <1>3
      <4> HIDE DEF v, r, d, a, w
      <4>2. [r EXCEPT !.line = v] = [data |-> d, age |-> a, line |-> v]
        BY <3>1, <4>1
      <4> QED
        BY <4>2 DEF v, r, d, a
    <3> QED
      BY <3>2
  <2> HIDE DEF line
  <2> QED
    BY <1>4, <2>1
<1>6. Becomes(s)
  BY <1>4, <1>5 DEF Becomes
<1>7. ASSUME NEW c \in Cards, NEW m \in line(c)
      PROVE  m.shown = Shown /\ m \in [of : Cards, shown : Shows] /\ \E l \in cards[c].line : m.of = l.of
  <2>1. PICK l \in cards[c].line : m = [l EXCEPT !.shown = Shown]
    BY <1>7
  <2>2. l \in [of : Cards, shown : Shows]
    BY <1>3
  <2>3. m = [of |-> l.of, shown |-> Shown]
    BY <2>1, <2>2
  <2> QED
    BY <1>1, <2>2, <2>3
<1>8. s \in Scripts
  <2>1. ASSUME NEW c \in Cards PROVE s.cards[c] \in Worn
    <3>1. line(c) \in SUBSET [of : Cards, shown : Shows]
      BY <1>7
    <3> HIDE DEF line
    <3> QED
      BY <1>3, <3>1 DEF Worn
  <2>2. s.cards \in [Cards -> Worn]
    <3> HIDE DEF line
    <3> QED
      BY <2>1
  <2> QED
    BY <1>2, <2>2 DEF Scripts
<1>9. \A c \in Cards : /\ s.cards[c].data = cards[c].data /\ s.cards[c].age = cards[c].age
                       /\ s.cards[c].line = line(c)
  <2> HIDE DEF line
  <2> QED
    OBVIOUS
<1>10. Clean(s, TRUE, Appeared)
  <2>1. BareIn(s)
    <3>1. \A c \in Cards : cards[c].line = {} => line(c) = {}
      OBVIOUS
    <3> HIDE DEF line, s
    <3> QED
      BY <1>2, <1>9, <3>1 DEF BareIn
  <2>2. FreshIn(s)
    <3> HIDE DEF line
    <3> QED
      BY <1>7, <1>9 DEF FreshIn
  <2>3. s.timers = timers
    OBVIOUS
  <2> HIDE DEF s
  <2> QED
    BY <1>2, <1>8, <2>1, <2>2, <2>3 DEF Clean
<1>11. s.queues = queues /\ s.timers = timers
  OBVIOUS
<1> HIDE DEF s
<1>12. Clean(Script(timers), ~refreshScheduled, Appeared)'
  <2>1. Appeared' = Appeared
    BY <1>4 DEF Appeared, HowFar, IsDrawn
  <2>2. Shown' = Shown
    BY <1>4 DEF Shown
  <2> QED
    BY <1>6, <1>10, <2>1, <2>2, CleanNext
<1>13. ASSUME ~outOfStep' PROVE OwnIn(Script(timers))' /\ InStep'
  <2>1. OwnIn(Script(timers)) /\ InStep
    BY <1>4, <1>13 DEF GridInductive
  <2>2. OwnIn(s)
    <3>1. \A c \in Cards : cards[c].data \cup cards[c].age \subseteq {c} /\ \A l \in cards[c].line : l.of = c
      BY <2>1 DEF OwnIn, Script
    <3> HIDE DEF line
    <3> QED
      BY <1>7, <1>9, <3>1 DEF OwnIn
  <2>3. ASSUME NEW kind \in Kinds
        PROVE  RowReady(s, kind, Begun(kind)', HowFar(kind)', Goal(kind)', Awaited(kind)')
    <3>1. RowReady(Script(timers), kind, Begun(kind), HowFar(kind), Goal(kind), Awaited(kind))
      BY <2>1 DEF InStep
    <3>2. /\ Begun(kind)' = Begun(kind) /\ HowFar(kind)' = HowFar(kind) /\ Goal(kind)' = Goal(kind)
          /\ Awaited(kind)' <=> Awaited(kind)
      BY <1>4 DEF Begun, HowFar, Goal, Awaited
    <3>3. \A k \in DOMAIN Row(kind) : s.cards[Row(kind)[k]].data = cards[Row(kind)[k]].data
      BY <1>9, RowFacts
    <3> QED
      BY <1>11, <3>1, <3>2, <3>3 DEF RowReady, RowInStep, RowServed, Script
  <2>4. \A page \in market'.unheard : page = market'.page \/ Page(page) = <<>>
    BY <1>4, <2>1 DEF InStep
  <2> QED
    BY <1>6, <1>8, <2>2, <2>3, <2>4, StepNext
<1>14. GridFlags' /\ GridShapes'
  BY <1>1, <1>4 DEF GridFlags, GridShapes
<1> QED
  BY <1>12, <1>13, <1>14 DEF GridInductive

\* The cards of a row that have no listing are those after the ones served.
LEMMA UnservedIs ==
  ASSUME NEW kind \in Kinds, NEW n, NEW far, NEW goal, far = HowFar(kind), Within(kind, far, goal),
         RowServed(Script(timers), kind, far, goal, n)
  PROVE  Unserved(kind) = (n + 1)..far
<1>1. far \in Nat /\ far <= Len(Row(kind)) /\ n \in Nat /\ DOMAIN Row(kind) = 1..Len(Row(kind))
  BY RowFacts DEF Within, RowServed
<1>2. \A k \in 1..far : cards[Row(kind)[k]].data = IF k <= n THEN {Row(kind)[k]} ELSE {}
  <2>1. \A k \in 1..far : k \in DOMAIN Row(kind)
    BY <1>1
  <2> QED
    BY <2>1 DEF RowServed, Script
<1>3. \A k \in 1..far : cards[Row(kind)[k]].data = {} <=> ~(k <= n)
  BY <1>2
<1>4. \A k \in Nat : k \in (n + 1)..far <=> k \in 1..far /\ ~(k <= n)
  BY <1>1
<1> QED
  <2>1. Unserved(kind) = {k \in 1..far : cards[Row(kind)[k]].data = {}}
    BY DEF Unserved
  <2>2. \A k \in 1..far : k \in Nat
    BY <1>1
  <2>3. \A k \in (n + 1)..far : k \in Nat
    BY <1>1
  <2>4. \A k \in Unserved(kind) : k \in (n + 1)..far
    BY <1>3, <1>4, <2>1, <2>2
  <2>5. \A k \in (n + 1)..far : k \in Unserved(kind)
    BY <1>3, <1>4, <2>1, <2>3
  <2> QED
    BY <2>4, <2>5

\* The retries are in turn, as the model says it of the cards without a listing.
LEMMA InTurnIs ==
  ASSUME NEW kind, NEW n \in Nat, NEW far \in Nat, Unserved(kind) = (n + 1)..far, InTurn(kind)
  PROVE  Ordered(timers, Row(kind), n, far)
<1>1. \A k : Retries(kind, k) = RetriesOf(timers, Row(kind)[k])
  BY DEF Retries, RetriesOf
<1>2. CASE \A k \in Unserved(kind) : Retries(kind, k) = {}
  BY <1>1, <1>2 DEF Ordered
<1>3. CASE \A k \in Unserved(kind) :
             /\ Retries(kind, k) # {}
             /\ \A m \in Unserved(kind), i \in Retries(kind, k) :
                  m < k => \E j \in Retries(kind, m) : j < i
  <2>1. \A k \in (n + 1)..far : \A m \in (n + 1)..(k - 1) : m \in (n + 1)..far /\ m < k
    OBVIOUS
  <2>2. ASSUME NEW k \in (n + 1)..far
        PROVE  /\ RetriesOf(timers, Row(kind)[k]) # {}
               /\ \A m \in (n + 1)..(k - 1), i \in RetriesOf(timers, Row(kind)[k]) :
                    \E j \in RetriesOf(timers, Row(kind)[m]) : j < i
    <3>1. RetriesOf(timers, Row(kind)[k]) # {}
      BY <1>1, <1>3
    <3>2. ASSUME NEW m \in (n + 1)..(k - 1), NEW i \in RetriesOf(timers, Row(kind)[k])
          PROVE  \E j \in RetriesOf(timers, Row(kind)[m]) : j < i
      BY <1>1, <1>3, <2>1
    <3> QED
      BY <3>1, <3>2
  <2> QED
    BY <2>2 DEF Ordered
<1> QED
  BY <1>2, <1>3 DEF InTurn

\* A row whose answer comes: the listings are those of the cards that are next.
LEMMA AnswerServes ==
  ASSUME GridInductive, ~outOfStep, NEW kind \in Kinds, Awaited(kind),
         NEW s, s.cards = cards, s.timers = timers,
         \/ s.queues[kind] = queues[kind]
         \/ InTurn(kind) /\ s.queues[kind] = SubSeq(Row(kind), Begun(kind) + 1, Goal(kind))
  PROVE  RowReady(s, kind, Begun(kind), HowFar(kind), Goal(kind), FALSE)
<1> DEFINE far == HowFar(kind)
           goal == Goal(kind)
           begun == Begun(kind)
<1>1. /\ RowReady(Script(timers), kind, begun, far, goal, TRUE)
      /\ Within(kind, far, goal) /\ begun \in Nat /\ far \in Nat
  BY DrawnFacts DEF GridInductive, InStep, RowReady
<1>2. /\ begun \in begun..far /\ RowInStep(Script(timers), kind, far, goal, begun)
      /\ queues[kind] = <<>>
  BY <1>1 DEF RowReady, Script
<1>3. \A k \in DOMAIN Row(kind) : s.cards[Row(kind)[k]].data = Script(timers).cards[Row(kind)[k]].data
  BY DEF Script
<1>4. RowServed(Script(timers), kind, far, goal, begun)
  BY <1>2 DEF RowInStep
<1>5. CASE s.queues[kind] = queues[kind]
  <2>1. RowInStep(s, kind, far, goal, begun)
    BY <1>2, <1>3, <1>4, <1>5 DEF RowInStep, RowServed
  <2> QED
    BY <1>2, <2>1 DEF RowReady
<1>6. CASE InTurn(kind) /\ s.queues[kind] = SubSeq(Row(kind), begun + 1, goal)
  <2>1. Ordered(timers, Row(kind), begun, far)
    BY <1>1, <1>4, <1>6, UnservedIs, InTurnIs
  <2>2. RowServed(s, kind, far, goal, begun)
    BY <1>3, <1>4, <1>6 DEF RowServed
  <2>3. RowInStep(s, kind, far, goal, begun)
    BY <2>1, <2>2 DEF RowInStep
  <2> QED
    BY <1>2, <2>3 DEF RowReady
<1> QED
  BY <1>5, <1>6

\* The other rows keep in step when an answer comes.
LEMMA OthersStay ==
  ASSUME GridInductive, ~outOfStep, NEW kind \in Kinds,
         NEW s, s.cards = cards, s.timers = timers, s.queues[kind] = queues[kind]
  PROVE  RowReady(s, kind, Begun(kind), HowFar(kind), Goal(kind), Awaited(kind))
<1>1. RowReady(Script(timers), kind, Begun(kind), HowFar(kind), Goal(kind), Awaited(kind))
  BY DEF GridInductive, InStep
<1>2. \A k \in DOMAIN Row(kind) : s.cards[Row(kind)[k]].data = Script(timers).cards[Row(kind)[k]].data
  BY DEF Script
<1>3. Script(timers).queues = queues /\ Script(timers).timers = timers
  BY DEF Script
<1> QED
  BY <1>1, <1>2, <1>3 DEF RowReady, RowInStep, RowServed

\* The script with other queues is as clean as it was.
LEMMA QueuesAreClean ==
  ASSUME NEW q \in [Kinds -> Seq(Cards)], NEW fresh, NEW drawn, Clean(Script(timers), fresh, drawn)
  PROVE  Clean([queues |-> q, cards |-> cards, timers |-> timers], fresh, drawn)
BY DEF Clean, Script, Scripts, BareIn, FreshIn

\* What an answer makes of a queue.
LEMMA ResetIs ==
  ASSUME NEW queue \in Kinds, NEW kind, NEW these \in Seq(Cards), queues \in [Kinds -> Seq(Cards)],
         outOfStep \in BOOLEAN, Reset(queue, kind, these)
  PROVE  /\ queues' \in [Kinds -> Seq(Cards)] /\ outOfStep' \in BOOLEAN
         /\ outOfStep => outOfStep'
         /\ \A other \in Kinds \ {queue} : queues'[other] = queues[other]
         /\ \/ these = <<>> /\ queues'[queue] = queues[queue]
            \/ queues'[queue] = these /\ (~outOfStep' => InTurn(kind))
<1>1. CASE these = <<>>
  BY <1>1 DEF Reset
<1>2. CASE these # <<>>
  <2>1. queues' = [queues EXCEPT ![queue] = these] /\ (outOfStep' <=> outOfStep \/ ~InTurn(kind))
    BY <1>2 DEF Reset
  <2>2. outOfStep' \in BOOLEAN
    <3>1. outOfStep' = (outOfStep \/ ~InTurn(kind))
      BY <1>2 DEF Reset
    <3> QED
      BY <3>1
  <2> QED
    BY <2>1, <2>2
<1> QED
  BY <1>1, <1>2

\* A page is a stretch of the market's row.
LEMMA PageIs ==
  ASSUME NEW page \in 1..Len(PageEnds)
  PROVE  Page(page) \in Seq(Cards) /\ Page(page) = SubSeq(Row("grid"), PageEnd(page - 1) + 1, PageEnd(page))
<1>1. Page(page) = SubSeq(Row("grid"), PageEnd(page - 1) + 1, PageEnd(page)) /\ Row("grid") \in Seq(Cards)
  BY RowFacts DEF Page, Row, Kinds
<1>2. page \in 0..Len(PageEnds) /\ page - 1 \in 0..Len(PageEnds) /\ Len(Row("grid")) = Len(MarketCards)
  BY PageFacts DEF Row
<1>3. /\ PageEnd(page - 1) \in 0..Len(Row("grid")) /\ PageEnd(page) \in 0..Len(Row("grid"))
      /\ Len(Row("grid")) \in Nat
  BY <1>1, <1>2, PageFacts
<1>4. \A i \in (PageEnd(page - 1) + 1)..PageEnd(page) : i \in 1..Len(Row("grid"))
  BY <1>3
<1>5. SubSeq(Row("grid"), PageEnd(page - 1) + 1, PageEnd(page)) \in Seq(Cards)
  BY <1>1, <1>3, <1>4, SubSeqProperties
<1> QED
  BY <1>1, <1>5

\* An answer for the market: the one that is awaited comes to a row whose cards, drawn or not, wait
\* for it in their order; an older one that is still to come has no listings.
LEMMA ListingsAreHeard ==
  ASSUME GridInductive, ListingsHeard
  PROVE  GridInductive'
<1>1. PICK page \in market.unheard :
        /\ market' = [market EXCEPT !.unheard = @ \ {page}] /\ Reset("grid", "grid", Page(page))
        /\ UNCHANGED <<strip, cards, timers, moneyVars, boot, routes>>
  BY DEF ListingsHeard
<1>2. GridFlags /\ GridShapes /\ Clean(Script(timers), ~refreshScheduled, Appeared)
  BY DEF GridInductive
<1>3. page \in 1..Len(PageEnds) /\ Page(page) \in Seq(Cards)
      /\ Page(page) = SubSeq(Row("grid"), PageEnd(page - 1) + 1, PageEnd(page))
  <2>1. page \in 1..Len(PageEnds)
    BY <1>2, PageFacts DEF GridShapes
  <2> QED
    BY <2>1, PageIs
<1>4. queues \in [Kinds -> Seq(Cards)] /\ outOfStep \in BOOLEAN
  <2>1. Script(timers) \in Scripts
    BY <1>2 DEF Clean
  <2> QED
    BY <1>2, <2>1 DEF Script, Scripts, GridFlags
<1>5. /\ queues' \in [Kinds -> Seq(Cards)] /\ outOfStep' \in BOOLEAN
      /\ outOfStep => outOfStep'
      /\ queues'["similar"] = queues["similar"]
      /\ \/ Page(page) = <<>> /\ queues'["grid"] = queues["grid"]
         \/ queues'["grid"] = Page(page) /\ (~outOfStep' => InTurn("grid"))
  BY <1>1, <1>3, <1>4, ResetIs DEF Kinds
<1>6. /\ market'.page = market.page /\ market'.drawn = market.drawn
      /\ market'.unheard = market.unheard \ {page}
      /\ market' \in [page : DOMAIN PageEnds, unheard : SUBSET DOMAIN PageEnds, drawn : 0..Len(PageEnds)]
  <2>1. market \in [page : DOMAIN PageEnds, unheard : SUBSET DOMAIN PageEnds, drawn : 0..Len(PageEnds)]
    BY <1>2 DEF GridShapes
  <2> QED
    BY <1>1, <2>1
<1> DEFINE s == [queues |-> queues', cards |-> cards, timers |-> timers]
<1>7. s.queues = queues' /\ s.cards = cards /\ s.timers = timers /\ Becomes(s)
  BY <1>1 DEF Becomes
<1>8. Clean(s, ~refreshScheduled, Appeared)
  BY <1>2, <1>5, QueuesAreClean
<1> HIDE DEF s
<1>9. GridFlags' /\ GridShapes'
  <2>1. GridFlags'
    BY <1>1, <1>2, <1>5 DEF GridFlags, moneyVars
  <2>2. GridShapes'
    BY <1>1, <1>2, <1>6 DEF GridShapes
  <2> QED
    BY <2>1, <2>2
<1>10. /\ Appeared' = Appeared /\ Shown' = Shown /\ refreshScheduled' = refreshScheduled
       /\ \A kind \in Kinds : /\ Begun(kind)' = Begun(kind) /\ HowFar(kind)' = HowFar(kind)
                              /\ Goal(kind)' = Goal(kind)
       /\ Awaited("similar")' <=> Awaited("similar")
       /\ Awaited("grid")' => Awaited("grid")
  BY <1>1, <1>6 DEF Appeared, IsDrawn, HowFar, Shown, moneyVars, Begun, Goal, Awaited, Kinds
<1>11. Clean(Script(timers), ~refreshScheduled, Appeared)'
  BY <1>7, <1>8, <1>10, CleanNext
<1>12. ASSUME ~outOfStep' PROVE OwnIn(Script(timers))' /\ InStep'
  <2>1. ~outOfStep /\ OwnIn(Script(timers)) /\ InStep
    BY <1>5, <1>12 DEF GridInductive
  <2>2. OwnIn(s) /\ s \in Scripts
    BY <1>7, <1>8, <2>1 DEF OwnIn, Script, Clean
  <2>3. \A p \in market'.unheard : p = market'.page \/ Page(p) = <<>>
    BY <1>6, <2>1 DEF InStep
  <2>4. RowReady(s, "similar", Begun("similar")', HowFar("similar")', Goal("similar")', Awaited("similar")')
    <3>1. RowReady(s, "similar", Begun("similar"), HowFar("similar"), Goal("similar"), Awaited("similar"))
      BY <1>5, <1>7, <2>1, OthersStay DEF Kinds
    <3> QED
      BY <1>10, <3>1 DEF RowReady, Kinds
  <2>5. RowReady(s, "grid", Begun("grid")', HowFar("grid")', Goal("grid")', Awaited("grid")')
    <3>1. CASE queues'["grid"] = queues["grid"]
      <4>1. RowReady(s, "grid", Begun("grid"), HowFar("grid"), Goal("grid"), Awaited("grid"))
        BY <1>7, <2>1, <3>1, OthersStay DEF Kinds
      <4> QED
        BY <1>10, <4>1 DEF RowReady, Kinds
    <3>2. CASE queues'["grid"] # queues["grid"]
      <4>1. queues'["grid"] = Page(page) /\ InTurn("grid")
        BY <1>5, <1>12, <3>2
      <4>2. page = market.page
        <5>1. SUFFICES ASSUME page # market.page PROVE FALSE
          OBVIOUS
        <5>2. Page(page) = <<>>
          BY <2>1, <5>1 DEF InStep
        <5>3. outOfStep' = outOfStep /\ queues' = queues
          BY <1>1, <5>2 DEF Reset
        <5> QED
          BY <3>2, <5>3
      <4>3. Awaited("grid") /\ ~(Awaited("grid")')
        BY <1>6, <4>2 DEF Awaited
      <4>4. queues'["grid"] = SubSeq(Row("grid"), Begun("grid") + 1, Goal("grid"))
        BY <1>3, <4>1, <4>2 DEF Begun, Goal
      <4>5. RowReady(s, "grid", Begun("grid"), HowFar("grid"), Goal("grid"), FALSE)
        BY <1>7, <2>1, <4>1, <4>3, <4>4, AnswerServes DEF Kinds
      <4> QED
        BY <1>10, <4>3, <4>5 DEF RowReady, Kinds
    <3> QED
      BY <3>1, <3>2
  <2> QED
    BY <1>7, <2>2, <2>3, <2>4, <2>5, StepNext DEF Kinds
<1> QED
  BY <1>9, <1>11, <1>12 DEF GridInductive

\* The answer for the similar items.
LEMMA SimilarIsHeard ==
  ASSUME GridInductive, SimilarHeard
  PROVE  GridInductive'
<1>1. /\ ~strip.heard /\ strip' = [strip EXCEPT !.heard = TRUE]
      /\ Reset("similar", "similar", Strip)
      /\ UNCHANGED <<market, cards, timers, moneyVars, boot, routes>>
  BY DEF SimilarHeard, QueueOfSimilar
<1>2. GridFlags /\ GridShapes /\ Clean(Script(timers), ~refreshScheduled, Appeared)
  BY DEF GridInductive
<1>3. Strip \in Seq(Cards) /\ Strip = SubSeq(Strip, 1, Len(Strip))
  BY GridAssumption, SubSeqFull
<1>4. queues \in [Kinds -> Seq(Cards)] /\ outOfStep \in BOOLEAN
  <2>1. Script(timers) \in Scripts
    BY <1>2 DEF Clean
  <2> QED
    BY <1>2, <2>1 DEF Script, Scripts, GridFlags
<1>5. /\ queues' \in [Kinds -> Seq(Cards)] /\ outOfStep' \in BOOLEAN
      /\ outOfStep => outOfStep'
      /\ queues'["grid"] = queues["grid"]
      /\ \/ Strip = <<>> /\ queues'["similar"] = queues["similar"]
         \/ queues'["similar"] = Strip /\ (~outOfStep' => InTurn("similar"))
  BY <1>1, <1>3, <1>4, ResetIs DEF Kinds
<1>6. strip' \in [heard : BOOLEAN, drawn : BOOLEAN] /\ strip'.drawn = strip.drawn /\ strip'.heard
  BY <1>1, <1>2 DEF GridShapes
<1> DEFINE s == [queues |-> queues', cards |-> cards, timers |-> timers]
<1>7. s.queues = queues' /\ s.cards = cards /\ s.timers = timers /\ Becomes(s)
  BY <1>1 DEF Becomes
<1>8. Clean(s, ~refreshScheduled, Appeared)
  BY <1>2, <1>5, QueuesAreClean
<1> HIDE DEF s
<1>9. GridFlags' /\ GridShapes'
  <2>1. GridFlags'
    BY <1>1, <1>2, <1>5 DEF GridFlags, moneyVars
  <2>2. GridShapes'
    BY <1>1, <1>2, <1>6 DEF GridShapes
  <2> QED
    BY <2>1, <2>2
<1>10. /\ Appeared' = Appeared /\ Shown' = Shown /\ refreshScheduled' = refreshScheduled
       /\ \A kind \in Kinds : /\ Begun(kind)' = Begun(kind) /\ HowFar(kind)' = HowFar(kind)
                              /\ Goal(kind)' = Goal(kind)
       /\ Awaited("grid")' <=> Awaited("grid")
       /\ Awaited("similar") /\ ~(Awaited("similar")')
  BY <1>1, <1>6 DEF Appeared, IsDrawn, HowFar, Shown, moneyVars, Begun, Goal, Awaited, Kinds
<1>11. Clean(Script(timers), ~refreshScheduled, Appeared)'
  BY <1>7, <1>8, <1>10, CleanNext
<1>12. ASSUME ~outOfStep' PROVE OwnIn(Script(timers))' /\ InStep'
  <2>1. ~outOfStep /\ OwnIn(Script(timers)) /\ InStep
    BY <1>5, <1>12 DEF GridInductive
  <2>2. OwnIn(s) /\ s \in Scripts
    BY <1>7, <1>8, <2>1 DEF OwnIn, Script, Clean
  <2>3. \A p \in market'.unheard : p = market'.page \/ Page(p) = <<>>
    BY <1>1, <2>1 DEF InStep
  <2>4. RowReady(s, "grid", Begun("grid")', HowFar("grid")', Goal("grid")', Awaited("grid")')
    <3>1. RowReady(s, "grid", Begun("grid"), HowFar("grid"), Goal("grid"), Awaited("grid"))
      BY <1>5, <1>7, <2>1, OthersStay DEF Kinds
    <3> QED
      BY <1>10, <3>1 DEF RowReady, Kinds
  <2>5. RowReady(s, "similar", Begun("similar")', HowFar("similar")', Goal("similar")', Awaited("similar")')
    <3>1. SubSeq(Row("similar"), Begun("similar") + 1, Goal("similar")) = Strip
      BY <1>3 DEF Row, Begun, Goal
    <3>2. RowReady(s, "similar", Begun("similar"), HowFar("similar"), Goal("similar"), FALSE)
      BY <1>5, <1>7, <1>10, <1>12, <2>1, <3>1, AnswerServes DEF Kinds
    <3> QED
      BY <1>10, <3>2 DEF RowReady, Kinds
  <2> QED
    BY <1>7, <2>2, <2>3, <2>4, <2>5, StepNext DEF Kinds
<1> QED
  BY <1>9, <1>11, <1>12 DEF GridInductive

\* The next page, once every card of this one has its listing: nothing is left in the queue.
LEMMA PageScrolls ==
  ASSUME GridInductive, Scrolls
  PROVE  GridInductive'
<1>1. /\ market.drawn = market.page /\ market.page < Len(PageEnds)
      /\ market' = [market EXCEPT !.page = @ + 1, !.unheard = @ \cup {market.page + 1}]
      /\ outOfStep' = (outOfStep \/ Unserved("grid") # {})
      /\ UNCHANGED <<strip, cardVars, moneyVars, boot, routes>>
  BY DEF Scrolls
<1>2. GridFlags /\ GridShapes /\ Clean(Script(timers), ~refreshScheduled, Appeared)
  BY DEF GridInductive
<1>3. market.page \in 1..Len(PageEnds) /\ Len(PageEnds) \in Nat /\ market.page \in Nat
  BY <1>2, DrawnFacts
<1>4. /\ market'.page = market.page + 1 /\ market'.drawn = market.drawn
      /\ market'.unheard = market.unheard \cup {market.page + 1}
      /\ market'.page - 1 = market.page
      /\ market' \in [page : DOMAIN PageEnds, unheard : SUBSET DOMAIN PageEnds, drawn : 0..Len(PageEnds)]
  <2>1. market \in [page : DOMAIN PageEnds, unheard : SUBSET DOMAIN PageEnds, drawn : 0..Len(PageEnds)]
    BY <1>2 DEF GridShapes
  <2>2. market.page + 1 \in DOMAIN PageEnds
    BY <1>1, <1>3, PageFacts
  <2>3. (market.page + 1) - 1 = market.page
    BY <1>3
  <2> QED
    BY <1>1, <2>1, <2>2, <2>3
<1>5. GridFlags' /\ GridShapes'
  <2>1. outOfStep' \in BOOLEAN
    BY <1>1
  <2>2. GridFlags'
    BY <1>1, <1>2, <2>1 DEF GridFlags, moneyVars
  <2>3. GridShapes'
    BY <1>1, <1>2, <1>4 DEF GridShapes
  <2> QED
    BY <2>2, <2>3
<1>6. /\ Appeared' = Appeared /\ Shown' = Shown /\ refreshScheduled' = refreshScheduled
      /\ \A kind \in Kinds : HowFar(kind)' = HowFar(kind)
      /\ Begun("similar")' = Begun("similar") /\ Goal("similar")' = Goal("similar")
      /\ Awaited("similar")' <=> Awaited("similar")
  BY <1>1, <1>4 DEF Appeared, IsDrawn, HowFar, Shown, moneyVars, Begun, Goal, Awaited, Kinds
<1>7. Becomes(Script(timers))
  BY <1>1 DEF Becomes, Script, cardVars
<1>8. Clean(Script(timers), ~refreshScheduled, Appeared)'
  BY <1>2, <1>6, <1>7, CleanNext
<1>9. ASSUME ~outOfStep' PROVE OwnIn(Script(timers))' /\ InStep'
  <2>1. ~outOfStep /\ OwnIn(Script(timers)) /\ InStep /\ Unserved("grid") = {}
    BY <1>1, <1>9 DEF GridInductive
  <2> DEFINE far == HowFar("grid")
  <2>2. /\ Within("grid", far, far) /\ far \in Nat /\ Goal("grid") = far /\ far = PageEnd(market.page)
        /\ Begun("grid")' = far /\ Begun("grid") \in Nat
    BY <1>1, <1>2, <1>4, DrawnFacts DEF Goal, HowFar, Begun, Kinds, Within
  <2>3. RowReady(Script(timers), "grid", Begun("grid"), far, far, Awaited("grid"))
    BY <2>1, <2>2 DEF InStep, Kinds
  <2> HIDE DEF far
  <2>4. PICK n \in Begun("grid")..far :
          /\ RowInStep(Script(timers), "grid", far, far, n)
          /\ Awaited("grid") => n = Begun("grid")
    BY <2>3 DEF RowReady
  <2>5. (n + 1)..far = {}
    BY <2>1, <2>2, <2>4, UnservedIs DEF RowInStep, Kinds, far
  <2>6. n = far
    BY <2>2, <2>4, <2>5
  <2>7. queues["grid"] = <<>>
    <3>1. queues["grid"] = <<>> \/ queues["grid"] = SubSeq(Row("grid"), far + 1, far)
      BY <2>4, <2>6 DEF RowInStep, RowServed, Script
    <3>2. SubSeq(Row("grid"), far + 1, far) = <<>>
      BY <2>2, RowFacts, SubSeqEmpty DEF Kinds
    <3> QED
      BY <3>1, <3>2
  <2>8. RowReady(Script(timers), "grid", far, far, Goal("grid")', TRUE)
    <3>1. RowInStep(Script(timers), "grid", far, Goal("grid")', far)
      BY <2>4, <2>6, <2>7 DEF RowInStep, RowServed, Script
    <3> QED
      BY <2>2, <2>7, <3>1 DEF RowReady, Script
  <2>9. RowReady(Script(timers), "grid", Begun("grid")', HowFar("grid")', Goal("grid")', Awaited("grid")')
    BY <1>6, <2>2, <2>8 DEF RowReady, far, Kinds
  <2>10. RowReady(Script(timers), "similar", Begun("similar")', HowFar("similar")', Goal("similar")', Awaited("similar")')
    BY <1>6, <2>1 DEF InStep, RowReady, Kinds
  <2>11. ASSUME NEW page \in market'.unheard, page # market'.page PROVE Page(page) = <<>>
    <3>1. page \in market.unheard
      BY <1>4, <2>11
    <3>2. CASE page # market.page
      BY <2>1, <3>1, <3>2 DEF InStep
    <3>3. CASE page = market.page
      <4>1. Awaited("grid")
        BY <3>1, <3>3 DEF Awaited
      <4>2. PageEnd(market.page - 1) = PageEnd(market.page)
        BY <2>2, <2>4, <2>6, <4>1 DEF Begun
      <4>3. Page(page) = SubSeq(Row("grid"), far + 1, far)
        BY <1>3, <2>2, <3>3, <4>2, PageIs
      <4> QED
        BY <2>2, <4>3, RowFacts, SubSeqEmpty DEF Kinds
    <3> QED
      BY <3>2, <3>3
  <2> QED
    BY <1>2, <1>7, <2>1, <2>9, <2>10, <2>11, StepNext DEF Kinds, Clean
<1> QED
  BY <1>5, <1>8, <1>9 DEF GridInductive

\* A row that is served as far as it is drawn stays in step when more of it is drawn.
LEMMA RowGrows ==
  ASSUME NEW s \in Scripts, NEW kind, NEW far, NEW goal, NEW more, Within(kind, far, goal),
         Within(kind, more, goal), far <= more, RowInStep(s, kind, far, goal, far),
         \A i \in DOMAIN s.timers : IsDrawn(s.timers[i].card, far) \/ KindOfCard(s.timers[i].card) # kind
  PROVE  RowInStep(s, kind, more, goal, far)
<1>1. /\ kind \in Kinds /\ far \in Nat /\ more \in Nat /\ more <= Len(Row(kind)) /\ Row(kind) \in Seq(Cards)
      /\ s.timers \in Seq(Ticks)
  BY RowFacts DEF Within, Scripts
<1>2. RowServed(s, kind, more, goal, far)
  <2>1. RowServed(s, kind, far, goal, far) /\ far \in 0..more
    BY <1>1 DEF RowInStep
  <2> QED
    BY <2>1 DEF RowServed
<1>3. ASSUME NEW k \in (far + 1)..more, NEW i \in RetriesOf(s.timers, Row(kind)[k]) PROVE FALSE
  <2>1. k \in DOMAIN Row(kind) /\ i \in DOMAIN s.timers /\ s.timers[i].card = Row(kind)[k]
    BY <1>1 DEF RetriesOf
  <2>2. KindOfCard(Row(kind)[k]) = kind
    BY <1>1, <2>1, RowFacts
  <2>3. PICK l \in 1..far : Row(kind)[l] = Row(kind)[k]
    BY <2>1, <2>2 DEF IsDrawn
  <2>4. l \in DOMAIN Row(kind) /\ l # k
    BY <1>1
  <2> QED
    BY <1>1, <2>1, <2>3, <2>4, RowFacts
<1>4. Ordered(s.timers, Row(kind), far, more)
  BY <1>3 DEF Ordered
<1> QED
  BY <1>2, <1>4 DEF RowInStep

\* The cards that are gone through come in the order in which the row is to be served.
InOrder(these, kind, begun, far, goal, awaited) ==
  \E n \in begun..far :
    /\ RowInStep(Script(timers), kind, far, goal, n)
    /\ queues[kind] = <<>> \/ Contiguous(these, kind, n)
    /\ awaited => n = begun /\ queues[kind] = <<>>

\* A pass over cards that come in order keeps the invariant.
LEMMA PassKeepsStep ==
  ASSUME GridInductive, NEW these \in Seq(Cards), Process(these),
         UNCHANGED <<moneyVars, outOfStep>>, GridFlags', GridShapes', Appeared \subseteq Appeared',
         \A i \in 1..Len(these) : these[i] \in Appeared',
         ~outOfStep => \A kind \in Kinds :
           InOrder(these, kind, Begun(kind)', HowFar(kind)', Goal(kind)', Awaited(kind)'),
         ~outOfStep => \A page \in market'.unheard : page = market'.page \/ Page(page) = <<>>
  PROVE  GridInductive'
<1>1. Shown \in Shows /\ Shown' = Shown /\ refreshScheduled' = refreshScheduled
  BY ShownIs DEF GridInductive, Shown, moneyVars
<1>2. Clean(Script(timers), ~refreshScheduled, Appeared')
  BY DEF GridInductive, Clean
<1>3. PICK s : Becomes(s) /\ Clean(s, ~refreshScheduled, Appeared')
  BY <1>1, <1>2, ProcessIsClean
<1>4. Clean(Script(timers), ~refreshScheduled, Appeared)'
  BY <1>1, <1>3, CleanNext
<1>5. ASSUME ~outOfStep PROVE OwnIn(Script(timers))' /\ InStep'
  <2> DEFINE far == [kind \in Kinds |-> HowFar(kind)']
             goal == [kind \in Kinds |-> Goal(kind)']
             Fits(n, kind) == /\ n \in Begun(kind)'..HowFar(kind)'
                              /\ RowInStep(Script(timers), kind, HowFar(kind)', Goal(kind)', n)
                              /\ queues[kind] = <<>> \/ Contiguous(these, kind, n)
                              /\ Awaited(kind)' => n = Begun(kind)' /\ queues[kind] = <<>>
             from == [kind \in Kinds |-> CHOOSE n : Fits(n, kind)]
  <2>1. /\ \A kind \in Kinds : Within(kind, HowFar(kind)', Goal(kind)')
        /\ \A kind \in Kinds : Begun(kind)' \in Nat /\ HowFar(kind)' \in Nat /\ Goal(kind)' \in Nat
    <3>1. (/\ \A kind \in Kinds : Within(kind, HowFar(kind), Goal(kind))
           /\ \A kind \in Kinds : Begun(kind) \in Nat /\ HowFar(kind) \in Nat /\ Goal(kind) \in Nat)'
      BY DrawnFacts, PTL
    <3> QED
      BY <3>1 DEF Within
  <2>2. ASSUME NEW kind \in Kinds PROVE \E n : Fits(n, kind)
    <3>1. InOrder(these, kind, Begun(kind)', HowFar(kind)', Goal(kind)', Awaited(kind)')
      BY <1>5
    <3> QED
      BY <3>1 DEF InOrder
  <2>3. \A kind \in Kinds : Fits(from[kind], kind)
    <3> HIDE DEF Fits
    <3> QED
      BY <2>2
  <2>4. \A kind \in Kinds : far[kind] = HowFar(kind)' /\ goal[kind] = Goal(kind)'
    OBVIOUS
  <2>5. \A kind \in Kinds : from[kind] \in Nat
    BY <2>1, <2>3
  <2>6. from \in [Kinds -> Nat]
    <3>1. from = [kind \in Kinds |-> from[kind]]
      OBVIOUS
    <3> HIDE DEF from
    <3> QED
      BY <2>5, <3>1
  <2> HIDE DEF far, goal, from
  <2>7. \A i \in 1..Len(these) : IsDrawn(these[i], far[KindOfCard(these[i])])
    <3>1. \A i \in 1..Len(these) : these[i] \in Cards
      OBVIOUS
    <3> QED
      BY <2>4, <3>1, RowFacts DEF Appeared, IsDrawn
  <2>8. /\ \A kind \in Kinds : Within(kind, far[kind], goal[kind])
        /\ \A kind \in Kinds : queues[kind] = <<>> \/ Contiguous(these, kind, from[kind])
        /\ \A kind \in Kinds : RowInStep(Script(timers), kind, far[kind], goal[kind], from[kind])
    BY <2>1, <2>3, <2>4
  <2>9. OwnIn(Script(timers)) /\ Clean(Script(timers), FALSE, Appeared')
    BY <1>2, <1>5 DEF GridInductive, Clean
  <2>10. PICK t : /\ Becomes(t) /\ OwnIn(t)
                  /\ \A kind \in Kinds : \E m \in from[kind]..far[kind] :
                       /\ RowInStep(t, kind, far[kind], goal[kind], m)
                       /\ queues[kind] = <<>> => m = from[kind] /\ t.queues[kind] = <<>>
    <3>1. GoodPass(these, Appeared', far, goal, from)
      BY <2>6, <2>7, <2>8, <2>9 DEF GoodPass
    <3> QED
      BY <1>1, <3>1, ProcessKeepsStep
  <2> DEFINE u == [queues |-> queues', cards |-> cards', timers |-> timers']
  <2>11. /\ u.queues = t.queues /\ u.cards = t.cards /\ u.timers = t.timers /\ Becomes(u)
         /\ u.queues = s.queues /\ u.cards = s.cards /\ u.timers = s.timers
    BY <1>3, <2>10 DEF Becomes
  <2> HIDE DEF u
  <2>12. u \in Scripts
    <3>1. s \in Scripts
      BY <1>3 DEF Clean
    <3> QED
      BY <2>11, <3>1 DEF Scripts, u, Becomes
  <2>13. OwnIn(u)
    BY <2>10, <2>11 DEF OwnIn
  <2>14. ASSUME NEW kind \in Kinds
         PROVE  RowReady(u, kind, Begun(kind)', HowFar(kind)', Goal(kind)', Awaited(kind)')
    <3>1. PICK m \in from[kind]..far[kind] :
            /\ RowInStep(t, kind, far[kind], goal[kind], m)
            /\ queues[kind] = <<>> => m = from[kind] /\ t.queues[kind] = <<>>
      BY <2>10
    <3>2. RowInStep(u, kind, far[kind], goal[kind], m)
      BY <2>11, <3>1 DEF RowInStep, RowServed
    <3>3. Fits(from[kind], kind)
      BY <2>3
    <3>4. m \in Begun(kind)'..HowFar(kind)'
      BY <2>1, <2>4, <3>1, <3>3
    <3>5. Awaited(kind)' => m = Begun(kind)' /\ u.queues[kind] = <<>>
      BY <2>11, <3>1, <3>3
    <3> QED
      BY <2>4, <3>2, <3>4, <3>5 DEF RowReady
  <2> QED
    BY <1>5, <2>11, <2>12, <2>13, <2>14, StepNext
<1>6. outOfStep' = outOfStep
  OBVIOUS
<1> QED
  BY <1>4, <1>5, <1>6 DEF GridInductive

\* What stands on the page, in its order.
LEMMA DocumentIs ==
  ASSUME GridShapes
  PROVE  /\ InDocument \in Seq(Cards)
         /\ \A i \in 1..Len(InDocument) : InDocument[i] \in Appeared
         /\ \A kind \in Kinds, n \in Nat : Contiguous(InDocument, kind, n)
<1> DEFINE g == HowFar("grid")
           s == HowFar("similar")
           G == SubSeq(MarketCards, 1, g)
           S == SubSeq(Strip, 1, s)
           D == InDocument
<1>1. /\ MarketCards \in Seq(Cards) /\ Strip \in Seq(Cards)
      /\ g \in Nat /\ g <= Len(MarketCards) /\ s \in Nat /\ s <= Len(Strip)
  <2>1. Within("grid", g, Goal("grid")) /\ Within("similar", s, Goal("similar"))
    BY DrawnFacts DEF Kinds
  <2>2. MarketCards \in Seq(Cards) /\ Strip \in Seq(Cards)
    BY GridAssumption
  <2> QED
    BY <2>1, <2>2 DEF Within, Row
<1>2. D = G \o S
  BY DEF InDocument, Row
<1> HIDE DEF g, s, D
<1>3. /\ G \in Seq(Cards) /\ Len(G) = g /\ \A i \in 1..g : G[i] = MarketCards[i]
      /\ S \in Seq(Cards) /\ Len(S) = s /\ \A i \in 1..s : S[i] = Strip[i]
  <2>1. \A i \in 1..g : i \in 1..Len(MarketCards)
    BY <1>1
  <2>2. \A i \in 1..s : i \in 1..Len(Strip)
    BY <1>1
  <2>3. G \in Seq(Cards) /\ Len(G) = g /\ \A i \in 1..g : G[i] = MarketCards[i]
    BY <1>1, <2>1
  <2>4. S \in Seq(Cards) /\ Len(S) = s /\ \A i \in 1..s : S[i] = Strip[i]
    BY <1>1, <2>2
  <2> QED
    BY <2>3, <2>4
<1> HIDE DEF G, S
<1>4. /\ D \in Seq(Cards) /\ Len(D) = g + s /\ \A i \in 1..g : D[i] = MarketCards[i]
      /\ \A i \in (g + 1)..(g + s) : i - g \in 1..s /\ D[i] = Strip[i - g]
  <2>1. D \in Seq(Cards) /\ Len(D) = g + s
    BY <1>2, <1>3, ConcatProperties
  <2>2. \A i \in 1..g : D[i] = MarketCards[i]
    <3>1. \A i \in 1..g : D[i] = G[i]
      BY <1>1, <1>2, <1>3
    <3> QED
      BY <1>3, <3>1
  <2>3. ASSUME NEW i \in (g + 1)..(g + s) PROVE i - g \in 1..s /\ D[i] = Strip[i - g]
    <3>1. i - g \in 1..s /\ i \in 1..(g + s) /\ ~(i <= g)
      BY <1>1
    <3>2. D[i] = S[i - g]
      BY <1>1, <1>2, <1>3, <3>1
    <3> QED
      BY <1>3, <3>1, <3>2
  <2> QED
    BY <2>1, <2>2, <2>3
<1>5. \A i \in 1..Len(D) : i \in 1..g \/ i \in (g + 1)..(g + s)
  BY <1>1, <1>4
<1>6. /\ \A k \in 1..Len(MarketCards) : MarketCards[k] \in Cards /\ KindOfCard(MarketCards[k]) = "grid"
      /\ \A k \in 1..Len(Strip) : Strip[k] \in Cards /\ KindOfCard(Strip[k]) = "similar"
      /\ \A i, k \in 1..Len(MarketCards) : MarketCards[i] = MarketCards[k] => i = k
      /\ \A i, k \in 1..Len(Strip) : Strip[i] = Strip[k] => i = k
  <2>1. /\ Row("grid") = MarketCards /\ Row("similar") = Strip /\ "grid" \in Kinds /\ "similar" \in Kinds
        /\ DOMAIN MarketCards = 1..Len(MarketCards) /\ DOMAIN Strip = 1..Len(Strip)
    BY <1>1 DEF Row, Kinds
  <2> QED
    BY <2>1, RowFacts
<1>7. ASSUME NEW i \in 1..Len(D) PROVE D[i] \in Appeared
  <2>1. CASE i \in 1..g
    <3>1. D[i] = MarketCards[i] /\ i \in 1..Len(MarketCards)
      BY <1>1, <1>4, <2>1
    <3>2. D[i] \in Cards /\ KindOfCard(D[i]) = "grid" /\ Row("grid")[i] = D[i]
      BY <1>6, <3>1 DEF Row
    <3> QED
      BY <2>1, <3>2 DEF Appeared, IsDrawn, g
  <2>2. CASE i \in (g + 1)..(g + s)
    <3>1. D[i] = Strip[i - g] /\ i - g \in 1..s /\ i - g \in 1..Len(Strip)
      BY <1>1, <1>4, <2>2
    <3>2. D[i] \in Cards /\ KindOfCard(D[i]) = "similar" /\ Row("similar")[i - g] = D[i]
      BY <1>6, <3>1 DEF Row
    <3> QED
      BY <3>1, <3>2 DEF Appeared, IsDrawn, s
  <2> QED
    BY <1>5, <2>1, <2>2
<1>8. ASSUME NEW n \in Nat PROVE Contiguous(D, "grid", n)
  <2>1. ASSUME NEW i \in 1..Len(D), NEW k \in 1..Len(MarketCards), D[i] = MarketCards[k]
        PROVE  k <= n + 1 \/ (k > 1 /\ \E j \in 1..(i - 1) : D[j] = MarketCards[k - 1])
    <3>1. i \in 1..g
      <4>1. CASE i \in (g + 1)..(g + s)
        <5>1. D[i] = Strip[i - g] /\ i - g \in 1..Len(Strip)
          BY <1>1, <1>4, <4>1
        <5> QED
          BY <1>6, <2>1, <5>1
      <4> QED
        BY <1>5, <4>1
    <3>2. D[i] = MarketCards[i] /\ i \in 1..Len(MarketCards)
      BY <1>1, <1>4, <3>1
    <3>3. k = i
      BY <1>6, <2>1, <3>2
    <3>4. CASE i = 1
      BY <3>3, <3>4
    <3>5. CASE i # 1
      <4>1. i - 1 \in 1..g /\ i - 1 \in 1..(i - 1) /\ k > 1
        BY <1>1, <3>1, <3>3, <3>5
      <4>2. D[i - 1] = MarketCards[k - 1]
        BY <1>4, <3>3, <4>1
      <4> QED
        BY <4>1, <4>2
    <3> QED
      BY <3>4, <3>5
  <2>2. Row("grid") = MarketCards /\ DOMAIN MarketCards = 1..Len(MarketCards)
    BY <1>1 DEF Row
  <2> QED
    BY <2>1, <2>2 DEF Contiguous
<1>9. ASSUME NEW n \in Nat PROVE Contiguous(D, "similar", n)
  <2>1. ASSUME NEW i \in 1..Len(D), NEW k \in 1..Len(Strip), D[i] = Strip[k]
        PROVE  k <= n + 1 \/ (k > 1 /\ \E j \in 1..(i - 1) : D[j] = Strip[k - 1])
    <3>1. i \in (g + 1)..(g + s)
      <4>1. CASE i \in 1..g
        <5>1. D[i] = MarketCards[i] /\ i \in 1..Len(MarketCards)
          BY <1>1, <1>4, <4>1
        <5> QED
          BY <1>6, <2>1, <5>1
      <4> QED
        BY <1>5, <4>1
    <3>2. D[i] = Strip[i - g] /\ i - g \in 1..Len(Strip)
      BY <1>1, <1>4, <3>1
    <3>3. k = i - g
      BY <1>6, <2>1, <3>2
    <3>4. CASE k = 1
      BY <3>4
    <3>5. CASE k # 1
      <4>1. i - 1 \in (g + 1)..(g + s) /\ i - 1 \in 1..(i - 1) /\ k > 1 /\ (i - 1) - g = k - 1
        BY <1>1, <3>1, <3>3, <3>5
      <4>2. D[i - 1] = Strip[k - 1]
        BY <1>4, <4>1
      <4> QED
        BY <4>1, <4>2
    <3> QED
      BY <3>4, <3>5
  <2>2. Row("similar") = Strip /\ DOMAIN Strip = 1..Len(Strip)
    BY <1>1 DEF Row
  <2> QED
    BY <2>1, <2>2 DEF Contiguous
<1> QED
  BY <1>4, <1>7, <1>8, <1>9 DEF D, Kinds

\* Before the cards of an answer are drawn, the row is served as far as it is drawn.
LEMMA GrownRow ==
  ASSUME GridInductive, ~outOfStep, NEW kind \in Kinds, Begun(kind) = HowFar(kind), NEW more,
         Within(kind, more, Goal(kind)), HowFar(kind) <= more
  PROVE  /\ RowInStep(Script(timers), kind, more, Goal(kind), HowFar(kind))
         /\ Awaited(kind) => queues[kind] = <<>>
<1> DEFINE s == Script(timers)
           far == HowFar(kind)
           goal == Goal(kind)
<1>1. /\ s \in Scripts /\ s.timers = timers /\ s.queues = queues
      /\ \A i \in DOMAIN timers : timers[i].card \in Appeared
  BY DEF GridInductive, Clean, Script
<1>2. /\ Within(kind, far, goal) /\ far \in Nat /\ Begun(kind) = far
      /\ RowReady(s, kind, far, far, goal, Awaited(kind))
  BY DrawnFacts DEF GridInductive, InStep
<1> HIDE DEF s, far, goal
<1>3. PICK n \in far..far : /\ RowInStep(s, kind, far, goal, n)
                            /\ Awaited(kind) => s.queues[kind] = <<>>
  BY <1>2 DEF RowReady
<1>4. n = far
  BY <1>2
<1>5. \A i \in DOMAIN s.timers : IsDrawn(s.timers[i].card, far) \/ KindOfCard(s.timers[i].card) # kind
  BY <1>1 DEF Appeared, far
<1>6. RowInStep(s, kind, more, goal, far)
  BY <1>1, <1>2, <1>3, <1>4, <1>5, RowGrows DEF far, goal
<1> QED
  BY <1>1, <1>3, <1>6 DEF s, far, goal

\* More cards are drawn; before initUI they are left as they are, afterwards they are gone through.
LEMMA DrawnKeepsStep ==
  ASSUME GridInductive, NEW these \in Seq(Cards), Drawn(these),
         UNCHANGED <<moneyVars, boot, routes, outOfStep>>, GridShapes', Appeared \subseteq Appeared',
         \A i \in 1..Len(these) : these[i] \in Appeared',
         ~outOfStep => \A kind \in Kinds :
           /\ InOrder(these, kind, Begun(kind)', HowFar(kind)', Goal(kind)', Awaited(kind)')
           /\ RowReady(Script(timers), kind, Begun(kind)', HowFar(kind)', Goal(kind)', Awaited(kind)'),
         market'.page = market.page /\ market'.unheard = market.unheard
  PROVE  GridInductive'
<1>1. GridFlags'
  BY DEF GridInductive, GridFlags, moneyVars
<1>2. ~outOfStep => \A page \in market'.unheard : page = market'.page \/ Page(page) = <<>>
  BY DEF GridInductive, InStep
<1>3. CASE boot # "engine"
  <2>1. Process(these)
    BY <1>3 DEF Drawn
  <2> QED
    BY <1>1, <1>2, <2>1, PassKeepsStep
<1>4. CASE boot = "engine"
  <2>1. UNCHANGED cardVars
    BY <1>4 DEF Drawn
  <2>2. Becomes(Script(timers)) /\ Clean(Script(timers), ~refreshScheduled, Appeared)
    BY <2>1 DEF Becomes, Script, cardVars, GridInductive
  <2>3. Shown' = Shown /\ refreshScheduled' = refreshScheduled
    BY DEF Shown, moneyVars
  <2>4. Clean(Script(timers), ~refreshScheduled, Appeared)'
    BY <2>2, <2>3, CleanNext
  <2>5. ASSUME ~outOfStep PROVE OwnIn(Script(timers))' /\ InStep'
    <3>1. OwnIn(Script(timers)) /\ Script(timers) \in Scripts
      BY <2>2, <2>5 DEF GridInductive, Clean
    <3> QED
      BY <1>2, <2>2, <2>5, <3>1, StepNext
  <2> QED
    BY <1>1, <2>4, <2>5 DEF GridInductive
<1> QED
  BY <1>3, <1>4

\* A row that is not touched, by cards of the other one.
LEMMA OtherRow ==
  ASSUME GridInductive, ~outOfStep, NEW kind \in Kinds, NEW these \in Seq(Cards),
         \A i \in 1..Len(these) : KindOfCard(these[i]) # kind
  PROVE  /\ InOrder(these, kind, Begun(kind), HowFar(kind), Goal(kind), Awaited(kind))
         /\ RowReady(Script(timers), kind, Begun(kind), HowFar(kind), Goal(kind), Awaited(kind))
<1>1. RowReady(Script(timers), kind, Begun(kind), HowFar(kind), Goal(kind), Awaited(kind))
  BY DEF GridInductive, InStep
<1>2. \A n : Contiguous(these, kind, n)
  BY RowFacts DEF Contiguous
<1>3. Script(timers).queues = queues
  BY DEF Script
<1> QED
  BY <1>1, <1>2, <1>3 DEF RowReady, InOrder

\* The row that grows.
LEMMA GrowingRow ==
  ASSUME GridInductive, ~outOfStep, NEW kind \in Kinds, Begun(kind) = HowFar(kind), NEW more,
         Within(kind, more, Goal(kind)), HowFar(kind) <= more,
         NEW these \in Seq(Cards), Contiguous(these, kind, HowFar(kind))
  PROVE  /\ InOrder(these, kind, Begun(kind), more, Goal(kind), Awaited(kind))
         /\ RowReady(Script(timers), kind, Begun(kind), more, Goal(kind), Awaited(kind))
<1>1. /\ RowInStep(Script(timers), kind, more, Goal(kind), HowFar(kind))
      /\ Awaited(kind) => queues[kind] = <<>>
  BY GrownRow
<1>2. HowFar(kind) \in Nat /\ more \in Nat
  BY DrawnFacts DEF GridInductive, Within
<1>3. HowFar(kind) \in Begun(kind)..more
  BY <1>2
<1>4. Script(timers).queues = queues
  BY DEF Script
<1> QED
  BY <1>1, <1>3, <1>4 DEF RowReady, InOrder

\* A stretch of a row comes in its order.
Stretch(kind, a, b) == SubSeq(Row(kind), a + 1, b)

LEMMA StretchInOrder ==
  ASSUME NEW kind \in Kinds, NEW a \in Nat, NEW b \in Nat, a <= b, b <= Len(Row(kind)),
         NEW these, these = Stretch(kind, a, b)
  PROVE  /\ these \in Seq(Cards) /\ Contiguous(these, kind, a)
         /\ \A i \in 1..Len(these) : /\ KindOfCard(these[i]) = kind /\ these[i] \in Cards
                                     /\ IsDrawn(these[i], b)
<1> DEFINE row == Row(kind)
<1>0. these = SubSeq(row, a + 1, b)
  BY DEF Stretch
<1>1. row \in Seq(Cards) /\ Len(row) \in Nat /\ DOMAIN row = 1..Len(row)
  BY RowFacts
<1> HIDE DEF row
<1>2. /\ these \in Seq(Cards) /\ Len(these) = b - a
      /\ \A i \in 1..(b - a) : a + i \in 1..b /\ a + i \in 1..Len(row) /\ these[i] = row[a + i]
  <2>1. \A i \in (a + 1)..b : i \in 1..Len(row)
    BY <1>1 DEF row
  <2>2. these \in Seq(Cards) /\ Len(these) = b - a
    BY <1>0, <1>1, <2>1, SubSeqProperties DEF row
  <2>3. \A i \in 1..(b - a) : (a + 1) + i - 1 = a + i /\ a + i \in 1..b /\ a + i \in 1..Len(row)
    BY <1>1 DEF row
  <2>4. \A i \in 1..(b - a) : these[i] = row[a + i]
    BY <1>0, <1>1, <2>1, <2>2, <2>3, SubSeqProperties DEF row
  <2> QED
    BY <2>2, <2>3, <2>4
<1>3. /\ \A k \in 1..Len(row) : row[k] \in Cards /\ KindOfCard(row[k]) = kind
      /\ \A i, k \in 1..Len(row) : row[i] = row[k] => i = k
  BY <1>1, RowFacts DEF row
<1>4. ASSUME NEW i \in 1..Len(these), NEW k \in DOMAIN row, these[i] = row[k]
      PROVE  k <= a + 1 \/ (k > 1 /\ \E j \in 1..(i - 1) : these[j] = row[k - 1])
  <2>1. i \in 1..(b - a) /\ k \in 1..Len(row)
    BY <1>1, <1>2
  <2>2. k = a + i
    <3>1. these[i] = row[a + i] /\ a + i \in 1..Len(row)
      BY <1>2, <2>1
    <3>2. row[a + i] = row[k]
      BY <1>4, <3>1
    <3> QED
      BY <1>3, <2>1, <3>1, <3>2
  <2>3. CASE i = 1
    BY <2>2, <2>3
  <2>4. CASE i # 1
    <3>1. i - 1 \in 1..(b - a) /\ i - 1 \in 1..(i - 1) /\ a + (i - 1) = k - 1 /\ k > 1
      BY <2>1, <2>2, <2>4
    <3>2. these[i - 1] = row[k - 1]
      BY <1>2, <3>1
    <3> QED
      BY <3>1, <3>2
  <2> QED
    BY <2>3, <2>4
<1>5. ASSUME NEW i \in 1..Len(these)
      PROVE  KindOfCard(these[i]) = kind /\ these[i] \in Cards /\ IsDrawn(these[i], b)
  <2>1. i \in 1..(b - a)
    BY <1>2
  <2>2. these[i] = row[a + i] /\ a + i \in 1..b /\ a + i \in 1..Len(row)
    BY <1>2, <2>1
  <2>3. KindOfCard(these[i]) = kind /\ these[i] \in Cards
    BY <1>3, <2>2
  <2> QED
    BY <2>2, <2>3 DEF IsDrawn, row
<1> QED
  BY <1>2, <1>4, <1>5 DEF Contiguous, row

\* The cards of a page appear.
LEMMA GridIsDrawn ==
  ASSUME GridInductive, GridDrawn
  PROVE  GridInductive'
<1> DEFINE these == Page(market.drawn + 1)
<1>1. /\ market.drawn < market.page /\ market' = [market EXCEPT !.drawn = @ + 1] /\ Drawn(these)
      /\ UNCHANGED <<strip, moneyVars, boot, routes, outOfStep>>
  BY DEF GridDrawn
<1>2. GridShapes
  BY DEF GridInductive
<1>3. /\ market.page \in 1..Len(PageEnds) /\ market.page \in Nat /\ market.drawn \in 0..Len(PageEnds)
      /\ Len(PageEnds) \in Nat /\ market.drawn \in {market.page - 1, market.page}
  BY <1>2, DrawnFacts DEF GridShapes
<1>4. market.drawn = market.page - 1 /\ market.drawn + 1 = market.page
  BY <1>1, <1>3
<1>5. /\ market'.page = market.page /\ market'.drawn = market.page /\ market'.unheard = market.unheard
      /\ market' \in [page : DOMAIN PageEnds, unheard : SUBSET DOMAIN PageEnds, drawn : 0..Len(PageEnds)]
  <2>1. market \in [page : DOMAIN PageEnds, unheard : SUBSET DOMAIN PageEnds, drawn : 0..Len(PageEnds)]
    BY <1>2 DEF GridShapes
  <2>2. market.page \in 0..Len(PageEnds)
    BY <1>3
  <2> QED
    BY <1>1, <1>4, <2>1, <2>2
<1>6. GridShapes'
  BY <1>1, <1>2, <1>5 DEF GridShapes
<1> DEFINE a == PageEnd(market.page - 1)
           b == PageEnd(market.page)
<1>7. /\ a \in Nat /\ b \in Nat /\ a <= b /\ b <= Len(Row("grid")) /\ "grid" \in Kinds
      /\ these = Stretch("grid", a, b)
  <2>1. a \in 0..Len(MarketCards) /\ b \in 0..Len(MarketCards) /\ a <= b /\ Len(MarketCards) \in Nat
    <3>1. market.page - 1 \in 0..Len(PageEnds) /\ market.page \in 0..Len(PageEnds)
      BY <1>3
    <3> QED
      BY <1>3, <3>1, PageFacts
  <2>2. these = SubSeq(Row("grid"), a + 1, b)
    BY <1>3, <1>4, PageIs
  <2> QED
    BY <2>1, <2>2 DEF Row, Kinds, Stretch
<1>8. /\ HowFar("grid") = a /\ HowFar("grid")' = b /\ Begun("grid") = a /\ Begun("grid")' = a
      /\ Goal("grid") = b /\ Goal("grid")' = b /\ (Awaited("grid")' <=> Awaited("grid"))
      /\ HowFar("similar")' = HowFar("similar") /\ Begun("similar")' = Begun("similar")
      /\ Goal("similar")' = Goal("similar") /\ (Awaited("similar")' <=> Awaited("similar"))
  BY <1>1, <1>4, <1>5 DEF HowFar, Begun, Goal, Awaited
<1> HIDE DEF these, a, b
<1>9. /\ these \in Seq(Cards) /\ Contiguous(these, "grid", a)
      /\ \A i \in 1..Len(these) : /\ KindOfCard(these[i]) = "grid" /\ these[i] \in Cards
                                  /\ IsDrawn(these[i], b)
  BY <1>7, StretchInOrder
<1>10. \A i \in 1..Len(these) : these[i] \in Appeared'
  BY <1>8, <1>9 DEF Appeared, IsDrawn
<1>11. Appeared \subseteq Appeared'
  <2>1. SUFFICES ASSUME NEW c \in Cards, IsDrawn(c, HowFar(KindOfCard(c)))
                 PROVE  IsDrawn(c, HowFar(KindOfCard(c))')
    BY DEF Appeared, IsDrawn
  <2>2. KindOfCard(c) \in {"grid", "similar"}
    BY RowFacts DEF Kinds
  <2>3. \A k \in 1..a : k \in 1..b
    BY <1>7
  <2>4. CASE KindOfCard(c) = "grid"
    BY <1>8, <2>1, <2>3, <2>4 DEF IsDrawn
  <2>5. CASE KindOfCard(c) = "similar"
    BY <1>8, <2>1, <2>5
  <2> QED
    BY <2>2, <2>4, <2>5
<1>12. ASSUME ~outOfStep
       PROVE  \A kind \in Kinds :
         /\ InOrder(these, kind, Begun(kind)', HowFar(kind)', Goal(kind)', Awaited(kind)')
         /\ RowReady(Script(timers), kind, Begun(kind)', HowFar(kind)', Goal(kind)', Awaited(kind)')
  <2>1. Within("grid", b, Goal("grid")) /\ HowFar("grid") <= b
    BY <1>7, <1>8 DEF Within
  <2>2. /\ InOrder(these, "grid", Begun("grid"), b, Goal("grid"), Awaited("grid"))
        /\ RowReady(Script(timers), "grid", Begun("grid"), b, Goal("grid"), Awaited("grid"))
    BY <1>7, <1>8, <1>9, <1>12, <2>1, GrowingRow
  <2>3. \A i \in 1..Len(these) : KindOfCard(these[i]) # "similar"
    BY <1>9
  <2>4. /\ InOrder(these, "similar", Begun("similar"), HowFar("similar"), Goal("similar"), Awaited("similar"))
        /\ RowReady(Script(timers), "similar", Begun("similar"), HowFar("similar"), Goal("similar"), Awaited("similar"))
    BY <1>9, <1>12, <2>3, OtherRow DEF Kinds
  <2>5. /\ InOrder(these, "grid", Begun("grid")', HowFar("grid")', Goal("grid")', Awaited("grid")')
        /\ RowReady(Script(timers), "grid", Begun("grid")', HowFar("grid")', Goal("grid")', Awaited("grid")')
    BY <1>8, <2>2 DEF InOrder, RowReady
  <2>6. /\ InOrder(these, "similar", Begun("similar")', HowFar("similar")', Goal("similar")', Awaited("similar")')
        /\ RowReady(Script(timers), "similar", Begun("similar")', HowFar("similar")', Goal("similar")', Awaited("similar")')
    BY <1>8, <2>4 DEF InOrder, RowReady
  <2> QED
    BY <2>5, <2>6 DEF Kinds
<1>13. Drawn(these) /\ UNCHANGED <<moneyVars, boot, routes, outOfStep>>
  BY <1>1 DEF these
<1> QED
  BY <1>5, <1>6, <1>9, <1>10, <1>11, <1>12, <1>13, DrawnKeepsStep

\* The similar items appear.
LEMMA StripIsDrawn ==
  ASSUME GridInductive, StripDrawn
  PROVE  GridInductive'
<1>1. /\ ~strip.drawn /\ strip' = [strip EXCEPT !.drawn = TRUE] /\ Drawn(Strip)
      /\ UNCHANGED <<market, moneyVars, boot, routes, outOfStep>>
  BY DEF StripDrawn
<1>2. GridShapes
  BY DEF GridInductive
<1>3. strip' \in [heard : BOOLEAN, drawn : BOOLEAN] /\ strip'.drawn /\ (strip'.heard <=> strip.heard)
  BY <1>1, <1>2 DEF GridShapes
<1>4. GridShapes'
  BY <1>1, <1>2, <1>3 DEF GridShapes
<1> DEFINE b == Len(Strip)
<1>5. /\ b \in Nat /\ 0 \in Nat /\ 0 <= b /\ b <= Len(Row("similar")) /\ "similar" \in Kinds
      /\ Strip = Stretch("similar", 0, b)
  <2>1. Strip \in Seq(Cards) /\ Row("similar") = Strip
    BY GridAssumption DEF Row
  <2>2. Strip = SubSeq(Strip, 0 + 1, b)
    BY <2>1, SubSeqFull
  <2> QED
    BY <2>1, <2>2 DEF Kinds, Stretch
<1>6. /\ HowFar("similar") = 0 /\ HowFar("similar")' = b /\ Begun("similar") = 0 /\ Begun("similar")' = 0
      /\ Goal("similar") = b /\ Goal("similar")' = b /\ (Awaited("similar")' <=> Awaited("similar"))
      /\ HowFar("grid")' = HowFar("grid") /\ Begun("grid")' = Begun("grid")
      /\ Goal("grid")' = Goal("grid") /\ (Awaited("grid")' <=> Awaited("grid"))
  BY <1>1, <1>3 DEF HowFar, Begun, Goal, Awaited
<1> HIDE DEF b
<1>7. /\ Strip \in Seq(Cards) /\ Contiguous(Strip, "similar", 0)
      /\ \A i \in 1..Len(Strip) : /\ KindOfCard(Strip[i]) = "similar" /\ Strip[i] \in Cards
                                  /\ IsDrawn(Strip[i], b)
  BY <1>5, StretchInOrder
<1>8. \A i \in 1..Len(Strip) : Strip[i] \in Appeared'
  BY <1>6, <1>7 DEF Appeared, IsDrawn
<1>9. Appeared \subseteq Appeared'
  <2>1. SUFFICES ASSUME NEW c \in Cards, IsDrawn(c, HowFar(KindOfCard(c)))
                 PROVE  IsDrawn(c, HowFar(KindOfCard(c))')
    BY DEF Appeared, IsDrawn
  <2>2. KindOfCard(c) \in {"grid", "similar"}
    BY RowFacts DEF Kinds
  <2>3. \A k \in 1..0 : k \in 1..b
    OBVIOUS
  <2>4. CASE KindOfCard(c) = "grid"
    BY <1>6, <2>1, <2>4
  <2>5. CASE KindOfCard(c) = "similar"
    BY <1>6, <2>1, <2>3, <2>5 DEF IsDrawn
  <2> QED
    BY <2>2, <2>4, <2>5
<1>10. ASSUME ~outOfStep
       PROVE  \A kind \in Kinds :
         /\ InOrder(Strip, kind, Begun(kind)', HowFar(kind)', Goal(kind)', Awaited(kind)')
         /\ RowReady(Script(timers), kind, Begun(kind)', HowFar(kind)', Goal(kind)', Awaited(kind)')
  <2>1. Within("similar", b, Goal("similar")) /\ HowFar("similar") <= b
    BY <1>5, <1>6 DEF Within
  <2>2. /\ InOrder(Strip, "similar", Begun("similar"), b, Goal("similar"), Awaited("similar"))
        /\ RowReady(Script(timers), "similar", Begun("similar"), b, Goal("similar"), Awaited("similar"))
    BY <1>5, <1>6, <1>7, <1>10, <2>1, GrowingRow
  <2>3. \A i \in 1..Len(Strip) : KindOfCard(Strip[i]) # "grid"
    BY <1>7
  <2>4. /\ InOrder(Strip, "grid", Begun("grid"), HowFar("grid"), Goal("grid"), Awaited("grid"))
        /\ RowReady(Script(timers), "grid", Begun("grid"), HowFar("grid"), Goal("grid"), Awaited("grid"))
    BY <1>7, <1>10, <2>3, OtherRow DEF Kinds
  <2>5. /\ InOrder(Strip, "similar", Begun("similar")', HowFar("similar")', Goal("similar")', Awaited("similar")')
        /\ RowReady(Script(timers), "similar", Begun("similar")', HowFar("similar")', Goal("similar")', Awaited("similar")')
    BY <1>6, <2>2 DEF InOrder, RowReady
  <2>6. /\ InOrder(Strip, "grid", Begun("grid")', HowFar("grid")', Goal("grid")', Awaited("grid")')
        /\ RowReady(Script(timers), "grid", Begun("grid")', HowFar("grid")', Goal("grid")', Awaited("grid")')
    BY <1>6, <2>4 DEF InOrder, RowReady
  <2> QED
    BY <2>5, <2>6 DEF Kinds
<1> QED
  BY <1>1, <1>4, <1>7, <1>8, <1>9, <1>10, DrawnKeepsStep

\* A pass over all cards.
LEMMA DocumentKeepsStep ==
  ASSUME GridInductive, FirstPass \/ ProcessAllCards
  PROVE  GridInductive'
<1>1. Process(InDocument) /\ UNCHANGED <<market, strip, moneyVars, outOfStep>>
  BY DEF FirstPass, ProcessAllCards
<1>2. GridFlags /\ GridShapes
  BY DEF GridInductive
<1>3. GridFlags'
  <2>1. CASE FirstPass
    BY <1>2, <2>1 DEF FirstPass, GridFlags, moneyVars
  <2>2. CASE ProcessAllCards
    BY <1>2, <2>2, GridAssumption DEF ProcessAllCards, GridFlags, moneyVars
  <2> QED
    BY <2>1, <2>2
<1>4. GridShapes'
  BY <1>1, <1>2 DEF GridShapes
<1>5. /\ InDocument \in Seq(Cards)
      /\ \A i \in 1..Len(InDocument) : InDocument[i] \in Appeared
      /\ \A kind \in Kinds, n \in Nat : Contiguous(InDocument, kind, n)
  BY <1>2, DocumentIs
<1>6. /\ Appeared' = Appeared
      /\ \A kind \in Kinds : /\ Begun(kind)' = Begun(kind) /\ HowFar(kind)' = HowFar(kind)
                             /\ Goal(kind)' = Goal(kind) /\ (Awaited(kind)' <=> Awaited(kind))
  BY <1>1 DEF Appeared, IsDrawn, HowFar, Begun, Goal, Awaited
<1>7. ASSUME ~outOfStep, NEW kind \in Kinds
      PROVE  InOrder(InDocument, kind, Begun(kind)', HowFar(kind)', Goal(kind)', Awaited(kind)')
  <2>1. RowReady(Script(timers), kind, Begun(kind), HowFar(kind), Goal(kind), Awaited(kind))
    BY <1>7 DEF GridInductive, InStep
  <2>2. Begun(kind) \in Nat /\ HowFar(kind) \in Nat /\ Script(timers).queues = queues
    BY <1>2, DrawnFacts DEF Script
  <2>3. InOrder(InDocument, kind, Begun(kind), HowFar(kind), Goal(kind), Awaited(kind))
    BY <1>5, <2>1, <2>2 DEF RowReady, InOrder
  <2> QED
    BY <1>6, <2>3 DEF InOrder
<1>8. ~outOfStep => \A page \in market'.unheard : page = market'.page \/ Page(page) = <<>>
  BY <1>1 DEF GridInductive, InStep
<1>9. \A i \in 1..Len(InDocument) : InDocument[i] \in Appeared'
  BY <1>5, <1>6
<1>10. Appeared \subseteq Appeared' /\ UNCHANGED <<moneyVars, outOfStep>>
  BY <1>1, <1>6
<1> HIDE DEF InDocument
<1> QED
  BY <1>1, <1>3, <1>4, <1>5, <1>7, <1>8, <1>9, <1>10, PassKeepsStep

\* A retry that comes due is that of the first card that waits, or of one that has its listing.
LEMMA RetryServes ==
  ASSUME timers \in Seq(Ticks), timers # <<>>, NEW s \in Scripts, s = Script(Tail(timers)),
         BareIn(s), OwnIn(s), Shown \in Shows, NEW kind, NEW far, NEW goal, Within(kind, far, goal),
         NEW begun \in Nat, NEW awaited, RowReady(Script(timers), kind, begun, far, goal, awaited),
         NEW c \in Cards, c = Head(timers).card, NEW left \in 0..(MaxTimers + 1),
         KindOfCard(c) = kind => \E k \in 1..far : Row(kind)[k] = c
  PROVE  RowReady(Tried(s, c, left), kind, begun, far, goal, awaited)
<1> DEFINE row == Row(kind)
           t == Tried(s, c, left)
<1>1. PICK n \in begun..far :
        /\ RowInStep(Script(timers), kind, far, goal, n)
        /\ awaited => n = begun /\ queues[kind] = <<>>
  BY DEF RowReady, Script
<1>2. /\ kind \in Kinds /\ far \in Nat /\ far <= Len(row) /\ row \in Seq(Cards) /\ n \in Nat
      /\ DOMAIN row = 1..Len(row)
  BY RowFacts DEF Within
<1>3. /\ s.queues = queues /\ s.cards = cards /\ s.timers = Tail(timers)
      /\ Script(timers).queues = queues /\ Script(timers).cards = cards /\ Script(timers).timers = timers
  BY DEF Script
<1>4. RowServed(s, kind, far, goal, n)
  <2>1. RowServed(Script(timers), kind, far, goal, n)
    BY <1>1 DEF RowInStep
  <2> QED
    BY <1>3, <2>1 DEF RowServed
<1>5. queues[kind] # <<>> => Ordered(timers, row, n, far)
  BY <1>1, <1>3 DEF RowInStep
<1>6. ASSUME NEW k \in 1..far, c = row[k], queues[kind] # <<>> PROVE k <= n + 1
  <2>1. CASE k <= n
    BY <1>2, <2>1
  <2>2. CASE ~(k <= n)
    <3>1. k \in (n + 1)..far
      BY <1>2, <2>2
    <3>2. k = n + 1
      BY <1>2, <1>5, <1>6, <3>1, FirstRetry
    <3> QED
      BY <1>2, <3>2
  <2> QED
    BY <2>1, <2>2
<1> DEFINE m == IF KindOfCard(c) = kind /\ s.queues[kind] # <<>> /\ c = row[n + 1] THEN n + 1 ELSE n
<1>7. /\ m \in n..far /\ RowServed(t, kind, far, goal, m)
      /\ s.queues[kind] = <<>> => t.queues[kind] = <<>>
      /\ \/ t.timers = s.timers
         \/ \E x \in Ticks : /\ x.card = c /\ t.timers = Append(s.timers, x)
                             /\ KindOfCard(c) = kind => s.queues[kind] = <<>>
  <2>1. KindOfCard(c) = kind => \E k \in 1..far : c = row[k] /\ (s.queues[kind] = <<>> \/ k <= n + 1)
    BY <1>3, <1>6
  <2>2. Taken(s, Tried(s, c, left), kind, far, goal, n, c)
    BY <1>4, <2>1, TriedTakes
  <2> QED
    BY <2>2 DEF Taken
<1>8. ASSUME queues[kind] # <<>>, NEW k \in (m + 1)..far PROVE row[k] # c
  <2>1. SUFFICES ASSUME row[k] = c PROVE FALSE
    OBVIOUS
  <2>2. k \in 1..far /\ k \in DOMAIN row /\ m \in {n, n + 1}
    BY <1>2, <1>7
  <2>3. k = n + 1
    BY <1>2, <1>6, <1>7, <1>8, <2>1, <2>2
  <2>4. KindOfCard(c) = kind
    BY <1>2, <2>1, <2>2, RowFacts
  <2>5. m = n + 1
    BY <1>3, <1>8, <2>1, <2>3, <2>4
  <2> QED
    BY <1>2, <2>3, <2>5
<1> HIDE DEF t, m
<1>9. ASSUME t.queues[kind] # <<>> PROVE Ordered(t.timers, row, m, far)
  <2>1. queues[kind] # <<>> /\ m \in Nat
    BY <1>2, <1>3, <1>7, <1>9
  <2>2. Ordered(timers, row, m, far)
    BY <1>2, <1>5, <1>7, <2>1, OrderedLater
  <2>3. Ordered(Tail(timers), row, m, far) /\ Tail(timers) \in Seq(Ticks)
    BY <1>2, <1>8, <2>1, <2>2, OrderedTail
  <2>4. CASE t.timers = s.timers
    BY <1>3, <2>3, <2>4
  <2>5. CASE \E x \in Ticks : x.card = c /\ t.timers = Append(s.timers, x)
    <3>1. PICK x \in Ticks : x.card = c /\ t.timers = Append(Tail(timers), x)
      BY <1>3, <2>5
    <3> QED
      BY <1>2, <1>8, <2>1, <2>3, <3>1, OrderedAppend
  <2> QED
    BY <1>7, <2>4, <2>5
<1>10. RowInStep(t, kind, far, goal, m)
  BY <1>7, <1>9 DEF RowInStep
<1>11. m \in begun..far
  BY <1>2, <1>7
<1>12. awaited => m = begun /\ t.queues[kind] = <<>>
  BY <1>1, <1>3, <1>7 DEF m
<1> QED
  BY <1>10, <1>11, <1>12 DEF RowReady, t

\* A retry comes due.
LEMMA TimerKeepsStep ==
  ASSUME GridInductive, TimerFires
  PROVE  GridInductive'
<1> DEFINE s == Script(Tail(timers))
           c == Head(timers).card
           left == Head(timers).left
           t == Tried(s, c, left)
<1>1. timers # <<>> /\ Becomes(t) /\ UNCHANGED <<market, strip, moneyVars, boot, routes, outOfStep>>
  BY DEF TimerFires
<1>2. GridFlags /\ GridShapes /\ Clean(Script(timers), ~refreshScheduled, Appeared) /\ Shown \in Shows
  BY ShownIs DEF GridInductive
<1>3. /\ timers \in Seq(Ticks) /\ queues \in [Kinds -> Seq(Cards)] /\ cards \in [Cards -> Worn]
      /\ \A i \in DOMAIN timers : timers[i].card \in Appeared
  BY <1>2 DEF Clean, Script, Scripts
<1>4. /\ Tail(timers) \in Seq(Ticks) /\ Head(timers) \in Ticks /\ Head(timers) = timers[1] /\ 1 \in DOMAIN timers
      /\ \A i \in DOMAIN Tail(timers) : i + 1 \in DOMAIN timers /\ Tail(timers)[i] = timers[i + 1]
  BY <1>1, <1>3
<1>5. c \in Cards /\ c \in Appeared /\ left \in 0..(MaxTimers + 1)
  <2>1. c \in Cards /\ left \in 0..MaxTimers
    BY <1>4 DEF Ticks
  <2>2. left \in 0..(MaxTimers + 1)
    BY <2>1, GridAssumption
  <2> QED
    BY <1>3, <1>4, <2>1, <2>2
<1>6. s.queues = queues /\ s.cards = cards /\ s.timers = Tail(timers) /\ s \in Scripts
  BY <1>3, <1>4 DEF Script, Scripts
<1>7. Clean(s, ~refreshScheduled, Appeared)
  <2>1. \A i \in DOMAIN Tail(timers) : Tail(timers)[i].card \in Appeared
    BY <1>3, <1>4
  <2>2. Script(timers).cards = cards
    BY DEF Script
  <2> HIDE DEF s
  <2> QED
    BY <1>2, <1>6, <2>1, <2>2 DEF Clean, BareIn, FreshIn
<1> HIDE DEF s, c, left
<1>8. Clean(t, ~refreshScheduled, Appeared)
  BY <1>2, <1>5, <1>7, TriedIsClean
<1>9. Appeared' = Appeared /\ Shown' = Shown /\ refreshScheduled' = refreshScheduled
  BY <1>1 DEF Appeared, IsDrawn, HowFar, Shown, moneyVars
<1> HIDE DEF t
<1>10. Clean(Script(timers), ~refreshScheduled, Appeared)'
  BY <1>1, <1>8, <1>9, CleanNext
<1>11. ASSUME ~outOfStep PROVE OwnIn(Script(timers))' /\ InStep'
  <2>1. OwnIn(Script(timers)) /\ InStep
    BY <1>11 DEF GridInductive
  <2>2. OwnIn(s) /\ BareIn(s)
    BY <1>6, <1>7, <2>1 DEF OwnIn, Script, Clean
  <2>3. ASSUME NEW kind \in Kinds
        PROVE  RowReady(t, kind, Begun(kind), HowFar(kind), Goal(kind), Awaited(kind))
    <3>1. RowReady(Script(timers), kind, Begun(kind), HowFar(kind), Goal(kind), Awaited(kind))
      BY <2>1 DEF InStep
    <3>2. Within(kind, HowFar(kind), Goal(kind)) /\ Begun(kind) \in Nat
      BY <1>2, DrawnFacts
    <3>3. KindOfCard(c) = kind => \E k \in 1..HowFar(kind) : Row(kind)[k] = c
      BY <1>5 DEF Appeared, IsDrawn
    <3> QED
      BY <1>1, <1>2, <1>3, <1>5, <1>6, <2>2, <3>1, <3>2, <3>3, RetryServes DEF t, s, c
  <2>4. \A kind \in Kinds : RowReady(t, kind, Begun(kind)', HowFar(kind)', Goal(kind)', Awaited(kind)')
    <3>1. \A kind \in Kinds : /\ Begun(kind)' = Begun(kind) /\ HowFar(kind)' = HowFar(kind)
                              /\ Goal(kind)' = Goal(kind) /\ (Awaited(kind)' <=> Awaited(kind))
      BY <1>1 DEF Begun, HowFar, Goal, Awaited
    <3> QED
      BY <2>3, <3>1 DEF RowReady
  <2>5. KindOfCard(c) \in Kinds
    BY <1>5, RowFacts
  <2>6. OwnIn(t)
    <3> DEFINE own == KindOfCard(c)
    <3>1. PICK m : RowServed(t, own, HowFar(own), Goal(own), m)
      BY <2>3, <2>5 DEF RowReady, RowInStep
    <3>2. PICK k \in 1..HowFar(own) : Row(own)[k] = c
      BY <1>5 DEF Appeared, IsDrawn
    <3>3. k \in DOMAIN Row(own) /\ own \in Kinds
      <4>1. Within(own, HowFar(own), Goal(own)) /\ Row(own) \in Seq(Cards)
        BY <1>2, <2>5, DrawnFacts, RowFacts
      <4> QED
        BY <2>5, <4>1 DEF Within
    <3> HIDE DEF own
    <3>4. t.cards[Row(own)[k]].data \subseteq {Row(own)[k]}
      BY <3>1, <3>3, ServedIsOwn
    <3>5. t.cards[c].data \subseteq {c}
      BY <3>2, <3>4
    <3> QED
      BY <1>2, <1>5, <1>6, <2>2, <3>5, TriedIsOwn DEF t
  <2>7. t \in Scripts
    BY <1>8 DEF Clean
  <2>8. \A page \in market'.unheard : page = market'.page \/ Page(page) = <<>>
    BY <1>1, <2>1 DEF InStep
  <2> QED
    BY <1>1, <2>4, <2>6, <2>7, <2>8, StepNext
<1>12. GridFlags' /\ GridShapes'
  BY <1>1, <1>2 DEF GridFlags, GridShapes, moneyVars
<1> QED
  BY <1>1, <1>10, <1>11, <1>12 DEF GridInductive

-----------------------------------------------------------------------------

(***************************************************************************)
(* The theorems.                                                           *)
(***************************************************************************)
\* The invariant holds at first, every step keeps it, and it says what the theorems say.
LEMMA GridBegins == GridInit => GridInductive
<1> SUFFICES ASSUME GridInit PROVE GridInductive
  OBVIOUS
<1>1. /\ market = [page |-> 1, unheard |-> {1}, drawn |-> 0] /\ strip = [heard |-> FALSE, drawn |-> FALSE]
      /\ queues = [k \in Kinds |-> <<>>] /\ timers = <<>>
      /\ cards = [c \in Cards |-> [data |-> {}, age |-> {}, line |-> {}]]
      /\ csfCurrency = "USD" /\ csfRates \in {[asOf |-> 0, known |-> s] : s \in SUBSET Foreign}
      /\ refreshScheduled = FALSE /\ boot = "engine" /\ routes = 0 /\ outOfStep = FALSE
  BY DEF GridInit
<1>2. /\ 1 \in DOMAIN PageEnds /\ DOMAIN PageEnds = 1..Len(PageEnds) /\ Len(PageEnds) \in Nat
      /\ MaxRates \in Nat /\ MaxRoutes \in Nat
  <2>1. PageEnds \in Seq(0..Len(MarketCards)) /\ PageEnds # <<>>
    BY GridAssumption
  <2> QED
    BY <2>1, GridAssumption
<1>3. GridFlags
  <2>1. PICK known \in SUBSET Foreign : csfRates = [asOf |-> 0, known |-> known]
    BY <1>1
  <2>2. csfRates \in [asOf : 0..MaxRates, known : SUBSET Foreign] /\ 0 \in 0..MaxRoutes
    BY <1>2, <2>1
  <2>3. {refreshScheduled, outOfStep} \subseteq BOOLEAN
    BY <1>1
  <2> QED
    BY <1>1, <2>2, <2>3 DEF GridFlags, SiteCurrencies
<1>4. GridShapes
  BY <1>1, <1>2 DEF GridShapes
<1>5. /\ \A c \in Cards : cards[c].data = {} /\ cards[c].age = {} /\ cards[c].line = {}
      /\ \A kind \in Kinds : queues[kind] = <<>>
  BY <1>1
<1>6. Script(timers).cards = cards /\ Script(timers).queues = queues /\ Script(timers).timers = <<>>
  BY <1>1 DEF Script
<1>7. Script(timers) \in Scripts
  <2>1. [data |-> {}, age |-> {}, line |-> {}] \in Worn
    BY DEF Worn
  <2>2. cards \in [Cards -> Worn] /\ queues \in [Kinds -> Seq(Cards)] /\ timers \in Seq(Ticks)
    BY <1>1, <2>1
  <2> QED
    BY <2>2 DEF Script, Scripts
<1>8. Clean(Script(timers), ~refreshScheduled, Appeared)
  BY <1>5, <1>6, <1>7 DEF Clean, BareIn, FreshIn
<1>9. OwnIn(Script(timers))
  BY <1>5, <1>6 DEF OwnIn
<1>10. ASSUME NEW kind \in Kinds
       PROVE  RowReady(Script(timers), kind, Begun(kind), HowFar(kind), Goal(kind), Awaited(kind))
  <2>1. Begun(kind) = 0 /\ HowFar(kind) = 0
    BY <1>1 DEF Begun, HowFar, PageEnd, Kinds
  <2>2. RowServed(Script(timers), kind, 0, Goal(kind), 0)
    <3>1. \A k \in DOMAIN Row(kind) : ~(k <= 0) /\ Row(kind)[k] \in Cards
      <4>1. Row(kind) \in Seq(Cards)
        BY RowFacts
      <4> QED
        BY <4>1
    <3>2. 0 \in 0..0 /\ Script(timers).queues[kind] = <<>>
      BY <1>5, <1>6
    <3>3. \A k \in DOMAIN Row(kind) :
            Script(timers).cards[Row(kind)[k]].data = IF k <= 0 THEN {Row(kind)[k]} ELSE {}
      BY <1>5, <1>6, <3>1
    <3> QED
      BY <3>2, <3>3 DEF RowServed
  <2>3. RowInStep(Script(timers), kind, 0, Goal(kind), 0)
    BY <1>5, <1>6, <2>2 DEF RowInStep
  <2> QED
    BY <1>5, <1>6, <2>1, <2>3 DEF RowReady
<1>11. InStep
  BY <1>1, <1>10 DEF InStep
<1> QED
  BY <1>3, <1>4, <1>8, <1>9, <1>11 DEF GridInductive

LEMMA GridGoesOn == GridInductive /\ [GridNext]_gridVars => GridInductive'
<1> SUFFICES ASSUME GridInductive, [GridNext]_gridVars PROVE GridInductive'
  OBVIOUS
<1> QED
  BY TimerKeepsStep, ListingsAreHeard, SimilarIsHeard, SteadyActions, OverlaysRefreshed, GridIsDrawn,
     StripIsDrawn, PageScrolls, DocumentKeepsStep DEF GridNext

LEMMA GridTells == GridInductive => CardsAreTrue /\ GridTypeOK
<1> SUFFICES ASSUME GridInductive PROVE CardsAreTrue /\ GridTypeOK
  OBVIOUS
<1>1. /\ GridFlags /\ GridShapes /\ Clean(Script(timers), ~refreshScheduled, Appeared)
      /\ ~outOfStep => OwnIn(Script(timers))
      /\ Script(timers).cards = cards
  BY DEF GridInductive, Script
<1>2. CardsWearTheirOwn
  BY <1>1 DEF CardsWearTheirOwn, OwnIn
<1>3. LinesFollowTheSite
  BY <1>1 DEF LinesFollowTheSite, Clean, FreshIn
<1>4. queues \in [Kinds -> Seq(Cards)] /\ cards \in [Cards -> Worn] /\ timers \in Seq(Ticks)
  BY <1>1 DEF Clean, Scripts, Script
<1>5. /\ DOMAIN queues = Kinds /\ \A k \in Kinds : ToSet(queues[k]) \subseteq Cards
      /\ ToSet(timers) \subseteq [card : Cards, left : 0..MaxTimers]
  <2>1. \A k \in Kinds : queues[k] \in Seq(Cards)
    BY <1>4
  <2>2. ASSUME NEW q \in Seq(Cards) PROVE ToSet(q) \subseteq Cards
    BY DEF ToSet
  <2>3. ToSet(timers) \subseteq Ticks
    BY <1>4 DEF ToSet
  <2> QED
    BY <1>4, <2>1, <2>2, <2>3 DEF Ticks
<1>6. GridTypeOK
  BY <1>1, <1>4, <1>5 DEF GridTypeOK, GridFlags, GridShapes
<1> QED
  BY <1>2, <1>3, <1>6 DEF CardsAreTrue

\* Whatever the order of answers, cards, retries and passes over them, a card wears its own listing
\* as long as nothing takes queue and cards apart, and its line shows the site's currency at its
\* latest rate once the repaint has run.
THEOREM CardsStayTrue == GridSpec => []CardsAreTrue
<1>1. GridInductive => CardsAreTrue
  BY GridTells
<1> QED
  BY <1>1, GridBegins, GridGoesOn, PTL DEF GridSpec

\* What CSFloat's market keeps is of its types at all times.
THEOREM GridTypes == GridSpec => []GridTypeOK
<1>1. GridInductive => GridTypeOK
  BY GridTells
<1> QED
  BY <1>1, GridBegins, GridGoesOn, PTL DEF GridSpec
=============================================================================
