---------------------------- MODULE CSFloatPage ----------------------------
(***************************************************************************)
(* A listing's page on CSFloat (content-scripts/csfloat/csfloat.ts): the   *)
(* Buff line and the CSBOARD panel, which follows the extension's settings *)
(* and prices as they change while the page is open.  The site's own       *)
(* currency, which only the Buff line follows, is left out.                *)
(*                                                                         *)
(* The storage reads in the order it was asked and announces changes in    *)
(* the order they were made; a reply and an announcement may overtake each *)
(* other, and the page's own checks are for that.                          *)
(* External: CSFloat's page and server, the storage, the popup.            *)
(***************************************************************************)
EXTENDS Integers, Sequences

CONSTANTS
  FloatListings, Title,       \* CSFloat's listings, and the market name of each
  Quoted,                \* the listings CSBOARD asks no more for
  MaxWrites, MaxVisits  \* bounds: of the settings and prices, and from listing to listing

ASSUME CSFloatAssumption ==
  /\ Title \in [FloatListings -> STRING] /\ Quoted \subseteq FloatListings
  /\ {MaxWrites, MaxVisits} \subseteq Nat

Nowhere == "none"

VARIABLES
  storage,   \* the storage: whether to show the panel, the versions of settings and prices
  asked,     \* reads on their way to the storage, the first one first
  readings,   \* what it found for earlier reads, on its way back
  changes,   \* its announcements of changes on their way
  priceEngine,  \* shared/price-engine.ts: the version of its settings, whether its read failed
  show, ready, panelRevision,  \* the panel's settings, whether to use them, their changes so far
  prices,    \* the version of the prices, 0 with none
  booting,   \* what initUI waits for
  overtaken, \* initUI took settings older than those of a change heard before
  popupItem, \* the listing CSFloat answered last
  page,      \* CSFloat's page: the listing of the address and of the card, visits so far
  card       \* the extension's part of the card: its key, the Buff line, the panel

csfloatVars == <<storage, asked, readings, changes, priceEngine, show, ready, panelRevision, prices,
                 booting, overtaken, popupItem, page, card>>
panelVars == <<show, ready, panelRevision>>
scriptVars == <<priceEngine, panelVars, prices, booting, overtaken>>
siteVars == <<popupItem, page>>

Stored == [show : BOOLEAN, settings : 0..MaxWrites, prices : 1..(MaxWrites + 1)]
ReadResults == [what : {"engine", "panel", "prices"}, asOf : 0..MaxWrites, value : Stored,
                ok : BOOLEAN]
Changed == [what : {"settings", "prices"}, value : Stored]
Panels == [of : FloatListings, settings : 0..MaxWrites, prices : 1..(MaxWrites + 1)]

CSFloatTypeOK ==
  /\ storage \in Stored /\ priceEngine \in [settings : 0..MaxWrites, failed : BOOLEAN]
  /\ \A i \in DOMAIN asked :
       asked[i] \in [what : {"engine", "panel", "prices"}, asOf : 0..MaxWrites]
  /\ \A i \in DOMAIN readings : readings[i] \in ReadResults
  /\ \A i \in DOMAIN changes : changes[i] \in Changed
  /\ show \in BOOLEAN /\ ready \in BOOLEAN /\ panelRevision \in 0..MaxWrites
  /\ prices \in 0..(MaxWrites + 1) /\ booting \in {"engine", "panel", "prices", "done"}
  /\ overtaken \in BOOLEAN
  /\ popupItem \in FloatListings \cup {Nowhere} /\ page.visits \in 0..MaxVisits
  /\ {page.route, page.card} \subseteq FloatListings \cup {Nowhere}
  /\ card.line \subseteq FloatListings /\ card.panel \subseteq Panels

Bare == [key |-> {}, line |-> {}, panel |-> {}]

CSFloatInit ==
  /\ storage \in {s \in Stored : s.settings = 0 /\ s.prices = 1}
  /\ asked = <<[what |-> "engine", asOf |-> 0]>> /\ readings = <<>> /\ changes = <<>>
  /\ priceEngine = [settings |-> 0, failed |-> FALSE]
  /\ show = FALSE /\ ready = FALSE /\ panelRevision = 0 /\ prices = 0
  /\ booting = "engine" /\ overtaken = FALSE
  /\ popupItem = Nowhere
  /\ page = [route |-> Nowhere, card |-> Nowhere, visits |-> 0]
  /\ card = Bare

(***************************************************************************)
(* The detail card.                                                        *)
(***************************************************************************)
\* getItemData for the detail card: the listing CSFloat answered if it can be this one, else
\* what the card says, under the address's id.
Fits(answered) ==
  /\ answered # Nowhere /\ page.route \in {Nowhere, answered}
  /\ Title[answered] = Title[page.card]
Detail(answered) ==
  IF Fits(answered) THEN [id |-> answered, of |-> answered, read |-> "answer"]
  ELSE [id |-> page.route, of |-> page.card, read |-> "card"]

\* injectCsboardPanel, with what it reads from around it.
PanelOf(listing, useIt, currentPrices, currentEngine) ==
  {[of |-> listing, settings |-> currentEngine.settings, prices |-> p] :
     p \in IF useIt /\ listing \in Quoted THEN {currentPrices} \ {0} ELSE {}}

\* syncDetailCard: the same listing stays as it is, another takes its place.
SyncedWith(answered, old, useIt, currentPrices, currentEngine) ==
  IF page.card = Nowhere \/ old.key = {Detail(answered)} THEN old
  ELSE LET listing == Detail(answered) IN
       [key |-> {listing},
        line |-> {listing.of},
        panel |-> PanelOf(listing.of, useIt, currentPrices, currentEngine)]
Synced(old, useIt, currentPrices, currentEngine) ==
  SyncedWith(popupItem, old, useIt, currentPrices, currentEngine)

\* Once a second, and for every card or listing that appears.
SyncTick ==
  /\ booting = "done"
  /\ card' = Synced(card, ready /\ show, prices, priceEngine)
  /\ UNCHANGED <<storage, asked, readings, changes, scriptVars, siteVars>>

\* repaintCsboardPanel.
Repainted(useIt, currentPrices, currentEngine) ==
  LET bare == [card EXCEPT !.panel = {}] IN
  IF ~useIt THEN bare ELSE Synced([bare EXCEPT !.key = {}], TRUE, currentPrices, currentEngine)

(***************************************************************************)
(* Settings and prices.                                                    *)
(***************************************************************************)
\* External: the popup writes the settings, the worker the prices.
SettingsWritten ==
  /\ storage.settings + storage.prices <= MaxWrites   \* bound
  /\ \E on \in BOOLEAN : storage' = [storage EXCEPT !.show = on, !.settings = @ + 1]
  /\ changes' = Append(changes, [what |-> "settings", value |-> storage'])
  /\ UNCHANGED <<asked, readings, scriptVars, siteVars, card>>

PricesWritten ==
  /\ storage.settings + storage.prices <= MaxWrites   \* bound
  /\ storage' = [storage EXCEPT !.prices = @ + 1]
  /\ changes' = Append(changes, [what |-> "prices", value |-> storage'])
  /\ UNCHANGED <<asked, readings, scriptVars, siteVars, card>>

\* External: a read is answered, or fails.
StorageAnswers ==
  /\ asked # <<>>
  /\ asked' = Tail(asked)
  /\ \E ok \in BOOLEAN :
       readings' = Append(readings, [what |-> Head(asked).what, asOf |-> Head(asked).asOf,
                             value |-> storage, ok |-> ok])
  /\ UNCHANGED <<storage, changes, scriptVars, siteVars, card>>

\* The settings of the last change the page has heard of: those after them are on their way.
OnTheirWay == {changes[i].value.settings : i \in {j \in DOMAIN changes : changes[j].what = "settings"}}
Heard == CHOOSE v \in 0..storage.settings : OnTheirWay = (v + 1)..storage.settings

Announced(what) == changes # <<>> /\ Head(changes).what = what /\ changes' = Tail(changes)
Replied(what) == readings # <<>> /\ Head(readings).what = what /\ readings' = Tail(readings)

\* The listener: what is shown goes before the prices are read again, and nothing is shown
\* until they are.
SettingsHeard ==
  /\ Announced("settings")
  /\ panelRevision' = panelRevision + 1 /\ show' = Head(changes).value.show /\ ready' = FALSE
  /\ card' = Repainted(FALSE, prices, priceEngine)
  /\ asked' = Append(asked, [what |-> "engine", asOf |-> panelRevision + 1])
  /\ UNCHANGED <<storage, readings, priceEngine, prices, booting, overtaken, siteVars>>

PricesHeard ==
  /\ Announced("prices")
  /\ prices' = Head(changes).value.prices
  /\ card' = Repainted(ready /\ show, Head(changes).value.prices, priceEngine)
  /\ UNCHANGED <<storage, readings, asked, priceEngine, panelVars, booting, overtaken, siteVars>>

\* _doInit: a failed read leaves the engine as it was, and is not reported.
EngineWith(found) ==
  IF found.ok THEN [settings |-> found.value.settings, failed |-> FALSE]
  ELSE [priceEngine EXCEPT !.failed = TRUE]

AnyRevision(found) == TRUE   \* mutant: the end of an earlier reload is taken for the latest's
LatestRevision(found) == found.asOf = panelRevision

\* reload, asked for by a change of the settings.
EngineReloaded ==
  /\ Replied("engine") /\ Head(readings).asOf > 0
  /\ priceEngine' = EngineWith(Head(readings))
  /\ IF LatestRevision(Head(readings))
     THEN ready' = TRUE /\ card' = Repainted(show, prices, priceEngine')
     ELSE UNCHANGED <<ready, card>>
  /\ UNCHANGED <<storage, changes, asked, show, panelRevision, prices, booting, overtaken,
                 siteVars>>

\* initUI: the engine, the panel's settings, the prices, one after the other.
Asks(what) == asked' = Append(asked, [what |-> what, asOf |-> 0])

EngineLoaded ==
  /\ Replied("engine") /\ Head(readings).asOf = 0
  /\ priceEngine' = EngineWith(Head(readings))
  /\ booting' = "panel" /\ Asks("panel")
  /\ UNCHANGED <<storage, changes, panelVars, prices, overtaken, siteVars, card>>

\* loadCsboardPanelSettings: nothing is shown if its read fails.
PanelSettingsLoaded ==
  /\ Replied("panel")
  /\ show' = (Head(readings).ok /\ Head(readings).value.show) /\ ready' = TRUE
  /\ overtaken' = (panelRevision > 0 /\ Head(readings).value.settings < Heard)
  /\ booting' = "prices" /\ Asks("prices")
  /\ UNCHANGED <<storage, changes, priceEngine, panelRevision, prices, siteVars, card>>

PricesLoaded ==
  /\ Replied("prices")
  /\ prices' = IF Head(readings).ok THEN Head(readings).value.prices ELSE prices
  /\ booting' = "done"
  /\ card' = Repainted(ready /\ show, prices', priceEngine)
  /\ UNCHANGED <<storage, changes, asked, priceEngine, panelVars, overtaken, siteVars>>

(***************************************************************************)
(* CSFloat.                                                                *)
(***************************************************************************)
\* External: the user opens a listing, as a page of its own or over the one there is.
Visit(l) ==
  /\ page.visits < MaxVisits   \* bound
  /\ \E route \in {l, Nowhere} :
       page' = [page EXCEPT !.route = route, !.visits = @ + 1]
  /\ UNCHANGED <<storage, asked, readings, changes, scriptVars, popupItem, card>>

\* External: the card is there with the listing, the same element as for the one before.
CardShows(l) ==
  /\ page.visits > 0 /\ page.route \in {l, Nowhere} /\ page.card # l
  /\ page' = [page EXCEPT !.card = l]
  /\ UNCHANGED <<storage, asked, readings, changes, scriptVars, popupItem, card>>

\* handleApiResponse for one listing: another one than before has the card synced.
ListingAnswered(l) ==
  /\ page.visits > 0 /\ popupItem # l
  /\ popupItem' = l
  /\ card' = SyncedWith(l, card, ready /\ show, prices, priceEngine)
  /\ UNCHANGED <<storage, asked, readings, changes, scriptVars, page>>

CSFloatNext ==
  \/ SyncTick \/ SettingsWritten \/ PricesWritten \/ StorageAnswers \/ SettingsHeard \/ PricesHeard
  \/ EngineReloaded \/ EngineLoaded \/ PanelSettingsLoaded \/ PricesLoaded
  \/ \E l \in FloatListings : Visit(l) \/ CardShows(l) \/ ListingAnswered(l)

CSFloatSpec == CSFloatInit /\ [][CSFloatNext]_csfloatVars

(***************************************************************************)
(* Properties                                                              *)
(***************************************************************************)
\* With two changes of the settings behind each other, and the reloads they cause still running:
\* a panel on the page is painted with the settings of the last change heard of or later ones,
\* unless a read of them failed, and with the prices the page has; and where that change is the
\* last there was, it wants the panel.  Not so if it was heard before initUI read the settings as
\* they were before it.
PanelIsCurrent ==
  booting = "done" =>
    \A p \in card.panel :
      /\ show /\ (p.settings >= Heard \/ priceEngine.failed) /\ p.prices = prices
      /\ Heard = storage.settings /\ ~overtaken => storage.show
=============================================================================
