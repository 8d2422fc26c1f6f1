# TLA+ models of the CSBoard extension

The CSBoard browser extension shows prices on Steam, CSFloat and Buff pages, sells items on Steam's
market, publishes items to CSBOARD's P2P market, and, if the user opts in, uploads the Steam portfolio
(inventory, trades, offers) to CSBOARD in encrypted envelopes. It is a Manifest V3 extension: one service
worker that the browser stops whenever it likes, a popup that comes and goes, and content scripts that
share their pages with code they do not control. Nearly everything it does is a handful of promises in
flight over state that changes meanwhile: that is what is modelled here.

Paths below are those of the repository (`src/src/background/...` is the code itself). "Violated"
marks a property that states what a comment, a text or a test says and that TLC finds violated.

## 1. Inventory

| Component | Source | State it keeps | Operations | What makes it correct | Modules |
|---|---|---|---|---|---|
| Gateway controller | `background/gateway-controller.ts` | promises in flight, `syncEpoch`, `syncState`, `lastFailureCode` | `pair`, `unpair`, `syncNow`, `status` | an unpair fences the run, waits for what is in flight and then destroys: nothing is queued or sent after it, no device is left registered at the gateway only | `GatewayController`, `GatewayContract` |
| Device key store | `background/device-key-store.ts` | IndexedDB: one signing key, one registration | create, save, read, sign, delete | a registration never outlives its key | `GatewayController` |
| Encrypted outbox | `background/sync-outbox.ts` | stored envelopes with attempts and next attempt | enqueue, drain, clear | a successful run loses no envelope, none is sent for another device, a retry fits before the expiry | `GatewayController`, `SyncOutbox` |
| Gateway client | `background/gateway-client.ts`, `gateway-crypto.ts` | the discovery document | confirm, seal, send | an envelope names and is signed by one device | `GatewayController` (outcomes) |
| Portfolio service | `background/service-worker.ts` | epoch, flags, four promises in flight; stored verdict, scheduler state, claim of the hour | manual, hourly and credential-assisted runs, pairing, unpairing, opting in and out | an opt-out stops uploads, an unpair leaves no trace, syncs come back and page-started ones stay hourly | `PortfolioService`, `SyncSchedule` |
| External router | `background/external-router.ts` | one activation in flight | probe, pair, enable, fail closed | what a site was told stays so | `MessageRouting`, `PortfolioService` |
| Settings | `shared/storage.ts` | one settings object, a version | read, update, migrate, follow the site | what needs an opt-in is on only if the user opted in | `ExtensionSettings` |
| Collector | `background/portfolio-collector.ts`, `shared/portfolio-dto.ts` | none | inventories, history pages, offers, chunks | what is called complete is complete | `PortfolioCollector` |
| Steam read session | `background/steam-read-session-provider.ts` | an access token in memory | probe, mint, offer, forget, read | rows are of the account they are filed under | `SteamReadSession` |
| P2P listing | `background/p2p-listing-client.ts`, `popup/popup.ts` | reviews, confirmations, idempotency keys | prepare, confirm, cancel, retry | the market changes as confirmed and at most once | `P2PListing`, `ListingContract` |
| Market writes | `shared/market-actions.ts`, `content-scripts/steam/sell-ui.ts` | authorizations, write gate, a batch | sell, undo, batch with review | one write per authorized item, never below the reviewed price | `MarketSale` |
| Market listings | `content-scripts/steam/market-home.ts`, `shared/market-orders.ts` | flags, read gate | scan, remove flagged | only what was found overpriced is removed | `MarketHome` |
| Fees | `shared/steam-fees.ts` | none | both directions | the split meets the price | `SteamFees` |
| Prices | `background/service-worker.ts`, `shared/price-engine.ts` | caches with ETags; a page's copy | download, reload, pick, draw | storage catches up with the server, labels follow the settings | `PriceRefresh`, `PriceEngine` |
| Popup's portfolio panel | `popup/popup.ts` | notice, phase | pair, unpair, sync with timeouts | "unpaired" means unpaired | `PortfolioPanel` |
| Steam pages | `content-scripts/steam/` | lists, tags, handlers, queues | read, sort, tag, accept, decline | an item shows what is its own, none is lost | `OffersPage`, `TradeOfferPage`, `TradeOfferTags`, `InventoryPage`, `SellPanel`, `TradeHistory` |
| CSFloat and Buff | `content-scripts/csfloat/`, `content-scripts/buff/`, `injectToPage/buffInterceptor.js` | queues, panels, polls, records | overhear, draw, follow settings | a card shows its own listing, off leaves nothing | `CSFloatGrid`, `CSFloatPage`, `CSFloatSell`, `BuffPage` |
| History page | `pages/trade-history-page.js` | pages read | read on, refresh, resize | pages join up | `TradeHistory` |
| Bus, API client, parsing, tables, build | various | none beyond the handlers' | | | not modelled, see section 6 |

How they interact:

    popup ---- messages ----+        sites ---- messages ---- external router
                            |                                       |
    alarm, Steam page ---- portfolio service ---- settings, verdict, schedule (chrome.storage)
                            |  syncNow / pair / unpair (promises, shared by callers)
                       gateway controller ---- device key store (IndexedDB), outbox (chrome.storage)
                            |            \---- collector ---- Steam read session ---- Steam
                       gateway client ---- gateway

    content scripts ---- price engine ---- prices, rates, settings (chrome.storage) ---- downloads
    popup ---- P2P listing controller ---- CSBOARD's P2P market

Two fences protect the user's wish. The *service's* fence (`portfolioSyncEpoch`, `portfolioUnpairing`,
`portfolioUploadsBlocked`) is read by the service's handlers after each `await`; the *controller's*
(`syncEpoch`) is read by a run after each of its own. Only `unpair` raises the second.

## 2. Modules

In every module one action is the code from one `await` (or timer, or message) to the next; what a
component does not control (the gateway, Steam, CSFloat, Buff, the site, `chrome.*`) is external and does
whatever the code has a branch for. Names of properties of two modules that would clash in a composition
carry the part's name (`ListingNext`, `saleVars`).

### The gateway and the sync

`GatewayController` has one controller, its stores and the gateway; a `pc` in `pairRun`, `syncRun` and
`unpairRun` says which await a call is at. A device is named by the key it was paired under, an envelope
by the run and the chunk it was sealed for.

| TLA+ | Code |
|---|---|
| `identity`, `registration` | the two records of IndexedDB |
| `outbox`, `drain` | the stored records; the copy a drain or an enqueue works on, and what it has sent |
| `syncEpoch`, `syncState`, `lastFailure` | the controller's fields |
| `devices`, `accepted` | external: what the gateway has registered and received |
| `Pair`, `PairCheck` ... `PairSave` | `pair`, `runPair` |
| `SyncNow`, `SyncReadRegistration` ... `SyncSucceeds`/`SyncCancelled`/`SyncFails` | `syncNow`, `runSync`, with the enqueue and the drain inlined |
| `Unpair`, `UnpairAwaitPair` ... `UnpairEnds` | `unpair`, `runUnpair`, `destroyLocalPairingState` |
| `WorkerStops` | the browser stops the worker; a request already sent may still arrive |
| `stray` | history: devices the client cannot know of or gave up knowingly |

Abstracted: time, payloads and the order of envelopes. IndexedDB operations are atomic; the read and the
write of an enqueue or of a drain are separate actions.

`GatewayContract` is what the service can tell of the controller: which device is registered, for which
devices envelopes are queued or under way, what became of the three calls. `GatewayController!Contract`
is the refinement mapping.

`PortfolioService` extends the contract with the portfolio half of the service worker: `svc` is
`performPortfolioSync`, `auto` the hourly run, `cred` the credential-assisted one, `manual` the button;
`pair`, `unpair`, `change` and `act` are the handlers, `writer` any other read-modify-write of the
settings. A shared promise that settles wakes several callers at once; what they do before their next
`await` is part of the step that settles it. One activation, one settings change and one
`UNPAIR_DEVICE` are in flight at a time there (`PortfolioPanel` has overlapping ones).

`SyncOutbox` has the outbox with a clock, under a sequence of runs: what `GatewayController` leaves to
choice is decided here by capacity, age, retry delay and attempts. Times are relative and stop at 0.

`SyncSchedule` has the hour: the alarm, the backoff after failures, the claim a Steam page's credential
makes, and both runs' bookkeeping, over restarts of worker and browser. It has time and no fences.

`PortfolioPanel` has the popup's panel over the handlers, which go on when the popup has given up waiting
or is closed; a handler is reduced to what it stores, in its order. `MessageRouting` has what sites may
ask, the single flight of activations and their fail-closed path. `ExtensionSettings` has every writer of
the settings object, each with its read, its await and its write of the whole object; the migrations;
failing reads that yield defaults; and the popup's own copy. `PortfolioCollector` has the pages of a run
against an account that goes on trading, with Steam free to cut its lists into any pages.
`SteamReadSession` has the provider slot, its token and its readers while the user changes accounts.

### The market

`P2PListing` has the popup's panel, the worker's controller and the backend, which deduplicates by
idempotency key; `ListingContract` is what that promises and `P2PListing!Contract` the mapping.
`MarketSale` has single sells behind their undo window, the batch with review, repricing and stops, and
the gate all writes go through. `MarketHome` has the scan of the user's listings. `SteamFees` is the fee
arithmetic as operators, against the greatest affordable amount by definition. `PriceRefresh` has the
three downloads, `PriceEngine` what a page makes of them.

### The pages

`OffersPage`, `TradeOfferPage`, `TradeOfferTags`, `InventoryPage`, `SellPanel`, `TradeHistory`, `CSFloatGrid`,
`CSFloatPage`, `CSFloatSell`, `BuffPage`: each has one page's queues, timers, copies and marks, against a
page that loads, redraws and answers when it likes. Items, listings, prices and floats are model values,
told apart only by whose they are. `Filtering` is the filter of a list that `OffersPage` and `BuffPage` use.

`SellPanel` is the panel that `inventory.ts` draws beside the item the user has open. Steam's page has two
places for the item's details and shows one at a time (`places`, `frame`); the script draws into the one it
finds (`blocks`), looks the item up by its name with a retry that backs off (`itemPanel`, `backoff`), and
leaves click handlers that wait a moment before they look (`clickTimers`). Left out: the caches of prices
and of order books, what the details say, and the place the page hides. The detail's script knows the item
by the first one of its name, and where Steam's page has nothing to put the panel at an older one may stay:
the property is about what the panel's buttons sell.


### Compositions

`PortfolioService` EXTENDS `GatewayContract`: service and controller interact in every step. The parts
that share nothing but values in storage are put together in `MCExtensionParts` and `MCFurtherParts`: a
behaviour picks a `part` and takes its steps, the other parts stay as they began. This asks of each part
exactly what a run of its own would ask, without multiplying state spaces of parts that share no
variable. Where parts do meet (the settings that a page's engine reads, the handlers a site's message
reaches) the module of one has the other as an external actor that may do all the other's module lets it
do. `PartView` is the part and its variables: the other parts are constant, so it tells apart every two
states of a behaviour.

## 3. Runs

| Run | Shows |
|---|---|
| `controller` | every interleaving of pairing, runs and unpairing with lost answers, failing stores and a restart: the refinement of the contract, and that an unpair is alone with what it destroys; 2 keys, 2 runs, 1 chunk, 2 unpairs, about 1.1 million states |
| `controller_chunks` | runs of 2 chunks: a successful run loses nothing, every call settles; 220 thousand states |
| `service` | the service with every combination of its callers, failures and restarts, in budgets |
| `service_liveness` | `UNPAIR_DEVICE` answers |
| `outbox` | delays, expiry and a full outbox: a retry fits before the expiry, a pass accounts for every record (and a successful run leaves only envelopes that were tried), runs succeed again after an outage if there is room for one; 595 thousand states |
| `extension_parts` | eleven parts: P2P listing, fees, selling, listings, offers, tags, inventory, Buff, CSFloat panel, downloads, schedule; 750 thousand states |
| `further_parts` | eleven parts: collector, settings, panel, routing, Steam session, engine, CSFloat grid and sell page, history, sorting, the sell panel of the inventory; 1.9 million states |
| `controller_success`, `outbox_outage`, `service_opt_out`, `service_restart`, `service_revoked` | *violated*: see the findings |

What the properties of the two compositions say:

| Part | Property | In words |
|---|---|---|
| listing | `ImplementsListing` | the market changes only by offers the user confirmed, as shown, each at most once |
| | `DoneIsCommitted` | "published" is said only of what took effect |
| fees | `SplitMeetsPrice` | the walk lists at the price or just below it, and a better price never yields less |
| sale | `WritesAreTheUsers` | what is in the write gate was asked for, once, at no less than reviewed, and was not undone |
| | `BatchStopsDead` | after a rate limit, a lost session, a drop or a lapsed approval no later item is tried |
| home | `FlaggedIsOverpriced` | "remove flagged" takes only what the last scan found overpriced |
| offers | `RowsAreTrue` | banners and marks of an offer are so |
| tags | `FetchedFloatsAreShown` | a float that came is shown at its item |
| inventory | `ListCatchesUp` | the list catches up with what the page has loaded |
| buff | `OffLeavesNothing` | switched off, the page is as Buff made it |
| csfloat | `PanelIsCurrent` | a panel is of the page's prices and of the last settings heard of, and is wanted where those are the stored ones |
| refresh | `RefreshCatchesUp` | storage ends up with what the server gives |
| schedule | `SyncsComeBack` | a device that is not revoked is tried again, whatever failed |
| | `PageRunsAreHourly` | page credentials start at most one run an hour |
| collector | `CompleteIsComplete` | what a run calls complete is all there, in its chunks |
| settings | `OptInsAreTheUsers` | what needs an opt-in is on only if the user once turned it on |
| panel | `UnpairedIsUnpaired` | while "unpaired" is shown nothing of the device is left |
| routing | `VerdictStands` | what an activation told its site stays so |
| session | `RowsAreOfTheirAccount` | rows are of the account they are filed under |
| engine | `LabelsAreRight` | a label has the current settings' price, a phase's before a blended one |
| grid | `CardsAreTrue` | a card wears its own listing and the site's currency |
| sell | `SellLinesAreTheirs` | a line on a card is its own item's |
| history | `PagesJoinUp` | the pages of one sequence of reads join up |
| trade | `NothingIsLost` | sorting loses no item and no holder |
| lookup | `PanelSellsTheOpenItem` | the panel beside an item sells that item |

**Bounds.** Two keys let a device be unpaired and paired again under another key, which is what a
revived envelope or a stale registration needs. Two runs let one meet what the other left in the
outbox; two chunks let a fence fall between two envelopes. `MaxUnpairs` bounds the epoch: a run
compares epochs only for equality, and a run in flight can meet one unpair and the pairing after it.
In `PortfolioService` a behaviour has one of the *budgets* of `MCPortfolioService`: how many syncs,
settings changes, unpairs, pairings, activations, alarms, credentials, failing storage operations and
restarts it may contain. Each budget is a scenario (every order and overlap of those operations);
together they pair every two kinds of caller that share state.
`SyncOutbox` keeps the proportions of the code: the outbox holds less than two of the largest runs (100
against 64 envelopes), an envelope lives for a few of the shortest delays (120 s against 5 s), the
longest delay exceeds its life, and with `Retry-After` the attempt limit can still be reached first.
A run takes less time (`MaxElapsed`) than an envelope lives.

In the compositions each bound is the least that lets two of the thing overlap or one overtake another:
two reviews and a stop of the worker between them; two items of a batch and two price levels; two
scans and two listings of one name; an own and a partner's item of one class; a tradable and a held
item of one numeric id; an order and another view; two changes of the settings behind each other; three
versions and two downloads; a limit of trades below what the account has, and pages of any cut;
two writers of the settings and a failure; three calls of the panel and two faults; two accounts; two
items of one name that differ in their float; two page sizes and two reads; two items of one name on two
pages of an inventory; two goods of (possibly) one name with one retry, two renderings and one change of the list. In the schedule an hour is two units, so that one can fall inside it, and failures
are counted to 4, beyond which the code's backoff is constant. Fees are tried for every price up to
2.00, across the changes of every floor, and four kinds of wallet. The price engine begins without settings or
with other settings than the defaults, and may then be given any.

**Deadlock** is checked for the controller and the outbox. The service and the compositions turn the check
off: a behaviour that has spent its bounds (clicks, settings changes, budget) really stops, and so does a
page with nothing left to do.

**Symmetry** is used in the safety runs of the service (the keys); the liveness runs use none.

**Fairness.** In the controller each of `PairStep`, `SyncStep` and `UnpairStep` is weakly fair:
a promise that has settled is continued, and the browser ends a request that gets no answer. The
second is an assumption about the browser: `gateway-client.ts` and `steam-read-session-provider.ts`
set no timeout of their own on their requests. Callers, the gateway's owner and the browser
owe nothing. In the service the handlers are weakly fair, and the controller's calls settle, which is
exactly what `CallsSettle` establishes for the detailed controller; `EndRun` is strongly fair there
because the contract lets a run go back and forth between queueing and sending, while the controller's
run does so only finitely often. In `SyncOutbox` a run goes on, runs are started again and again (the
hourly alarm, the user) and time passes. In `MCExtensionParts` the inventory page's recheck timer is
weakly fair (`setTimeout`); the download alarm is weakly fair, and a download's answer and its store are
strongly fair: a server that is asked again and again answers once, which a promise of catching up cannot
do without.

**What does not hold, with a run each** (`findings` in `PROJECT.json`):

1. `SuccessDeliveredSomething` - a run's verdict counts envelopes of earlier runs.
2. `OptOutStopsUploads` - the service's fence does not reach the controller's run in flight.
3. `NoNewRunAfterOptOut` - a concurrent settings update writes the consent back; after a restart of
   the worker nothing else stops the run.
4. `SuspensionIsTerminal` - a credential-assisted run replaces the suspension of a revoked device.
5. `OutageIsTemporary` - a run that meets a full outbox fails at its first enqueue, and only the pass at
   the end of a run drops what has expired: an outage during one large run, or several small runs
   within the life of an envelope, can fill the outbox for good (until the device is paired again).

**What else does not hold.** These properties stand in their modules, marked "(Violated.)", without a
run of their own; adding the name to the configuration of the module's part (`ExtensionParts.cfg` for `SyncSchedule` and
`BuffPage`, `FurtherParts.cfg` for the others; as INVARIANT, or PROPERTY where it is an action formula)
makes TLC show the behaviour.

| Module | Property | The code, and what is said of it |
|---|---|---|
| `ExtensionSettings` | `UploadsTurnOnWhenAsked` (PROPERTY) | a change of something else that read before an opt-out writes `portfolioSyncEnabled` back (`shared/storage.ts:96`); `shared/types.ts:480` says "Explicit opt-in master switch" |
| | `OffIsNotOverwritten` (PROPERTY) | the sync with the site checks the follow switch, awaits and writes (`service-worker.ts:1568`); `popup.ts:484` says "local currency and source will not be overwritten" |
| | `RestoredIsStored` | the popup gives a change up that the worker then stores; `popup.ts:590` says "Your previous value was restored." |
| `PortfolioPanel` | `FailedUnpairDeletesNothing` | the local state is destroyed where the gateway refuses or the popup stops waiting; `popup.ts:783` says "Nothing was deleted locally." |
| `SyncSchedule` | `ReadsAreHourly` (PROPERTY) | alarm and page credentials keep separate times (`service-worker.ts:1841`); `service-worker.ts:1731` and `test/portfolio-auto-sync.test.ts:563` speak of one hour |
| `MessageRouting` | `PairedMeansPaired` | a site is told "paired" while an unpair that began during the two writes goes on (`service-worker.ts:1335`) |
| `PriceEngine` | `OffersFollowSettings` | a trade offer's items keep the old currency's price through the repaint (`trade-offer.ts:1760`) |
| | `SignsAreTrue` | without a rate a dollar amount is drawn under the chosen sign (`price-engine.ts:340`) |
| `CSFloatSell` | `SalesArePricedByTheirItem` | two clicks before the first sale is added: both polls take the last sale without a price (`csfloat.ts:1471`) |
| `TradeHistory` | `NoTradeTwice` | a refresh while a read is in progress: both answers are appended (`trade-history-page.js:177`) |
| | `FailuresAreShown` | the list is drawn over the error (`trade-history-page.js:50`) |
| | `ProfitIsProfit` | the box calls given minus received a profit (`trade-history.ts:82`); the worker computes it the other way round (`service-worker.ts:578`) |
| `BuffPage` | `LateAnswersFailClosed` (with two views of one goods) | an answer whose order is not on the page marks another row of its goods (`buff.ts:333`; the comment at `buff.ts:336` says it fails closed) |

Also seen, and not a property: the popup says that nothing was committed when the user cancels a review
whose commit was not answered (`popup.ts:1115`), which `P2PListing` reaches.

**Hazards without a property.** Besides those with a `note` in `PROJECT.json`: an unanswered market write
counts as failed and leaves the item selected (`sell-ui.ts:823`; Steam refuses a second listing of it); the
account is read from the page before a write joins the gate (`market-actions.ts:60`); two tabs overwrite each
other's cache of item ids (`market-orders.ts:145`); USD fee defaults stay when the wallet comes later
(`steam-fees.ts:156`); the deferred envelope that lives for 120 s and is next looked at in an hour
(`sync-outbox.ts:192`); an unrelated settings change that cancels a pairing after its registration
(`service-worker.ts:756`).

## 4. Proofs

Eight modules hold theorems; TLAPS proves them for every value of the constants. Each rests on the named
assumptions of its component, which TLC evaluates, and on an inductive invariant, since hardly any of the
properties is inductive as it stands. Every invariant and every action property of the passing runs is proved,
and both refinements; liveness is left to TLC and named at the end.

**`GatewayController_proofs`** (from `KeysAssumption`: `NoKey` is not a key, and `BoundsAssumption`).
`Inductive` adds to the safety properties what each depends on:

- `UnpairWaits`, `RunsBehindUnpair`: past its two waits an unpair is alone, and a run alive before that
  is behind its epoch. This is what makes "fenced" stick: no new run can start with the new epoch
  while the unpair is in flight.
- `PairingKeepsItsKey`, `RunKeepsItsDevice`, `DrainUnderItsOwnKey`: the key a pairing or a run has read
  is still the stored one when it is used, although reading and using are steps apart.
- `RevokeIsAboutTheRegistration`, `DestroyedIsGone`: what the unpair has revoked and destroyed so far.
- `RunLosesNothing`: where each envelope of a run is, at each point of the run.

`InductiveInvariant` proves `Spec => []Inductive` with one step per action. `TypeOK`,
`UploadsPrecedeRevoke`, `RegistrationHasItsKey`, `QueuedUnderItsOwnKey` and `NoOrphanDevice` are conjuncts of it
and theorems of their own; the action properties (`NoUploadOnceUnpairing`,
`NoEnqueueWithoutRegistration`, `UnpairLeavesNothing`, `SuccessLosesNothing`) follow from it and one step.

Its second part proves the property `ImplementsContract` (`ControllerImplementsContract`). Every
step of the controller is a step of the contract or unseen by it (`Allowed`, `Unseen`), shown handler by
handler (`PairImplements`, `UnpairImplements` and their like). Beyond `Inductive` that needs `RunLocals`: the
locals of the outbox pass are in use only while the run enqueues, drains and judges the pass (`PassOnlyInUse`),
and a run has no device before it reads the registration (`BindsOnce`). So what is shown of `PortfolioService`,
which is built on the contract, is shown of the service over the detailed controller.

**`PortfolioService_proofs`** proves the properties of the run `service`. `Inductive` says whose the controller's
calls are (`CallsAreTheirs`: a run of the controller is one of the service's, and the controller's unpair is
alone when it destroys), that no registration is stored while one is being prepared (`PairsWhenFree`), that a run
reads and writes envelopes of its own device (`QueuesForItself`), that the clean-up of `UNPAIR_DEVICE` finds no
run and no pairing (`UnpairIsAlone`) and what it has destroyed so far (`CleanedUp`). `EnvelopesAreNotRevived` and
`UnpairLeavesNothing` follow from it. `OptOutIsFinal` rests on a second one, `OptOutHolds` (uploads that came
back on after an opt-out find no device), and assumes that no budget has another writer of the settings, as
in the run: with one the consent can be written back, which `service_restart` shows.

The proof found one thing TLC's budgets had not reached: an opt-in can lift the fence that a failing activation
has raised, a run starts, and the activation's clean-up, which waits for no run, deletes the registration
under it (`service-worker.ts:1380`); the run goes on queueing for a device that is gone. The variable `undercut` records
that case, and `NoRevivedEnvelopes` excepts it.

**`SyncOutbox_proofs`** (from `LimitsAssumption` and `EnvironmentAssumption`: a run takes less time than an
envelope lives). What a record may look like is a set, `Sound` (tried: due again before it expires, or
expired; never tried: due now), with the subset `Tried`. `OutboxInv` says of which of the two the outbox and
the pass's lists are sequences (`OutboxShape`, `PassShape`, `OnlyTried`) and that a pass's counts and lists
add up to the outbox it read (`Accounted`). `RecordAges` and the lemmas after it say what time, a retry and an
append do to a record. From it follow `OutboxTypes` (with the capacity), `RetriesComeInTime` and
`PassesAccount`.

**`SyncSchedule_proofs`** (from `ScheduleAssumption`). `HourlyInv`: the stored claim is no older than the last
run that was made for it (`ClaimIsNoOlder`), a credential that has looked at the claim finds the last run an
hour old until it starts its own (`OnItsWay`, `ClaimedNow`), and a closed browser runs nothing
(`ShutIsIdle`). `PagesReadHourly` is the step from there: a page's run begins an hour after the one before.
The exception is in the statement: the claim could not be read once (`misread`). `BackInv` is for
`AttemptsComeBack`: `SyncsComeBack` bounds the time since the last attempt and by itself says nothing of the next. Either
the next alarm finds no hold, or the first alarm after the hold is less than an hour behind it
(`RingsInTime`); a run that reads the hold does so on its alarm's hour (`ReadsOnTheHour`, `ReadInTime`); a run
that is waited for ends with a new count. `BackoffIsBounded` bounds the hold a failure leaves.

**`P2PListing_proofs`** (from `ListingAssumption`). Three copies of an offer are apart: the one the popup
shows, the one of the backend's intent and the one the user confirmed. `ListingInv` says that they agree
(`ShownIsIntended`, `ConfirmedIsIntended`), that the prepare in flight is for what the popup waits for
(`PrepareIsWanted`), that nothing is in the network or in effect that was not confirmed (`AskedIsConfirmed`) and
that "ok" is said only of what took effect (`RepliesAreTrue`). `NoticesAreTrue` is a conjunct, `ListingRefines`
is the refinement `ListingSpec => ImplementsListing`: a first confirmation is the contract's `UserConfirms`, a
repeated one a stutter (because the offer is the one already confirmed), a commit is `OfferTakesEffect`.

**`CSFloatGrid_proofs`** (from `GridAssumption`: CSFloat's answers list a listing once, and a page has an end)
proves `CardsStayTrue`. The interceptor's queue has listings and no names, and a card takes whatever is at its
head: that a card wears its own listing rests on the order of two lists that nothing compares. `GridInductive`
says that the first n cards of a row have their own listings and the others none, and that what is left of the
queue are the listings from n + 1 on. A retry keeps that because the retries of the cards that wait are set in the
order of the row, so that the first retry of all is that of card n + 1 (`FirstRetry`). A pass goes over its cards
one after the other and is a recursive function of their number: lemmas state what one card does to queue and lines,
`CountsUp` (induction over 0..n as a fact about sets of numbers) carries that over the pass, whose cards come in the
order of the row from no later than n + 1 (`Contiguous`, `TrialsKeepStep`). `GridTypes` is a conjunct.

**`ExtensionParts_proofs`** and **`FurtherParts_proofs`** prove the safety of the parts of the two compositions, a
section to each part:

| Part | Theorem | The inductive invariant adds |
|---|---|---|
| sale | `WritesStayTheUsers`, `BatchesStopDead` | `SaleInductive`: a write in the gate is its author's only one and its author waits for it (`WritesAreAwaited`); an item has one sell that is not taken back (`OneSellPerItem`); the batch's items from the one it is at are unattempted (`BatchIsInOrder`). "First" is the least of a set of numbers, which exists because numbers are well-founded (`LeastNumber`) |
| home | `FlagsStayTrue` | `HomeInductive`: a read that is due belongs to a scan that waits for it, one to a scan; nothing is flagged from a scan's first read to its end |
| offers | `RowsStayTrue` | `OffersInductive`: a yes on its way is about what became of the offer |
| tags | `FloatsStayShown` | `TagsInductive`: no float is an answer's as long as no answer brought anything new |
| buff | `OffStaysOff` | `BuffInductive`: the youngest read finds what is stored, unless a change is on its way; a script that is off has nothing on the page and nothing due |
| fees | `SplitsMeetPrices` | nothing: it is about one loop, see below |
| csfloat | `PanelStaysCurrent` | `FloatInductive`: the reads on their way, answered or not, are one queue (`QueueOf`; an answer does not move a read in it), whose reloads are in the order of the changes they are for, the last one for the last change heard of (`ReadsInOrder`); the announcements on their way are those after it (`ChangesInOrder`, so `Heard` is `panelRevision`); no panel is shown while a reload is in the queue |
| routing | `VerdictsStand` | `RoutingInductive`: at most one activation goes on, and the verdict is open while it pairs (`OneActivation`) |
| panel | `UnpairedStaysUnpaired` | `PanelInductive`: an unpairing past its waits waits for nobody (`UnpairingsWait`), and a popup that waits for one has started nothing since (`PopupWaits`, `NobodyWrites`) |
| settings | `OptInsStayTheUsers` | `SettingsInductive`: every copy of the settings a handler carries, and every patch, has no more opt-ins than the user asked for |
| session | `RowsStayTheirs` | `SessionInductive`: a reader refers to a provider of its own account (`Honest`), and what nobody refers to has no token left (`TokensAreTheirs`) |
| history | `PagesJoin` | `HistoryInductive`: the cursor is the last trade on the list (`Marked`), and the one read asks for what is older (`Follows`), as long as reads do not overlap |
| sell | `SellLinesStayTheirs` | `SellInductive`: what is found in the inventory is worth what the card's item is |
| engine | `LabelsStayRight` | `EngineInductive`: the last read asked for, or the change still unheard, brings the copy up to date (`UpToDate`), and what is drawn is drawn by the copy (`DrawnByTheCopy`) |
| lookup | `PanelSellsWhatIsOpen` | `LookupInductive`: a panel that loads is at a place of the page |
| collector | `CompleteStaysComplete`, `CollectorTypes` | `CollectorInductive`: each shelf read so far holds what stayed in it down to the cursor, the log holds the trades of the run's begin down to its cursor unless it was cut, and both say so themselves before the chunks are packed. `NewestGoesUp`, `NewestAreFew` and the lemmas after them say what reading the newest rows of a set returns |
| trade | `NothingEverLost`, `TradePageTypes` | `TradeInductive`: a page never has more items than fit, since Steam makes pages in order and no item is on a page that Steam has not made (`BlankAfter`); so what is shown has room beside the empty holders (`ShownFit`, `ItemsComeFirst`). Places and items are counted from the first and therefore one-to-one (`RanksAreNumbers`), so that sorting puts every item in one place |

**Steam's fees** (`SplitsMeetPrices`, in `ExtensionParts_proofs`) is the proof of an algorithm. `Walk` is the loop
of `receivedForBuyerPays` as a recursive function of a turn. That there is such a function is `TheWalkExists`: one
that is right for up to n turns left gives one that is right for n + 1, and a set of numbers has a least one. What
the buyer pays grows by a unit or more with what the seller receives (`BuyersPayMore`), and at the estimate it is
at most three units below the price and two above it (`EstimateIsClose`), so that a few turns decide: from below
the loop goes up at most three times (`WalksUp`), from above it comes down at most twice (`WalksDown`), and what it
ends with is the greatest amount there is (`WalkIsBest`). The theorem assumes `w.minimum <= 2` of every wallet and
nothing else: with a smallest fee of three units the estimate can be three above the price, the loop stops two
steps lower and the listing is a unit too dear. The rates are of whole percents; the flat base and the price are
any that `normalizeWalletFeeInfo` lets through.

**Types** of the parts of `MCFurtherParts` are what the safety invariants leave open (`PanelRest`, `SettingsRest`,
`SellRest`, `EngineRest`): counters within their bounds because whatever counts up was asked for once
(`ArrivalsNoticed`, `ChangesMade`), a migration that goes on is not at the last version, a price the engine gives is
of a source that has one (`PricesAreOffered`). `PartsRun` says that a behaviour of the composition is one of every
part, so that each of the theorems above holds in it; with the parts' types it gives `FurtherTypes`.

The types of the parts of `MCExtensionParts` (`PartsTypes`) say more than that a variable has a type:

- offers: sorting keeps every offer, once. The list is put together of the offers that are open in one order and
  the rest of another (`SortingKeepsAll`); `FilteredIs` says what filtering keeps, by induction over the positions
  of the list, and `AllOnce` and `OnceAll` that a list as long as a finite set names all of it exactly if it names
  none twice. Hence the assumption that the offers are finitely many.
- inventory: what is listed and tagged is always something the page has loaded (`InventoryShapes`).
- buff: panels are on rows the page has (`PanelsAreOnRows`), although rows are paired with orders one by one, and
  reads, changes and the stored version stay in step (`BuffRest`).
- csfloat: what is read, announced, kept or painted is of a version that can have been written (`FloatRest`); that
  the count of changes heard stays in bounds is `ChangesInOrder` of the safety proof.
- tags and schedule: inductive as they stand, or part of the invariants above; sale and home add the books and
  panels that safety leaves open (`SaleBooks`, `HomeRest`).

`InventoryPage` and `PriceRefresh` state fairness of their own, which the composition has only of the part that
runs; `InventoryStaysTyped` therefore assumes none.

The exceptions the properties make (two scans at once, a read that failed, reads that overlap) are variables
that record what happened, and the runs reach both sides of each.

**Only model-checked** is liveness: `CallsSettle`, `UnpairAnswers`, `RoomToRecover`, `ListCatchesUp` and
`RefreshCatchesUp`. The prover has no rule for fairness.

## 5. Plan

Done: the modules of section 2 and the proofs of section 4. What is worth doing next, in this order:

1. `PortfolioService` with `SyncSchedule`'s clock, so that the fences meet the hourly claim in one module.
2. The token's life of 70 minutes in `SteamReadSession`, and the write of a row that is not answered in
   `MarketSale` followed to the next batch.

## 6. Not modelled, and why

- Cryptography, wire validation and the parsing of Steam's, CSFloat's and Buff's answers
  (`gateway-crypto.ts`, `gateway-client.ts`, `gateway-dto.ts`, `steam-offers.ts` and the like): pure functions
  of their input. Their outcome (accepted, refused, malformed) is a choice wherever a modelled step uses it.
- The internal message bus and API client: each request is one answer or one error, which is how the
  modelled handlers see it.
- `registerInternalGatewayRouter` (`external-router.ts`): the worker does not use it.
- `market.ts`, `market-search.ts`, `profile.ts`: they decorate a page once and keep no state between steps.
- The item appearance tables (`shared/patterns.js`, phases, names): static data.
- Layout, wording and styles of the popup and of the pages' labels; build, packaging and smoke tests.

## 7. Running

    tlc -config GatewayController.cfg MCGatewayController        (also ...Chunks.cfg, ...Success.cfg)
    tlc -config PortfolioService.cfg MCPortfolioService          (also ...Liveness, OptOut, Restart, Revoked)
    tlc -config SyncOutbox.cfg MCSyncOutbox                      (also SyncOutboxOutage.cfg)
    tlc -config ExtensionParts.cfg MCExtensionParts
    tlc -config FurtherParts.cfg MCFurtherParts
    tlapm GatewayController_proofs.tla
    tlapm PortfolioService_proofs.tla
    tlapm SyncOutbox_proofs.tla
    tlapm SyncSchedule_proofs.tla
    tlapm P2PListing_proofs.tla
    tlapm CSFloatGrid_proofs.tla
    tlapm ExtensionParts_proofs.tla
    tlapm FurtherParts_proofs.tla
