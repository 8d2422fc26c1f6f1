---------------------------- MODULE PriceRefresh ----------------------------
(***************************************************************************)
(* The three things the worker downloads on alarms and keeps in storage:   *)
(* the prices, which come with an ETag and are asked for only if it has    *)
(* changed, CSBOARD's own prices, and the exchange rates                   *)
(* (background/service-worker.ts, shared/price-engine.ts).  Downloads      *)
(* overlap: an alarm, a start and the popup's button do not wait for each  *)
(* other.  External: the CSBOARD API.                                      *)
(***************************************************************************)
EXTENDS Naturals

CONSTANTS
  MaxVersions,  \* bound: what the server ever has to give
  MaxFetches    \* bound: downloads at a time

ASSUME RefreshAssumption == MaxVersions \in Nat \ {0} /\ MaxFetches \in Nat \ {0}

VARIABLES
  feed,    \* what is downloaded; the three share nothing
  server,  \* the version the server gives
  cached,  \* chrome.storage.local: the version and its ETag
  fetches  \* the downloads in progress

refreshVars == <<feed, server, cached, fetches>>

Feeds == {"prices", "csboard prices", "rates"}
Downloads == 1..MaxFetches
NoTag == 0   \* also the time of the answer, where it came without an ETag
NoFetch == [pc |-> "done", got |-> 0, tag |-> NoTag]

RefreshInit ==
  /\ feed \in Feeds /\ server = 1
  /\ cached = [got |-> 0, tag |-> NoTag]
  /\ fetches = [d \in Downloads |-> NoFetch]

ServerChanges ==
  /\ server < MaxVersions /\ server' = server + 1   \* bound
  /\ UNCHANGED <<feed, cached, fetches>>

\* An alarm, a start of the worker, or REFRESH_PRICES.
RefreshFeed(d) ==
  /\ fetches[d] = NoFetch
  /\ fetches' = [fetches EXCEPT ![d] = [pc |-> "ask", got |-> 0, tag |-> cached.tag]]
  /\ UNCHANGED <<feed, server, cached>>

NotModified(d) == feed = "prices" /\ fetches[d].tag = server

\* 304 keeps what there is; an answer may come without an ETag.
ServerAnswers(d) ==
  /\ fetches[d].pc = "ask"
  /\ \E tag \in IF feed = "prices" THEN {server, NoTag} ELSE {NoTag} :
       fetches' = [fetches EXCEPT ![d] = IF NotModified(d) THEN NoFetch
                                         ELSE [pc |-> "store", got |-> server, tag |-> tag]]
  /\ UNCHANGED <<feed, server, cached>>

TagOfNow(d) ==   \* mutant: asked for when it is stored
  IF fetches[d].tag = NoTag THEN NoTag ELSE server
TagOfAnswer(d) == fetches[d].tag

\* storePrices, storeExchangeRates: the versions and the ETag in one write.
Stores(d) ==
  /\ fetches[d].pc = "store"
  /\ cached' = [got |-> fetches[d].got, tag |-> TagOfAnswer(d)]
  /\ fetches' = [fetches EXCEPT ![d] = NoFetch]
  /\ UNCHANGED <<feed, server>>

\* No answer, an error, a storage that is full: what there is stays.
FetchFails(d) ==
  /\ fetches[d] # NoFetch
  /\ fetches' = [fetches EXCEPT ![d] = NoFetch]
  /\ UNCHANGED <<feed, server, cached>>

RefreshStopped ==
  /\ fetches' = [d \in Downloads |-> NoFetch]
  /\ UNCHANGED <<feed, server, cached>>

RefreshNext ==
  \/ ServerChanges \/ RefreshStopped
  \/ \E d \in Downloads : RefreshFeed(d) \/ ServerAnswers(d) \/ Stores(d) \/ FetchFails(d)

AlarmRings == \E d \in Downloads : RefreshFeed(d)
AnAnswer == \E d \in Downloads : ServerAnswers(d)
AStore == \E d \in Downloads : Stores(d)

\* The alarms go on, and not every answer and every write fails.
RefreshSpec ==
  /\ RefreshInit /\ [][RefreshNext]_refreshVars
  /\ WF_refreshVars(AlarmRings) /\ SF_refreshVars(AnAnswer) /\ SF_refreshVars(AStore)

\* Once the server no longer changes, storage has what it gives, and keeps it: whatever order the
\* downloads end in, no "not modified" hides an older version.
PricesCatchUp == <>[](cached.got = server)
=============================================================================
