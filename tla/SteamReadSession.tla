-------------------------- MODULE SteamReadSession --------------------------
(***************************************************************************)
(* Reading Steam on behalf of an account: the worker's provider slot       *)
(* (getSteamReadProvider in background/service-worker.ts), the provider    *)
(* with its memory-only token (background/steam-read-session-provider.ts), *)
(* and the bridge to open Steam pages (page-credential-bridge.ts).         *)
(*                                                                         *)
(* The browser can sign in to another account at any time, and open pages  *)
(* keep the credential of the account they were loaded for.  A token is    *)
(* identified with the account it reads.  External: Steam.                 *)
(***************************************************************************)
EXTENDS Integers, FiniteSets

CONSTANTS
  Accounts, Paired,  \* the user's Steam accounts; the one the device is paired to
  MaxPages           \* bound: pages that are served at a time, beside a sync

ASSUME SessionAssumption ==
  Paired \in Accounts /\ "out" \notin Accounts /\ MaxPages \in Nat

\* Who reads: a portfolio sync, an offers page with its own credential, the history page.
Readers == {"sync", "page", "history"}
Providers == 1..5   \* one per reader, one in the slot and one that is made
NoProvider == 0
NoOne == "out"

VARIABLES
  browser,   \* the account the browser is signed in to
  tab,       \* the account the open Steam page belongs to
  slot,      \* steamReadProvider
  account,   \* steamId of every provider
  token,     \* memoryToken of every provider: the account it reads
  minting,   \* providers with a pendingToken
  reader     \* every reader: where it is, its provider, the token it sent, what it read last

sessionVars == <<browser, tab, slot, account, token, minting, reader>>

IdleReader == [pc |-> "idle", as |-> NoOne, by |-> NoProvider, sent |-> NoOne,
               rows |-> {}]

SessionTypeOK ==
  /\ browser \in Accounts \cup {NoOne} /\ tab \in Accounts
  /\ slot \in Providers \cup {NoProvider}
  /\ account \in [Providers -> Accounts \cup {NoOne}]
  /\ token \in [Providers -> Accounts \cup {NoOne}]
  /\ minting \subseteq Providers
  /\ reader \in [Readers ->
       [pc : {"idle", "tabs", "probe", "token", "mint", "api", "ask again"},
        as : Accounts \cup {NoOne}, by : Providers \cup {NoProvider},
        sent : Accounts \cup {NoOne}, rows : SUBSET Accounts]]

SessionInit ==
  /\ browser = Paired /\ tab = Paired
  /\ slot = NoProvider
  /\ account = [p \in Providers |-> NoOne] /\ token = [p \in Providers |-> NoOne]
  /\ minting = {} /\ reader = [r \in Readers |-> IdleReader]

PagesServed == {r \in Readers \ {"sync"} : reader[r].pc # "idle"}
MayStart(r) ==
  /\ reader[r].pc = "idle"
  /\ r # "sync" => Cardinality(PagesServed) < MaxPages   \* bound

To(r, pc) == reader' = [reader EXCEPT ![r].pc = pc]
Gone(r) == reader' = [reader EXCEPT ![r] = IdleReader]

\* Providers are garbage, and their mints of no interest, once nothing refers to them: the last
\* conjunct of an action.
Referenced(p) == p = slot \/ \E r \in Readers : reader[r].by = p
Live(f) == [p \in Providers |-> IF Referenced(p)' THEN f[p] ELSE NoOne]
Objects(accounts, tokens, mints) ==
  /\ account' = Live(accounts) /\ token' = Live(tokens)
  /\ minting' = {p \in mints : Referenced(p)'}

(***************************************************************************)
(* getSteamReadProvider.                                                   *)
(***************************************************************************)
FreeProvider == CHOOSE p \in Providers : ~Referenced(p)

SlotFits(seen) == slot # NoProvider /\ account[slot] = seen

Forgotten == [p \in Providers |-> IF p = slot THEN NoOne ELSE token[p]]

ReaderRefused(as, seen) == seen = NoOne \/ (as # NoOne /\ seen # as)

\* The slot holds a provider for "seen" from here on, with the page's token if it gave one.
Installed(seen, credential) ==
  LET p == IF SlotFits(seen) THEN slot ELSE FreeProvider
      carried == IF SlotFits(seen) THEN token ELSE Forgotten IN
  /\ slot' = p
  /\ Objects([account EXCEPT ![p] = seen],
             IF credential THEN [carried EXCEPT ![p] = seen] ELSE carried, minting)

Emptied == slot' = NoProvider /\ Objects(account, Forgotten, minting)

ProviderFor(r, as, seen, credential) ==
  \/ ReaderRefused(as, seen) /\ Gone(r) /\ Emptied
  \/ /\ ~ReaderRefused(as, seen)
     /\ reader' = [reader EXCEPT ![r].pc = "token", ![r].as = seen,
                    ![r].by = IF SlotFits(seen) THEN slot ELSE FreeProvider]
     /\ Installed(seen, credential)

\* A sync knows its account and may find its provider ready; it asks the pages otherwise.
SyncReads ==
  /\ MayStart("sync")
  /\ \/ /\ SlotFits(Paired) /\ token[slot] # NoOne
        /\ reader' = [reader EXCEPT !["sync"].pc = "token", !["sync"].by = slot,
                                   !["sync"].as = Paired]
     \/ reader' = [reader EXCEPT !["sync"].pc = "tabs", !["sync"].as = Paired]
  /\ UNCHANGED <<browser, tab, slot, account, token, minting>>

\* An open page of the account answers within a second, or Steam itself is asked who is signed in.
TabsAnswer ==
  /\ reader["sync"].pc = "tabs"
  /\ UNCHANGED <<browser, tab>>
  /\ \/ tab = Paired /\ ProviderFor("sync", Paired, tab, TRUE)
     \/ To("sync", "probe") /\ UNCHANGED <<slot, account, token, minting>>

\* FETCH_STEAM_TRADE_OFFERS: the page sends its own account and token.
PageReads ==
  /\ MayStart("page")
  /\ UNCHANGED <<browser, tab>>
  /\ ProviderFor("page", tab, tab, TRUE)

\* OFFER_STEAM_PAGE_CREDENTIAL: another account's page empties the slot.
PageOffers ==
  /\ UNCHANGED <<browser, tab, reader>>
  /\ \/ ReaderRefused(Paired, tab) /\ Emptied
     \/ ~ReaderRefused(Paired, tab) /\ Installed(tab, TRUE)

\* FETCH_TRADE_HISTORY names no account.
HistoryReads ==
  /\ MayStart("history")
  /\ To("history", "probe")
  /\ UNCHANGED <<browser, tab, slot, account, token, minting>>

\* fetchSteamSession: who is signed in now; nobody if the browser withholds its cookies.
ProbeAnswers(r) ==
  /\ reader[r].pc = "probe"
  /\ UNCHANGED <<browser, tab>>
  /\ \E seen \in {browser, NoOne} : ProviderFor(r, reader[r].as, seen, FALSE)

(***************************************************************************)
(* fetchSteamApi: the token from memory or minted, one retry with a fresh  *)
(* token after a 401.                                                      *)
(***************************************************************************)
\* Callers share the mint in flight; a token too old is minted again.
TokenAsked(r) ==
  LET p == reader[r].by IN
  /\ reader[r].pc = "token"
  /\ \/ /\ token[p] # NoOne
        /\ reader' = [reader EXCEPT ![r].pc = "api", ![r].sent = token[p], ![r].rows = {}]
        /\ UNCHANGED minting
     \/ /\ reader' = [reader EXCEPT ![r].pc = "mint", ![r].rows = {}]
        /\ minting' = minting \cup {p}
  /\ UNCHANGED <<browser, tab, slot, account, token>>

MintUnchecked(p) == TRUE   \* mutant
MintIsOurs(p) == browser = account[p]

\* The token page of whoever is signed in when Steam serves it; the token is stored even if the
\* session was forgotten meanwhile.
MintAnswers(p) ==
  LET waiting == {r \in Readers : reader[r].pc = "mint" /\ reader[r].by = p} IN
  /\ p \in minting
  /\ UNCHANGED <<browser, tab, slot>>
  /\ \/ /\ browser # NoOne /\ MintIsOurs(p)
        /\ reader' = [r \in Readers |->
             IF r \in waiting THEN [reader[r] EXCEPT !.pc = "api", !.sent = browser]
             ELSE reader[r]]
        /\ Objects(account, [token EXCEPT ![p] = browser], minting \ {p})
     \/ /\ reader' = [r \in Readers |-> IF r \in waiting THEN IdleReader ELSE reader[r]]
        /\ Objects(account, token, minting \ {p})

\* The rows are whatever the token's account has; the caller files them under "as", and asks for
\* more or is done.  A 401 asks for a fresh token, any other error ends the read.
ApiAnswers(r) ==
  /\ reader[r].pc = "api"
  /\ UNCHANGED <<browser, tab, slot>>
  /\ \/ /\ reader' = [reader EXCEPT ![r].rows = {reader[r].sent}, ![r].sent = NoOne,
                                    ![r].pc = "token"]
        /\ UNCHANGED <<account, token, minting>>
     \/ /\ reader' = [reader EXCEPT ![r].pc = "ask again", ![r].sent = NoOne]
        /\ UNCHANGED <<account, token, minting>>
     \/ Gone(r) /\ Objects(account, token, minting)

LastRowRead(r) ==
  /\ reader[r].pc = "token" /\ reader[r].rows # {}
  /\ UNCHANGED <<browser, tab, slot>>
  /\ Gone(r) /\ Objects(account, token, minting)

\* refreshAccessToken: a page of this account offers a token, or a mint is forced.  The code
\* allows one refresh per request.
Refreshed(r) ==
  LET p == reader[r].by IN
  /\ reader[r].pc = "ask again"
  /\ \/ tab = account[p] /\ token' = [token EXCEPT ![p] = tab] /\ To(r, "token")
        /\ UNCHANGED minting
     \/ minting' = minting \cup {p} /\ To(r, "mint") /\ UNCHANGED token
  /\ UNCHANGED <<browser, tab, slot, account>>

\* A cancelled sync forgets the session of its provider, whoever else reads with it.
SyncCancelled ==
  LET p == reader["sync"].by IN
  /\ p # NoProvider
  /\ UNCHANGED <<browser, tab, slot>>
  /\ Gone("sync") /\ Objects(account, [token EXCEPT ![p] = NoOne], minting)

\* CLEAR_STEAM_READ_SESSION, unpairing, and a change of settings.
SessionCleared ==
  /\ slot # NoProvider
  /\ UNCHANGED <<browser, tab, reader>>
  /\ Emptied

UserSwitches(a) ==
  /\ a # browser
  /\ browser' = a
  /\ UNCHANGED <<tab, slot, account, token, minting, reader>>

\* A page that is loaded signed out has nothing to offer and is no page here.
TabLoads ==
  /\ tab # browser /\ browser # NoOne
  /\ tab' = browser
  /\ UNCHANGED <<browser, slot, account, token, minting, reader>>

SessionNext ==
  \/ SyncReads \/ TabsAnswer \/ PageReads \/ PageOffers \/ HistoryReads
  \/ \E r \in Readers : \/ ProbeAnswers(r) \/ TokenAsked(r) \/ ApiAnswers(r)
                        \/ LastRowRead(r) \/ Refreshed(r)
  \/ \E p \in Providers : MintAnswers(p)
  \/ SyncCancelled \/ SessionCleared \/ TabLoads
  \/ \E a \in Accounts \cup {NoOne} : UserSwitches(a)

SessionSpec == SessionInit /\ [][SessionNext]_sessionVars

(***************************************************************************)
(* Properties                                                              *)
(***************************************************************************)
\* What is filed under an account was read from that account, however often the user switches
\* accounts between the probe, the mint and the read, and whoever shares the provider.
RowsAreOfTheirAccount == \A r \in Readers : reader[r].rows \subseteq {reader[r].as}
=============================================================================
