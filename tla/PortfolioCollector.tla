------------------------- MODULE PortfolioCollector -------------------------
(***************************************************************************)
(* What one portfolio run reads of Steam, page by page, while the account  *)
(* goes on trading (background/portfolio-collector.ts and the readers of   *)
(* background/steam-read-session-provider.ts), what it claims to be        *)
(* complete, and how it is cut into chunks (shared/portfolio-dto.ts).      *)
(*                                                                         *)
(* Trades and assets are numbered by age: Steam lists the newest first,    *)
(* and what comes in during a run has the next number.  External: Steam.   *)
(***************************************************************************)
EXTENDS Integers, Sequences, SequencesExt, FiniteSets

CONSTANTS
  MaxTrades, MaxAssets, \* bounds: what the account ever has
  MaxMoves,             \* bound: what happens to the account during the run
  Bulky,                \* the trades with more than 200 items on a side
  TradeLimit,           \* trades of a run
  MaxTradePages,        \* MAX_TRADE_HISTORY_PAGES
  MaxAssetPages,        \* MAX_INVENTORY_PAGES
  InventoryLimit,       \* items of a run
  ChunkSize, MaxChunks  \* the room in a chunk; MAX_GATEWAY_CHUNKS_PER_RUN

ASSUME CollectorAssumption ==
  /\ {MaxTrades, MaxAssets, MaxMoves, TradeLimit, MaxTradePages, MaxAssetPages,
      InventoryLimit, ChunkSize, MaxChunks} \subseteq Nat
  /\ 0 \notin {MaxTrades, TradeLimit, MaxTradePages, MaxAssetPages}
  /\ Bulky \subseteq 1..MaxTrades

Contexts == {"2", "16"}
Sources == {"inventory", "trades", "offers"}
AssetIds == 1..MaxAssets
Unknown == MaxTrades + 2   \* more than any total; also "before the newest"

VARIABLES
  newest,   \* Steam: the trades of the account are 1..newest
  place,    \* Steam: the context every asset is in, or "none"
  moved,    \* history: the assets that came, went or changed context, and how much happened
  sources,  \* the sources the user enabled
  at,       \* collectPortfolioSync: where it is
  shelf,    \* its two inventory reads: items, the cursor, pages read, done
  log,      \* collectRecentTrades: trades found, cursors, total, pages, whether it retried
  outcome   \* what was read, what is claimed, the chunks

collectorVars == <<newest, place, moved, sources, at, shelf, log, outcome>>
accountVars == <<newest, place, moved>>

NothingRead == [trades |-> {}, tradesComplete |-> FALSE, offers |-> 0, usable |-> {},
                inventoryComplete |-> FALSE, chunks |-> <<>>]
FreshShelf == [items |-> {}, after |-> MaxAssets + 1, pages |-> 0, done |-> FALSE]
FreshLog == [found |-> {}, after |-> Unknown, cursors |-> {}, total |-> Unknown, pages |-> 0,
             retried |-> FALSE, since |-> 0, cut |-> FALSE]

CollectorTypeOK ==
  /\ newest \in 0..MaxTrades /\ place \in [AssetIds -> Contexts \cup {"none"}]
  /\ moved.assets \subseteq AssetIds /\ moved.times \in 0..MaxMoves
  /\ sources \subseteq Sources
  /\ at \in {"idle", "inventory", "trades", "offers", "pack", "done", "failed"}
  /\ \A c \in Contexts : shelf[c].items \subseteq AssetIds /\ shelf[c].pages <= MaxAssetPages
  /\ log.found \subseteq 1..MaxTrades /\ Cardinality(log.found) <= TradeLimit
  /\ log.pages < MaxTradePages
  /\ outcome.usable \subseteq Sources /\ outcome.trades \subseteq 1..MaxTrades
  /\ Len(outcome.chunks) <= MaxChunks

CollectorInit ==
  /\ newest = MaxTrades - 1
  /\ place = [a \in AssetIds |-> IF a = MaxAssets THEN "none" ELSE IF a = 1 THEN "16" ELSE "2"]
  /\ moved = [assets |-> {}, times |-> 0]
  /\ sources = {} /\ at = "idle"
  /\ shelf = [c \in Contexts |-> FreshShelf] /\ log = FreshLog /\ outcome = NothingRead

(***************************************************************************)
(* External: the account while it is read.                                 *)
(***************************************************************************)
Moves(assets) ==
  /\ at \in {"inventory", "trades"} /\ moved.times < MaxMoves   \* bound
  /\ moved' = [assets |-> moved.assets \cup assets, times |-> moved.times + 1]
  /\ UNCHANGED <<sources, at, shelf, log, outcome>>

TradeHappens ==
  /\ newest < MaxTrades /\ newest' = newest + 1
  /\ \E a \in AssetIds :
       /\ place' = [place EXCEPT ![a] = IF @ = "none" THEN "2" ELSE "none"]
       /\ Moves({a})

HoldEnds ==
  \E a \in AssetIds :
    /\ place[a] = "16" /\ place' = [place EXCEPT ![a] = "2"]
    /\ Moves({a}) /\ UNCHANGED newest

(***************************************************************************)
(* The inventory: both contexts at once, all or nothing.                   *)
(***************************************************************************)
NextSource(source) ==
  CASE source = "inventory" -> IF "trades" \in sources THEN "trades" ELSE "offers"
    [] source = "trades" -> "offers"

CollectStarts ==
  /\ at = "idle"
  /\ \E enabled \in SUBSET Sources \ {{}} :
       /\ sources' = enabled
       /\ at' = IF "inventory" \in enabled THEN "inventory"
                ELSE IF "trades" \in enabled THEN "trades" ELSE "offers"
  /\ log' = [FreshLog EXCEPT !.since = newest]
  /\ UNCHANGED <<accountVars, shelf, outcome>>

Newest(S, n) == {a \in S : Cardinality({b \in S : b > a}) < n}
Oldest(S) == CHOOSE a \in S : \A b \in S : a <= b

\* readInventoryContext: one page after the cursor; "more_items" without an asset to go on from
\* is refused, and so is one page too many.
AssetPageRead(c) ==
  LET s == shelf[c]
      left == {a \in AssetIds : place[a] = c /\ a < s.after} IN
  /\ at = "inventory" /\ ~s.done
  /\ \E rows \in {Newest(left, n) : n \in 1..MaxAssets} :
       LET more == rows # left
           next == [items |-> s.items \cup rows, pages |-> s.pages + 1, done |-> ~more,
                    after |-> IF rows = {} THEN s.after ELSE Oldest(rows)] IN
       IF more /\ next.pages = MaxAssetPages
       THEN at' = "failed" /\ UNCHANGED shelf
       ELSE /\ shelf' = [shelf EXCEPT ![c] = next]
            /\ at' = IF \A d \in Contexts : shelf'[d].done THEN NextSource("inventory") ELSE at
  /\ UNCHANGED <<accountVars, sources, log, outcome>>

\* Any failed page, or one row out of shape, fails the run.
AssetPageFails ==
  /\ at = "inventory" /\ at' = "failed"
  /\ UNCHANGED <<accountVars, sources, shelf, log, outcome>>

(***************************************************************************)
(* The trades, newest first.                                               *)
(***************************************************************************)
TradesDone(found, complete) ==
  /\ outcome' = [outcome EXCEPT !.trades = found, !.tradesComplete = complete,
                               !.usable = @ \cup {"trades"}]
  /\ at' = NextSource("trades")

AtLeastTotal(l) == l.total # Unknown /\ Cardinality(l.found) >= l.total
AnyEnd(l) == TRUE   \* mutant: the last page is the end, whatever the total was
EndIsTheEnd(l) == l.total = Unknown \/ AtLeastTotal(l)

AnyPages(l) == FALSE   \* mutant: the pages are not counted
LastPage(l) == l.pages = MaxTradePages

\* What collectRecentTrades makes of a page, in the code's order: "go on" or the claim.
PageVerdict(l, kept, more) ==
  CASE AtLeastTotal(l) -> "complete"
    [] ~AtLeastTotal(l) /\ ~more -> IF EndIsTheEnd(l) THEN "complete" ELSE "truncated"
    [] OTHER -> IF \/ Cardinality(l.found) >= TradeLimit \/ kept = {}
                   \/ Oldest(kept) \in l.cursors \/ LastPage(l)
                THEN "truncated" ELSE "go on"

\* Steam may give fewer rows than asked for, one too many, or the trade of the cursor again; its
\* "more" may lag, and it gives the total of the first page, one that counts failed trades, or none.
TradePageRead ==
  LET remaining == TradeLimit - Cardinality(log.found)
      first == log.after = Unknown
      reachable == {t \in 1..newest : first \/ t < log.after} IN
  /\ at = "trades"
  /\ \E again \in (IF first THEN {{}} ELSE {{}, {log.after}}), n \in 0..(remaining + 1),
        lags \in BOOLEAN, total \in (IF first THEN {newest, newest + 1, Unknown} ELSE {log.total}) :
       LET rows == Newest(reachable \cup again, n)
           kept == Newest(rows, remaining)
           more == lags \/ reachable \ rows # {}
           l == [log EXCEPT !.found = @ \cup kept, !.total = total, !.pages = @ + 1,
                            !.retried = FALSE,
                            !.cut = total = Unknown /\ rows # kept /\ ~more]
       IN IF PageVerdict(l, kept, more) = "go on"
          THEN /\ log' = [l EXCEPT !.after = Oldest(kept), !.cursors = @ \cup {Oldest(kept)}]
               /\ UNCHANGED <<at, outcome>>
          ELSE /\ log' = [FreshLog EXCEPT !.since = log.since, !.cut = l.cut]
               /\ TradesDone(l.found, PageVerdict(l, kept, more) = "complete")
  /\ UNCHANGED <<accountVars, sources, shelf>>

\* readTradeHistoryPage: a refused session is renewed once per page.
TradePageRefused ==
  /\ at = "trades" /\ ~log.retried
  /\ log' = [log EXCEPT !.retried = TRUE]
  /\ UNCHANGED <<accountVars, sources, at, shelf, outcome>>

\* What was found before is given up with the source.
TradesFail ==
  /\ at = "trades" /\ at' = NextSource("trades")
  /\ log' = [FreshLog EXCEPT !.since = log.since]
  /\ UNCHANGED <<accountVars, sources, shelf, outcome>>

(***************************************************************************)
(* The accepted offers, in one read; then the snapshot and its chunks.     *)
(***************************************************************************)
OffersOver ==
  /\ at = "offers" /\ at' = "pack"
  /\ \/ /\ "offers" \in sources
        /\ \E n \in 0..1 : outcome' = [outcome EXCEPT !.offers = n, !.usable = @ \cup {"offers"}]
     \/ UNCHANGED outcome
  /\ UNCHANGED <<accountVars, sources, shelf, log>>

ItemsRead == Cardinality(shelf["2"].items) + Cardinality(shelf["16"].items)
TooMany == ItemsRead > InventoryLimit
InventoryUsable == "inventory" \in sources /\ ~TooMany

WithinRecordLimit(found) == found \ Bulky

\* A record is kept in the order of its id.
Nth(ids, i) == CHOOSE a \in ids : Cardinality({b \in ids : b <= a}) = i
Records(kind, ids) == [i \in 1..Cardinality(ids) |-> [kind |-> kind, id |-> Nth(ids, i)]]

\* sortPortfolioSnapshot, and the records in the order they are packed.
Packed(inventory) ==
  (IF inventory THEN Records("16", shelf["16"].items) \o Records("2", shelf["2"].items) ELSE <<>>)
  \o Records("trade", WithinRecordLimit(outcome.trades)) \o Records("offer", 1..outcome.offers)

\* A trade takes more room than an item or an offer.
Bytes(record) == IF record.kind = "trade" THEN 2 ELSE 1
BytesOf(chunk) == FoldLeft(LAMBDA n, r : n + Bytes(r), 0, chunk)
Fits(chunk) == BytesOf(chunk) <= ChunkSize

\* chunkPortfolioSnapshot: a record goes into the last chunk or begins the next.
Stowed(chunks, record) ==
  LET fuller == Append(chunks[Len(chunks)], record) IN
  IF Fits(fuller) THEN [chunks EXCEPT ![Len(chunks)] = fuller] ELSE Append(chunks, <<record>>)

Chunks(records) ==
  LET stowed[i \in 0..Len(records)] ==
        IF i = 0 THEN << <<>> >> ELSE Stowed(stowed[i - 1], records[i])
  IN stowed[Len(records)]

Snapshot ==
  LET chunks == Chunks(Packed(InventoryUsable)) IN
  /\ at = "pack"
  /\ \/ /\ outcome.usable \cup {s \in {"inventory"} : InventoryUsable} # {}
        /\ Len(chunks) <= MaxChunks /\ \A k \in DOMAIN chunks : Fits(chunks[k])
        /\ at' = "done"
        /\ outcome' = [outcome EXCEPT !.chunks = chunks, !.inventoryComplete = InventoryUsable,
             !.tradesComplete = @ /\ WithinRecordLimit(outcome.trades) = outcome.trades]
     \/ /\ \/ outcome.usable \cup {s \in {"inventory"} : InventoryUsable} = {}
           \/ Len(chunks) > MaxChunks \/ \E k \in DOMAIN chunks : ~Fits(chunks[k])
        /\ at' = "failed" /\ UNCHANGED outcome
  /\ UNCHANGED <<accountVars, sources, shelf, log>>

\* The checks of a record are of its own fields: no record, nothing to refuse.
SomeRecord == Packed(InventoryUsable) # <<>>

\* One record out of shape fails the run.
SnapshotRefused ==
  /\ at = "pack" /\ SomeRecord /\ at' = "failed"
  /\ UNCHANGED <<accountVars, sources, shelf, log, outcome>>

CollectorNext ==
  \/ TradeHappens \/ HoldEnds \/ CollectStarts
  \/ \E c \in Contexts : AssetPageRead(c)
  \/ AssetPageFails \/ TradePageRead \/ TradePageRefused \/ TradesFail
  \/ OffersOver \/ Snapshot \/ SnapshotRefused

CollectorSpec == CollectorInit /\ [][CollectorNext]_collectorVars

(***************************************************************************)
(* Properties                                                              *)
(***************************************************************************)
InChunks(chunks) == UNION {ToSet(chunk) : chunk \in ToSet(chunks)}
Carried(kind) == {r.id : r \in {q \in InChunks(outcome.chunks) : q.kind = kind}}

\* What a run calls complete is all there, in its chunks: every trade the account had when the run
\* began, and every asset that stayed where it was while the pages were read, whatever pages Steam
\* cuts the lists into.  (One end of a history is not told from a cut: no total, and the last page
\* one row too long.)
CompleteIsComplete ==
  at = "done" =>
    /\ outcome.tradesComplete /\ ~log.cut => 1..log.since \subseteq Carried("trade")
    /\ outcome.inventoryComplete =>
         \A a \in AssetIds \ moved.assets : place[a] # "none" => a \in Carried(place[a])
=============================================================================
