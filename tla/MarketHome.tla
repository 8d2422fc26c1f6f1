----------------------------- MODULE MarketHome -----------------------------
(***************************************************************************)
(* The market home page: scanning one's own listings for overpriced ones   *)
(* and removing those (content-scripts/steam/market-home.ts), over the     *)
(* order-book reads and their gate (shared/market-orders.ts).              *)
(*                                                                         *)
(* A listing is judged by the cheapest ask of its name: "over" it, "fair", *)
(* or "none" (no ask, or no answer).                                       *)
(***************************************************************************)
EXTENDS Integers, Sequences

CONSTANTS
  Listings, Names, MarketNameOf,  \* the user's listings and the item name of each
  MaxScans                  \* bound: scans in progress at a time

ASSUME HomeAssumption == MarketNameOf \in [Listings -> Names] /\ MaxScans \in Nat

Scans == 1..MaxScans
Verdicts == {"over", "fair", "none"}

VARIABLES
  rows,        \* listings with a row on the page
  highlighted, \* rows marked as overpriced
  flagged,     \* the set "flagged": what the remove button would take
  panel,       \* the scan button is enabled; a rebuild of the panel is due
  scan,        \* scans in progress
  removal,     \* the removal in progress: ids to go
  knownIds,    \* names whose item_nameid is cached
  cooldown,    \* Steam answered 429 less than 90 s ago
  gate,        \* order-book reads: the head is at Steam, the others wait
  verdict,     \* history: what the last scan said of a listing
  overlapped   \* history: two scans have run at the same time

pageVars == <<rows, highlighted, flagged, panel, scan, removal, verdict, overlapped>>
readVars == <<knownIds, cooldown, gate>>
homeVars == <<pageVars, readVars>>

NoAsks == [n \in Names |-> "unread"]
NoScan == [pc |-> "idle", rows |-> {}, todo |-> {}, asks |-> NoAsks, button |-> FALSE]
NoRemoval == {}

HomeTypeOK ==
  /\ rows \subseteq Listings /\ highlighted \subseteq rows /\ flagged \subseteq Listings
  /\ panel \in [enabled : BOOLEAN, due : BOOLEAN]
  /\ scan \in [Scans -> [pc : {"idle", "asking", "waiting"}, rows : SUBSET Listings,
                         todo : SUBSET Names, asks : [Names -> Verdicts \cup {"unread"}],
                         button : BOOLEAN]]
  /\ removal \subseteq Listings /\ knownIds \subseteq Names
  /\ cooldown \in BOOLEAN
  /\ \A k \in DOMAIN gate : gate[k] \in [by : Scans, name : Names, kind : {"page", "book"}]
  /\ verdict \in [Listings -> Verdicts \cup {"unread"}] /\ overlapped \in BOOLEAN

HomeInit ==
  /\ rows = Listings /\ highlighted = {} /\ flagged = {}
  /\ panel = [enabled |-> TRUE, due |-> FALSE]
  /\ scan = [k \in Scans |-> NoScan] /\ removal = NoRemoval
  /\ knownIds = {} /\ cooldown = FALSE /\ gate = <<>>
  /\ verdict = [l \in Listings |-> "unread"] /\ overlapped = FALSE

Running == {k \in Scans : scan[k].pc # "idle"}

(***************************************************************************)
(* scanPrices: one read per name, then every row of the snapshot is        *)
(* annotated with what was read.                                           *)
(***************************************************************************)
NothingCleared == flagged   \* mutant
FlagsAtStart == {}

ScanClick(k) ==
  /\ panel.enabled /\ rows # {} /\ scan[k].pc = "idle"
  /\ panel' = [panel EXCEPT !.enabled = FALSE]
  /\ flagged' = FlagsAtStart
  /\ scan' = [scan EXCEPT ![k] = [pc |-> "asking", rows |-> rows, asks |-> NoAsks,
                                  todo |-> {MarketNameOf[l] : l \in rows}, button |-> TRUE]]
  /\ overlapped' = (overlapped \/ Running # {})
  /\ UNCHANGED <<rows, highlighted, removal, verdict, readVars>>

Judged(s, said) == {l \in s.rows : s.asks[MarketNameOf[l]] = said}

\* annotate, row by row; "none" takes the highlight away and leaves the flag.
Annotate(s) ==
  /\ highlighted' = (highlighted \ (Judged(s, "fair") \cup Judged(s, "none")))
                    \cup (Judged(s, "over") \cap rows)
  /\ flagged' = (flagged \ Judged(s, "fair")) \cup Judged(s, "over")
  /\ verdict' = [l \in Listings |-> IF l \in s.rows /\ s.asks[MarketNameOf[l]] # "unread"
                                    THEN s.asks[MarketNameOf[l]] ELSE verdict[l]]
  /\ panel' = IF s.button THEN [panel EXCEPT !.enabled = TRUE] ELSE panel

\* The scan goes on with s, or is over: every name is read, or Steam limits the rate.
Continue(k, s, limited) ==
  \/ /\ limited \/ s.todo = {}
     /\ scan' = [scan EXCEPT ![k] = NoScan]
     /\ Annotate(s)
  \/ /\ ~limited /\ s.todo # {}
     /\ scan' = [scan EXCEPT ![k] = [s EXCEPT !.pc = "asking"]]
     /\ UNCHANGED <<highlighted, flagged, verdict, panel>>

Read(s, n, said) == [s EXCEPT !.asks[n] = said, !.todo = @ \ {n}]

(***************************************************************************)
(* getOrderBook and resolveItemNameId.  What the cache of books holds is   *)
(* left open: a name that was read once may be answered from it.           *)
(***************************************************************************)
IsRateLimited == cooldown

ScanAsks(k, n) ==
  LET s == scan[k] IN
  /\ s.pc = "asking" /\ n \in s.todo
  /\ \/ /\ n \in knownIds /\ \E said \in Verdicts : Continue(k, Read(s, n, said), FALSE)
        /\ UNCHANGED gate
     \/ /\ IsRateLimited /\ Continue(k, s, TRUE)
        /\ UNCHANGED gate
     \/ /\ ~IsRateLimited
        /\ scan' = [scan EXCEPT ![k].pc = "waiting"]
        /\ gate' = Append(gate, [by |-> k, name |-> n,
                                 kind |-> IF n \in knownIds THEN "book" ELSE "page"])
        /\ UNCHANGED <<highlighted, flagged, verdict, panel>>
  /\ UNCHANGED <<rows, removal, overlapped, knownIds, cooldown>>

\* The listing page gave the name's id: the book is asked for at the end of the queue, and
\* nothing looks at the cooldown again.
IdResolved ==
  LET r == Head(gate) IN
  /\ gate # <<>> /\ r.kind = "page"
  /\ knownIds' = knownIds \cup {r.name}
  /\ gate' = Append(Tail(gate), [r EXCEPT !.kind = "book"])
  /\ UNCHANGED <<pageVars, cooldown>>

BookRead(said) ==
  LET r == Head(gate) IN
  /\ gate # <<>> /\ r.kind = "book"
  /\ gate' = Tail(gate)
  /\ Continue(r.by, Read(scan[r.by], r.name, said), FALSE)
  /\ UNCHANGED <<rows, removal, overlapped, knownIds, cooldown>>

\* A failed read counts as no ask; a 429 starts the cooldown and ends the scan.
ReadFails(limited) ==
  LET r == Head(gate) IN
  /\ gate # <<>>
  /\ gate' = Tail(gate)
  /\ cooldown' = (cooldown \/ limited)
  /\ Continue(r.by, IF limited THEN scan[r.by] ELSE Read(scan[r.by], r.name, "none"), limited)
  /\ UNCHANGED <<rows, removal, overlapped, knownIds>>

CooldownEnds ==
  /\ cooldown /\ cooldown' = FALSE
  /\ UNCHANGED <<pageVars, knownIds, gate>>

(***************************************************************************)
(* Steam shows another page of listings; the observer rebuilds the panel   *)
(* 250 ms later, with new buttons.                                         *)
(***************************************************************************)
RowsReplaced(shown) ==
  /\ ~panel.due
  /\ rows' = shown /\ highlighted' = {}
  /\ panel' = [panel EXCEPT !.due = TRUE]
  /\ UNCHANGED <<flagged, scan, removal, verdict, overlapped, readVars>>

\* renderPanel: a scan in progress keeps the button that is no longer there.
Rebuilt ==
  /\ panel' = [enabled |-> TRUE, due |-> FALSE]
  /\ scan' = [k \in Scans |-> [scan[k] EXCEPT !.button = FALSE]]

PanelRebuilt ==
  /\ panel.due /\ Rebuilt
  /\ UNCHANGED <<rows, highlighted, flagged, removal, verdict, overlapped, readVars>>

(***************************************************************************)
(* removeFlagged: the ids of the click, one after the other.               *)
(***************************************************************************)
RemoveClick ==
  /\ removal = NoRemoval /\ flagged # {}
  /\ removal' = flagged
  /\ UNCHANGED <<rows, highlighted, flagged, panel, scan, verdict, overlapped, readVars>>

\* The last id, or an error that stops the batch, ends in renderPanel.
RemovalGoesOn(rest) ==
  /\ removal' = rest
  /\ IF rest = {} THEN Rebuilt ELSE UNCHANGED <<panel, scan>>

RemovalAnswered(l, removed, fatal) ==
  /\ l \in removal /\ (removed => ~fatal)
  /\ flagged' = IF removed THEN flagged \ {l} ELSE flagged
  /\ RemovalGoesOn(IF fatal THEN {} ELSE removal \ {l})
  /\ UNCHANGED <<rows, highlighted, verdict, overlapped, readVars>>

HomeNext ==
  \/ \E k \in Scans : ScanClick(k) \/ \E n \in Names : ScanAsks(k, n)
  \/ IdResolved \/ \E said \in Verdicts : BookRead(said)
  \/ \E limited \in BOOLEAN : ReadFails(limited)
  \/ CooldownEnds
  \/ \E shown \in SUBSET Listings : RowsReplaced(shown)
  \/ PanelRebuilt \/ RemoveClick
  \/ \E l \in Listings, removed, fatal \in BOOLEAN : RemovalAnswered(l, removed, fatal)

HomeSpec == HomeInit /\ [][HomeNext]_homeVars

(***************************************************************************)
(* Properties                                                              *)
(***************************************************************************)
\* "Remove flagged" takes only listings the last scan found above the cheapest ask, whatever
\* was scanned, cut short, repaginated or removed before.  Only two scans at once can leave a
\* flag on a listing whose ask is not known any more.
FlaggedIsOverpriced ==
  \A l \in flagged : verdict[l] = "over" \/ (overlapped /\ verdict[l] = "none")
=============================================================================
