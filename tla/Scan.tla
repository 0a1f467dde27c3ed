-------------------------------- MODULE Scan --------------------------------
(***************************************************************************)
(* Reading a table a page at a time while the daemon goes on writing it.   *)
(*                                                                         *)
(* fsck.py looks for violations, dispatcher.reprocess and unquarantine     *)
(* look for the wheels of a campaign, and none of them holds a             *)
(* transaction: every page is one SELECT with its own snapshot, and a      *)
(* campaign commits one write op per page.  In between, any other writer   *)
(* commits.  A scan is one of these kinds:                                 *)
(*   fsck        a row check: _chunked_scan, rowid as keyset               *)
(*   window      rule 17: a page of distinct change_seq values, then, in   *)
(*               another statement, the duplicated ones in their range     *)
(*   project     reprocess of a project, id as keyset                      *)
(*   state       reprocess of a state, (lane, project, id) as keyset       *)
(*   queue       the same, of NEED_CONVERT, the state it requeues to       *)
(*   version     reprocess below a reroll version, no keyset: one of the   *)
(*               campaign's two phases                                     *)
(*   quarantined unquarantine, no keyset                                   *)
(*                                                                         *)
(* A key is a row, numbered in (project, id) order, or a change_seq value  *)
(* for window.  Of a row the model keeps whether it exists and whether the *)
(* scan's query matches it, and its lane, which only a reprocess changes.  *)
(***************************************************************************)
EXTENDS Integers, FiniteSets

CONSTANTS
    N,         \* the keys are 1..N
    Chunk,     \* chunk_size
    Kinds,     \* the kinds of scan to run
    Below,     \* whether the running reroll version matches a version campaign
    MaxWrites  \* bound: other writers' commits during a scan without keyset

AllKinds == {"fsck", "window", "project", "state", "queue", "version", "quarantined"}

ASSUME ScanAssumption ==
    /\ N \in Nat
    /\ Chunk \in Nat \ {0}
    /\ Kinds \subseteq AllKinds
    /\ Below \in BOOLEAN
    /\ MaxWrites \in Nat

VARIABLES
    kind,     \* the scan's kind
    row,      \* "none", "plain": not matched, "hit": the query matches it
    lane,     \* wheels.lane
    pc,       \* "page", "judge", "write", "done", "failed"
    cursor,   \* the keyset, 0: None
    page,     \* the keys of the page last read
    more,     \* whether there is a next page
    times,    \* how often each key was counted or requeued, up to 3
    pages,    \* how many pages fsck has read, up to N + 2
    writes,   \* commits of other writers (counted without keyset only)
    quiet,    \* no other writer has committed since the scan began
    lasting   \* the keys that have matched from the start until they were seen

vars == <<kind, row, lane, pc, cursor, page, more, times, pages, writes, quiet, lasting>>

Keys == 1..N

Keyset == {"fsck", "window", "project", "state", "queue"}

(* The kinds that look one row past the page for the next one.             *)
OverFetch == {"fsck", "window"}

Hits == {k \in Keys : row[k] = "hit"}

(* The place of a row in the order of its keyset.                          *)
Place(k) == IF kind \in {"state", "queue"} /\ lane[k] = 1 THEN N + k ELSE k

-----------------------------------------------------------------------------
Init ==
    /\ kind \in Kinds
    /\ row \in [Keys -> {"none", "plain", "hit"}]
    /\ lane \in IF kind \in {"state", "queue"} THEN [Keys -> {0, 1}] ELSE {[k \in Keys |-> 0]}
    /\ pc = "page"
    /\ cursor = 0
    /\ page = {}
    /\ more = FALSE
    /\ times = [k \in Keys |-> 0]
    /\ pages = 0
    /\ writes = 0
    /\ quiet = TRUE
    /\ lasting = {k \in Keys : row[k] = "hit"}

(* What the page query selects from: past the keyset, where there is one.  *)
Selected == IF kind = "window" THEN {k \in Keys : row[k] # "none"} ELSE Hits

(* Wrong variant: a page starts with the last row of the one before.       *)
AheadAgain == IF kind \in Keyset THEN {k \in Selected : Place(k) >= cursor} ELSE Selected

Ahead == IF kind \in Keyset THEN {k \in Selected : Place(k) > cursor} ELSE Selected

(* The first rows of Ahead (any of them, without a keyset's ORDER BY), as   *)
(* many as fit on a page.                                                  *)
IsPage(P) ==
    /\ P \subseteq Ahead
    /\ kind \in Keyset => \A i \in P, j \in Ahead \ P : Place(i) < Place(j)
    /\ \/ P = Ahead /\ Cardinality(P) <= Chunk
       \/ P # Ahead /\ Cardinality(P) = Chunk

(* Wrong variant: a page that is just full has a successor.                *)
HasMoreWhenFull(P) == Cardinality(P) = Chunk

HasMore(P) == IF kind \in OverFetch THEN P # Ahead ELSE Cardinality(P) = Chunk

(* Both counts stop where no property tells a larger one apart.            *)
Counted(S) == [k \in Keys |-> IF k \in S /\ times[k] < 3 THEN times[k] + 1 ELSE times[k]]

PageRead == pages' = IF kind = "fsck" /\ pages < N + 2 THEN pages + 1 ELSE pages

AfterPage(m) == IF m THEN "page" ELSE "done"

WithPage(m) == IF kind = "fsck" THEN AfterPage(m) ELSE IF kind = "window" THEN "judge" ELSE "write"

(* No rows: the generator returns.                                         *)
ReadNothing ==
    /\ pc = "page"
    /\ Ahead = {}
    /\ PageRead
    /\ pc' = "done"
    /\ UNCHANGED <<kind, row, lane, cursor, page, more, times, writes, quiet, lasting>>

(* The keyset is taken from the rows as they were read.  fsck counts them  *)
(* at once; the others go on with the page in a statement of its own.      *)
ReadPage ==
    /\ pc = "page"
    /\ Ahead # {}
    /\ \E P \in SUBSET Ahead, last \in Ahead :
         /\ IsPage(P)
         /\ last \in P
         /\ \A k \in P : Place(k) <= Place(last)
         /\ page' = IF kind = "fsck" THEN {} ELSE P
         /\ more' = HasMore(P)
         /\ cursor' = IF kind \in Keyset THEN Place(last) ELSE 0
         /\ times' = IF kind = "fsck" THEN Counted(P) ELSE times
         /\ pc' = WithPage(HasMore(P))
    /\ PageRead
    /\ UNCHANGED <<kind, row, lane, writes, quiet, lasting>>

(* BETWEEN window_min AND window_max, on the table as it is now.           *)
Window == {k \in Hits : \E i, j \in page : i <= k /\ k <= j}

Judge ==
    /\ pc = "judge"
    /\ times' = Counted(Window)
    /\ page' = {}
    /\ pc' = AfterPage(more)
    /\ UNCHANGED <<kind, row, lane, cursor, more, pages, writes, quiet, lasting>>

(* Wrong variant: unquarantine leaves the row as it found it.              *)
RequeuedRowStays(k) == row[k]

(* A row after the campaign's op.  The new state still matches a project   *)
(* and NEED_CONVERT; the version op deletes what it matched.               *)
RequeuedRow(k) == IF kind \in {"project", "queue"} THEN "hit" ELSE "plain"

(* The rows the op updates: unquarantine asks again for QUARANTINED, the   *)
(* others write WHERE id = ?, whatever the row has become.                 *)
Updated == IF kind = "quarantined" THEN page \cap Hits ELSE page

WriteChunk ==
    /\ pc = "write"
    /\ row' = [k \in Keys |-> IF k \in Updated THEN RequeuedRow(k) ELSE row[k]]
    /\ lane' = [k \in Keys |-> IF k \in Updated /\ kind \in {"state", "queue"} THEN 1 ELSE lane[k]]
    /\ times' = Counted(Updated)
    /\ page' = {}
    /\ pc' = AfterPage(more)
    /\ UNCHANGED <<kind, cursor, more, pages, writes, quiet, lasting>>

(* The op fails or the writer has been stopped: submit_and_wait raises and *)
(* the campaign ends with the chunks it has committed.                     *)
WriteFails ==
    /\ pc = "write"
    /\ pc' = "failed"
    /\ UNCHANGED <<kind, row, lane, cursor, page, more, times, pages, writes, quiet, lasting>>

-----------------------------------------------------------------------------
(* Any other writer commits: a row appears (a change_seq value also goes), *)
(* starts or stops matching, or another campaign moves it to lane 1.  A    *)
(* conversion writes the running version, so it makes a row match a        *)
(* version campaign only if Below.                                         *)
OtherWrite(k, r, l) ==
    /\ pc \in {"page", "judge", "write"}
    /\ kind \notin Keyset => writes < MaxWrites
    /\ row[k] # "none" /\ r = "none" => kind = "window"
    /\ kind = "version" /\ r = "hit" => row[k] = "hit" \/ Below
    /\ lane[k] = 1 => l = 1
    /\ kind \notin {"state", "queue"} => l = lane[k]
    /\ r # row[k] \/ l # lane[k]
    /\ row' = [row EXCEPT ![k] = r]
    /\ lane' = [lane EXCEPT ![k] = l]
    /\ writes' = IF kind \in Keyset THEN writes ELSE writes + 1
    /\ quiet' = FALSE
    /\ lasting' = IF r = "hit" \/ times[k] > 0 THEN lasting ELSE lasting \ {k}
    /\ UNCHANGED <<kind, pc, cursor, page, more, times, pages>>

ScanNext == ReadNothing \/ ReadPage \/ Judge \/ WriteChunk \/ WriteFails

Next ==
    \/ ScanNext
    \/ \E k \in Keys, r \in {"none", "plain", "hit"}, l \in {0, 1} : OtherWrite(k, r, l)

Spec == Init /\ [][Next]_vars

(* The scanning thread keeps running.  Nothing is asked of the others.     *)
FairSpec == Spec /\ WF_vars(ScanNext)

-----------------------------------------------------------------------------
(* Every variable keeps its type.                                          *)
TypeOK ==
    /\ kind \in AllKinds
    /\ row \in [Keys -> {"none", "plain", "hit"}]
    /\ lane \in [Keys -> {0, 1}]
    /\ pc \in {"page", "judge", "write", "done", "failed"}
    /\ cursor \in 0..(2 * N)
    /\ page \subseteq Keys
    /\ more \in BOOLEAN
    /\ times \in [Keys -> 0..3]
    /\ pages \in 0..(N + 2)
    /\ writes \in Nat
    /\ quiet \in BOOLEAN
    /\ lasting \subseteq Keys

(* How often a scan may see one key: a keyset over columns that do not     *)
(* change sees it once; one that starts with lane sees a requeued wheel    *)
(* again in lane 1, so reprocess counts it twice.                          *)
MaxTimes == IF kind \in {"state", "queue"} THEN 2 ELSE 1

(* What a scan promises beside live writers: a row that matches for as     *)
(* long as the scan runs is reported or requeued, and nothing is reported  *)
(* twice.  A violation that fsck calls clean is one that came or went      *)
(* while it looked.                                                        *)
LastingIsSeen == pc = "done" => \A k \in lasting : times[k] > 0

SeenOnce == kind \in Keyset => \A k \in Keys : times[k] <= MaxTimes

(* What every scan counts: each lasting key, and none twice (see above).   *)
ScanCounts == TypeOK /\ LastingIsSeen /\ SeenOnce

(* Why ScanCounts is kept.  A lasting key not seen yet still matches, and  *)
(* is ahead of the keyset or on the page being worked on; on the last page *)
(* it can only be on the page.                                             *)
InHand(k) ==
    \/ pc = "write" /\ k \in page
    \/ pc = "judge" /\ \E i, j \in page : i <= k /\ k <= j

LastingIsAhead ==
    \A k \in lasting :
        times[k] = 0 =>
            /\ row[k] = "hit"
            /\ kind \in Keyset /\ pc \in {"page", "judge", "write"} => Place(k) > cursor \/ InHand(k)
            /\ pc \in {"judge", "write"} /\ ~more => InHand(k)

(* Of a keyset that does not change, everything seen is behind the cursor  *)
(* and nothing on the page has been seen.                                  *)
SeenIsBehind ==
    kind \in {"fsck", "window", "project"} =>
        /\ \A k \in Keys : times[k] > 0 => times[k] = 1 /\ k <= cursor
        /\ \A k \in page : k <= cursor
        /\ pc = "write" => \A k \in page : times[k] = 0
        /\ pc = "judge" => \A i \in page, k \in Keys : times[k] > 0 => k < i

(* Requeued means lane 1, and requeued twice means behind the cursor there.*)
RequeuedIsLane1 ==
    kind \in {"state", "queue"} =>
        /\ \A k \in Keys : times[k] > 0 => lane[k] = 1 /\ times[k] <= 2
        /\ \A k \in Keys : times[k] = 2 => N + k <= cursor
        /\ pc = "write" =>
             \A k \in page : times[k] <= 1 /\ (times[k] = 1 => N + k <= cursor)

Phases ==
    /\ pc = "judge" => kind = "window"
    /\ pc = "write" => kind \notin {"fsck", "window"}

ScanInv ==
    /\ TypeOK
    /\ Phases
    /\ LastingIsSeen
    /\ LastingIsAhead
    /\ SeenIsBehind
    /\ RequeuedIsLane1

(* The over-fetched row spares the trailing empty page ("without a         *)
(* trailing empty confirmation call"): undisturbed, fsck reads one page    *)
(* per Chunk rows, and one when there is nothing.                          *)
PagesExact ==
    pc = "done" /\ quiet /\ kind = "fsck" =>
        pages = IF Hits = {} THEN 1 ELSE (Cardinality(Hits) + Chunk - 1) \div Chunk

(* Why PagesExact is kept: until the last page, every page was full and    *)
(* there is a row to read next.                                            *)
Behind == {k \in Hits : k <= cursor}

PagesFull ==
    pc = "page" /\ quiet /\ kind = "fsck" =>
        /\ Cardinality(Behind) = pages * Chunk
        /\ pages = 0 => cursor = 0
        /\ pages > 0 => Ahead # {}

PagesInv == PagesFull /\ PagesExact

(* A scan with a keyset ends however much is written meanwhile; one        *)
(* without ends because only finitely many rows come back.                 *)
ScanEnds == <>(pc \in {"done", "failed"})
=============================================================================
