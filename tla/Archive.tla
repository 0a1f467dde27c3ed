------------------------------ MODULE Archive ------------------------------
(***************************************************************************)
(* The segment store (src/reroll_sync/archive/), the archive thread's use  *)
(* of it (fetch.ArchiveHandoff.process_one) and the startup recovery       *)
(* (daemon/service.py _recover_archive, fetch.recover_unsealed_segment).   *)
(*                                                                         *)
(* A content is a sequence of bytes and stands for its own sha256.  A      *)
(* block is the concatenation of the contents in it, so that a location    *)
(* (block, offset) really has to be right to read a content back.          *)
(* Compression, the footer's encoding and its checksum are left out: what  *)
(* is decoded is what was encoded.  Files are never damaged from outside.  *)
(***************************************************************************)
EXTENDS Integers, Sequences, FiniteSets

CONSTANTS
    Contents,     \* METADATA documents: sequences of bytes
    BlockTarget,  \* block_target_bytes
    SealBlocks,   \* seal_bytes, counted in flushed blocks
    ChunkSize,    \* _RECOVERY_CHUNK_SIZE
    MaxSegs,      \* bound: how many segments are allocated
    MaxCrashes    \* bound: how often the process dies

ASSUME ArchiveAssumption ==
    /\ \A c \in Contents : c \in Seq(Nat)
    /\ BlockTarget \in Nat \ {0}
    /\ SealBlocks \in Nat \ {0}
    /\ ChunkSize \in Nat \ {0}
    /\ MaxSegs \in Nat \ {0}
    /\ MaxCrashes \in Nat

VARIABLES
    \* the archive thread, and before it the startup sequence
    pc,        \* the step it is at
    ret,       \* where open_writer returns to: "add" or "link"
    item,      \* the content being processed
    newSeg,    \* the id open_writer has allocated
    stale,     \* segments whose .open file startup found
    stopping,  \* shutdown_event
    \* ArchiveStore._current_writer
    cur,       \* its segment id, or NoSeg
    buf,       \* _block_buffer
    locs,      \* _locations, which are also _records
    aged,      \* it has been open for seal_after_seconds
    \* the segments directory
    file,      \* "none", "open" (NNNNNN.open) or "zst" (NNNNNN.zst)
    disk,      \* the blocks in the file
    footer,    \* the records in the footer
    \* the database
    rows,      \* the segments table: "none", "unsealed" or "sealed"
    blobs,     \* the blobs table: a set of locations
    linked,    \* contents that some live wheel's blob_sha256 names
    crashes

threadVars == <<pc, ret, item, newSeg, stale, stopping>>
writerVars == <<cur, buf, locs, aged>>
fileVars   == <<file, disk, footer>>
dbVars     == <<rows, blobs, linked>>
vars == <<threadVars, writerVars, fileVars, dbVars, crashes>>

SegIds == 0..(MaxSegs - 1)
NoSeg == -1

\* BlobLocation; its length is the length of the content
Location == [sha : Contents, seg : SegIds, block : Nat, off : Nat]

Shas(L) == {l.sha : l \in L}

\* blob_rows_for_segment
RowsOf(s) == {l \in blobs : l.seg = s}

Init ==
    /\ pc = "start" /\ ret = "add" /\ item \in Contents /\ newSeg = NoSeg
    /\ stale = {} /\ stopping = FALSE
    /\ cur = NoSeg /\ buf = <<>> /\ locs = {} /\ aged = FALSE
    /\ file = [s \in SegIds |-> "none"]
    /\ disk = [s \in SegIds |-> <<>>]
    /\ footer = [s \in SegIds |-> {}]
    /\ rows = [s \in SegIds |-> "none"]
    /\ blobs = {} /\ linked = {}
    /\ crashes = 0

-----------------------------------------------------------------------------
(* One item: process_one *)

\* queue.get, then store.add: current_writer opens a segment if none is open
Take(c) ==
    /\ pc = "idle"
    /\ item' = c
    /\ ret' = "add"
    /\ pc' = IF cur = NoSeg THEN "openRow" ELSE "add"
    /\ UNCHANGED <<newSeg, stale, stopping, writerVars, fileVars, dbVars, crashes>>

\* 1 + the largest id in the segments table or in the directory
NextSegmentId ==
    LET used == {s \in SegIds : rows[s] # "none" \/ file[s] # "none"}
    IN  CHOOSE n \in 0..MaxSegs :
            (\A s \in used : s < n) /\ (n = 0 \/ n - 1 \in used)

\* open_writer: the segments row is committed ...
OpenRow ==
    /\ pc = "openRow"
    /\ NextSegmentId < MaxSegs
    /\ newSeg' = NextSegmentId
    /\ rows' = [rows EXCEPT ![NextSegmentId] = "unsealed"]
    /\ pc' = "openFile"
    /\ UNCHANGED <<ret, item, stale, stopping, writerVars, fileVars, blobs, linked, crashes>>

\* ... and then the file is created, exclusively
OpenFile ==
    /\ pc = "openFile"
    /\ file[newSeg] = "none"
    /\ file' = [file EXCEPT ![newSeg] = "open"]
    /\ cur' = newSeg /\ buf' = <<>> /\ locs' = {} /\ aged' = FALSE
    /\ pc' = ret
    /\ UNCHANGED <<ret, item, newSeg, stale, stopping, disk, footer, dbVars, crashes>>

\* _pending_records > 0: the block being filled has a record
Pending == \E l \in locs : l.block = Len(disk[cur])

\* Wrong variant: the location is taken before the block is flushed.
WriterAddStaleBlock ==
    /\ pc = "add"
    /\ LET full == Pending /\ Len(buf) + Len(item) > BlockTarget
       IN  /\ disk' = IF full THEN [disk EXCEPT ![cur] = Append(@, buf)] ELSE disk
           /\ buf' = IF full THEN item ELSE buf \o item
           /\ locs' = locs \cup {[sha |-> item, seg |-> cur, block |-> Len(disk[cur]),
                                  off |-> Len(buf)]}
    /\ pc' = "index"
    /\ UNCHANGED <<ret, item, newSeg, stale, stopping, cur, aged, file, footer, dbVars, crashes>>

\* SegmentWriter.add
WriterAdd ==
    /\ pc = "add"
    /\ IF item \in Shas(locs)
       THEN UNCHANGED <<disk, buf, locs>>
       ELSE LET full   == Pending /\ Len(buf) + Len(item) > BlockTarget
                blocks == IF full THEN Append(disk[cur], buf) ELSE disk[cur]
                part   == IF full THEN <<>> ELSE buf
            IN  /\ disk' = [disk EXCEPT ![cur] = blocks]
                /\ buf' = part \o item
                /\ locs' = locs \cup {[sha |-> item, seg |-> cur, block |-> Len(blocks),
                                       off |-> Len(part)]}
    /\ pc' = "index"
    /\ UNCHANGED <<ret, item, newSeg, stale, stopping, cur, aged, file, footer, dbVars, crashes>>

\* Wrong variant: INSERT OR REPLACE.
IndexBlobReplaces ==
    /\ pc = "index"
    /\ blobs' = {l \in blobs : l.sha # item} \cup {l \in locs : l.sha = item}
    /\ pc' = "sealCheck"
    /\ UNCHANGED <<ret, item, newSeg, stale, stopping, writerVars, fileVars, rows, linked, crashes>>

\* INSERT OR IGNORE INTO blobs, committed at once
IndexBlob ==
    /\ pc = "index"
    /\ blobs' = IF item \in Shas(blobs) THEN blobs
                ELSE blobs \cup {l \in locs : l.sha = item}
    /\ pc' = "sealCheck"
    /\ UNCHANGED <<ret, item, newSeg, stale, stopping, writerVars, fileVars, rows, linked, crashes>>

\* should_seal, which reports False once shutdown has been signalled
ShouldSeal == ~stopping /\ (aged \/ Len(disk[cur]) >= SealBlocks)

KeepOpen ==
    /\ pc = "sealCheck"
    /\ ~ShouldSeal
    /\ pc' = "link"
    /\ UNCHANGED <<ret, item, newSeg, stale, stopping, writerVars, fileVars, dbVars, crashes>>

\* Wrong variant: the records of the last block miss the footer.
SealFileShortFooter ==
    /\ pc = "sealCheck"
    /\ ShouldSeal
    /\ disk' = IF Pending THEN [disk EXCEPT ![cur] = Append(@, buf)] ELSE disk
    /\ footer' = [footer EXCEPT ![cur] = {l \in locs : l.block < Len(disk[cur])}]
    /\ file' = [file EXCEPT ![cur] = "zst"]
    /\ pc' = "sealRow"
    /\ UNCHANGED <<ret, item, newSeg, stale, stopping, writerVars, dbVars, crashes>>

\* SegmentWriter.seal: last block, footer, trailer, fsync; the rename is what counts
SealFile ==
    /\ pc = "sealCheck"
    /\ ShouldSeal
    /\ disk' = IF Pending THEN [disk EXCEPT ![cur] = Append(@, buf)] ELSE disk
    /\ footer' = [footer EXCEPT ![cur] = locs]
    /\ file' = [file EXCEPT ![cur] = "zst"]
    /\ pc' = "sealRow"
    /\ UNCHANGED <<ret, item, newSeg, stale, stopping, writerVars, dbVars, crashes>>

\* _seal_write_op through the writer thread; then open_writer
SealRow ==
    /\ pc = "sealRow"
    /\ rows' = [rows EXCEPT ![cur] = "sealed"]
    /\ pc' = "openRow"
    /\ ret' = "link"
    /\ UNCHANGED <<item, newSeg, stale, stopping, writerVars, fileVars, blobs, linked, crashes>>

\* the wheel's Ok outcome: blob_sha256 is set
LinkWheel ==
    /\ pc = "link"
    /\ linked' = linked \cup {item}
    /\ pc' = "idle"
    /\ UNCHANGED <<ret, item, newSeg, stale, stopping, writerVars, fileVars, rows, blobs, crashes>>

-----------------------------------------------------------------------------
(* The environment *)

\* seal_after_seconds go by
Age ==
    /\ cur # NoSeg /\ ~aged
    /\ aged' = TRUE
    /\ UNCHANGED <<threadVars, cur, buf, locs, fileVars, dbVars, crashes>>

Shutdown ==
    /\ ~stopping
    /\ stopping' = TRUE
    /\ UNCHANGED <<pc, ret, item, newSeg, stale, writerVars, fileVars, dbVars, crashes>>

\* The process ends, in an orderly way or not: nothing is sealed on the way out.
Crash ==
    /\ crashes < MaxCrashes
    /\ crashes' = crashes + 1
    /\ pc' = "start" /\ ret' = "add" /\ newSeg' = NoSeg
    /\ stale' = {} /\ stopping' = FALSE
    /\ cur' = NoSeg /\ buf' = <<>> /\ locs' = {} /\ aged' = FALSE
    /\ UNCHANGED <<item, fileVars, dbVars>>

-----------------------------------------------------------------------------
(* Startup: _recover_archive *)

\* _open_segment_ids, before ArchiveStore is constructed
Start ==
    /\ pc = "start"
    /\ stale' = {s \in SegIds : file[s] = "open"}
    /\ pc' = "truncate"
    /\ UNCHANGED <<ret, item, newSeg, stopping, writerVars, fileVars, dbVars, crashes>>

\* _recover_stale_open_segments
Truncate ==
    /\ pc = "truncate"
    /\ disk' = [s \in SegIds |-> IF file[s] = "open" /\ rows[s] # "sealed"
                                 THEN <<>> ELSE disk[s]]
    /\ stale' = {s \in stale : rows[s] # "sealed"}
    /\ pc' = "recover"
    /\ UNCHANGED <<ret, item, newSeg, stopping, writerVars, file, footer, dbVars, crashes>>

\* one _recover_chunk_write_op: wheels reset, blobs rows deleted
RecoverChunk(s, C) ==
    /\ pc = "recover"
    /\ s \in stale
    /\ C # {} /\ C \subseteq RowsOf(s) /\ Cardinality(C) <= ChunkSize
    /\ linked' = linked \ Shas(C)
    /\ blobs' = {l \in blobs : l.sha \notin Shas(C)}
    /\ UNCHANGED <<threadVars, writerVars, fileVars, rows, crashes>>

\* Wrong variant: one chunk is enough.
RecoverDoneEarly ==
    /\ pc = "recover"
    /\ \A s \in stale : Cardinality(RowsOf(s)) <= ChunkSize
    /\ pc' = "idle"
    /\ UNCHANGED <<ret, item, newSeg, stale, stopping, writerVars, fileVars, dbVars, crashes>>

\* Wrong variant: waits for the .open files to go away.
RecoverDoneWaits ==
    /\ pc = "recover"
    /\ stale = {}
    /\ pc' = "idle"
    /\ UNCHANGED <<ret, item, newSeg, stale, stopping, writerVars, fileVars, dbVars, crashes>>

\* The rest of start() runs and the stages begin.
RecoverDone ==
    /\ pc = "recover"
    /\ \A s \in stale : RowsOf(s) = {}
    /\ pc' = "idle"
    /\ UNCHANGED <<ret, item, newSeg, stale, stopping, writerVars, fileVars, dbVars, crashes>>

-----------------------------------------------------------------------------
StartNext ==
    \/ Start \/ Truncate \/ RecoverDone
    \/ \E s \in stale : \E C \in SUBSET RowsOf(s) : RecoverChunk(s, C)

ItemNext ==
    \/ OpenRow \/ OpenFile \/ WriterAdd \/ IndexBlob
    \/ KeepOpen \/ SealFile \/ SealRow \/ LinkWheel

Next ==
    \/ StartNext
    \/ ItemNext
    \/ \E c \in Contents : Take(c)
    \/ Age \/ Shutdown \/ Crash

Spec == Init /\ [][Next]_vars

(* The process makes progress with startup and with the item it has, and
   time passes.  No item has to arrive. *)
Fairness == WF_vars(StartNext) /\ WF_vars(ItemNext) /\ WF_vars(Age)

FairSpec == Spec /\ Fairness

-----------------------------------------------------------------------------
(* Reading back *)

\* SegmentReader.read: the slice of the block, for a sealed file only
ReadsBack(l) ==
    /\ file[l.seg] = "zst"
    /\ l.block < Len(disk[l.seg])
    /\ l.off + Len(l.sha) <= Len(disk[l.seg][l.block + 1])
    /\ SubSeq(disk[l.seg][l.block + 1], l.off + 1, l.off + Len(l.sha)) = l.sha

\* _verify_segment: what it reports of a segment, by kind
VerifyProblems(s) ==
    [no_file     |-> file[s] # "zst",
     wrong_bytes |-> {l \in footer[s] : ~ReadsBack(l)},
     no_row      |-> footer[s] \ RowsOf(s),
     no_record   |-> RowsOf(s) \ footer[s]]

-----------------------------------------------------------------------------
(* Properties *)

(* The variables keep their types, and blobs has one row per sha256. *)
TypeOK ==
    /\ pc \in {"start", "truncate", "recover", "idle", "openRow", "openFile", "add",
               "index", "sealCheck", "sealRow", "link"}
    /\ ret \in {"add", "link"}
    /\ item \in Contents
    /\ newSeg \in SegIds \cup {NoSeg} /\ cur \in SegIds \cup {NoSeg}
    /\ stale \subseteq SegIds
    /\ stopping \in BOOLEAN /\ aged \in BOOLEAN
    /\ file \in [SegIds -> {"none", "open", "zst"}]
    /\ rows \in [SegIds -> {"none", "unsealed", "sealed"}]
    /\ \A l \in locs \cup blobs \cup UNION {footer[s] : s \in SegIds} : l \in Location
    /\ \A l, m \in blobs : l.sha = m.sha => l = m
    /\ linked \subseteq Contents
    /\ crashes \in 0..MaxCrashes

(* A location handed out by SegmentWriter.add, indexed in blobs by
   ArchiveStore.add, is where SegmentReader.read finds exactly those bytes once
   the file is sealed -- over block boundaries, empty documents, documents
   larger than a block, re-adds and restarts. *)
IndexedReadsBack == \A l \in blobs : file[l.seg] = "zst" => ReadsBack(l)

(* A blobs row names a sealed file or the segment being written, where the
   writer has it at the same place: once recovery is over, no row is left of a
   segment that was truncated. *)
IndexResolves ==
    pc \notin {"start", "truncate", "recover"} =>
        \A l \in blobs : file[l.seg] = "zst" \/ l \in locs

(* A wheel's blob_sha256 names a blobs row (fsck's invariant 13, for wheels
   that are not tombstones), in the middle of recovery too. *)
LinkedIsIndexed == linked \subseteq Shas(blobs)

(* open_writer never picks an id whose file exists (open(path, "xb") would
   raise and end the archive thread), whatever a crash left behind. *)
FreshSegment == pc = "openFile" => file[newSeg] = "none"

(* The three rules on what rows, files and wheels refer to, and the types. *)
ArchiveInv == TypeOK /\ IndexResolves /\ LinkedIsIndexed /\ FreshSegment

(* verify_archive, run at any moment on the sealed segments, never reports a
   loss: a missing file, a footer record whose bytes are not those of its
   sha256, or a blobs row that the footer does not have at the same place.
   Nothing is claimed of the footer records it reports without a row: see
   README, section 4. *)
VerifyFindsNoLoss ==
    \A s \in SegIds : rows[s] = "sealed" =>
        LET report == VerifyProblems(s)
        IN  ~report.no_file /\ report.wrong_bytes = {} /\ report.no_record = {}

(* The archive implements the abstract blob store: sealed blobs are never
   lost, only blobs of an unsealed segment are, and a seal makes everything
   that is indexed durable. *)
Status ==
    [c \in Contents |->
        IF c \notin Shas(blobs) THEN "absent"
        ELSE IF \E l \in blobs : l.sha = c /\ file[l.seg] = "zst" THEN "sealed"
        ELSE "open"]
Abstract == INSTANCE BlobStore WITH status <- Status
ImplementsBlobStore == Abstract!Spec

(* Startup recovery comes to an end, and an item taken from the handoff queue
   is linked to its wheel, unless the process dies again. *)
WorkCompletes ==
    (pc # "idle") ~> (pc = "idle" \/ (pc = "openRow" /\ NextSegmentId = MaxSegs))
=============================================================================
