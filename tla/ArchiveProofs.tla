---------------------------- MODULE ArchiveProofs ----------------------------
(***************************************************************************)
(* Proofs about the segment store and its recovery, for any documents, any *)
(* block, seal and chunk size, any number of segments and of crashes.      *)
(*                                                                         *)
(* ArchiveInd is inductive.  It says where the writer is and in which      *)
(* state its file is, that every location handed out leads to the bytes it *)
(* was handed out for (in a block of the file or in the buffer), and what  *)
(* the blobs table and the footers say of sealed files.                    *)
(***************************************************************************)
EXTENDS Archive, SequenceTheorems, WellFoundedInduction, TLAPS

\* the block b has the content of location l at its offset
Holds(b, l) ==
    /\ l.off + Len(l.sha) <= Len(b)
    /\ \A k \in 1..Len(l.sha) : b[l.off + k] = l.sha[k]

\* the location leads to its content, in a block of the file or in the buffer
Stored(l) ==
    /\ l.block < Len(disk[l.seg])
    /\ Holds(disk[l.seg][l.block + 1], l)

Buffered(l) ==
    /\ l.block = Len(disk[l.seg])
    /\ Holds(buf, l)

Startup == {"start", "truncate", "recover"}
\* between the rename of a sealed segment and the next segment
Reopening == {"sealRow", "openRow", "openFile"}

(* Blocks are sequences of bytes, and records are locations. *)
DataOK ==
    /\ buf \in Seq(Nat)
    /\ disk \in [SegIds -> Seq(Seq(Nat))]
    /\ locs \subseteq Location
    /\ footer \in [SegIds -> SUBSET Location]
    /\ blobs \subseteq Location

(* Where the thread is says whether it has a segment, and in which state. *)
WriterPlaced ==
    /\ pc \in Startup => cur = NoSeg
    /\ pc \in {"add", "index", "sealCheck", "sealRow", "link"} => cur # NoSeg
    /\ cur # NoSeg => file[cur] = IF pc \in Reopening THEN "zst" ELSE "open"
    /\ pc \in {"openRow", "openFile"} => (ret = "add" <=> cur = NoSeg)
    /\ cur = NoSeg => locs = {}

(* Every location the open writer has handed out is right, one per content. *)
LocsRight ==
    /\ \A l, m \in locs : l.sha = m.sha => l = m
    /\ \A l \in locs : l.seg = cur
    /\ pc \notin Reopening => \A l \in locs : Stored(l) \/ Buffered(l)

(* What the writer has is indexed, but for the item being indexed. *)
LocsIndexed ==
    /\ Shas(locs) \subseteq Shas(blobs) \cup (IF pc = "index" THEN {item} ELSE {})
    /\ pc = "index" => item \in Shas(locs)

(* The item has its row from IndexBlob on. *)
ItemIndexed ==
    (pc \in {"sealCheck", "sealRow", "link"}
        \/ (pc \in {"openRow", "openFile"} /\ ret = "link"))
    => item \in Shas(blobs)

(* A row of a sealed file is in its footer and right; no row is without file. *)
BlobsRight ==
    \A l \in blobs : /\ file[l.seg] # "none"
                     /\ file[l.seg] = "zst" => Stored(l) /\ l \in footer[l.seg]

(* A record of a sealed footer is right, and its content has a row in a
   sealed file: this one, or the one that held it before. *)
FootersRight ==
    \A s \in SegIds : file[s] = "zst" =>
        \A l \in footer[s] :
            /\ l.seg = s
            /\ Stored(l)
            /\ \E m \in blobs : m.sha = l.sha /\ file[m.seg] = "zst"

(* A segments row says sealed only once the file is renamed. *)
SealedHasFile == \A s \in SegIds : rows[s] = "sealed" => file[s] = "zst"

(* Recovery works on every file that was left open. *)
StaleIsOpen ==
    pc \in {"truncate", "recover"} => stale = {s \in SegIds : file[s] = "open"}

(* open_writer has an id. *)
NewSegIsId == pc = "openFile" => newSeg # NoSeg

(* The inductive invariant. *)
ArchiveInd ==
    /\ ArchiveInv
    /\ DataOK
    /\ WriterPlaced
    /\ LocsRight
    /\ LocsIndexed
    /\ ItemIndexed
    /\ BlobsRight
    /\ FootersRight
    /\ SealedHasFile
    /\ StaleIsOpen
    /\ NewSegIsId

-----------------------------------------------------------------------------
(* Operators *)

(* A set of naturals that is not empty has a least element. *)
LEMMA LeastNat ==
    ASSUME NEW T, T \subseteq Nat, T # {}
    PROVE  \E n \in T : \A m \in T : n <= m
<1>1. PICK n \in T : \A m \in T : ~(<<m, n>> \in OpToRel(<, Nat))
  BY WFMin, NatLessThanWellFounded
<1>2. \A m \in T : ~(m < n)
  BY <1>1 DEF OpToRel
<1> QED
  BY <1>2

(* next_segment_id is above every id in the table and in the directory. *)
LEMMA NextSegmentIdIsFree ==
    ASSUME TypeOK
    PROVE  /\ NextSegmentId \in 0..MaxSegs
           /\ \A s \in SegIds : rows[s] # "none" \/ file[s] # "none" => s < NextSegmentId
<1> DEFINE used == {s \in SegIds : rows[s] # "none" \/ file[s] # "none"}
           T == {n \in 0..MaxSegs : \A s \in used : s < n}
           Is(n) == (\A s \in used : s < n) /\ (n = 0 \/ n - 1 \in used)
<1>1. MaxSegs \in Nat /\ used \subseteq 0..(MaxSegs - 1)
  BY ArchiveAssumption DEF SegIds
<1>2. NextSegmentId = CHOOSE n \in 0..MaxSegs : Is(n)
  BY DEF NextSegmentId
<1>3. \A s \in SegIds : rows[s] # "none" \/ file[s] # "none" => s \in used
  OBVIOUS
<1> HIDE DEF used
<1>4. MaxSegs \in T /\ T \subseteq Nat
  BY <1>1
<1>5. PICK n \in T : \A m \in T : n <= m
  BY <1>4, LeastNat
<1>6. ASSUME n # 0 PROVE n - 1 \in used
  <2>1. n \in Nat /\ n - 1 \in 0..MaxSegs /\ n - 1 \notin T /\ \A s \in used : s < n
    BY <1>1, <1>5, <1>6
  <2>2. PICK s \in used : ~(s < n - 1)
    BY <2>1
  <2>3. s = n - 1
    BY <1>1, <2>1, <2>2
  <2> QED
    BY <2>3
<1>7. n \in 0..MaxSegs /\ Is(n)
  BY <1>5, <1>6
<1> HIDE DEF Is
<1>8. NextSegmentId \in 0..MaxSegs /\ Is(NextSegmentId)
  BY <1>2, <1>7
<1> QED
  BY <1>3, <1>8 DEF Is

(* The parts of a location. *)
LEMMA LocationParts ==
    ASSUME NEW l \in Location
    PROVE  /\ l.sha \in Contents /\ l.sha \in Seq(Nat) /\ Len(l.sha) \in Nat
           /\ l.seg \in SegIds /\ l.block \in Nat /\ l.off \in Nat
BY ArchiveAssumption DEF Location

(* Appending to a block moves nothing that is in it ... *)
LEMMA HoldsAppend ==
    ASSUME NEW l \in Location, NEW b \in Seq(Nat), NEW c \in Seq(Nat), Holds(b, l)
    PROVE  Holds(b \o c, l)
<1>1. Len(l.sha) \in Nat /\ l.off \in Nat /\ Len(b) \in Nat /\ Len(c) \in Nat
  BY LocationParts
<1>2. Len(b \o c) = Len(b) + Len(c) /\ \A i \in 1..Len(b) : (b \o c)[i] = b[i]
  BY ConcatProperties, <1>1
<1>3. \A k \in 1..Len(l.sha) : l.off + k \in 1..Len(b)
  BY <1>1 DEF Holds
<1> QED
  BY <1>1, <1>2, <1>3 DEF Holds

(* ... and what is appended is at the old end of the block. *)
LEMMA HoldsNew ==
    ASSUME NEW l \in Location, NEW b \in Seq(Nat), l.off = Len(b)
    PROVE  Holds(b \o l.sha, l)
<1>1. l.sha \in Seq(Nat) /\ Len(l.sha) \in Nat /\ Len(b) \in Nat
  BY LocationParts
<1>2. /\ Len(b \o l.sha) = Len(b) + Len(l.sha)
      /\ \A i \in 1..(Len(b) + Len(l.sha)) :
             (b \o l.sha)[i] = IF i <= Len(b) THEN b[i] ELSE l.sha[i - Len(b)]
  BY ConcatProperties, <1>1
<1>3. ASSUME NEW k \in 1..Len(l.sha) PROVE (b \o l.sha)[Len(b) + k] = l.sha[k]
  <2>1. /\ Len(b) + k \in 1..(Len(b) + Len(l.sha)) /\ ~(Len(b) + k <= Len(b))
        /\ (Len(b) + k) - Len(b) = k
    BY <1>1
  <2> QED
    BY <1>2, <2>1
<1> QED
  BY <1>1, <1>2, <1>3 DEF Holds

(* A location that is right reads back: SegmentReader.read returns the slice. *)
LEMMA StoredReadsBack ==
    ASSUME DataOK, NEW l \in Location, Stored(l), file[l.seg] = "zst"
    PROVE  ReadsBack(l)
<1> DEFINE b == disk[l.seg][l.block + 1]
           n == Len(l.sha)
<1>1. l.sha \in Seq(Nat) /\ n \in Nat /\ l.off \in Nat /\ l.block \in Nat /\ l.seg \in SegIds
  BY LocationParts
<1>2. disk[l.seg] \in Seq(Seq(Nat)) /\ l.block + 1 \in 1..Len(disk[l.seg])
  BY <1>1 DEF DataOK, Stored
<1>3. b \in Seq(Nat) /\ Len(b) \in Nat
  BY <1>2
<1>4. l.off + n <= Len(b) /\ \A k \in 1..n : b[l.off + k] = l.sha[k]
  BY DEF Stored, Holds
<1> HIDE DEF b, n
<1>5. \A i \in (l.off + 1)..(l.off + n) : b[i] \in Nat
  BY <1>1, <1>3, <1>4
<1>6. SubSeq(b, l.off + 1, l.off + n) = l.sha
  <2>1. l.off + 1 \in Int /\ l.off + n \in Int
    BY <1>1
  <2>2. /\ SubSeq(b, l.off + 1, l.off + n) \in Seq(Nat)
        /\ Len(SubSeq(b, l.off + 1, l.off + n))
             = IF l.off + 1 <= l.off + n THEN (l.off + n) - (l.off + 1) + 1 ELSE 0
        /\ \A i \in 1..((l.off + n) - (l.off + 1) + 1) :
               SubSeq(b, l.off + 1, l.off + n)[i] = b[(l.off + 1) + i - 1]
    BY <1>5, <2>1, SubSeqProperties
  <2>3. Len(SubSeq(b, l.off + 1, l.off + n)) = n
    BY <1>1, <2>2
  <2>4. \A i \in 1..n : SubSeq(b, l.off + 1, l.off + n)[i] = l.sha[i]
    <3> TAKE i \in 1..n
    <3>1. i \in 1..((l.off + n) - (l.off + 1) + 1) /\ (l.off + 1) + i - 1 = l.off + i
      BY <1>1
    <3> QED
      BY <2>2, <3>1, <1>4
  <2> QED
    BY <1>1, <2>2, <2>3, <2>4, SeqEqual DEF n
<1> QED
  BY <1>4, <1>6 DEF ReadsBack, Stored, b, n

-----------------------------------------------------------------------------
(* Every step keeps the invariant, part by part. *)

(* Types *)
LEMMA TypeStep ==
    ASSUME ArchiveInd, [Next]_vars
    PROVE  TypeOK' /\ DataOK'
<1> USE DEF threadVars, writerVars, fileVars, dbVars
<1>0. TypeOK /\ DataOK
  BY DEF ArchiveInd, ArchiveInv
<1>1. ASSUME DataOK',
             pc' \in {"start", "truncate", "recover", "idle", "openRow", "openFile", "add",
                      "index", "sealCheck", "sealRow", "link"},
             ret' \in {"add", "link"}, item' \in Contents,
             newSeg' \in SegIds \cup {NoSeg}, cur' \in SegIds \cup {NoSeg},
             stale' \subseteq SegIds, stopping' \in BOOLEAN, aged' \in BOOLEAN,
             file' \in [SegIds -> {"none", "open", "zst"}],
             rows' \in [SegIds -> {"none", "unsealed", "sealed"}],
             \A l, m \in blobs' : l.sha = m.sha => l = m,
             linked' \subseteq Contents, crashes' \in 0..MaxCrashes
      PROVE  TypeOK' /\ DataOK'
  <2>1. \A l \in locs' \cup blobs' \cup UNION {footer'[s] : s \in SegIds} : l \in Location
    BY <1>1 DEF DataOK
  <2> QED
    BY <1>1, <2>1 DEF TypeOK
<1>2. ASSUME UNCHANGED <<buf, disk, locs, footer, blobs>> PROVE DataOK'
  BY <1>0, <1>2 DEF DataOK
<1>3. CASE Start
  BY <1>0, <1>1, <1>2, <1>3 DEF Start, TypeOK
<1>4. CASE Truncate
  <2>1. disk' \in [SegIds -> Seq(Seq(Nat))]
    BY <1>0, <1>4 DEF Truncate, DataOK
  <2>2. DataOK'
    BY <1>0, <1>4, <2>1 DEF Truncate, DataOK
  <2> QED
    BY <1>0, <1>1, <1>4, <2>2 DEF Truncate, TypeOK
<1>5. CASE RecoverDone
  BY <1>0, <1>1, <1>2, <1>5 DEF RecoverDone, TypeOK
<1>6. ASSUME NEW s \in stale, NEW C \in SUBSET RowsOf(s), RecoverChunk(s, C)
      PROVE  TypeOK' /\ DataOK'
  <2>1. DataOK'
    BY <1>0, <1>6 DEF RecoverChunk, DataOK
  <2> QED
    BY <1>0, <1>1, <1>6, <2>1 DEF RecoverChunk, TypeOK
<1>7. CASE OpenRow
  <2>1. NextSegmentId \in SegIds
    BY <1>0, <1>7, NextSegmentIdIsFree, ArchiveAssumption DEF OpenRow, SegIds
  <2> QED
    BY <1>0, <1>1, <1>2, <1>7, <2>1 DEF OpenRow, TypeOK
<1>8. CASE OpenFile
  <2>1. DataOK'
    BY <1>0, <1>8 DEF OpenFile, DataOK
  <2> QED
    BY <1>0, <1>1, <1>8, <2>1 DEF OpenFile, TypeOK
<1>9. CASE WriterAdd
  <2>1. CASE item \in Shas(locs)
    BY <1>0, <1>1, <1>2, <1>9, <2>1 DEF WriterAdd, TypeOK
  <2>2. CASE item \notin Shas(locs)
    <3> DEFINE full   == Pending /\ Len(buf) + Len(item) > BlockTarget
               blocks == IF full THEN Append(disk[cur], buf) ELSE disk[cur]
               part   == IF full THEN <<>> ELSE buf
               l      == [sha |-> item, seg |-> cur, block |-> Len(blocks), off |-> Len(part)]
    <3>1. /\ disk' = [disk EXCEPT ![cur] = blocks] /\ buf' = part \o item
          /\ locs' = locs \cup {l} /\ UNCHANGED <<footer, blobs>>
      BY <1>9, <2>2 DEF WriterAdd
    <3>2. cur \in SegIds /\ item \in Seq(Nat) /\ item \in Contents
      BY <1>0, <1>9, ArchiveAssumption DEF WriterAdd, TypeOK, ArchiveInd, WriterPlaced
    <3>3. blocks \in Seq(Seq(Nat)) /\ part \in Seq(Nat)
      BY <1>0, <3>2 DEF DataOK
    <3> HIDE DEF full, blocks, part
    <3>4. Len(blocks) \in Nat /\ Len(part) \in Nat
      BY <3>3
    <3>5. l \in Location
      BY <3>2, <3>4 DEF Location
    <3> HIDE DEF l
    <3>6. buf' \in Seq(Nat)
      BY <3>1, <3>2, <3>3, ConcatProperties
    <3>7. DataOK'
      BY <1>0, <3>1, <3>2, <3>3, <3>5, <3>6 DEF DataOK
    <3> QED
      BY <1>0, <1>1, <1>9, <3>7 DEF WriterAdd, TypeOK
  <2> QED
    BY <2>1, <2>2
<1>10. CASE IndexBlob
  <2>1. blobs' \subseteq Location
    BY <1>0, <1>10 DEF IndexBlob, DataOK
  <2>2. DataOK'
    BY <1>0, <1>10, <2>1 DEF IndexBlob, DataOK
  <2>3. \A l, m \in locs : l.sha = m.sha => l = m
    BY DEF ArchiveInd, LocsRight
  <2>4. \A l, m \in blobs' : l.sha = m.sha => l = m
    BY <1>0, <1>10, <2>3 DEF IndexBlob, TypeOK, Shas
  <2> QED
    BY <1>0, <1>1, <1>10, <2>2, <2>4 DEF IndexBlob, TypeOK
<1>11. CASE KeepOpen
  BY <1>0, <1>1, <1>2, <1>11 DEF KeepOpen, TypeOK
<1>12. CASE SealFile
  <2>1. cur \in SegIds
    BY <1>0, <1>12 DEF SealFile, TypeOK, ArchiveInd, WriterPlaced
  <2>2. disk' \in [SegIds -> Seq(Seq(Nat))]
    BY <1>0, <1>12, <2>1 DEF SealFile, DataOK
  <2>3. footer' \in [SegIds -> SUBSET Location]
    BY <1>0, <1>12, <2>1 DEF SealFile, DataOK
  <2>4. DataOK'
    BY <1>0, <1>12, <2>2, <2>3 DEF SealFile, DataOK
  <2> QED
    BY <1>0, <1>1, <1>12, <2>4 DEF SealFile, TypeOK
<1>13. CASE SealRow
  BY <1>0, <1>1, <1>2, <1>13 DEF SealRow, TypeOK
<1>14. CASE LinkWheel
  BY <1>0, <1>1, <1>2, <1>14 DEF LinkWheel, TypeOK
<1>15. ASSUME NEW c \in Contents, Take(c)
       PROVE  TypeOK' /\ DataOK'
  BY <1>0, <1>1, <1>2, <1>15 DEF Take, TypeOK
<1>16. CASE Age
  BY <1>0, <1>1, <1>2, <1>16 DEF Age, TypeOK
<1>17. CASE Shutdown
  BY <1>0, <1>1, <1>2, <1>17 DEF Shutdown, TypeOK
<1>18. CASE Crash
  <2>1. DataOK'
    BY <1>0, <1>18 DEF Crash, DataOK
  <2>2. crashes' \in 0..MaxCrashes
    BY <1>0, <1>18, ArchiveAssumption DEF Crash, TypeOK
  <2> QED
    BY <1>0, <1>1, <1>18, <2>1, <2>2 DEF Crash, TypeOK
<1>19. CASE UNCHANGED vars
  BY <1>0, <1>1, <1>2, <1>19 DEF vars, TypeOK
<1> QED
  BY <1>3, <1>4, <1>5, <1>6, <1>7, <1>8, <1>9, <1>10, <1>11, <1>12, <1>13, <1>14,
     <1>15, <1>16, <1>17, <1>18, <1>19 DEF Next, StartNext, ItemNext

(* Where the thread is says in which state its segment is. *)
LEMMA PlaceStep ==
    ASSUME ArchiveInd, [Next]_vars
    PROVE  WriterPlaced'
<1> USE DEF threadVars, writerVars, fileVars, dbVars
<1>0. TypeOK /\ WriterPlaced /\ FreshSegment /\ NewSegIsId
  BY DEF ArchiveInd, ArchiveInv
<1>1. ASSUME UNCHANGED <<pc, ret, cur, locs, file>>
      PROVE  WriterPlaced'
  BY <1>0, <1>1 DEF WriterPlaced
<1>2. CASE Start
  BY <1>0, <1>2 DEF Start, TypeOK, WriterPlaced, Startup, Reopening
<1>3. CASE Truncate
  BY <1>0, <1>3 DEF Truncate, TypeOK, WriterPlaced, Startup, Reopening
<1>4. CASE RecoverDone
  BY <1>0, <1>4 DEF RecoverDone, TypeOK, WriterPlaced, Startup, Reopening
<1>5. ASSUME NEW s \in stale, NEW C \in SUBSET RowsOf(s), RecoverChunk(s, C)
      PROVE  WriterPlaced'
  BY <1>1, <1>5 DEF RecoverChunk
<1>6. CASE OpenRow
  BY <1>0, <1>6 DEF OpenRow, TypeOK, WriterPlaced, Startup, Reopening
<1>7. CASE OpenFile
  <2>1. newSeg \in SegIds /\ newSeg # NoSeg
    BY <1>0, <1>7 DEF OpenFile, TypeOK, NewSegIsId
  <2> QED
    BY <1>0, <1>7, <2>1 DEF OpenFile, TypeOK, WriterPlaced, Startup, Reopening
<1>8. CASE WriterAdd
  BY <1>0, <1>8 DEF WriterAdd, TypeOK, WriterPlaced, Startup, Reopening
<1>9. CASE IndexBlob
  BY <1>0, <1>9 DEF IndexBlob, TypeOK, WriterPlaced, Startup, Reopening
<1>10. CASE KeepOpen
  BY <1>0, <1>10 DEF KeepOpen, TypeOK, WriterPlaced, Startup, Reopening
<1>11. CASE SealFile
  BY <1>0, <1>11 DEF SealFile, TypeOK, WriterPlaced, Startup, Reopening
<1>12. CASE SealRow
  BY <1>0, <1>12 DEF SealRow, TypeOK, WriterPlaced, Startup, Reopening
<1>13. CASE LinkWheel
  BY <1>0, <1>13 DEF LinkWheel, TypeOK, WriterPlaced, Startup, Reopening
<1>14. ASSUME NEW c \in Contents, Take(c)
       PROVE  WriterPlaced'
  BY <1>0, <1>14 DEF Take, TypeOK, WriterPlaced, Startup, Reopening
<1>15. CASE Age
  BY <1>1, <1>15 DEF Age
<1>16. CASE Shutdown
  BY <1>1, <1>16 DEF Shutdown
<1>17. CASE Crash
  BY <1>0, <1>17 DEF Crash, TypeOK, WriterPlaced, Startup, Reopening
<1>18. CASE UNCHANGED vars
  BY <1>1, <1>18 DEF vars
<1> QED
  BY <1>2, <1>3, <1>4, <1>5, <1>6, <1>7, <1>8, <1>9, <1>10, <1>11, <1>12, <1>13,
     <1>14, <1>15, <1>16, <1>17, <1>18 DEF Next, StartNext, ItemNext

(* Allocation, sealing and recovery agree with the files they are about. *)
LEMMA SegmentStep ==
    ASSUME ArchiveInd, [Next]_vars
    PROVE  FreshSegment' /\ NewSegIsId' /\ SealedHasFile' /\ StaleIsOpen'
<1> USE DEF threadVars, writerVars, fileVars, dbVars
<1>0. /\ TypeOK /\ WriterPlaced /\ FreshSegment /\ NewSegIsId /\ SealedHasFile
      /\ StaleIsOpen
  BY DEF ArchiveInd, ArchiveInv
<1> USE DEF FreshSegment, NewSegIsId, SealedHasFile, StaleIsOpen
<1>1. ASSUME UNCHANGED <<pc, newSeg, stale, file, rows>>
      PROVE  FreshSegment' /\ NewSegIsId' /\ SealedHasFile' /\ StaleIsOpen'
  BY <1>0, <1>1
<1>2. CASE Start
  BY <1>0, <1>2 DEF Start, TypeOK
<1>3. CASE Truncate
  BY <1>0, <1>3 DEF Truncate, TypeOK
<1>4. CASE RecoverDone
  BY <1>0, <1>4 DEF RecoverDone, TypeOK
<1>5. ASSUME NEW s \in stale, NEW C \in SUBSET RowsOf(s), RecoverChunk(s, C)
      PROVE  FreshSegment' /\ NewSegIsId' /\ SealedHasFile' /\ StaleIsOpen'
  BY <1>1, <1>5 DEF RecoverChunk
<1>6. CASE OpenRow
  <2>1. NextSegmentId \in SegIds /\ NextSegmentId # NoSeg
    BY <1>0, <1>6, NextSegmentIdIsFree, ArchiveAssumption DEF OpenRow, SegIds, NoSeg
  <2>2. file[NextSegmentId] = "none"
    BY <1>0, <2>1, NextSegmentIdIsFree DEF SegIds
  <2>3. newSeg' = NextSegmentId /\ file' = file /\ pc' = "openFile"
    BY <1>6 DEF OpenRow
  <2>4. \A s \in SegIds : rows'[s] = "sealed" => rows[s] = "sealed"
    BY <1>0, <1>6, <2>1 DEF OpenRow, TypeOK
  <2> QED
    BY <1>0, <2>1, <2>2, <2>3, <2>4
<1>7. CASE OpenFile
  BY <1>0, <1>7 DEF OpenFile, TypeOK
<1>8. CASE WriterAdd
  BY <1>0, <1>8 DEF WriterAdd, TypeOK
<1>9. CASE IndexBlob
  BY <1>0, <1>9 DEF IndexBlob, TypeOK
<1>10. CASE KeepOpen
  BY <1>0, <1>10 DEF KeepOpen, TypeOK
<1>11. CASE SealFile
  BY <1>0, <1>11 DEF SealFile, TypeOK
<1>12. CASE SealRow
  <2>1. cur \in SegIds /\ file[cur] = "zst"
    BY <1>0, <1>12 DEF SealRow, TypeOK, WriterPlaced, Reopening
  <2> QED
    BY <1>0, <1>12, <2>1 DEF SealRow, TypeOK
<1>13. CASE LinkWheel
  BY <1>0, <1>13 DEF LinkWheel, TypeOK
<1>14. ASSUME NEW c \in Contents, Take(c)
       PROVE  FreshSegment' /\ NewSegIsId' /\ SealedHasFile' /\ StaleIsOpen'
  BY <1>0, <1>14 DEF Take, TypeOK
<1>15. CASE Age
  BY <1>1, <1>15 DEF Age
<1>16. CASE Shutdown
  BY <1>1, <1>16 DEF Shutdown
<1>17. CASE Crash
  BY <1>0, <1>17 DEF Crash, TypeOK
<1>18. CASE UNCHANGED vars
  BY <1>1, <1>18 DEF vars
<1> QED
  BY <1>2, <1>3, <1>4, <1>5, <1>6, <1>7, <1>8, <1>9, <1>10, <1>11, <1>12, <1>13,
     <1>14, <1>15, <1>16, <1>17, <1>18 DEF Next, StartNext, ItemNext

(* SegmentWriter.add hands out the place where the content goes, and a flush
   of the block moves nothing. *)
LEMMA LocsStep ==
    ASSUME ArchiveInd, [Next]_vars
    PROVE  LocsRight'
<1> USE DEF threadVars, writerVars, fileVars, dbVars
<1>0. TypeOK /\ DataOK /\ WriterPlaced /\ LocsRight
  BY DEF ArchiveInd, ArchiveInv
<1> USE DEF Startup, Reopening
<1>1. CASE Start
  BY <1>0, <1>1 DEF Start, WriterPlaced, LocsRight
<1>2. CASE Truncate
  BY <1>0, <1>2 DEF Truncate, WriterPlaced, LocsRight
<1>3. CASE RecoverDone
  BY <1>0, <1>3 DEF RecoverDone, WriterPlaced, LocsRight
<1>4. ASSUME NEW s \in stale, NEW C \in SUBSET RowsOf(s), RecoverChunk(s, C)
      PROVE  LocsRight'
  BY <1>0, <1>4 DEF RecoverChunk, WriterPlaced, LocsRight
<1>5. CASE OpenRow
  BY <1>0, <1>5 DEF OpenRow, LocsRight, Stored, Buffered, Holds
<1>6. CASE OpenFile
  BY <1>6 DEF OpenFile, LocsRight
<1>7. CASE WriterAdd
  <2>1. CASE item \in Shas(locs)
    BY <1>0, <1>7, <2>1 DEF WriterAdd, LocsRight, Stored, Buffered, Holds
  <2>2. CASE item \notin Shas(locs)
    <3> DEFINE full   == Pending /\ Len(buf) + Len(item) > BlockTarget
               blocks == IF full THEN Append(disk[cur], buf) ELSE disk[cur]
               part   == IF full THEN <<>> ELSE buf
               rec    == [sha |-> item, seg |-> cur, block |-> Len(blocks), off |-> Len(part)]
    <3>1. /\ disk' = [disk EXCEPT ![cur] = blocks] /\ buf' = part \o item
          /\ locs' = locs \cup {rec} /\ cur' = cur /\ pc' = "index" /\ pc = "add"
      BY <1>7, <2>2 DEF WriterAdd
    <3>2. /\ cur \in SegIds /\ item \in Seq(Nat) /\ item \in Contents
          /\ disk[cur] \in Seq(Seq(Nat)) /\ buf \in Seq(Nat)
      BY <1>0, <1>7, ArchiveAssumption DEF WriterAdd, TypeOK, DataOK, WriterPlaced
    <3>3. rec \in Location /\ part \in Seq(Nat) /\ blocks \in Seq(Seq(Nat))
      <4>1. blocks \in Seq(Seq(Nat)) /\ part \in Seq(Nat)
        BY <3>2
      <4>2. Len(blocks) \in Nat /\ Len(part) \in Nat
        BY <4>1
      <4> QED
        BY <3>2, <4>1, <4>2 DEF Location
    <3>4. PICK new \in Location :
            /\ new.sha = item /\ new.seg = cur /\ new.block = Len(blocks)
            /\ new.off = Len(part) /\ locs' = locs \cup {new}
      BY <3>1, <3>3
    <3> HIDE DEF rec
    <3>5. disk'[cur] = blocks
      BY <1>0, <3>1, <3>2 DEF DataOK
    <3>6. Buffered(new)'
      <4>1. Holds(part \o item, new)
        BY <3>3, <3>4, HoldsNew
      <4> QED
        BY <3>1, <3>4, <3>5, <4>1 DEF Buffered
    <3>7. ASSUME NEW l \in locs
          PROVE  (Stored(l) \/ Buffered(l))'
      <4>1. /\ l \in Location /\ l.seg = cur /\ l.block \in Nat
            /\ Stored(l) \/ Buffered(l)
        BY <1>0, <3>1, <3>7, LocationParts DEF DataOK, LocsRight
      <4>2. CASE full
        <5>1. /\ blocks = Append(disk[cur], buf) /\ Len(blocks) = Len(disk[cur]) + 1
              /\ Len(disk[cur]) \in Nat
              /\ \A i \in 1..Len(disk[cur]) : blocks[i] = disk[cur][i]
              /\ blocks[Len(disk[cur]) + 1] = buf
          BY <3>2, <4>2
        <5> HIDE DEF full, blocks, part
        <5>2. CASE Stored(l)
          <6>1. l.block + 1 \in 1..Len(disk[cur]) /\ l.block < Len(blocks)
            BY <4>1, <5>1, <5>2 DEF Stored
          <6>2. Holds(blocks[l.block + 1], l)
            BY <4>1, <5>1, <5>2, <6>1 DEF Stored
          <6> QED
            BY <3>5, <4>1, <6>1, <6>2 DEF Stored
        <5>3. CASE Buffered(l)
          <6>1. l.block = Len(disk[cur]) /\ Holds(buf, l)
            BY <4>1, <5>3 DEF Buffered
          <6>2. l.block < Len(blocks) /\ Holds(blocks[l.block + 1], l)
            BY <5>1, <6>1
          <6> QED
            BY <3>5, <4>1, <6>2 DEF Stored
        <5> QED
          BY <4>1, <5>2, <5>3
      <4>3. CASE ~full
        <5>1. blocks = disk[cur] /\ part = buf
          BY <4>3
        <5> HIDE DEF full, blocks, part
        <5>2. CASE Stored(l)
          BY <3>5, <4>1, <5>1, <5>2 DEF Stored
        <5>3. CASE Buffered(l)
          <6>1. Holds(buf \o item, l)
            BY <3>2, <4>1, <5>3, HoldsAppend DEF Buffered
          <6> QED
            BY <3>1, <3>5, <4>1, <5>1, <5>3, <6>1 DEF Buffered
        <5> QED
          BY <4>1, <5>2, <5>3
      <4> QED
        BY <4>2, <4>3
    <3> HIDE DEF full, blocks, part
    <3>8. \A l, m \in locs' : l.sha = m.sha => l = m
      BY <1>0, <2>2, <3>1, <3>4 DEF LocsRight, Shas
    <3>9. \A l \in locs' : l.seg = cur' /\ (Stored(l) \/ Buffered(l))'
      BY <1>0, <3>1, <3>4, <3>6, <3>7 DEF LocsRight
    <3> QED
      BY <3>8, <3>9 DEF LocsRight
  <2> QED
    BY <2>1, <2>2
<1>8. CASE IndexBlob
  BY <1>0, <1>8 DEF IndexBlob, LocsRight, Stored, Buffered, Holds
<1>9. CASE KeepOpen
  BY <1>0, <1>9 DEF KeepOpen, LocsRight, Stored, Buffered, Holds
<1>10. CASE SealFile
  BY <1>0, <1>10 DEF SealFile, LocsRight, Stored, Buffered, Holds
<1>11. CASE SealRow
  BY <1>0, <1>11 DEF SealRow, LocsRight, Stored, Buffered, Holds
<1>12. CASE LinkWheel
  BY <1>0, <1>12 DEF LinkWheel, LocsRight, Stored, Buffered, Holds
<1>13. ASSUME NEW c \in Contents, Take(c)
       PROVE  LocsRight'
  BY <1>0, <1>13 DEF Take, LocsRight, Stored, Buffered, Holds
<1>14. CASE Age
  BY <1>0, <1>14 DEF Age, LocsRight, Stored, Buffered, Holds
<1>15. CASE Shutdown
  BY <1>0, <1>15 DEF Shutdown, LocsRight, Stored, Buffered, Holds
<1>16. CASE Crash
  BY <1>16 DEF Crash, LocsRight
<1>17. CASE UNCHANGED vars
  BY <1>0, <1>17 DEF vars, LocsRight, Stored, Buffered, Holds
<1> QED
  BY <1>1, <1>2, <1>3, <1>4, <1>5, <1>6, <1>7, <1>8, <1>9, <1>10, <1>11, <1>12, <1>13,
     <1>14, <1>15, <1>16, <1>17 DEF Next, StartNext, ItemNext

(* A row is where the writer or a sealed file has the content, and whatever
   is linked has a row. *)
LEMMA IndexStep ==
    ASSUME ArchiveInd, [Next]_vars
    PROVE  LocsIndexed' /\ ItemIndexed' /\ LinkedIsIndexed' /\ IndexResolves'
<1> USE DEF threadVars, writerVars, fileVars, dbVars
<1>0. /\ TypeOK /\ DataOK /\ WriterPlaced /\ LocsRight /\ LocsIndexed /\ ItemIndexed
      /\ BlobsRight /\ StaleIsOpen /\ LinkedIsIndexed /\ IndexResolves
  BY DEF ArchiveInd, ArchiveInv
<1> USE DEF LocsIndexed, ItemIndexed, LinkedIsIndexed, IndexResolves
<1>1. CASE Start
  BY <1>0, <1>1 DEF Start, TypeOK, WriterPlaced, Startup, Shas
<1>2. CASE Truncate
  BY <1>0, <1>2 DEF Truncate, TypeOK, WriterPlaced, Startup, Shas
<1>3. CASE RecoverDone
  <2>1. locs = {} /\ stale = {s \in SegIds : file[s] = "open"}
    BY <1>0, <1>3 DEF RecoverDone, WriterPlaced, Startup, StaleIsOpen
  <2>2. ASSUME NEW l \in blobs PROVE file[l.seg] = "zst"
    <3>1. l.seg \in SegIds /\ file[l.seg] \in {"open", "zst"}
      BY <1>0, LocationParts DEF TypeOK, DataOK, BlobsRight
    <3>2. l \in RowsOf(l.seg)
      BY DEF RowsOf
    <3>3. l.seg \notin stale
      BY <1>3, <3>2 DEF RecoverDone
    <3> QED
      BY <2>1, <3>1, <3>3
  <2> QED
    BY <1>0, <1>3, <2>1, <2>2 DEF RecoverDone, Shas
<1>4. ASSUME NEW s \in stale, NEW C \in SUBSET RowsOf(s), RecoverChunk(s, C)
      PROVE  LocsIndexed' /\ ItemIndexed' /\ LinkedIsIndexed' /\ IndexResolves'
  <2>1. locs = {} /\ pc = "recover" /\ UNCHANGED <<pc, ret, item, locs>>
    BY <1>0, <1>4 DEF RecoverChunk, WriterPlaced, Startup
  <2>2. linked' \subseteq Shas(blobs)'
    <3> SUFFICES ASSUME NEW c \in linked, c \notin Shas(C)
                 PROVE  \E l \in blobs' : l.sha = c
      BY <1>4 DEF RecoverChunk, Shas
    <3>1. PICK l \in blobs : l.sha = c
      BY <1>0 DEF Shas
    <3> QED
      BY <1>4, <3>1 DEF RecoverChunk
  <2> QED
    BY <2>1, <2>2 DEF Shas
<1>5. CASE OpenRow
  BY <1>0, <1>5 DEF OpenRow, TypeOK, WriterPlaced, Startup, Shas
<1>6. CASE OpenFile
  <2>1. \A l \in blobs : file[l.seg] = "zst"
    <3>1. \A l \in locs : file[l.seg] = "zst"
      BY <1>0, <1>6 DEF OpenFile, WriterPlaced, LocsRight, Reopening
    <3> QED
      BY <1>0, <1>6, <3>1 DEF OpenFile
  <2>2. \A l \in blobs : l.seg \in SegIds /\ l.seg # newSeg
    BY <1>0, <1>6, <2>1, LocationParts DEF OpenFile, DataOK
  <2>3. \A l \in blobs' : file'[l.seg] = "zst"
    BY <1>0, <1>6, <2>1, <2>2 DEF OpenFile, TypeOK
  <2>4. UNCHANGED <<ret, item, blobs, linked>> /\ locs' = {} /\ pc' \in {"add", "link"}
        /\ pc' = ret /\ pc = "openFile"
    BY <1>0, <1>6 DEF OpenFile, TypeOK
  <2> QED
    BY <1>0, <2>3, <2>4 DEF Shas
<1>7. CASE WriterAdd
  <2>1. PICK l : l.sha = item /\ (locs' = locs \cup {l} \/ (locs' = locs /\ item \in Shas(locs)))
    <3>1. CASE item \in Shas(locs)
      BY <1>7, <3>1 DEF WriterAdd, Shas
    <3>2. CASE item \notin Shas(locs)
      BY <1>7, <3>2 DEF WriterAdd
    <3> QED
      BY <3>1, <3>2
  <2>2. /\ pc = "add" /\ pc' = "index" /\ UNCHANGED <<ret, item, file, blobs, linked>>
    BY <1>7 DEF WriterAdd
  <2>3. Shas(locs') \subseteq Shas(blobs) \cup {item} /\ item \in Shas(locs')
    BY <1>0, <2>1, <2>2 DEF Shas
  <2>4. locs \subseteq locs'
    BY <2>1
  <2> QED
    BY <1>0, <2>2, <2>3, <2>4 DEF Shas
<1>8. CASE IndexBlob
  <2>1. /\ pc = "index" /\ pc' = "sealCheck" /\ UNCHANGED <<ret, item, file, locs, linked>>
        /\ blobs' = IF item \in Shas(blobs) THEN blobs
                    ELSE blobs \cup {l \in locs : l.sha = item}
    BY <1>8 DEF IndexBlob
  <2>2. item \in Shas(blobs') /\ Shas(blobs) \subseteq Shas(blobs')
    BY <1>0, <2>1 DEF Shas
  <2>3. \A l \in blobs' : file[l.seg] = "zst" \/ l \in locs
    BY <1>0, <2>1
  <2> QED
    BY <1>0, <2>1, <2>2, <2>3 DEF Shas
<1>9. CASE KeepOpen
  BY <1>0, <1>9 DEF KeepOpen, TypeOK, WriterPlaced, Startup, Shas
<1>10. CASE SealFile
  <2>1. /\ pc = "sealCheck" /\ pc' = "sealRow" /\ UNCHANGED <<ret, item, locs, blobs, linked>>
        /\ file' = [file EXCEPT ![cur] = "zst"]
    BY <1>10 DEF SealFile
  <2>2. \A l \in blobs : file[l.seg] = "zst" => file'[l.seg] = "zst"
    BY <1>0, <2>1, LocationParts DEF TypeOK, DataOK
  <2> QED
    BY <1>0, <2>1, <2>2 DEF Shas
<1>11. CASE SealRow
  BY <1>0, <1>11 DEF SealRow, TypeOK, WriterPlaced, Startup, Shas
<1>12. CASE LinkWheel
  BY <1>0, <1>12 DEF LinkWheel, TypeOK, WriterPlaced, Startup, Shas
<1>13. ASSUME NEW c \in Contents, Take(c)
       PROVE  LocsIndexed' /\ ItemIndexed' /\ LinkedIsIndexed' /\ IndexResolves'
  BY <1>0, <1>13 DEF Take, TypeOK, WriterPlaced, Startup, Shas
<1>14. CASE Age
  BY <1>0, <1>14 DEF Age, TypeOK, WriterPlaced, Startup, Shas
<1>15. CASE Shutdown
  BY <1>0, <1>15 DEF Shutdown, TypeOK, WriterPlaced, Startup, Shas
<1>16. CASE Crash
  BY <1>0, <1>16 DEF Crash, TypeOK, WriterPlaced, Startup, Shas
<1>17. CASE UNCHANGED vars
  BY <1>0, <1>17 DEF vars, TypeOK, WriterPlaced, Startup, Shas
<1> QED
  BY <1>1, <1>2, <1>3, <1>4, <1>5, <1>6, <1>7, <1>8, <1>9, <1>10, <1>11, <1>12, <1>13,
     <1>14, <1>15, <1>16, <1>17 DEF Next, StartNext, ItemNext

(* Sealed files, their footers and the rows that lead to them stay right: a
   later write, truncation or recovery touches none of them. *)
LEMMA SealedStep ==
    ASSUME ArchiveInd, [Next]_vars
    PROVE  BlobsRight' /\ FootersRight'
<1> USE DEF threadVars, writerVars, fileVars, dbVars
<1>0. /\ TypeOK /\ DataOK /\ WriterPlaced /\ LocsRight /\ LocsIndexed /\ BlobsRight
      /\ FootersRight /\ StaleIsOpen /\ NewSegIsId /\ IndexResolves /\ SealedHasFile
  BY DEF ArchiveInd, ArchiveInv
<1>1. ASSUME UNCHANGED <<disk, file, footer, blobs>>
      PROVE  BlobsRight' /\ FootersRight'
  BY <1>0, <1>1 DEF BlobsRight, FootersRight, Stored
<1>2. CASE Start
  BY <1>1, <1>2 DEF Start
<1>3. CASE Truncate
  <2>1. UNCHANGED <<file, footer, blobs>>
    BY <1>3 DEF Truncate
  <2>2. \A s \in SegIds : file[s] = "zst" => disk'[s] = disk[s]
    BY <1>3 DEF Truncate
  <2>3. /\ \A l \in blobs : l.seg \in SegIds
        /\ \A s \in SegIds : \A l \in footer[s] : l.seg \in SegIds
    BY <1>0, LocationParts DEF DataOK
  <2> QED
    BY <1>0, <2>1, <2>2, <2>3 DEF BlobsRight, FootersRight, Stored
<1>4. CASE RecoverDone
  BY <1>1, <1>4 DEF RecoverDone
<1>5. ASSUME NEW s \in stale, NEW C \in SUBSET RowsOf(s), RecoverChunk(s, C)
      PROVE  BlobsRight' /\ FootersRight'
  <2>1. /\ UNCHANGED <<disk, file, footer>> /\ C \subseteq RowsOf(s) /\ file[s] = "open"
        /\ blobs' = {l \in blobs : l.sha \notin Shas(C)}
    BY <1>0, <1>5 DEF RecoverChunk, StaleIsOpen
  <2>2. ASSUME NEW m \in blobs, file[m.seg] = "zst" PROVE m \in blobs'
    <3>1. ASSUME NEW r \in C, r.sha = m.sha PROVE FALSE
      <4>1. r \in blobs /\ r.seg = s
        BY <2>1, <3>1 DEF RowsOf
      <4>2. r = m
        BY <1>0, <3>1, <4>1 DEF TypeOK
      <4> QED
        BY <2>1, <2>2, <4>1, <4>2
    <3> QED
      BY <2>1, <3>1 DEF Shas
  <2> QED
    BY <1>0, <2>1, <2>2 DEF BlobsRight, FootersRight, Stored
<1>6. CASE OpenRow
  BY <1>1, <1>6 DEF OpenRow
<1>7. CASE OpenFile
  <2>1. UNCHANGED <<disk, footer, blobs>> /\ file[newSeg] = "none" /\ newSeg \in SegIds
    BY <1>0, <1>7 DEF OpenFile, TypeOK, NewSegIsId
  <2>2. \A s \in SegIds : file'[s] = IF s = newSeg THEN "open" ELSE file[s]
    BY <1>0, <1>7 DEF OpenFile, TypeOK
  <2>3. /\ \A l \in blobs : l.seg \in SegIds
        /\ \A s \in SegIds : \A l \in footer[s] : l.seg \in SegIds
    BY <1>0, LocationParts DEF DataOK
  <2>4. BlobsRight'
    BY <1>0, <2>1, <2>2, <2>3 DEF BlobsRight, Stored
  <2>5. FootersRight'
    BY <1>0, <2>1, <2>2, <2>3 DEF FootersRight, Stored
  <2> QED
    BY <2>4, <2>5
<1>8. CASE WriterAdd
  <2>1. UNCHANGED <<file, footer, blobs>> /\ cur \in SegIds /\ file[cur] = "open"
    BY <1>0, <1>8 DEF WriterAdd, TypeOK, WriterPlaced, Reopening
  <2>2. \A s \in SegIds : s # cur => disk'[s] = disk[s]
    BY <1>0, <1>8, <2>1 DEF WriterAdd, DataOK
  <2>3. /\ \A l \in blobs : l.seg \in SegIds
        /\ \A s \in SegIds : \A l \in footer[s] : l.seg \in SegIds
    BY <1>0, LocationParts DEF DataOK
  <2> QED
    BY <1>0, <2>1, <2>2, <2>3 DEF BlobsRight, FootersRight, Stored
<1>9. CASE IndexBlob
  <2>1. UNCHANGED <<disk, file, footer>> /\ cur # NoSeg /\ file[cur] = "open"
    BY <1>0, <1>9 DEF IndexBlob, TypeOK, WriterPlaced, Reopening
  <2>2. blobs \subseteq blobs' /\ \A l \in blobs' : l \in blobs \/ l.seg = cur
    BY <1>0, <1>9 DEF IndexBlob, LocsRight
  <2> QED
    BY <1>0, <2>1, <2>2 DEF BlobsRight, FootersRight, Stored
<1>10. CASE KeepOpen
  BY <1>1, <1>10 DEF KeepOpen
<1>11. CASE SealFile
  <2>1. /\ cur \in SegIds /\ file[cur] = "open" /\ pc = "sealCheck" /\ blobs' = blobs
        /\ disk' = IF Pending THEN [disk EXCEPT ![cur] = Append(@, buf)] ELSE disk
    BY <1>0, <1>11 DEF SealFile, TypeOK, WriterPlaced, Reopening
  <2>2. /\ \A s \in SegIds : s # cur => /\ disk'[s] = disk[s] /\ file'[s] = file[s]
                                       /\ footer'[s] = footer[s]
        /\ file'[cur] = "zst" /\ footer'[cur] = locs
    BY <1>0, <1>11, <2>1 DEF SealFile, TypeOK, DataOK
  <2>3. ASSUME NEW l \in locs PROVE l.seg = cur /\ Stored(l)'
    <3>1. /\ l \in Location /\ l.seg = cur /\ l.block \in Nat
          /\ Stored(l) \/ Buffered(l)
      BY <1>0, <2>1, LocationParts DEF DataOK, LocsRight, Reopening
    <3>2. disk[cur] \in Seq(Seq(Nat)) /\ buf \in Seq(Nat) /\ Len(disk[cur]) \in Nat
      BY <1>0, <2>1 DEF DataOK
    <3>3. CASE Pending
      <4>1. disk'[cur] = Append(disk[cur], buf)
        BY <1>0, <2>1, <3>3 DEF DataOK
      <4>2. /\ Len(disk'[cur]) = Len(disk[cur]) + 1
            /\ \A i \in 1..Len(disk[cur]) : disk'[cur][i] = disk[cur][i]
            /\ disk'[cur][Len(disk[cur]) + 1] = buf
        BY <3>2, <4>1
      <4>3. CASE Stored(l)
        <5>1. l.block + 1 \in 1..Len(disk[cur]) /\ l.block < Len(disk'[cur])
          BY <3>1, <3>2, <4>2, <4>3 DEF Stored
        <5>2. Holds(disk'[cur][l.block + 1], l)
          BY <3>1, <4>2, <4>3, <5>1 DEF Stored
        <5> QED
          BY <3>1, <5>1, <5>2 DEF Stored
      <4>4. CASE Buffered(l)
        <5>1. l.block < Len(disk'[cur]) /\ Holds(disk'[cur][l.block + 1], l)
          BY <3>1, <3>2, <4>2, <4>4 DEF Buffered
        <5> QED
          BY <3>1, <5>1 DEF Stored
      <4> QED
        BY <3>1, <4>3, <4>4
    <3>4. CASE ~Pending
      <4>1. Stored(l)
        BY <3>1, <3>4 DEF Pending, Buffered
      <4>2. disk' = disk
        BY <2>1, <3>4
      <4> QED
        BY <3>1, <4>1, <4>2 DEF Stored
    <3> QED
      BY <3>1, <3>3, <3>4
  <2>4. ASSUME NEW l \in blobs, l.seg = cur PROVE l \in locs
    BY <1>0, <2>1, <2>4 DEF IndexResolves
  <2>5. \A l \in blobs : l.seg \in SegIds
    BY <1>0, LocationParts DEF DataOK
  <2>6. BlobsRight'
    <3> SUFFICES ASSUME NEW l \in blobs
                 PROVE  file'[l.seg] # "none" /\
                        (file'[l.seg] = "zst" => Stored(l)' /\ l \in footer'[l.seg])
      BY <2>1 DEF BlobsRight
    <3>1. CASE l.seg = cur
      BY <2>2, <2>3, <2>4, <3>1
    <3>2. CASE l.seg # cur
      BY <1>0, <2>2, <2>5, <3>2 DEF BlobsRight, Stored
    <3> QED
      BY <3>1, <3>2
  <2>7. \A m \in blobs : file[m.seg] = "zst" \/ m \in locs => file'[m.seg] = "zst"
    BY <2>2, <2>3, <2>5
  <2>8. FootersRight'
    <3> SUFFICES ASSUME NEW s \in SegIds, file'[s] = "zst", NEW l \in footer'[s]
                 PROVE  /\ l.seg = s /\ Stored(l)'
                        /\ \E m \in blobs : m.sha = l.sha /\ file'[m.seg] = "zst"
      BY <2>1 DEF FootersRight
    <3>1. CASE s = cur
      <4>1. l \in locs /\ l.seg = s /\ Stored(l)'
        BY <2>2, <2>3, <3>1
      <4>2. PICK m \in blobs : m.sha = l.sha
        BY <1>0, <2>1, <4>1 DEF LocsIndexed, Shas
      <4>3. file[m.seg] = "zst" \/ m \in locs
        BY <1>0, <2>1 DEF IndexResolves
      <4> QED
        BY <2>7, <4>1, <4>2, <4>3
    <3>2. CASE s # cur
      BY <1>0, <2>2, <2>7, <3>2 DEF FootersRight, Stored
    <3> QED
      BY <3>1, <3>2
  <2> QED
    BY <2>6, <2>8
<1>12. CASE SealRow
  BY <1>1, <1>12 DEF SealRow
<1>13. CASE LinkWheel
  BY <1>1, <1>13 DEF LinkWheel
<1>14. ASSUME NEW c \in Contents, Take(c)
       PROVE  BlobsRight' /\ FootersRight'
  BY <1>1, <1>14 DEF Take
<1>15. CASE Age
  BY <1>1, <1>15 DEF Age
<1>16. CASE Shutdown
  BY <1>1, <1>16 DEF Shutdown
<1>17. CASE Crash
  BY <1>1, <1>17 DEF Crash
<1>18. CASE UNCHANGED vars
  BY <1>1, <1>18 DEF vars
<1> QED
  BY <1>2, <1>3, <1>4, <1>5, <1>6, <1>7, <1>8, <1>9, <1>10, <1>11, <1>12, <1>13,
     <1>14, <1>15, <1>16, <1>17, <1>18 DEF Next, StartNext, ItemNext

LEMMA ArchiveInit == Init => ArchiveInd
<1> SUFFICES ASSUME Init PROVE ArchiveInd
  OBVIOUS
<1>1. /\ pc = "start" /\ cur = NoSeg /\ locs = {} /\ blobs = {} /\ linked = {}
      /\ \A s \in SegIds : /\ file[s] = "none" /\ rows[s] = "none" /\ disk[s] = <<>>
                           /\ footer[s] = {}
  BY DEF Init
<1>2. DataOK
  BY DEF Init, DataOK
<1>3. TypeOK
  <2>1. \A l \in locs \cup blobs \cup UNION {footer[s] : s \in SegIds} : l \in Location
    BY <1>1
  <2>2. /\ newSeg \in SegIds \cup {NoSeg} /\ cur \in SegIds \cup {NoSeg} /\ stale \subseteq SegIds
        /\ stopping \in BOOLEAN /\ aged \in BOOLEAN
        /\ ret \in {"add", "link"} /\ item \in Contents
    BY DEF Init
  <2>3. crashes \in 0..MaxCrashes
    BY ArchiveAssumption DEF Init
  <2>4. /\ file \in [SegIds -> {"none", "open", "zst"}]
        /\ rows \in [SegIds -> {"none", "unsealed", "sealed"}]
    BY DEF Init
  <2> QED
    BY <1>1, <2>1, <2>2, <2>3, <2>4 DEF TypeOK
<1>4. WriterPlaced /\ LocsRight /\ LocsIndexed /\ ItemIndexed
  BY <1>1 DEF WriterPlaced, LocsRight, LocsIndexed, ItemIndexed, Shas, Startup
<1>5. BlobsRight /\ FootersRight /\ SealedHasFile /\ StaleIsOpen /\ NewSegIsId
  BY <1>1 DEF BlobsRight, FootersRight, SealedHasFile, StaleIsOpen, NewSegIsId
<1>6. IndexResolves /\ LinkedIsIndexed /\ FreshSegment
  BY <1>1 DEF IndexResolves, LinkedIsIndexed, FreshSegment
<1> QED
  BY <1>2, <1>3, <1>4, <1>5, <1>6 DEF ArchiveInd, ArchiveInv

LEMMA ArchiveStep == ArchiveInd /\ [Next]_vars => ArchiveInd'
<1> SUFFICES ASSUME ArchiveInd, [Next]_vars PROVE ArchiveInd'
  OBVIOUS
<1>1. TypeOK' /\ DataOK'
  BY TypeStep
<1>2. WriterPlaced' /\ LocsRight' /\ BlobsRight' /\ FootersRight'
  BY PlaceStep, LocsStep, SealedStep
<1>3. FreshSegment' /\ NewSegIsId' /\ SealedHasFile' /\ StaleIsOpen'
  BY SegmentStep
<1>4. LocsIndexed' /\ ItemIndexed' /\ LinkedIsIndexed' /\ IndexResolves'
  BY IndexStep
<1> QED
  BY <1>1, <1>2, <1>3, <1>4 DEF ArchiveInd, ArchiveInv

-----------------------------------------------------------------------------
(* The inductive invariant of the segment store holds in every behaviour,
   with crashes at every step. *)
THEOREM ArchiveInvariant == Spec => []ArchiveInd
<1> QED
  BY ArchiveInit, ArchiveStep, PTL DEF Spec

(* Rows, files and wheels refer to each other as they should: recovery leaves
   no row of a truncated segment, a linked content has a row, and open_writer
   picks an id whose file does not exist. *)
THEOREM ArchiveReferences == Spec => []ArchiveInv
<1>1. ArchiveInd => ArchiveInv
  BY DEF ArchiveInd
<1> QED
  BY <1>1, ArchiveInvariant, PTL

(* Whatever is indexed reads back byte for byte once its file is sealed, for
   documents of any length, empty ones and ones larger than a block included,
   and any block size. *)
THEOREM ArchiveReadsBack == Spec => []IndexedReadsBack
<1>1. ArchiveInd => IndexedReadsBack
  BY StoredReadsBack DEF ArchiveInd, DataOK, BlobsRight, IndexedReadsBack
<1> QED
  BY <1>1, ArchiveInvariant, PTL

(* verify_archive (verify.py), run at any moment, never finds the file of a
   sealed segment missing, a footer record whose bytes are wrong or a blobs row
   that its footer does not have. *)
THEOREM ArchiveVerify == Spec => []VerifyFindsNoLoss
<1>1. ArchiveInd => VerifyFindsNoLoss
  <2> SUFFICES ASSUME ArchiveInd, NEW s \in SegIds, rows[s] = "sealed"
               PROVE  /\ file[s] = "zst"
                      /\ \A r \in footer[s] : ReadsBack(r)
                      /\ RowsOf(s) \subseteq footer[s]
    BY DEF VerifyFindsNoLoss, VerifyProblems
  <2>1. file[s] = "zst"
    BY DEF ArchiveInd, SealedHasFile
  <2>2. \A r \in footer[s] : ReadsBack(r)
    <3> TAKE r \in footer[s]
    <3>1. footer[s] \subseteq Location
      BY DEF ArchiveInd, DataOK
    <3>2. r.seg = s /\ Stored(r)
      BY <2>1 DEF ArchiveInd, FootersRight
    <3>3. DataOK /\ r \in Location /\ Stored(r) /\ file[r.seg] = "zst"
      BY <2>1, <3>1, <3>2 DEF ArchiveInd
    <3> QED
      BY <3>3, StoredReadsBack
  <2>3. RowsOf(s) \subseteq footer[s]
    BY <2>1 DEF ArchiveInd, BlobsRight, RowsOf
  <2> QED
    BY <2>1, <2>2, <2>3
<1> QED
  BY <1>1, ArchiveInvariant, PTL

-----------------------------------------------------------------------------
(* The archive implements the abstract blob store. *)

(* Steps that index nothing and seal nothing leave every blob's status. *)
LEMMA StatusStays ==
    ASSUME blobs' = blobs,
           \A l \in blobs : file'[l.seg] = "zst" <=> file[l.seg] = "zst"
    PROVE  Status' = Status
BY DEF Status, Shas

(* Indexing a blob is the abstract Add, unless it is indexed already. *)
LEMMA IndexIsAdd ==
    ASSUME ArchiveInd, IndexBlob
    PROVE  UNCHANGED <<Status, linked>> \/ Abstract!Add(item)
<1> USE DEF writerVars, fileVars
<1>1. /\ TypeOK /\ WriterPlaced /\ LocsRight /\ LocsIndexed /\ pc = "index" /\ item \in Contents
      /\ UNCHANGED <<file, linked>>
      /\ blobs' = IF item \in Shas(blobs) THEN blobs
                  ELSE blobs \cup {l \in locs : l.sha = item}
  BY DEF ArchiveInd, ArchiveInv, IndexBlob, TypeOK
<1>2. CASE item \in Shas(blobs)
  BY <1>1, <1>2, StatusStays
<1>3. CASE item \notin Shas(blobs)
  <2>1. PICK l \in locs : l.sha = item
    BY <1>1 DEF LocsIndexed, Shas
  <2>2. blobs' = blobs \cup {m \in locs : m.sha = item}
    BY <1>1, <1>3
  <2>3. \A m \in locs : file[m.seg] # "zst"
    BY <1>1 DEF WriterPlaced, LocsRight, Reopening
  <2>4. Status[item] = "absent"
    BY <1>1, <1>3 DEF Status
  <2>5. ASSUME NEW c \in Contents
        PROVE  Status'[c] = IF c = item THEN "open" ELSE Status[c]
    <3>1. CASE c = item
      <4>1. c \in Shas(blobs')
        BY <2>1, <2>2, <3>1 DEF Shas
      <4>2. ~\E m \in blobs' : m.sha = c /\ file'[m.seg] = "zst"
        BY <1>1, <1>3, <2>2, <2>3, <3>1 DEF Shas
      <4> QED
        BY <3>1, <4>1, <4>2 DEF Status, Shas
    <3>2. CASE c # item
      <4>1. c \in Shas(blobs') <=> c \in Shas(blobs)
        BY <2>2, <3>2 DEF Shas
      <4>2. (\E m \in blobs' : m.sha = c /\ file'[m.seg] = "zst")
              <=> (\E m \in blobs : m.sha = c /\ file[m.seg] = "zst")
        BY <1>1, <2>2, <3>2
      <4> QED
        BY <3>2, <4>1, <4>2 DEF Status, Shas
    <3> QED
      BY <3>1, <3>2
  <2>6. Status' = [Status EXCEPT ![item] = "open"]
    <3>1. Status' = [c \in Contents |-> Status'[c]] /\ Status = [c \in Contents |-> Status[c]]
      BY DEF Status
    <3> HIDE DEF Status
    <3> QED
      BY <1>1, <2>5, <3>1
  <2> QED
    BY <1>1, <2>4, <2>6 DEF Abstract!Add
<1> QED
  BY <1>2, <1>3

(* The rename that seals a segment is the abstract Seal: every indexed blob
   is in a sealed file from then on. *)
LEMMA SealIsSeal ==
    ASSUME ArchiveInd, SealFile
    PROVE  Abstract!Seal
<1> USE DEF dbVars
<1>1. /\ TypeOK /\ DataOK /\ WriterPlaced /\ LocsRight /\ IndexResolves /\ pc = "sealCheck"
      /\ UNCHANGED <<blobs, linked>> /\ file' = [file EXCEPT ![cur] = "zst"]
  BY DEF ArchiveInd, ArchiveInv, SealFile
<1>2. cur \in SegIds
  BY <1>1 DEF TypeOK, WriterPlaced
<1>3. \A l \in blobs : file'[l.seg] = "zst"
  <2> TAKE l \in blobs
  <2>1. l.seg \in SegIds /\ (file[l.seg] = "zst" \/ l.seg = cur)
    BY <1>1, LocationParts DEF DataOK, IndexResolves, LocsRight, Startup
  <2> QED
    BY <1>1, <1>2, <2>1 DEF TypeOK
<1>4. ASSUME NEW c \in Contents
      PROVE  Status'[c] = IF Status[c] = "open" THEN "sealed" ELSE Status[c]
  <2>1. CASE c \notin Shas(blobs)
    BY <1>1, <2>1 DEF Status, Shas
  <2>2. CASE c \in Shas(blobs)
    <3>1. \E l \in blobs' : l.sha = c /\ file'[l.seg] = "zst"
      BY <1>1, <1>3, <2>2 DEF Shas
    <3>2. Status'[c] = "sealed"
      BY <1>1, <2>2, <3>1 DEF Status, Shas
    <3>3. Status[c] \in {"open", "sealed"}
      BY <2>2 DEF Status
    <3> QED
      BY <3>2, <3>3
  <2> QED
    BY <2>1, <2>2
<1>5. Status' = [c \in Contents |-> Status'[c]]
  BY DEF Status
<1>6. Status' = [c \in Contents |-> IF Status[c] = "open" THEN "sealed" ELSE Status[c]]
  <2> HIDE DEF Status
  <2> QED
    BY <1>4, <1>5
<1> QED
  BY <1>1, <1>6 DEF Abstract!Seal

(* A chunk of the recovery is the abstract Lose: it forgets blobs of an
   unsealed segment only, and the wheels with them. *)
LEMMA RecoverIsLose ==
    ASSUME ArchiveInd, NEW s \in stale, NEW C \in SUBSET RowsOf(s), RecoverChunk(s, C)
    PROVE  Shas(C) \in SUBSET Contents /\ Abstract!Lose(Shas(C))
<1> USE DEF fileVars
<1>1. /\ TypeOK /\ DataOK /\ StaleIsOpen /\ pc = "recover" /\ file' = file
      /\ C # {} /\ C \subseteq blobs /\ linked' = linked \ Shas(C)
      /\ blobs' = {l \in blobs : l.sha \notin Shas(C)}
      /\ \A l \in C : l.seg = s
  BY DEF ArchiveInd, ArchiveInv, RecoverChunk, RowsOf
<1>2. file[s] = "open"
  BY <1>1 DEF StaleIsOpen
<1>3. Shas(C) \in SUBSET Contents /\ Shas(C) # {}
  BY <1>1, LocationParts DEF DataOK, Shas
<1>4. ASSUME NEW c \in Shas(C)
      PROVE  Status[c] = "open"
  <2>1. PICK l \in C : l.sha = c
    BY DEF Shas
  <2>2. c \in Shas(blobs) /\ c \in Contents
    BY <1>1, <1>3, <2>1 DEF Shas
  <2>3. \A m \in blobs : m.sha = c => m = l
    BY <1>1, <2>1 DEF TypeOK
  <2>4. ~\E m \in blobs : m.sha = c /\ file[m.seg] = "zst"
    BY <1>1, <1>2, <2>1, <2>3
  <2> QED
    BY <2>2, <2>4 DEF Status
<1>5. ASSUME NEW c \in Contents
      PROVE  Status'[c] = IF c \in Shas(C) THEN "absent" ELSE Status[c]
  <2>1. CASE c \in Shas(C)
    <3>1. c \notin Shas(blobs')
      BY <1>1, <2>1 DEF Shas
    <3> QED
      BY <2>1, <3>1 DEF Status, Shas
  <2>2. CASE c \notin Shas(C)
    <3>1. c \in Shas(blobs') <=> c \in Shas(blobs)
      BY <1>1, <2>2 DEF Shas
    <3>2. (\E m \in blobs' : m.sha = c /\ file'[m.seg] = "zst")
            <=> (\E m \in blobs : m.sha = c /\ file[m.seg] = "zst")
      BY <1>1, <2>2
    <3> QED
      BY <2>2, <3>1, <3>2 DEF Status, Shas
  <2> QED
    BY <2>1, <2>2
<1>6. Status' = [c \in Contents |-> Status'[c]]
  BY DEF Status
<1>7. Status' = [c \in Contents |-> IF c \in Shas(C) THEN "absent" ELSE Status[c]]
  <2> HIDE DEF Status
  <2> QED
    BY <1>5, <1>6
<1> QED
  BY <1>1, <1>3, <1>4, <1>7 DEF Abstract!Lose

(* Every step is a step of the abstract store, or changes nothing of it. *)
LEMMA StoreSimulation ==
    ArchiveInd /\ [Next]_vars => [Abstract!Next]_<<Status, linked>>
<1> SUFFICES ASSUME ArchiveInd, [Next]_vars
             PROVE  Abstract!Next \/ UNCHANGED <<Status, linked>>
  OBVIOUS
<1> USE DEF threadVars, writerVars, fileVars, dbVars
<1>1. ASSUME UNCHANGED <<file, blobs, linked>> PROVE UNCHANGED <<Status, linked>>
  BY <1>1, StatusStays
<1>2. CASE Start \/ Truncate \/ RecoverDone \/ OpenRow \/ WriterAdd
  BY <1>1, <1>2 DEF Start, Truncate, RecoverDone, OpenRow, WriterAdd
<1>3. CASE KeepOpen \/ SealRow \/ Age \/ Shutdown \/ Crash \/ UNCHANGED vars
  BY <1>1, <1>3 DEF KeepOpen, SealRow, Age, Shutdown, Crash, vars
<1>4. ASSUME NEW c \in Contents, Take(c) PROVE UNCHANGED <<Status, linked>>
  BY <1>1, <1>4 DEF Take
<1>5. ASSUME NEW s \in stale, NEW C \in SUBSET RowsOf(s), RecoverChunk(s, C)
      PROVE  Abstract!Next
  BY <1>5, RecoverIsLose DEF Abstract!Next
<1>6. CASE OpenFile
  <2>1. file' = [file EXCEPT ![newSeg] = "open"] /\ file[newSeg] = "none" /\ blobs' = blobs
        /\ linked' = linked
    BY <1>6 DEF OpenFile
  <2>2. file \in [SegIds -> {"none", "open", "zst"}] /\ \A l \in blobs : l.seg \in SegIds
    BY LocationParts DEF ArchiveInd, ArchiveInv, TypeOK, DataOK
  <2>3. \A l \in blobs : file'[l.seg] = "zst" <=> file[l.seg] = "zst"
    BY <2>1, <2>2
  <2> QED
    BY <2>1, <2>3, StatusStays
<1>7. CASE IndexBlob
  <2>1. item \in Contents
    BY DEF ArchiveInd, ArchiveInv, TypeOK
  <2> QED
    BY <1>7, <2>1, IndexIsAdd DEF Abstract!Next
<1>8. CASE SealFile
  BY <1>8, SealIsSeal DEF Abstract!Next
<1>9. CASE LinkWheel
  <2>1. item \in Contents /\ item \in Shas(blobs)
    BY <1>9 DEF ArchiveInd, ArchiveInv, TypeOK, ItemIndexed, LinkWheel
  <2>2. Status[item] # "absent"
    BY <2>1 DEF Status
  <2>3. Status' = Status /\ linked' = linked \cup {item}
    BY <1>9, StatusStays DEF LinkWheel
  <2> QED
    BY <2>1, <2>2, <2>3 DEF Abstract!Next, Abstract!Link
<1> QED
  BY <1>2, <1>3, <1>4, <1>5, <1>6, <1>7, <1>8, <1>9 DEF Next, StartNext, ItemNext

(* The segment store with its writer, its files, its index and its recovery
   implements the blob store it promises: a blob can be lost until its segment
   is sealed and never afterwards, and no wheel keeps pointing at a lost one. *)
THEOREM ArchiveImplementsBlobStore == Spec => ImplementsBlobStore
<1>1. Init => Abstract!Init
  BY DEF Init, Abstract!Init, Status, Shas
<1> QED
  BY <1>1, StoreSimulation, ArchiveInvariant, PTL
     DEF Spec, ImplementsBlobStore, Abstract!Spec
=============================================================================
