----------------------------- MODULE ScanProofs -----------------------------
(***************************************************************************)
(* For any table, any page size and any interleaving with other writers, a *)
(* scan sees every row that matches throughout, and with a keyset sees     *)
(* none more often than its order allows.                                  *)
(*                                                                         *)
(* ScanCounts is not inductive: whether a row can still be missed depends  *)
(* on where the cursor is.  ScanInv places every lasting row not seen yet  *)
(* ahead of the cursor or in the page at hand, and every seen row behind.  *)
(* PagesExact counts: PagesInv has the pages before the last one full.     *)
(***************************************************************************)
EXTENDS Scan, FiniteSetTheorems, TLAPS

\* The keyset orders rows by positive numbers, and moving to lane 1 only
\* moves a row forward.
LEMMA PlaceType ==
    ASSUME TypeOK, NEW k \in Keys
    PROVE  /\ Place(k) \in 1..(2 * N)
           /\ kind \notin {"state", "queue"} => Place(k) = k
           /\ kind \in {"state", "queue"} => Place(k) = IF lane[k] = 1 THEN N + k ELSE k
  BY ScanAssumption DEF TypeOK, Place, Keys

\* Counting a set of keys raises their counts, up to the cap, and no other.
LEMMA CountedType ==
    ASSUME TypeOK, NEW S
    PROVE  /\ Counted(S) \in [Keys -> 0..3]
           /\ \A k \in Keys : k \in S => Counted(S)[k] > 0
           /\ \A k \in Keys : k \in S /\ times[k] < 3 => Counted(S)[k] = times[k] + 1
           /\ \A k \in Keys : k \notin S => Counted(S)[k] = times[k]
           /\ \A k \in Keys : Counted(S)[k] = 0 => times[k] = 0 /\ k \notin S
  BY DEF TypeOK, Counted

\* A fresh scan has everything ahead of it.
LEMMA InitInv == Init => ScanInv
<1> SUFFICES ASSUME Init PROVE ScanInv
  OBVIOUS
<1> USE ScanAssumption
<1>1. TypeOK
  <2>1. lane \in [Keys -> {0, 1}]
    BY DEF Init
  <2>2. kind \in AllKinds /\ quiet \in BOOLEAN /\ lasting \subseteq Keys
    BY DEF Init
  <2>3. cursor \in 0..(2 * N) /\ times \in [Keys -> 0..3] /\ pages \in 0..(N + 2)
    BY DEF Init
  <2>4. row \in [Keys -> {"none", "plain", "hit"}] /\ page \subseteq Keys /\ more \in BOOLEAN
    BY DEF Init
  <2>5. pc = "page" /\ writes \in Nat
    BY DEF Init
  <2> QED BY <2>1, <2>2, <2>3, <2>4, <2>5 DEF TypeOK
<1>2. \A k \in Keys : Place(k) > 0
  BY <1>1, PlaceType
<1>3. LastingIsAhead
  BY <1>1, <1>2 DEF Init, LastingIsAhead, Keys
<1>4. Phases /\ LastingIsSeen /\ SeenIsBehind /\ RequeuedIsLane1
  BY <1>1 DEF Init, Phases, LastingIsSeen, SeenIsBehind, RequeuedIsLane1
<1> QED BY <1>1, <1>3, <1>4 DEF ScanInv

\* With no rows left, no lasting row is left.
LEMMA ReadNothingInv == ScanInv /\ ReadNothing => ScanInv'
<1> SUFFICES ASSUME ScanInv, ReadNothing PROVE ScanInv'
  OBVIOUS
<1> USE ScanAssumption DEF ScanInv
<1>1. TypeOK'
  BY DEF ReadNothing, PageRead, TypeOK
<1>2. \A k \in lasting : times[k] > 0
  <2> SUFFICES ASSUME NEW k \in lasting, times[k] = 0 PROVE FALSE
    BY DEF TypeOK
  <2>1. k \in Keys /\ row[k] = "hit"
    BY DEF LastingIsAhead, TypeOK
  <2>2. k \in Selected
    BY <2>1 DEF Selected, Hits
  <2>3. kind \in Keyset => Place(k) > cursor
    BY DEF LastingIsAhead, InHand, ReadNothing
  <2> QED BY <2>2, <2>3 DEF Ahead, ReadNothing
<1>3. LastingIsSeen' /\ LastingIsAhead'
  BY <1>2 DEF LastingIsSeen, LastingIsAhead, ReadNothing
<1>4. Phases' /\ SeenIsBehind' /\ RequeuedIsLane1'
  BY DEF Phases, SeenIsBehind, RequeuedIsLane1, ReadNothing
<1> QED BY <1>1, <1>3, <1>4

\* A page takes the first rows ahead of the cursor and moves the cursor to
\* its last row.
LEMMA ReadPageInv == ScanInv /\ ReadPage => ScanInv'
<1> SUFFICES ASSUME ScanInv, ReadPage PROVE ScanInv'
  OBVIOUS
<1> USE ScanAssumption DEF ScanInv
<1>1. PICK P \in SUBSET Ahead, last \in Ahead :
         /\ IsPage(P)
         /\ last \in P
         /\ \A k \in P : Place(k) <= Place(last)
         /\ page' = IF kind = "fsck" THEN {} ELSE P
         /\ more' = HasMore(P)
         /\ cursor' = IF kind \in Keyset THEN Place(last) ELSE 0
         /\ times' = IF kind = "fsck" THEN Counted(P) ELSE times
         /\ pc' = WithPage(HasMore(P))
  BY DEF ReadPage
<1>2. /\ pc = "page"
      /\ kind' = kind /\ row' = row /\ lane' = lane /\ lasting' = lasting
      /\ writes' = writes /\ quiet' = quiet
      /\ PageRead
  BY DEF ReadPage
<1>3. Ahead \subseteq Keys
  BY DEF Ahead, Selected, Hits
<1>4. P \subseteq Keys /\ last \in Keys /\ Place(last) \in 1..(2 * N)
  BY <1>1, <1>3, PlaceType
<1>5. \A k \in Keys : Place(k)' = Place(k)
  BY <1>2 DEF Place
<1>6. HasMore(P) \in BOOLEAN
  BY DEF HasMore
<1>7. ~HasMore(P) => P = Ahead
  BY <1>1 DEF HasMore, IsPage
<1>8. pc' = IF kind = "fsck" THEN AfterPage(more') ELSE IF kind = "window" THEN "judge" ELSE "write"
  BY <1>1 DEF WithPage
<1>9. TypeOK'
  BY <1>1, <1>2, <1>4, <1>6, <1>8, CountedType DEF TypeOK, PageRead, AfterPage
<1>10. \A k \in lasting : times[k] = 0 => k \in Keys /\ row[k] = "hit" /\ k \in Ahead
  <2> TAKE k \in lasting
  <2> HAVE times[k] = 0
  <2>1. k \in Keys /\ row[k] = "hit"
    BY DEF LastingIsAhead, TypeOK
  <2>2. k \in Selected
    BY <2>1 DEF Selected, Hits
  <2>3. kind \in Keyset => Place(k) > cursor
    BY <1>2 DEF LastingIsAhead, InHand
  <2> QED BY <2>1, <2>2, <2>3 DEF Ahead
<1>11. kind \in Keyset => \A k \in Ahead : k \in P \/ Place(k) > Place(last)
  BY <1>1, <1>3, <1>4, PlaceType DEF IsPage
<1>12. ASSUME NEW k \in lasting', times'[k] = 0
       PROVE  times[k] = 0 /\ k \in Keys /\ k \in Ahead /\ (kind = "fsck" => k \notin P)
  <2>1. k \in Keys /\ times[k] = 0
    BY <1>1, <1>2, <1>12, CountedType DEF TypeOK
  <2>2. kind = "fsck" => k \notin P
    BY <1>1, <1>12, <2>1, CountedType
  <2> QED BY <1>2, <1>10, <2>1, <2>2
<1>13. LastingIsSeen'
  <2> SUFFICES ASSUME pc' = "done", NEW k \in lasting', times'[k] = 0 PROVE FALSE
    BY <1>9 DEF LastingIsSeen, TypeOK
  <2>1. kind = "fsck" /\ ~HasMore(P)
    BY <1>1, <1>6, <1>8 DEF AfterPage
  <2> QED BY <1>7, <1>12, <2>1
<1>14. LastingIsAhead'
  <2> SUFFICES ASSUME NEW k \in lasting', times'[k] = 0
               PROVE  /\ row'[k] = "hit"
                      /\ kind \in Keyset => Place(k) > cursor' \/ InHand(k)'
                      /\ pc' \in {"judge", "write"} /\ ~more' => InHand(k)'
    BY <1>2, <1>5, <1>9 DEF LastingIsAhead, TypeOK
  <2>1. k \in Ahead /\ k \in Keys /\ row'[k] = "hit" /\ (kind = "fsck" => k \notin P)
    BY <1>2, <1>10, <1>12
  <2>2. k \in P /\ kind # "fsck" => InHand(k)'
    <3> SUFFICES ASSUME k \in P, kind # "fsck" PROVE InHand(k)'
      OBVIOUS
    <3>1. page' = P /\ pc' \in {"judge", "write"} /\ k <= k
      BY <1>1, <1>8, <2>1 DEF Keys
    <3> QED BY <3>1 DEF InHand
  <2>3. kind \in Keyset => Place(k) > cursor' \/ InHand(k)'
    BY <1>1, <1>11, <2>1, <2>2
  <2>4. pc' \in {"judge", "write"} /\ ~more' => InHand(k)'
    BY <1>1, <1>7, <1>8, <2>1, <2>2 DEF AfterPage
  <2> QED BY <2>1, <2>3, <2>4
<1>15. kind \in Keyset => \A k \in P : Place(k) > cursor /\ Place(k) <= cursor'
  BY <1>1, <1>3, <1>4, PlaceType DEF Ahead
<1>16. kind \in Keyset => cursor' > cursor /\ cursor' \in Nat /\ cursor \in Nat
  BY <1>1, <1>4, <1>15 DEF TypeOK
<1>17. SeenIsBehind'
  <2> SUFFICES ASSUME kind \in {"fsck", "window", "project"}
               PROVE  /\ \A k \in Keys : times'[k] > 0 => times'[k] = 1 /\ k <= cursor'
                      /\ \A k \in page' : k <= cursor'
                      /\ pc' = "write" => \A k \in page' : times'[k] = 0
                      /\ pc' = "judge" => \A i \in page', k \in Keys : times'[k] > 0 => k < i
    BY <1>2 DEF SeenIsBehind
  <2>1. kind \in Keyset /\ \A k \in Keys : Place(k) = k
    BY PlaceType DEF Keyset
  <2>2. \A k \in P : k \in Keys /\ k > cursor /\ k <= cursor'
    BY <1>4, <1>15, <2>1
  <2>3. \A k \in Keys : times[k] > 0 => times[k] = 1 /\ k <= cursor /\ k <= cursor' /\ k \notin P
    BY <1>16, <2>1, <2>2 DEF SeenIsBehind, Keys
  <2>4. \A k \in P : times[k] = 0
    BY <1>4, <2>3 DEF TypeOK
  <2>5. \A k \in Keys : times'[k] > 0 => times'[k] = 1 /\ k <= cursor'
    <3> SUFFICES ASSUME NEW k \in Keys, times'[k] > 0 PROVE times'[k] = 1 /\ k <= cursor'
      OBVIOUS
    <3>1. CASE kind = "fsck" /\ k \in P
      <4>1. times'[k] = times[k] + 1
        BY <1>1, <2>4, <3>1, CountedType
      <4> QED BY <2>2, <2>4, <3>1, <4>1
    <3>2. CASE ~(kind = "fsck" /\ k \in P)
      <4>1. times'[k] = times[k]
        BY <1>1, <3>2, CountedType
      <4> QED BY <2>3, <4>1
    <3> QED BY <3>1, <3>2
  <2>6. \A k \in page' : k <= cursor'
    BY <1>1, <2>2
  <2>7. pc' = "write" => \A k \in page' : times'[k] = 0
    BY <1>1, <1>8, <2>4 DEF AfterPage
  <2>8. pc' = "judge" => \A i \in page', k \in Keys : times'[k] > 0 => k < i
    <3> SUFFICES ASSUME pc' = "judge", NEW i \in page', NEW k \in Keys, times'[k] > 0 PROVE k < i
      OBVIOUS
    <3>1. kind = "window" /\ i \in P /\ times[k] > 0
      BY <1>1, <1>8 DEF AfterPage
    <3>2. k <= cursor /\ i > cursor /\ i \in Int /\ k \in Int /\ cursor \in Int
      BY <1>16, <2>1, <2>2, <2>3, <3>1 DEF Keys
    <3> QED BY <3>2
  <2> QED BY <2>5, <2>6, <2>7, <2>8
<1>18. RequeuedIsLane1'
  <2> SUFFICES ASSUME kind \in {"state", "queue"}
               PROVE  /\ \A k \in Keys : times'[k] > 0 => lane'[k] = 1 /\ times'[k] <= 2
                      /\ \A k \in Keys : times'[k] = 2 => N + k <= cursor'
                      /\ \A k \in page' : times'[k] <= 1 /\ (times'[k] = 1 => N + k <= cursor')
    BY <1>2 DEF RequeuedIsLane1
  <2>1. kind \in Keyset /\ times' = times /\ page' = P
    BY <1>1 DEF Keyset
  <2>2. \A k \in Keys : times[k] > 0 => lane[k] = 1 /\ times[k] <= 2 /\ Place(k) = N + k
    BY PlaceType DEF RequeuedIsLane1
  <2>3. \A k \in Keys : times[k] = 2 => N + k <= cursor
    BY DEF RequeuedIsLane1
  <2>4. \A k \in Keys : times[k] = 2 => N + k <= cursor'
    BY <1>16, <2>1, <2>3 DEF Keys
  <2>5. ASSUME NEW k \in P PROVE times[k] <= 1 /\ (times[k] = 1 => N + k <= cursor')
    <3>1. k \in Keys /\ Place(k) > cursor /\ Place(k) <= cursor' /\ times[k] \in 0..3
      BY <1>4, <1>15, <2>1 DEF TypeOK
    <3>2. times[k] # 2
      BY <1>16, <2>1, <2>2, <2>3, <3>1 DEF Keys
    <3> QED BY <2>2, <3>1, <3>2
  <2> QED BY <1>2, <2>1, <2>2, <2>4, <2>5
<1>19. Phases'
  BY <1>1, <1>2, <1>8 DEF Phases, AfterPage
<1> QED BY <1>9, <1>13, <1>14, <1>17, <1>18, <1>19

\* Rule 17 judges the range of its page, which is ahead of all it counted.
LEMMA JudgeInv == ScanInv /\ Judge => ScanInv'
<1> SUFFICES ASSUME ScanInv, Judge PROVE ScanInv'
  OBVIOUS
<1> USE ScanAssumption DEF ScanInv
<1>1. /\ kind = "window" /\ pc = "judge"
      /\ kind' = kind /\ row' = row /\ lane' = lane /\ lasting' = lasting
      /\ cursor' = cursor /\ more' = more /\ pages' = pages
      /\ writes' = writes /\ quiet' = quiet
      /\ times' = Counted(Window) /\ page' = {} /\ pc' = AfterPage(more)
  BY DEF Judge, Phases
<1>2. TypeOK'
  BY <1>1, CountedType DEF TypeOK, AfterPage
<1>3. \A k \in Keys : Place(k)' = Place(k)
  BY <1>1 DEF Place
<1>4. ASSUME NEW k \in lasting', times'[k] = 0
      PROVE  k \in Keys /\ times[k] = 0 /\ row[k] = "hit" /\ ~InHand(k)
  <2>1. k \in Keys /\ times[k] = 0 /\ k \notin Window
    BY <1>1, <1>4, CountedType DEF TypeOK
  <2>2. row[k] = "hit"
    BY <1>1, <2>1 DEF LastingIsAhead
  <2>3. ~InHand(k)
    BY <1>1, <2>1, <2>2 DEF InHand, Window, Hits
  <2> QED BY <2>1, <2>2, <2>3
<1>5. LastingIsSeen'
  <2> SUFFICES ASSUME pc' = "done", NEW k \in lasting', times'[k] = 0 PROVE FALSE
    BY <1>2 DEF LastingIsSeen, TypeOK
  <2>1. ~more
    BY <1>1 DEF AfterPage
  <2> QED BY <1>1, <1>4, <2>1 DEF LastingIsAhead
<1>6. LastingIsAhead'
  <2> SUFFICES ASSUME NEW k \in lasting', times'[k] = 0
               PROVE  row'[k] = "hit" /\ Place(k)' > cursor'
    BY <1>1 DEF LastingIsAhead, AfterPage
  <2>1. kind \in Keyset
    BY <1>1 DEF Keyset
  <2> QED BY <1>1, <1>3, <1>4, <2>1 DEF LastingIsAhead
<1>7. \A k \in Window : k \in Keys /\ times[k] = 0 /\ k <= cursor
  <2> SUFFICES ASSUME NEW k \in Window PROVE k \in Keys /\ times[k] = 0 /\ k <= cursor
    OBVIOUS
  <2>1. PICK i \in page, j \in page : i <= k /\ k <= j
    BY DEF Window
  <2>2. k \in Keys /\ i \in Keys /\ j \in Keys
    BY DEF Window, Hits, TypeOK
  <2>3. times[k] \in 0..3 /\ (times[k] > 0 => k < i) /\ j <= cursor /\ cursor \in Int
    BY <1>1, <2>1, <2>2 DEF SeenIsBehind, TypeOK
  <2> QED BY <2>1, <2>2, <2>3 DEF Keys
<1>8. SeenIsBehind'
  <2> SUFFICES ASSUME NEW k \in Keys, times'[k] > 0 PROVE times'[k] = 1 /\ k <= cursor
    BY <1>1 DEF SeenIsBehind, AfterPage
  <2>1. CASE k \in Window
    BY <1>1, <1>7, <2>1, CountedType
  <2>2. CASE k \notin Window
    BY <1>1, <2>2, CountedType DEF SeenIsBehind
  <2> QED BY <2>1, <2>2
<1>9. Phases' /\ RequeuedIsLane1'
  BY <1>1 DEF Phases, RequeuedIsLane1, AfterPage
<1> QED BY <1>2, <1>5, <1>6, <1>8, <1>9

\* A campaign's op requeues the page, which holds every lasting row that is
\* neither seen nor ahead.
LEMMA WriteChunkInv == ScanInv /\ WriteChunk => ScanInv'
<1> SUFFICES ASSUME ScanInv, WriteChunk PROVE ScanInv'
  OBVIOUS
<1> USE ScanAssumption DEF ScanInv
<1>1. /\ kind \notin {"fsck", "window"} /\ pc = "write"
      /\ kind' = kind /\ lasting' = lasting
      /\ cursor' = cursor /\ more' = more /\ pages' = pages
      /\ writes' = writes /\ quiet' = quiet
      /\ times' = Counted(Updated) /\ page' = {} /\ pc' = AfterPage(more)
      /\ row' = [k \in Keys |-> IF k \in Updated THEN RequeuedRow(k) ELSE row[k]]
      /\ lane' = [k \in Keys |->
                    IF k \in Updated /\ kind \in {"state", "queue"} THEN 1 ELSE lane[k]]
  BY DEF WriteChunk, Phases
<1>2. \A k \in Keys : RequeuedRow(k) \in {"plain", "hit"}
  BY DEF RequeuedRow
<1>3. Updated \subseteq Keys
  BY DEF Updated, TypeOK
<1>4. TypeOK'
  <2>1. times' \in [Keys -> 0..3]
    BY <1>1, CountedType
  <2>2. row' \in [Keys -> {"none", "plain", "hit"}] /\ lane' \in [Keys -> {0, 1}]
    BY <1>1, <1>2 DEF TypeOK
  <2> QED BY <1>1, <2>1, <2>2 DEF TypeOK, AfterPage
<1>5. ASSUME NEW k \in lasting', times'[k] = 0
      PROVE  /\ k \in Keys /\ times[k] = 0 /\ row[k] = "hit" /\ ~InHand(k)
             /\ row'[k] = row[k] /\ lane'[k] = lane[k]
  <2>1. k \in Keys /\ times[k] = 0 /\ k \notin Updated
    BY <1>1, <1>5, CountedType DEF TypeOK
  <2>2. row[k] = "hit"
    BY <1>1, <2>1 DEF LastingIsAhead
  <2>3. ~InHand(k)
    BY <1>1, <2>1, <2>2 DEF InHand, Updated, Hits
  <2> QED BY <1>1, <2>1, <2>2, <2>3
<1>6. LastingIsSeen'
  <2> SUFFICES ASSUME pc' = "done", NEW k \in lasting', times'[k] = 0 PROVE FALSE
    BY <1>4 DEF LastingIsSeen, TypeOK
  <2>1. ~more
    BY <1>1 DEF AfterPage
  <2> QED BY <1>1, <1>5, <2>1 DEF LastingIsAhead
<1>7. LastingIsAhead'
  <2> SUFFICES ASSUME NEW k \in lasting', times'[k] = 0
               PROVE  row'[k] = "hit" /\ (kind \in Keyset => Place(k)' > cursor')
    BY <1>1 DEF LastingIsAhead, AfterPage
  <2>1. Place(k)' = Place(k)
    BY <1>1, <1>5 DEF Place
  <2> QED BY <1>1, <1>5, <2>1 DEF LastingIsAhead
<1>8. SeenIsBehind'
  <2> SUFFICES ASSUME kind = "project", NEW k \in Keys, times'[k] > 0
               PROVE  times'[k] = 1 /\ k <= cursor
    BY <1>1 DEF SeenIsBehind, AfterPage
  <2>1. \A i \in page : times[i] = 0 /\ i <= cursor
    BY <1>1 DEF SeenIsBehind
  <2>2. CASE k \in Updated
    BY <1>1, <2>1, <2>2, CountedType DEF Updated
  <2>3. CASE k \notin Updated
    BY <1>1, <2>3, CountedType DEF SeenIsBehind
  <2> QED BY <2>2, <2>3
<1>9. RequeuedIsLane1'
  <2> SUFFICES ASSUME kind \in {"state", "queue"}, NEW k \in Keys
               PROVE  /\ times'[k] > 0 => lane'[k] = 1 /\ times'[k] <= 2
                      /\ times'[k] = 2 => N + k <= cursor
    BY <1>1 DEF RequeuedIsLane1, AfterPage
  <2>1. CASE k \in Updated
    <3>1. times[k] \in 0..3 /\ times[k] <= 1 /\ (times[k] = 1 => N + k <= cursor)
      BY <1>1, <2>1 DEF RequeuedIsLane1, Updated, TypeOK
    <3>2. times'[k] = times[k] + 1 /\ lane'[k] = 1
      BY <1>1, <2>1, <3>1, CountedType
    <3> QED BY <3>1, <3>2
  <2>2. CASE k \notin Updated
    <3>1. times'[k] = times[k] /\ lane'[k] = lane[k]
      BY <1>1, <2>2, CountedType
    <3> QED BY <3>1 DEF RequeuedIsLane1
  <2> QED BY <2>1, <2>2
<1>10. Phases'
  BY <1>1 DEF Phases, AfterPage
<1> QED BY <1>4, <1>6, <1>7, <1>8, <1>9, <1>10

\* A campaign that fails claims nothing more.
LEMMA WriteFailsInv == ScanInv /\ WriteFails => ScanInv'
<1> SUFFICES ASSUME ScanInv, WriteFails PROVE ScanInv'
  OBVIOUS
<1> USE DEF ScanInv, WriteFails
<1>1. TypeOK' /\ Phases' /\ LastingIsSeen'
  BY DEF TypeOK, Phases, LastingIsSeen
<1>2. LastingIsAhead'
  BY DEF LastingIsAhead, Place
<1>3. SeenIsBehind' /\ RequeuedIsLane1'
  BY DEF SeenIsBehind, RequeuedIsLane1
<1> QED BY <1>1, <1>2, <1>3

\* Another writer's commit moves rows forward only, and a row it takes out
\* of the query before the scan saw it is no longer lasting.
LEMMA OtherWriteInv ==
    ASSUME ScanInv, NEW k \in Keys, NEW r \in {"none", "plain", "hit"}, NEW l \in {0, 1},
           OtherWrite(k, r, l)
    PROVE  ScanInv'
<1> USE ScanAssumption DEF ScanInv
<1>1. /\ kind' = kind /\ pc' = pc /\ cursor' = cursor /\ page' = page /\ more' = more
      /\ times' = times /\ pages' = pages
      /\ pc \in {"page", "judge", "write"}
      /\ row' = [row EXCEPT ![k] = r] /\ lane' = [lane EXCEPT ![k] = l]
      /\ lane[k] = 1 => l = 1
      /\ lasting' = IF r = "hit" \/ times[k] > 0 THEN lasting ELSE lasting \ {k}
  BY DEF OtherWrite
<1>2. TypeOK'
  <2>1. row' \in [Keys -> {"none", "plain", "hit"}] /\ lane' \in [Keys -> {0, 1}]
    BY <1>1 DEF TypeOK
  <2>2. lasting' \subseteq Keys
    BY <1>1 DEF TypeOK
  <2>3. writes' \in Nat
    BY DEF OtherWrite, TypeOK
  <2>4. quiet' \in BOOLEAN
    BY DEF OtherWrite
  <2> QED BY <1>1, <2>1, <2>2, <2>3, <2>4 DEF TypeOK
<1>3. \A i \in Keys : lane[i] = 1 => lane'[i] = 1
  BY <1>1 DEF TypeOK
<1>4. \A i \in Keys : Place(i)' >= Place(i)
  BY <1>1, <1>3 DEF Place, Keys, TypeOK
<1>5. LastingIsSeen'
  BY <1>1 DEF LastingIsSeen
<1>6. LastingIsAhead'
  <2> SUFFICES ASSUME NEW i \in lasting', times'[i] = 0
               PROVE  /\ row'[i] = "hit"
                      /\ kind \in Keyset => Place(i)' > cursor \/ InHand(i)
                      /\ pc \in {"judge", "write"} /\ ~more => InHand(i)
    BY <1>1 DEF LastingIsAhead, InHand
  <2>1. i \in lasting /\ i \in Keys /\ times[i] = 0
    BY <1>1 DEF TypeOK
  <2>2. row'[i] = "hit"
    BY <1>1, <2>1 DEF LastingIsAhead, TypeOK
  <2>3. kind \in Keyset => Place(i) > cursor \/ InHand(i)
    BY <1>1, <2>1 DEF LastingIsAhead
  <2>4. Place(i) \in Int /\ Place(i)' \in Int /\ cursor \in Int
    BY <1>2, <2>1 DEF Place, Keys, TypeOK
  <2>5. kind \in Keyset => Place(i)' > cursor \/ InHand(i)
    BY <1>4, <2>1, <2>3, <2>4
  <2> QED BY <2>1, <2>2, <2>5 DEF LastingIsAhead
<1>7. Phases' /\ SeenIsBehind'
  BY <1>1 DEF Phases, SeenIsBehind
<1>8. RequeuedIsLane1'
  BY <1>1, <1>3 DEF RequeuedIsLane1
<1> QED BY <1>2, <1>5, <1>6, <1>7, <1>8

\* No step of the scan or of another writer breaks ScanInv.
LEMMA NextInv == ScanInv /\ [Next]_vars => ScanInv'
<1> SUFFICES ASSUME ScanInv, [Next]_vars PROVE ScanInv'
  OBVIOUS
<1>1. CASE ScanNext
  BY <1>1, ReadNothingInv, ReadPageInv, JudgeInv, WriteChunkInv, WriteFailsInv DEF ScanNext
<1>2. CASE \E k \in Keys, r \in {"none", "plain", "hit"}, l \in {0, 1} : OtherWrite(k, r, l)
  BY <1>2, OtherWriteInv
<1>3. CASE UNCHANGED vars
  <2>1. TypeOK' /\ Phases' /\ LastingIsSeen'
    BY <1>3 DEF vars, ScanInv, TypeOK, Phases, LastingIsSeen
  <2>2. LastingIsAhead'
    BY <1>3 DEF vars, ScanInv, LastingIsAhead, InHand, Place
  <2>3. SeenIsBehind' /\ RequeuedIsLane1'
    BY <1>3 DEF vars, ScanInv, SeenIsBehind, RequeuedIsLane1
  <2> QED BY <2>1, <2>2, <2>3 DEF ScanInv
<1> QED BY <1>1, <1>2, <1>3 DEF Next

(* Whatever other writers commit between two pages, a finished scan has    *)
(* seen every row that matched all along, and a scan with a keyset counts  *)
(* no row more often than its order lets it come by (_chunked_scan,        *)
(* _check_duplicate_change_seq, reprocess, unquarantine).                  *)
THEOREM ScanSeesAll == Spec => []ScanCounts
<1>1. ScanInv => ScanCounts
  <2> SUFFICES ASSUME ScanInv PROVE SeenOnce
    BY DEF ScanInv, ScanCounts
  <2> SUFFICES ASSUME kind \in Keyset, NEW k \in Keys PROVE times[k] <= MaxTimes
    BY DEF SeenOnce
  <2>1. times[k] \in 0..3
    BY DEF ScanInv, TypeOK
  <2>2. CASE kind \in {"state", "queue"}
    BY <2>1, <2>2 DEF ScanInv, RequeuedIsLane1, MaxTimes
  <2>3. CASE kind \in {"fsck", "window", "project"}
    BY <2>1, <2>3 DEF ScanInv, SeenIsBehind, MaxTimes
  <2> QED BY <2>2, <2>3 DEF Keyset
<1> QED BY <1>1, InitInv, NextInv, PTL DEF Spec

-----------------------------------------------------------------------------
(* The pages of an undisturbed fsck scan.  The rows behind the cursor are  *)
(* whole pages until the last one, so their number is a multiple of Chunk  *)
(* and the last page is what remains.                                      *)

\* Multiples: a full number of pages holds at least one row each.
LEMMA PagesWithin ==
    ASSUME NEW p \in Nat, NEW c \in Nat \ {0}
    PROVE  p * c \in Nat /\ p <= p * c /\ (p + 1) * c = p * c + c
  BY SMTT(30)

\* Rounding up: p full pages and a last one of r rows.
LEMMA CeilPages ==
    ASSUME NEW p \in Nat, NEW c \in Nat \ {0}, NEW r \in 1..c
    PROVE  (p * c + r + c - 1) \div c = p + 1
  BY SMTT(30)

\* The rows of the table, and those on either side of the cursor, are finite.
LEMMA HitsFinite ==
    /\ IsFiniteSet(Hits) /\ Cardinality(Hits) \in Nat /\ Cardinality(Hits) <= N
    /\ \A S \in SUBSET Hits :
         IsFiniteSet(S) /\ Cardinality(S) \in Nat /\ Cardinality(S) <= Cardinality(Hits)
<1>1. IsFiniteSet(Keys) /\ Cardinality(Keys) = N
  BY ScanAssumption, FS_Interval DEF Keys
<1>2. Hits \in SUBSET Keys
  BY DEF Hits
<1>3. IsFiniteSet(Hits) /\ Cardinality(Hits) <= N
  BY <1>1, <1>2, FS_Subset
<1>4. Cardinality(Hits) \in Nat
  BY <1>3, FS_CardinalityType
<1>5. ASSUME NEW S \in SUBSET Hits
      PROVE  IsFiniteSet(S) /\ Cardinality(S) \in Nat /\ Cardinality(S) <= Cardinality(Hits)
  <2>1. IsFiniteSet(S) /\ Cardinality(S) <= Cardinality(Hits)
    BY <1>3, FS_Subset
  <2> QED BY <2>1, FS_CardinalityType
<1> QED BY <1>3, <1>4, <1>5

\* Disjoint sets of rows count together.
LEMMA HitsAdd ==
    ASSUME NEW S \in SUBSET Hits, NEW T \in SUBSET Hits, S \cap T = {}
    PROVE  Cardinality(S \cup T) = Cardinality(S) + Cardinality(T)
<1>1. IsFiniteSet(S) /\ IsFiniteSet(T) /\ Cardinality(S) \in Nat /\ Cardinality(T) \in Nat
  BY HitsFinite
<1>2. Cardinality(S \cup T) = Cardinality(S) + Cardinality(T) - Cardinality(S \cap T)
  BY <1>1, FS_Union
<1>3. Cardinality(S \cap T) = 0
  BY FS_EmptySet
<1> QED BY <1>1, <1>2, <1>3

\* For fsck the keyset is the row's number.
LEMMA FsckOrder ==
    ASSUME TypeOK, kind = "fsck"
    PROVE  /\ \A k \in Keys : Place(k) = k
           /\ Ahead = {k \in Hits : k > cursor}
           /\ Hits \subseteq Keys
           /\ cursor \in Nat
<1>1. \A k \in Keys : Place(k) = k
  BY PlaceType
<1>2. Hits \subseteq Keys
  BY DEF Hits
<1>3. Ahead = {k \in Hits : Place(k) > cursor}
  BY DEF Ahead, Keyset, Selected
<1> QED BY <1>1, <1>2, <1>3, ScanAssumption DEF TypeOK

\* Nothing is behind a cursor that has not moved.
LEMMA PagesInitial == Init => PagesInv
<1> SUFFICES ASSUME Init PROVE PagesInv
  OBVIOUS
<1>1. pc = "page" /\ pages = 0 /\ cursor = 0
  BY DEF Init
<1>2. Behind = {}
  BY <1>1, ScanAssumption DEF Behind, Hits, Keys
<1>3. Cardinality(Behind) = pages * Chunk
  BY <1>1, <1>2, FS_EmptySet, ScanAssumption
<1> QED BY <1>1, <1>3 DEF PagesInv, PagesFull, PagesExact

\* The page after the last row is only read of an empty table.
LEMMA ReadNothingPages == ScanInv /\ PagesInv /\ ReadNothing => PagesInv'
<1> SUFFICES ASSUME ScanInv, PagesInv, ReadNothing, quiet, kind = "fsck" PROVE PagesInv'
  BY DEF ReadNothing, PagesInv, PagesFull, PagesExact
<1>1. TypeOK /\ pc = "page" /\ Ahead = {} /\ pc' = "done" /\ row' = row
  BY DEF ScanInv, ReadNothing
<1>2. pages = 0 /\ cursor = 0
  BY <1>1 DEF PagesInv, PagesFull, TypeOK
<1>3. Hits = {}
  BY <1>1, <1>2, FsckOrder DEF Keys
<1>4. Hits' = {} /\ pages' = 1
  BY <1>1, <1>2, <1>3, ScanAssumption DEF Hits, ReadNothing, PageRead
<1> QED BY <1>1, <1>4 DEF PagesInv, PagesFull, PagesExact

\* A page with a successor is full and leaves rows ahead; the last one holds
\* what remains.
LEMMA ReadPagePages == ScanInv /\ PagesInv /\ ReadPage => PagesInv'
<1> SUFFICES ASSUME ScanInv, PagesInv, ReadPage, quiet, kind = "fsck" PROVE PagesInv'
  BY DEF ReadPage, PagesInv, PagesFull, PagesExact
<1>1. PICK P \in SUBSET Ahead, last \in Ahead :
         /\ IsPage(P)
         /\ last \in P
         /\ \A k \in P : Place(k) <= Place(last)
         /\ cursor' = IF kind \in Keyset THEN Place(last) ELSE 0
         /\ pc' = WithPage(HasMore(P))
  BY DEF ReadPage
<1>2. /\ TypeOK /\ pc = "page" /\ kind' = kind /\ row' = row /\ lane' = lane
      /\ PageRead
  BY DEF ScanInv, ReadPage
<1>3. /\ Cardinality(Behind) = pages * Chunk
      /\ pages \in Nat /\ Chunk \in Nat \ {0} /\ N \in Nat
  BY <1>2, ScanAssumption DEF PagesInv, PagesFull, TypeOK
<1>4. /\ \A k \in Keys : Place(k) = k
      /\ Ahead = {k \in Hits : k > cursor}
      /\ Hits \subseteq Keys
      /\ cursor \in Nat
  BY <1>2, FsckOrder
<1>5. P \subseteq Hits /\ last \in Hits /\ last \in Keys /\ last \in Nat /\ last > cursor
  BY <1>1, <1>4 DEF Keys
<1>6. cursor' = last
  BY <1>1, <1>4, <1>5 DEF Keyset
<1>7. \A k \in P : k <= last
  BY <1>1, <1>4, <1>5
<1>8. \A j \in Ahead \ P : j > last
  BY <1>1, <1>4, <1>5 DEF IsPage, Keyset
<1>9. Behind \cap P = {} /\ Behind \in SUBSET Hits
  <2>1. \A k \in P : k > cursor /\ k \in Nat
    BY <1>1, <1>4 DEF Keys
  <2> QED BY <1>4, <2>1 DEF Behind
<1>10. Cardinality(Behind \cup P) = pages * Chunk + Cardinality(P)
  BY <1>3, <1>5, <1>9, HitsAdd
<1>11. Behind' = Behind \cup P
  <2>1. Behind' = {k \in Hits : k <= last}
    BY <1>2, <1>6 DEF Behind, Hits
  <2>2. ASSUME NEW k \in Hits PROVE k <= last <=> k \in Behind \cup P
    <3>1. k \in Nat /\ (k \in Behind <=> k <= cursor) /\ (k \in Ahead <=> k > cursor)
      BY <1>4 DEF Behind, Keys
    <3> QED BY <1>4, <1>5, <1>7, <1>8, <3>1
  <2> QED BY <1>5, <1>9, <2>1, <2>2
<1>12. pages' = pages + 1
  <2>1. pages <= pages * Chunk /\ pages * Chunk <= N
    <3>1. Cardinality(Behind) <= Cardinality(Hits) /\ Cardinality(Hits) <= N
          /\ Cardinality(Behind) \in Nat /\ Cardinality(Hits) \in Nat
      BY <1>9, HitsFinite
    <3>2. pages <= pages * Chunk
      BY <1>3, PagesWithin
    <3> QED BY <1>3, <3>1, <3>2
  <2>2. pages * Chunk \in Nat
    BY <1>3, PagesWithin
  <2>3. pages < N + 2
    BY <1>3, <2>1, <2>2
  <2> QED BY <1>2, <2>3 DEF PageRead
<1>13. Cardinality(P) \in Nat /\ Cardinality(P) # 0
  BY <1>1, <1>5, HitsFinite, FS_EmptySet
<1>14. HasMore(P) = (P # Ahead)
  BY DEF HasMore, OverFetch
<1>15. CASE P # Ahead
  <2>1. pc' = "page" /\ Cardinality(P) = Chunk
    BY <1>1, <1>14, <1>15 DEF WithPage, AfterPage, IsPage
  <2>2. Cardinality(Behind)' = pages' * Chunk
    BY <1>3, <1>10, <1>11, <1>12, <2>1, PagesWithin
  <2>3. Ahead' # {}
    <3>1. PICK j \in Ahead : j \notin P
      BY <1>15
    <3>2. j \in Hits /\ j \in Keys /\ j > last
      BY <1>4, <1>8, <3>1
    <3>3. Place(j)' = Place(j) /\ Place(j) = j /\ j \in Hits'
      BY <1>2, <1>4, <3>2 DEF Place, Hits
    <3>4. j \in Ahead'
      BY <1>2, <1>6, <3>2, <3>3 DEF Ahead, Selected, Keyset
    <3> QED BY <3>4
  <2>4. pages' # 0
    BY <1>3, <1>12
  <2> QED BY <2>1, <2>2, <2>3, <2>4 DEF PagesInv, PagesFull, PagesExact
<1>16. CASE P = Ahead
  <2>1. pc' = "done"
    BY <1>1, <1>14, <1>16 DEF WithPage, AfterPage
  <2>2. Cardinality(P) <= Chunk
    BY <1>1, <1>16 DEF IsPage
  <2>3. Cardinality(P) \in 1..Chunk
    BY <1>3, <1>13, <2>2
  <2>4. Hits = Behind \cup P
    <3>1. \A k \in Hits : k \in Nat /\ (k \in Behind <=> k <= cursor) /\ (k \in P <=> k > cursor)
      BY <1>4, <1>16 DEF Behind, Keys
    <3>2. \A k \in Hits : k <= cursor \/ k > cursor
      BY <1>4, <3>1
    <3> QED BY <1>5, <1>9, <3>1, <3>2
  <2>5. Hits' = Hits /\ Hits # {}
    BY <1>2, <1>5 DEF Hits
  <2>6. (Cardinality(Hits) + Chunk - 1) \div Chunk = pages + 1
    <3>1. (pages * Chunk + Cardinality(P) + Chunk - 1) \div Chunk = pages + 1
      BY <1>3, <2>3, CeilPages
    <3> QED BY <1>10, <2>4, <3>1
  <2>7. pages' = (Cardinality(Hits') + Chunk - 1) \div Chunk
    BY <1>12, <2>5, <2>6
  <2> QED BY <2>1, <2>5, <2>7 DEF PagesInv, PagesFull, PagesExact
<1> QED BY <1>15, <1>16

\* Nothing else happens to an undisturbed fsck scan.
LEMMA PagesStep == ScanInv /\ PagesInv /\ [Next]_vars => PagesInv'
<1> SUFFICES ASSUME ScanInv, PagesInv, [Next]_vars PROVE PagesInv'
  OBVIOUS
<1>1. CASE ReadNothing
  BY <1>1, ReadNothingPages
<1>2. CASE ReadPage
  BY <1>2, ReadPagePages
<1>3. CASE Judge \/ WriteChunk \/ WriteFails
  <2>1. kind # "fsck" /\ kind' = kind
    BY <1>3 DEF Judge, WriteChunk, WriteFails, ScanInv, Phases
  <2> QED BY <2>1 DEF PagesInv, PagesFull, PagesExact
<1>4. ASSUME NEW k \in Keys, NEW r \in {"none", "plain", "hit"}, NEW l \in {0, 1}, OtherWrite(k, r, l)
      PROVE  PagesInv'
  <2>1. ~quiet'
    BY <1>4 DEF OtherWrite
  <2> QED BY <2>1 DEF PagesInv, PagesFull, PagesExact
<1>5. CASE UNCHANGED vars
  <2>1. /\ pc' = pc /\ quiet' = quiet /\ kind' = kind /\ pages' = pages /\ cursor' = cursor
        /\ row' = row /\ lane' = lane
    BY <1>5 DEF vars
  <2>2. Hits' = Hits /\ Ahead' = Ahead /\ Behind' = Behind
    BY <2>1 DEF Hits, Ahead, Behind, Selected, Place
  <2> QED BY <2>1, <2>2 DEF PagesInv, PagesFull, PagesExact
<1> QED BY <1>1, <1>2, <1>3, <1>4, <1>5 DEF Next, ScanNext

\* fsck._chunked_scan makes no call too many: undisturbed, a scan of any
\* table with any chunk_size reads one page per chunk_size matching rows,
\* rounded up, and one of an empty result.
THEOREM ScanPagesExact == Spec => []PagesExact
<1>1. Init => ScanInv /\ PagesInv
  BY InitInv, PagesInitial
<1>2. ScanInv /\ PagesInv /\ [Next]_vars => (ScanInv /\ PagesInv)'
  BY NextInv, PagesStep
<1>3. ScanInv /\ PagesInv => PagesExact
  BY DEF PagesInv
<1> QED BY <1>1, <1>2, <1>3, PTL DEF Spec
=============================================================================
