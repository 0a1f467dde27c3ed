----------------------------- MODULE SyncProofs -----------------------------
(***************************************************************************)
(* For any number of projects, changes, failures and restarts, what is     *)
(* stored is never ahead of PyPI, and as long as no page request fails no  *)
(* project an accepted listing showed as stale is lost on its way.         *)
(*                                                                         *)
(* Neither is inductive: both depend on pages that were fetched earlier    *)
(* and are applied later, while PyPI, the poll and the batch move on.      *)
(* Pages relates a page in hand to the serials around it, and Kept says    *)
(* exactly where a stale project is at each point of the two stages.       *)
(***************************************************************************)
EXTENDS Sync, FiniteSetTheorems, SequenceTheorems, TLAPS

Numbers ==
    \A p \in Projects : remote[p] <= clock /\ seen[p] <= clock /\ etag[p] <= clock

(* A page in hand is not older than what is stored, and newer than PyPI only
   if the project has gone since; a 404 was true when it was read. *)
Pages ==
    \A p \in Projects :
        /\ got[p].kind = "ok" =>
             /\ 0 < got[p].serial /\ got[p].serial <= clock /\ local[p] <= got[p].serial
             /\ got[p].serial > remote[p] => remote[p] = 0
        /\ got[p].kind = "gone" /\ remote[p] > 0 => local[p] < remote[p]

Batch ==
    /\ spc # "work" => todo = {} /\ \A p \in Projects : got[p].kind = "none"
    /\ todo \subseteq Names(names)
    /\ \A p \in Projects : got[p].kind # "none" => p \in Names(names) /\ p \notin todo

Failures ==
    /\ faults.poll + faults.other <= MaxFaults
    /\ \A p \in Projects :
         /\ attempts[p] <= faults.other
         /\ got[p].kind = "retry" => attempts[p] + 1 <= faults.other
    /\ faults.other = 0 =>
         /\ cooling = {} /\ quarantined = {}
         /\ \A p \in Projects : got[p].kind \notin {"retry", "limited"}

(* A project whose listed serial PyPI still has and pypi_index has not. *)
SeenBehind(p) == seen[p] > 0 /\ seen[p] = remote[p] /\ local[p] < seen[p]
EtagBehind(p) == etag[p] > 0 /\ etag[p] = remote[p] /\ local[p] < etag[p]

(* Who will see to it. *)
InHand(p) ==
    \/ p \in stale \/ p \in Names(pending)
    \/ spc = "allow" /\ p \in Names(names)
    \/ spc = "work" /\ p \in todo
    \/ spc = "work" /\ got[p].kind = "ok" /\ got[p].serial = remote[p]

StaleIsFresh == ipc \in {"idle", "fetch", "read"} => stale = {}
SeenKept == ipc = "finish" => \A p \in Projects : SeenBehind(p) => p \in stale
EtagKept == faults.other = 0 => \A p \in Projects : EtagBehind(p) => InHand(p)
Kept == StaleIsFresh /\ SeenKept /\ EtagKept

SyncIInv == TypeOK /\ SerialNotAhead /\ Numbers /\ Pages /\ Batch /\ Failures /\ Kept

-----------------------------------------------------------------------------
(* Operators *)

\* Induction in the form of a least counterexample.
LEMMA LeastNat ==
    ASSUME NEW T, T \subseteq Nat, T # {}
    PROVE  \E n \in T : \A m \in T : n <= m
<1>1. PICK n \in T : \A m \in T : ~(<<m, n>> \in OpToRel(<, Nat))
  BY WFMin, NatLessThanWellFounded
<1>2. \A m \in T : ~(m < n)
  BY <1>1 DEF OpToRel
<1> QED BY <1>2

\* A sequence has at most as many names as entries.
LEMMA NamesFinite ==
    ASSUME NEW S, NEW s \in Seq(S)
    PROVE  /\ Names(s) \subseteq S /\ IsFiniteSet(Names(s))
           /\ Cardinality(Names(s)) \in Nat /\ Cardinality(Names(s)) <= Len(s)
           /\ Len(s) \in Nat
<1>1. Len(s) \in Nat /\ \A i \in 1..Len(s) : s[i] \in S
  OBVIOUS
<1>2. IsFiniteSet(1..Len(s)) /\ Cardinality(1..Len(s)) = Len(s)
  BY <1>1, FS_Interval
<1>3. Names(s) \subseteq S
  BY <1>1 DEF Names
<1> DEFINE f == [i \in 1..Len(s) |-> s[i]]
<1>4. f \in Surjection(1..Len(s), Names(s))
  BY DEF Surjection, Names
<1>5. IsFiniteSet(Names(s)) /\ Cardinality(Names(s)) <= Len(s)
  BY <1>2, <1>4, FS_Surjection
<1>6. Cardinality(Names(s)) \in Nat
  BY <1>5, FS_CardinalityType
<1> QED BY <1>1, <1>3, <1>5, <1>6

\* Every name once.
Once(s) == Len(s) = Cardinality(Names(s))

\* enqueue puts a name in the queue and keeps every name in it once.
LEMMA EnqueuedIs ==
    ASSUME NEW s \in Seq(Projects), Once(s), NEW p \in Projects
    PROVE  /\ Enqueued(s, p) \in Seq(Projects) /\ Once(Enqueued(s, p))
           /\ Names(Enqueued(s, p)) = Names(s) \cup {p}
<1>1. CASE p \in Names(s)
  BY <1>1 DEF Enqueued
<1>2. CASE p \notin Names(s)
  <2>1. Enqueued(s, p) = Append(s, p) /\ Append(s, p) \in Seq(Projects)
    BY <1>2 DEF Enqueued
  <2>2. Len(Append(s, p)) = Len(s) + 1 /\ Len(s) \in Nat
    OBVIOUS
  <2>3. Names(Append(s, p)) = Names(s) \cup {p}
    <3>1. \A i \in 1..Len(s) : Append(s, p)[i] = s[i]
      OBVIOUS
    <3>2. Append(s, p)[Len(s) + 1] = p
      OBVIOUS
    <3>3. 1..(Len(s) + 1) = 1..Len(s) \cup {Len(s) + 1}
      BY <2>2
    <3> QED BY <2>2, <3>1, <3>2, <3>3 DEF Names
  <2>4. Cardinality(Names(s) \cup {p}) = Cardinality(Names(s)) + 1
    BY <1>2, NamesFinite, FS_AddElement
  <2> QED BY <2>1, <2>2, <2>3, <2>4 DEF Once
<1> QED BY <1>1, <1>2

\* _requeue loses no name of the queue or of the batch, and repeats none.
LEMMA RequeuedIs ==
    ASSUME pending \in Seq(Projects), names \in Seq(Projects), Once(pending)
    PROVE  /\ Requeued \in Seq(Projects) /\ Once(Requeued)
           /\ Names(pending) \subseteq Names(Requeued)
           /\ Names(names) \subseteq Names(Requeued)
<1> DEFINE n == Len(names)
           Rec(f, k) == f = [i \in 0..k |-> IF i = 0 THEN pending
                                            ELSE Enqueued(f[i - 1], names[i])]
           with == CHOOSE f : Rec(f, n)
<1>1. Requeued = with[n]
  BY DEF Requeued
<1>2. n \in Nat
  OBVIOUS
<1>3. \E f : Rec(f, 0)
  <2> DEFINE f == [i \in 0..0 |-> pending]
  <2>1. f = [i \in 0..0 |-> IF i = 0 THEN pending ELSE Enqueued(f[i - 1], names[i])]
    OBVIOUS
  <2> QED BY <2>1
<1>4. ASSUME NEW k \in Nat, NEW g, Rec(g, k) PROVE \E f : Rec(f, k + 1)
  <2> DEFINE f == [i \in 0..(k + 1) |-> IF i = k + 1 THEN Enqueued(g[k], names[k + 1])
                                        ELSE g[i]]
  <2>1. ASSUME NEW i \in 0..(k + 1)
        PROVE  f[i] = IF i = 0 THEN pending ELSE Enqueued(f[i - 1], names[i])
    <3>1. CASE i = k + 1
      <4>1. f[i - 1] = g[k] /\ f[i] = Enqueued(g[k], names[k + 1]) /\ i # 0
        BY <3>1
      <4> QED BY <3>1, <4>1
    <3>2. CASE i # k + 1 /\ i # 0
      <4>1. i \in 0..k /\ i - 1 \in 0..k /\ i - 1 # k + 1
        BY <3>2
      <4>2. f[i] = g[i] /\ f[i - 1] = g[i - 1]
        BY <3>2, <4>1
      <4>3. g[i] = Enqueued(g[i - 1], names[i])
        BY <1>4, <3>2, <4>1
      <4> QED BY <3>2, <4>2, <4>3
    <3>3. CASE i = 0
      <4>1. i \in 0..k /\ i # k + 1
        BY <3>3
      <4>2. g[i] = pending
        BY <1>4, <3>3, <4>1
      <4> QED BY <3>3, <4>1, <4>2
    <3> QED BY <3>1, <3>2, <3>3
  <2> HIDE DEF f
  <2>2. DOMAIN f = 0..(k + 1) /\ f = [i \in 0..(k + 1) |-> f[i]]
    BY DEF f
  <2>3. Rec(f, k + 1)
    BY <2>1, <2>2
  <2> HIDE DEF Rec
  <2> QED BY <2>3
<1> HIDE DEF Rec
<1>5. \E f : Rec(f, n)
  <2> DEFINE T == {k \in Nat : ~(\E f : Rec(f, k))}
  <2> SUFFICES ASSUME n \in T PROVE FALSE
    BY <1>2
  <2>1. PICK k \in T : \A m \in T : k <= m
    BY LeastNat
  <2>2. k \in Nat /\ ~(\E f : Rec(f, k)) /\ k # 0
    BY <1>3, <2>1
  <2>3. k - 1 \in Nat /\ k - 1 \notin T
    BY <2>1, <2>2
  <2>4. PICK g : Rec(g, k - 1)
    BY <2>3
  <2>5. \E f : Rec(f, (k - 1) + 1)
    BY <1>4, <2>3, <2>4
  <2>6. (k - 1) + 1 = k
    BY <2>2
  <2> QED BY <2>2, <2>5, <2>6
<1>6. Rec(with, n)
  BY <1>5
<1> HIDE DEF with
<1>7. with[0] = pending
  BY <1>2, <1>6 DEF Rec
<1>8. \A i \in 1..n : with[i] = Enqueued(with[i - 1], names[i])
  BY <1>2, <1>6 DEF Rec
<1> DEFINE Good(i) == /\ with[i] \in Seq(Projects) /\ Once(with[i])
                      /\ Names(pending) \subseteq Names(with[i])
                      /\ \A j \in 1..i : names[j] \in Names(with[i])
<1>9. Good(0)
  BY <1>7
<1>10. ASSUME NEW i \in 1..n, Good(i - 1) PROVE Good(i)
  <2>1. names[i] \in Projects /\ with[i] = Enqueued(with[i - 1], names[i])
    BY <1>8
  <2>2. /\ with[i] \in Seq(Projects) /\ Once(with[i])
        /\ Names(with[i]) = Names(with[i - 1]) \cup {names[i]}
    BY <1>10, <2>1, EnqueuedIs
  <2>3. \A j \in 1..i : j \in 1..(i - 1) \/ j = i
    BY <1>2
  <2> QED BY <1>10, <2>2, <2>3
<1> HIDE DEF Good
<1>11. Good(n)
  <2> DEFINE T == {i \in 0..n : ~Good(i)}
  <2> SUFFICES ASSUME n \in T PROVE FALSE
    BY <1>2
  <2>0. T \subseteq Nat /\ T # {}
    BY <1>2
  <2>1. PICK k \in T : \A m \in T : k <= m
    BY <2>0, LeastNat
  <2>2. k \in 1..n /\ ~Good(k)
    BY <1>2, <1>9, <2>1
  <2>3. k - 1 \in 0..n /\ k - 1 \notin T
    BY <1>2, <2>1, <2>2
  <2> QED BY <1>10, <2>2, <2>3
<1> QED BY <1>1, <1>11 DEF Good, Names

\* The numbers of one project, typed and ordered.
LEMMA Serial ==
    ASSUME SyncIInv, NEW p \in Projects
    PROVE  /\ clock \in Nat /\ clock <= MaxSerial /\ MaxSerial \in Nat
           /\ remote[p] \in Nat /\ remote[p] <= clock
           /\ local[p] \in Nat /\ local[p] <= clock /\ (local[p] > remote[p] => remote[p] = 0)
           /\ seen[p] \in Int /\ seen[p] <= clock /\ etag[p] \in Int /\ etag[p] <= clock
           /\ got[p].serial \in Nat /\ attempts[p] \in Nat
<1>1. /\ clock \in 0..MaxSerial /\ MaxSerial \in Nat
      /\ remote[p] \in 0..MaxSerial /\ local[p] \in 0..MaxSerial
      /\ seen[p] \in 0..MaxSerial \cup {-1} /\ etag[p] \in 0..MaxSerial \cup {-1}
  BY SyncAssumption DEF SyncIInv, TypeOK, Serials
<1>2. got[p].serial \in Nat /\ attempts[p] \in Nat
  BY SyncAssumption DEF SyncIInv, TypeOK, Serials
<1> QED BY <1>1, <1>2 DEF SyncIInv, Numbers, SerialNotAhead

\* The breaker's operators stay within its type.
LEMMA BreakerTypes ==
    ASSUME NEW x \in BreakerType
    PROVE  /\ AfterAllow(x) \in BreakerType /\ RecordSuccess(x) \in BreakerType
           /\ RecordFailure(x) \in BreakerType /\ Recovered(x) \in BreakerType
           /\ NewBreaker \in BreakerType
<1> USE BreakerAssumption
<1>0. 0 \in 0..Threshold
  OBVIOUS
<1>1. AfterAllow(x) \in BreakerType
  <2>1. ASSUME NEW s \in {"closed", "open", "half_open"}, NEW t \in BOOLEAN
        PROVE  [x EXCEPT !.state = s, !.trial = t] \in BreakerType
    BY DEF BreakerType
  <2>2. [x EXCEPT !.state = "half_open", !.trial = TRUE] \in BreakerType
    BY <2>1
  <2> QED BY <2>2 DEF AfterAllow
<1>2. RecordSuccess(x) \in BreakerType
  <2>1. ASSUME NEW s \in {"closed", "open", "half_open"}, NEW f \in 0..Threshold, NEW t \in BOOLEAN
        PROVE  [x EXCEPT !.state = s, !.fails = f, !.trial = t] \in BreakerType
    BY DEF BreakerType
  <2>2. [x EXCEPT !.state = "closed", !.fails = 0, !.trial = FALSE] \in BreakerType
    BY <1>0, <2>1
  <2> QED BY <2>2 DEF RecordSuccess
<1>4. Recovered(x) \in BreakerType
  <2>1. ASSUME NEW d \in BOOLEAN PROVE [x EXCEPT !.due = d] \in BreakerType
    BY DEF BreakerType
  <2>2. [x EXCEPT !.due = TRUE] \in BreakerType
    BY <2>1
  <2> QED BY <2>2 DEF Recovered
<1>5. NewBreaker \in BreakerType
  BY <1>0 DEF NewBreaker, BreakerType
<1>3. RecordFailure(x) \in BreakerType
  <2> DEFINE n == IF x.fails < Threshold THEN x.fails + 1 ELSE Threshold
  <2>1. n \in 0..Threshold
    BY DEF BreakerType
  <2> HIDE DEF n
  <2>2. RecordFailure(x) = IF x.state = "half_open" \/ n >= Threshold
            THEN [state |-> "open", fails |-> n, due |-> FALSE, trial |-> FALSE]
            ELSE [x EXCEPT !.fails = n]
    BY DEF RecordFailure, n
  <2> QED BY <2>1, <2>2 DEF BreakerType
<1> QED BY <1>1, <1>2, <1>3, <1>4, <1>5

\* One more failure is counted, within the bound.
LEMMA FaultIs ==
    ASSUME SyncIInv, NEW k, Fault(k)
    PROVE  /\ faults' \in [poll : 0..MaxFaults, other : 0..MaxFaults]
           /\ faults'.poll + faults'.other <= MaxFaults
           /\ k = "poll" => faults'.other = faults.other
           /\ k # "poll" => faults'.other = faults.other + 1
           /\ faults.other \in Nat
<1>1. /\ faults \in [poll : 0..MaxFaults, other : 0..MaxFaults] /\ MaxFaults \in Nat
      /\ faults.poll + faults.other < MaxFaults
  BY SyncAssumption DEF SyncIInv, TypeOK, Fault
<1>2. CASE k = "poll"
  BY <1>1, <1>2 DEF Fault
<1>3. CASE k # "poll"
  BY <1>1, <1>3 DEF Fault
<1> QED BY <1>1, <1>2, <1>3

\* A fresh process, and a fresh database.
LEMMA InitIInv == Init => SyncIInv
<1> SUFFICES ASSUME Init PROVE SyncIInv
  OBVIOUS
<1> USE SyncAssumption
<1>1. /\ Names(<<>>) = {} /\ Len(<<>>) = Cardinality(Names(<<>>)) /\ Len(<<>>) = 0
      /\ <<>> \in Seq(Projects)
  <2>1. Names(<<>>) = {} /\ Len(<<>>) = 0
    BY DEF Names
  <2> QED BY <2>1, FS_EmptySet
<1>2. b \in BreakerType
  BY BreakerAssumption DEF Init, BreakerType, NewBreaker
<1>3. TypeOK
  <2>1. etag \in [Projects -> Serials \cup {-1}] /\ seen \in [Projects -> Serials \cup {-1}]
    BY DEF Init, NoEtag, NoListing
  <2>2. got \in [Projects -> [kind : {"none", "ok", "gone", "retry", "limited"}, serial : Serials]]
    BY DEF Init, NoPage, Serials
  <2>3. /\ clock \in Serials /\ remote \in [Projects -> Serials]
        /\ local \in [Projects -> Serials] /\ attempts \in [Projects -> 0..MaxFaults]
    BY DEF Init, Serials
  <2>4. /\ tally \in [retried : BOOLEAN, succeeded : BOOLEAN]
        /\ faults \in [poll : 0..MaxFaults, other : 0..MaxFaults] /\ crashes \in 0..MaxCrashes
    BY DEF Init, NoTally
  <2>5. pending = <<>> /\ names = <<>> /\ stale = {} /\ todo = {} /\ cooling = {}
        /\ quarantined = {} /\ ipc = "idle" /\ spc = "idle"
    BY DEF Init
  <2> QED BY <1>1, <1>2, <2>1, <2>2, <2>3, <2>4, <2>5 DEF TypeOK
<1>4. SerialNotAhead /\ Numbers
  BY DEF Init, SerialNotAhead, Numbers, NoEtag, NoListing
<1>5. Pages /\ Batch
  BY <1>1 DEF Init, Pages, Batch, NoPage
<1>6. Failures
  BY DEF Init, Failures, NoPage
<1>7. Kept
  BY DEF Init, Kept, StaleIsFresh, SeenKept, EtagKept, EtagBehind, NoEtag, NoListing
<1> QED BY <1>3, <1>4, <1>5, <1>6, <1>7 DEF SyncIInv

\* A new serial is above every serial anybody has seen.
LEMMA PublishInv ==
    ASSUME SyncIInv, NEW p \in Projects, Publish(p)
    PROVE  SyncIInv'
<1> USE SyncAssumption
<1>0. /\ TypeOK /\ SerialNotAhead /\ Numbers /\ Pages /\ Batch /\ Failures
      /\ StaleIsFresh /\ SeenKept /\ EtagKept
  BY DEF SyncIInv, Kept
<1>1. /\ local' = local /\ ipc' = ipc /\ etag' = etag /\ seen' = seen
      /\ stale' = stale /\ spc' = spc /\ pending' = pending /\ names' = names
      /\ todo' = todo /\ got' = got /\ tally' = tally /\ attempts' = attempts
      /\ cooling' = cooling /\ quarantined' = quarantined /\ b' = b
      /\ faults' = faults /\ crashes' = crashes
  BY DEF Publish, pypiVars, pollVars, syncVars, backoffVars
<1>2. clock' = clock + 1 /\ clock + 1 <= MaxSerial /\ clock \in Nat /\ MaxSerial \in Nat
  BY <1>0 DEF Publish, TypeOK, Serials
<1>3. remote' \in [Projects -> Serials] /\ remote'[p] = clock + 1
      /\ \A q \in Projects \ {p} : remote'[q] = remote[q]
  BY <1>0, <1>2 DEF Publish, TypeOK, Serials
<1>4. \A q \in Projects :
        /\ remote[q] \in Nat /\ remote[q] <= clock /\ local[q] \in Nat /\ local[q] <= clock
        /\ seen[q] \in Int /\ seen[q] <= clock /\ etag[q] \in Int /\ etag[q] <= clock
        /\ got[q].serial \in Nat
  BY Serial
<1>5. clock' \in Serials
  BY <1>2 DEF Serials
<1>6. Batch' /\ Failures'
  BY <1>0, <1>1 DEF Batch, Failures
<1>7. StaleIsFresh'
  BY <1>0, <1>1 DEF StaleIsFresh
<1>8. TypeOK'
  BY <1>0, <1>1, <1>3, <1>5 DEF TypeOK
<1>9. SerialNotAhead'
  BY <1>0, <1>1, <1>2, <1>3, <1>4 DEF SerialNotAhead
<1>10. Numbers'
  BY <1>0, <1>1, <1>2, <1>3, <1>4 DEF Numbers
<1>11. Pages'
  BY <1>0, <1>1, <1>2, <1>3, <1>4 DEF Pages
<1>12. SeenKept'
  BY <1>0, <1>1, <1>2, <1>3, <1>4 DEF SeenKept, SeenBehind
<1>13. EtagKept'
  <2> SUFFICES ASSUME faults.other = 0, NEW q \in Projects, EtagBehind(q)' PROVE InHand(q)'
    BY <1>1 DEF EtagKept
  <2>1. q # p /\ EtagBehind(q)
    BY <1>1, <1>2, <1>3, <1>4 DEF EtagBehind
  <2>2. InHand(q) /\ remote'[q] = remote[q]
    BY <1>0, <1>3, <2>1 DEF EtagKept
  <2> QED BY <1>1, <2>2 DEF InHand
<1> QED
  BY <1>6, <1>7, <1>8, <1>9, <1>10, <1>11, <1>12, <1>13 DEF SyncIInv, Kept

\* A project that leaves PyPI is behind in nobody's books.
LEMMA DeleteInv ==
    ASSUME SyncIInv, NEW p \in Projects, Delete(p)
    PROVE  SyncIInv'
<1> USE SyncAssumption
<1>0. /\ TypeOK /\ SerialNotAhead /\ Numbers /\ Pages /\ Batch /\ Failures
      /\ StaleIsFresh /\ SeenKept /\ EtagKept
  BY DEF SyncIInv, Kept
<1>1. /\ local' = local /\ ipc' = ipc /\ etag' = etag /\ seen' = seen
      /\ stale' = stale /\ spc' = spc /\ pending' = pending /\ names' = names
      /\ todo' = todo /\ got' = got /\ tally' = tally /\ attempts' = attempts
      /\ cooling' = cooling /\ quarantined' = quarantined /\ b' = b
      /\ faults' = faults /\ crashes' = crashes
  BY DEF Delete, pypiVars, pollVars, syncVars, backoffVars
<1>2. clock' = clock + 1 /\ clock + 1 <= MaxSerial /\ clock \in Nat /\ MaxSerial \in Nat
  BY <1>0 DEF Delete, TypeOK, Serials
<1>3. remote' \in [Projects -> Serials] /\ remote'[p] = 0
      /\ \A q \in Projects \ {p} : remote'[q] = remote[q]
  BY <1>0, <1>2 DEF Delete, TypeOK, Serials
<1>4. \A q \in Projects :
        /\ remote[q] \in Nat /\ remote[q] <= clock /\ local[q] \in Nat /\ local[q] <= clock
        /\ seen[q] \in Int /\ seen[q] <= clock /\ etag[q] \in Int /\ etag[q] <= clock
        /\ got[q].serial \in Nat
  BY Serial
<1>5. clock' \in Serials
  BY <1>2 DEF Serials
<1>6. Batch' /\ Failures'
  BY <1>0, <1>1 DEF Batch, Failures
<1>7. StaleIsFresh'
  BY <1>0, <1>1 DEF StaleIsFresh
<1>8. TypeOK'
  BY <1>0, <1>1, <1>3, <1>5 DEF TypeOK
<1>9. SerialNotAhead'
  BY <1>0, <1>1, <1>2, <1>3, <1>4 DEF SerialNotAhead
<1>10. Numbers'
  BY <1>0, <1>1, <1>2, <1>3, <1>4 DEF Numbers
<1>11. Pages'
  BY <1>0, <1>1, <1>2, <1>3, <1>4 DEF Pages
<1>12. SeenKept'
  BY <1>0, <1>1, <1>2, <1>3, <1>4 DEF SeenKept, SeenBehind
<1>13. EtagKept'
  <2> SUFFICES ASSUME faults.other = 0, NEW q \in Projects, EtagBehind(q)' PROVE InHand(q)'
    BY <1>1 DEF EtagKept
  <2>1. q # p /\ EtagBehind(q)
    BY <1>1, <1>2, <1>3, <1>4 DEF EtagBehind
  <2>2. InHand(q) /\ remote'[q] = remote[q]
    BY <1>0, <1>3, <2>1 DEF EtagKept
  <2> QED BY <1>1, <2>2 DEF InHand
<1> QED
  BY <1>6, <1>7, <1>8, <1>9, <1>10, <1>11, <1>12, <1>13 DEF SyncIInv, Kept

\* A poll begins.
LEMMA PollStartInv ==
    ASSUME SyncIInv, PollStart
    PROVE  SyncIInv'
<1> USE SyncAssumption
<1>0. /\ TypeOK /\ SerialNotAhead /\ Numbers /\ Pages /\ Batch /\ Failures
      /\ StaleIsFresh /\ SeenKept /\ EtagKept
  BY DEF SyncIInv, Kept
<1>1. /\ clock' = clock /\ remote' = remote /\ local' = local /\ etag' = etag
      /\ seen' = seen /\ stale' = stale /\ spc' = spc /\ pending' = pending
      /\ names' = names /\ todo' = todo /\ got' = got /\ tally' = tally
      /\ attempts' = attempts /\ cooling' = cooling /\ quarantined' = quarantined
      /\ faults' = faults /\ crashes' = crashes
  BY DEF PollStart, pypiVars, pollVars, syncVars, backoffVars
<1>2. b' \in BreakerType
  BY <1>0, BreakerTypes DEF TypeOK, PollStart, Granted
<1>3. ipc = "idle" /\ ipc' = "fetch"
  BY DEF PollStart
<1>4. SerialNotAhead' /\ Numbers' /\ Pages' /\ Batch' /\ Failures'
  BY <1>0, <1>1 DEF SerialNotAhead, Numbers, Pages, Batch, Failures
<1>5. EtagKept'
  BY <1>0, <1>1 DEF EtagKept, EtagBehind, InHand
<1>6. TypeOK'
  BY <1>0, <1>1, <1>2, <1>3 DEF TypeOK
<1>7. StaleIsFresh'
  BY <1>0, <1>1, <1>3 DEF StaleIsFresh
<1>8. SeenKept'
  BY <1>0, <1>1, <1>3 DEF SeenKept, SeenBehind
<1> QED
  BY <1>4, <1>5, <1>6, <1>7, <1>8 DEF SyncIInv, Kept

\* A poll that fails changes nothing but the failure count.
LEMMA PollRateLimitedInv ==
    ASSUME SyncIInv, PollRateLimited
    PROVE  SyncIInv'
<1> USE SyncAssumption
<1>0. /\ TypeOK /\ SerialNotAhead /\ Numbers /\ Pages /\ Batch /\ Failures
      /\ StaleIsFresh /\ SeenKept /\ EtagKept
  BY DEF SyncIInv, Kept
<1>1. /\ clock' = clock /\ remote' = remote /\ local' = local /\ etag' = etag
      /\ seen' = seen /\ stale' = stale /\ spc' = spc /\ pending' = pending
      /\ names' = names /\ todo' = todo /\ got' = got /\ tally' = tally
      /\ attempts' = attempts /\ cooling' = cooling /\ quarantined' = quarantined
      /\ b' = b /\ crashes' = crashes
  BY DEF PollRateLimited, pypiVars, pollVars, syncVars, backoffVars
<1>2. Fault("limited") /\ ipc = "fetch" /\ ipc' = "idle"
  BY DEF PollRateLimited
<1>3. /\ faults' \in [poll : 0..MaxFaults, other : 0..MaxFaults]
      /\ faults'.poll + faults'.other <= MaxFaults
      /\ faults'.other = faults.other \/ faults'.other = faults.other + 1
      /\ faults.other \in Nat
  BY <1>2, FaultIs
<1>4. faults'.other = 0 => faults.other = 0
  BY <1>3
<1>5. SerialNotAhead' /\ Numbers' /\ Pages' /\ Batch'
  BY <1>0, <1>1 DEF SerialNotAhead, Numbers, Pages, Batch
<1>6. TypeOK'
  BY <1>0, <1>1, <1>2, <1>3 DEF TypeOK
<1>7. Failures'
  <2>1. \A q \in Projects : attempts[q] \in Nat
    BY Serial
  <2>2. \A q \in Projects :
           /\ attempts[q] <= faults'.other
           /\ got[q].kind = "retry" => attempts[q] + 1 <= faults'.other
    BY <1>0, <1>3, <2>1 DEF Failures
  <2>3. faults'.other = 0 =>
           /\ cooling = {} /\ quarantined = {}
           /\ \A q \in Projects : got[q].kind \notin {"retry", "limited"}
    BY <1>0, <1>4 DEF Failures
  <2> QED BY <1>1, <1>3, <2>2, <2>3 DEF Failures
<1>8. StaleIsFresh'
  BY <1>0, <1>1, <1>2 DEF StaleIsFresh
<1>9. SeenKept'
  BY <1>0, <1>1, <1>2 DEF SeenKept, SeenBehind
<1>10. EtagKept'
  BY <1>0, <1>1, <1>4 DEF EtagKept, EtagBehind, InHand
<1> QED
  BY <1>5, <1>6, <1>7, <1>8, <1>9, <1>10 DEF SyncIInv, Kept

\* A poll that fails changes nothing but the failure count.
LEMMA PollFailsInv ==
    ASSUME SyncIInv, PollFails
    PROVE  SyncIInv'
<1> USE SyncAssumption
<1>0. /\ TypeOK /\ SerialNotAhead /\ Numbers /\ Pages /\ Batch /\ Failures
      /\ StaleIsFresh /\ SeenKept /\ EtagKept
  BY DEF SyncIInv, Kept
<1>1. /\ clock' = clock /\ remote' = remote /\ local' = local /\ etag' = etag
      /\ seen' = seen /\ stale' = stale /\ spc' = spc /\ pending' = pending
      /\ names' = names /\ todo' = todo /\ got' = got /\ tally' = tally
      /\ attempts' = attempts /\ cooling' = cooling /\ quarantined' = quarantined
      /\ crashes' = crashes
  BY DEF PollFails, pypiVars, pollVars, syncVars, backoffVars
<1>2. Fault("poll") /\ ipc = "fetch" /\ ipc' = "idle"
  BY DEF PollFails
<1>3. /\ faults' \in [poll : 0..MaxFaults, other : 0..MaxFaults]
      /\ faults'.poll + faults'.other <= MaxFaults
      /\ faults'.other = faults.other \/ faults'.other = faults.other + 1
      /\ faults.other \in Nat
  BY <1>2, FaultIs
<1>4. faults'.other = 0 => faults.other = 0
  BY <1>3
<1>5. b' \in BreakerType
  BY <1>0, BreakerTypes DEF TypeOK, PollFails
<1>6. SerialNotAhead' /\ Numbers' /\ Pages' /\ Batch'
  BY <1>0, <1>1 DEF SerialNotAhead, Numbers, Pages, Batch
<1>7. TypeOK'
  BY <1>0, <1>1, <1>2, <1>3, <1>5 DEF TypeOK
<1>8. Failures'
  <2>1. \A q \in Projects : attempts[q] \in Nat
    BY Serial
  <2>2. \A q \in Projects :
           /\ attempts[q] <= faults'.other
           /\ got[q].kind = "retry" => attempts[q] + 1 <= faults'.other
    BY <1>0, <1>3, <2>1 DEF Failures
  <2>3. faults'.other = 0 =>
           /\ cooling = {} /\ quarantined = {}
           /\ \A q \in Projects : got[q].kind \notin {"retry", "limited"}
    BY <1>0, <1>4 DEF Failures
  <2> QED BY <1>1, <1>3, <2>2, <2>3 DEF Failures
<1>9. StaleIsFresh'
  BY <1>0, <1>1, <1>2 DEF StaleIsFresh
<1>10. SeenKept'
  BY <1>0, <1>1, <1>2 DEF SeenKept, SeenBehind
<1>11. EtagKept'
  BY <1>0, <1>1, <1>4 DEF EtagKept, EtagBehind, InHand
<1> QED
  BY <1>6, <1>7, <1>8, <1>9, <1>10, <1>11 DEF SyncIInv, Kept

\* The listing is the one looked at already.
LEMMA PollNotModifiedInv ==
    ASSUME SyncIInv, PollNotModified
    PROVE  SyncIInv'
<1> USE SyncAssumption
<1>0. /\ TypeOK /\ SerialNotAhead /\ Numbers /\ Pages /\ Batch /\ Failures
      /\ StaleIsFresh /\ SeenKept /\ EtagKept
  BY DEF SyncIInv, Kept
<1>1. /\ clock' = clock /\ remote' = remote /\ local' = local /\ etag' = etag
      /\ seen' = seen /\ stale' = stale /\ spc' = spc /\ pending' = pending
      /\ names' = names /\ todo' = todo /\ got' = got /\ tally' = tally
      /\ attempts' = attempts /\ cooling' = cooling /\ quarantined' = quarantined
      /\ faults' = faults /\ crashes' = crashes
  BY DEF PollNotModified, pypiVars, pollVars, syncVars, backoffVars
<1>2. b' \in BreakerType
  BY <1>0, BreakerTypes DEF TypeOK, PollNotModified
<1>3. ipc = "fetch" /\ ipc' = "idle"
  BY DEF PollNotModified
<1>4. SerialNotAhead' /\ Numbers' /\ Pages' /\ Batch' /\ Failures'
  BY <1>0, <1>1 DEF SerialNotAhead, Numbers, Pages, Batch, Failures
<1>5. EtagKept'
  BY <1>0, <1>1 DEF EtagKept, EtagBehind, InHand
<1>6. TypeOK'
  BY <1>0, <1>1, <1>2, <1>3 DEF TypeOK
<1>7. StaleIsFresh'
  BY <1>0, <1>1, <1>3 DEF StaleIsFresh
<1>8. SeenKept'
  BY <1>0, <1>1, <1>3 DEF SeenKept, SeenBehind
<1> QED
  BY <1>4, <1>5, <1>6, <1>7, <1>8 DEF SyncIInv, Kept

\* A listing is a picture of PyPI.
LEMMA PollListingInv ==
    ASSUME SyncIInv, PollListing
    PROVE  SyncIInv'
<1> USE SyncAssumption
<1>0. /\ TypeOK /\ SerialNotAhead /\ Numbers /\ Pages /\ Batch /\ Failures
      /\ StaleIsFresh /\ SeenKept /\ EtagKept
  BY DEF SyncIInv, Kept
<1>1. /\ clock' = clock /\ remote' = remote /\ local' = local /\ etag' = etag
      /\ stale' = stale /\ spc' = spc /\ pending' = pending /\ names' = names
      /\ todo' = todo /\ got' = got /\ tally' = tally /\ attempts' = attempts
      /\ cooling' = cooling /\ quarantined' = quarantined /\ b' = b
      /\ faults' = faults /\ crashes' = crashes
  BY DEF PollListing, pypiVars, pollVars, syncVars, backoffVars
<1>2. ipc = "fetch" /\ ipc' = "read" /\ seen' = remote
  BY DEF PollListing
<1>3. SerialNotAhead' /\ Pages' /\ Batch' /\ Failures'
  BY <1>0, <1>1 DEF SerialNotAhead, Pages, Batch, Failures
<1>4. EtagKept'
  BY <1>0, <1>1 DEF EtagKept, EtagBehind, InHand
<1>5. TypeOK'
  BY <1>0, <1>1, <1>2 DEF TypeOK
<1>6. Numbers'
  BY <1>0, <1>1, <1>2 DEF Numbers
<1>7. StaleIsFresh'
  BY <1>0, <1>1, <1>2 DEF StaleIsFresh
<1>8. SeenKept'
  BY <1>0, <1>1, <1>2 DEF SeenKept, SeenBehind
<1> QED
  BY <1>3, <1>4, <1>5, <1>6, <1>7, <1>8 DEF SyncIInv, Kept

\* Whatever the listing has and pypi_index has not is found stale.
LEMMA PollReadInv ==
    ASSUME SyncIInv, PollRead
    PROVE  SyncIInv'
<1> USE SyncAssumption
<1>0. /\ TypeOK /\ SerialNotAhead /\ Numbers /\ Pages /\ Batch /\ Failures
      /\ StaleIsFresh /\ SeenKept /\ EtagKept
  BY DEF SyncIInv, Kept
<1>1. /\ clock' = clock /\ remote' = remote /\ local' = local /\ etag' = etag
      /\ seen' = seen /\ spc' = spc /\ pending' = pending /\ names' = names
      /\ todo' = todo /\ got' = got /\ tally' = tally /\ attempts' = attempts
      /\ cooling' = cooling /\ quarantined' = quarantined /\ b' = b
      /\ faults' = faults /\ crashes' = crashes
  BY DEF PollRead, pypiVars, pollVars, syncVars, backoffVars
<1>2. ipc = "read" /\ ipc' = "finish" /\ stale' = StaleProjects(seen, local)
  BY DEF PollRead
<1>3. stale' \subseteq Projects
  BY <1>2 DEF StaleProjects
<1>4. stale = {}
  BY <1>0, <1>2 DEF StaleIsFresh
<1>5. SerialNotAhead' /\ Numbers' /\ Pages' /\ Batch' /\ Failures'
  BY <1>0, <1>1 DEF SerialNotAhead, Numbers, Pages, Batch, Failures
<1>6. TypeOK'
  BY <1>0, <1>1, <1>2, <1>3 DEF TypeOK
<1>7. StaleIsFresh'
  BY <1>0, <1>1, <1>2 DEF StaleIsFresh
<1>8. SeenKept'
  <2> SUFFICES ASSUME NEW q \in Projects, SeenBehind(q)' PROVE q \in stale'
    BY DEF SeenKept
  <2>1. seen[q] > 0 /\ local[q] < seen[q] /\ local[q] \in Nat /\ seen[q] \in Int
    BY <1>1, Serial DEF SeenBehind
  <2>2. seen[q] > local[q]
    BY <2>1
  <2> QED BY <1>2, <2>1, <2>2 DEF StaleProjects
<1>9. EtagKept'
  BY <1>0, <1>1, <1>4 DEF EtagKept, EtagBehind, InHand
<1> QED
  BY <1>5, <1>6, <1>7, <1>8, <1>9 DEF SyncIInv, Kept

\* The listing becomes the one not to look at again; its stale projects are at hand.
LEMMA PollFinishInv ==
    ASSUME SyncIInv, PollFinish
    PROVE  SyncIInv'
<1> USE SyncAssumption
<1>0. /\ TypeOK /\ SerialNotAhead /\ Numbers /\ Pages /\ Batch /\ Failures
      /\ StaleIsFresh /\ SeenKept /\ EtagKept
  BY DEF SyncIInv, Kept
<1>1. /\ clock' = clock /\ remote' = remote /\ local' = local /\ stale' = stale
      /\ spc' = spc /\ pending' = pending /\ names' = names /\ todo' = todo
      /\ got' = got /\ tally' = tally /\ attempts' = attempts /\ cooling' = cooling
      /\ quarantined' = quarantined /\ faults' = faults /\ crashes' = crashes
  BY DEF PollFinish, pypiVars, pollVars, syncVars, backoffVars
<1>2. ipc = "finish" /\ ipc' = "enqueue" /\ etag' = seen /\ seen' = NoListing
  BY DEF PollFinish
<1>3. b' \in BreakerType
  BY <1>0, BreakerTypes DEF TypeOK, PollFinish
<1>4. seen' \in [Projects -> Serials \cup {-1}] /\ \A q \in Projects : seen'[q] = -1
  BY <1>2 DEF NoListing
<1>5. \A q \in Projects : clock \in Nat /\ -1 <= clock
  BY Serial
<1>6. SerialNotAhead' /\ Pages' /\ Batch' /\ Failures'
  BY <1>0, <1>1 DEF SerialNotAhead, Pages, Batch, Failures
<1>7. TypeOK'
  BY <1>0, <1>1, <1>2, <1>3, <1>4 DEF TypeOK
<1>8. Numbers'
  BY <1>0, <1>1, <1>2, <1>4, <1>5 DEF Numbers
<1>9. StaleIsFresh'
  BY <1>0, <1>1, <1>2 DEF StaleIsFresh
<1>10. SeenKept'
  BY <1>0, <1>1, <1>2 DEF SeenKept, SeenBehind
<1>11. EtagKept'
  <2> SUFFICES ASSUME NEW q \in Projects, EtagBehind(q)' PROVE InHand(q)'
    BY DEF EtagKept
  <2>1. SeenBehind(q)
    BY <1>1, <1>2 DEF EtagBehind, SeenBehind
  <2>2. q \in stale
    BY <1>0, <1>2, <2>1 DEF SeenKept
  <2> QED BY <1>1, <2>2 DEF InHand
<1> QED
  BY <1>6, <1>7, <1>8, <1>9, <1>10, <1>11 DEF SyncIInv, Kept

\* A stale project goes into the queue.
LEMMA PollEnqueueInv ==
    ASSUME SyncIInv, NEW p \in Projects, PollEnqueue(p)
    PROVE  SyncIInv'
<1> USE SyncAssumption
<1>0. /\ TypeOK /\ SerialNotAhead /\ Numbers /\ Pages /\ Batch /\ Failures
      /\ StaleIsFresh /\ SeenKept /\ EtagKept
  BY DEF SyncIInv, Kept
<1>1. /\ clock' = clock /\ remote' = remote /\ local' = local /\ ipc' = ipc
      /\ etag' = etag /\ seen' = seen /\ spc' = spc /\ names' = names
      /\ todo' = todo /\ got' = got /\ tally' = tally /\ attempts' = attempts
      /\ cooling' = cooling /\ quarantined' = quarantined /\ b' = b
      /\ faults' = faults /\ crashes' = crashes
  BY DEF PollEnqueue, pypiVars, pollVars, syncVars, backoffVars
<1>2. ipc = "enqueue" /\ stale' = stale \ {p} /\ pending' = Enqueued(pending, p)
  BY DEF PollEnqueue
<1>3. pending \in Seq(Projects) /\ Once(pending)
  BY <1>0 DEF TypeOK, Once
<1>4. /\ pending' \in Seq(Projects) /\ Len(pending') = Cardinality(Names(pending'))
      /\ Names(pending') = Names(pending) \cup {p}
  BY <1>2, <1>3, EnqueuedIs DEF Once
<1>5. SerialNotAhead' /\ Numbers' /\ Pages' /\ Batch' /\ Failures'
  BY <1>0, <1>1 DEF SerialNotAhead, Numbers, Pages, Batch, Failures
<1>6. TypeOK'
  BY <1>0, <1>1, <1>2, <1>4 DEF TypeOK
<1>7. StaleIsFresh'
  BY <1>0, <1>1, <1>2 DEF StaleIsFresh
<1>8. SeenKept'
  BY <1>0, <1>1, <1>2 DEF SeenKept, SeenBehind
<1>9. EtagKept'
  <2> SUFFICES ASSUME faults.other = 0, NEW q \in Projects, EtagBehind(q)' PROVE InHand(q)'
    BY <1>1 DEF EtagKept
  <2>1. InHand(q)
    BY <1>0, <1>1 DEF EtagKept, EtagBehind
  <2> QED BY <1>1, <1>2, <1>4, <2>1 DEF InHand
<1> QED
  BY <1>5, <1>6, <1>7, <1>8, <1>9 DEF SyncIInv, Kept

\* A poll ends when its stale projects are queued.
LEMMA PollDoneInv ==
    ASSUME SyncIInv, PollDone
    PROVE  SyncIInv'
<1> USE SyncAssumption
<1>0. /\ TypeOK /\ SerialNotAhead /\ Numbers /\ Pages /\ Batch /\ Failures
      /\ StaleIsFresh /\ SeenKept /\ EtagKept
  BY DEF SyncIInv, Kept
<1>1. /\ clock' = clock /\ remote' = remote /\ local' = local /\ etag' = etag
      /\ seen' = seen /\ stale' = stale /\ spc' = spc /\ pending' = pending
      /\ names' = names /\ todo' = todo /\ got' = got /\ tally' = tally
      /\ attempts' = attempts /\ cooling' = cooling /\ quarantined' = quarantined
      /\ b' = b /\ faults' = faults /\ crashes' = crashes
  BY DEF PollDone, pypiVars, pollVars, syncVars, backoffVars
<1>2. ipc = "enqueue" /\ ipc' = "idle" /\ stale = {}
  BY DEF PollDone
<1>3. SerialNotAhead' /\ Numbers' /\ Pages' /\ Batch' /\ Failures'
  BY <1>0, <1>1 DEF SerialNotAhead, Numbers, Pages, Batch, Failures
<1>4. EtagKept'
  BY <1>0, <1>1 DEF EtagKept, EtagBehind, InHand
<1>5. TypeOK'
  BY <1>0, <1>1, <1>2 DEF TypeOK
<1>6. StaleIsFresh'
  BY <1>0, <1>1, <1>2 DEF StaleIsFresh
<1>7. SeenKept'
  BY <1>0, <1>1, <1>2 DEF SeenKept, SeenBehind
<1> QED
  BY <1>3, <1>4, <1>5, <1>6, <1>7 DEF SyncIInv, Kept

\* Cutting a queue in two loses no name and repeats none.
LEMMA SplitIs ==
    ASSUME NEW s \in Seq(Projects), Once(s), NEW n \in 0..Len(s)
    PROVE  /\ SubSeq(s, 1, n) \in Seq(Projects) /\ Len(SubSeq(s, 1, n)) = n
           /\ SubSeq(s, n + 1, Len(s)) \in Seq(Projects) /\ Once(SubSeq(s, n + 1, Len(s)))
           /\ Names(s) = Names(SubSeq(s, 1, n)) \cup Names(SubSeq(s, n + 1, Len(s)))
<1> DEFINE a == SubSeq(s, 1, n)
           c == SubSeq(s, n + 1, Len(s))
<1>1. Len(s) \in Nat /\ n \in Nat /\ n <= Len(s)
  OBVIOUS
<1>2. a \in Seq(Projects) /\ Len(a) = n /\ \A i \in 1..n : a[i] = s[i]
  BY <1>1
<1>3. c \in Seq(Projects) /\ Len(c) = Len(s) - n /\ \A i \in 1..(Len(s) - n) : c[i] = s[n + i]
  <2>1. n + 1 \in 1..(Len(s) + 1) /\ Len(s) \in n..Len(s)
    BY <1>1
  <2>2. c = [i \in 1..(Len(s) - n) |-> s[n + i]]
    BY <1>1
  <2>3. \A i \in 1..(Len(s) - n) : n + i \in 1..Len(s) /\ s[n + i] \in Projects
    BY <1>1
  <2> QED BY <1>1, <2>2, <2>3
<1> HIDE DEF a, c
<1>4. Names(s) = Names(a) \cup Names(c)
  <2>1. \A i \in 1..Len(s) : i \in 1..n \/ i - n \in 1..(Len(s) - n)
    BY <1>1
  <2>2. \A i \in 1..Len(s) : s[i] \in Names(a) \cup Names(c)
    <3> SUFFICES ASSUME NEW i \in 1..Len(s) PROVE s[i] \in Names(a) \cup Names(c)
      OBVIOUS
    <3>1. CASE i \in 1..n
      BY <1>2, <3>1 DEF Names
    <3>2. CASE i - n \in 1..(Len(s) - n)
      <4>1. c[i - n] = s[n + (i - n)] /\ n + (i - n) = i
        BY <1>1, <1>3, <3>2
      <4> QED BY <1>3, <3>2, <4>1 DEF Names
    <3> QED BY <2>1, <3>1, <3>2
  <2>3. \A i \in 1..n : a[i] \in Names(s)
    BY <1>1, <1>2 DEF Names
  <2>4. \A i \in 1..(Len(s) - n) : c[i] \in Names(s)
    <3> SUFFICES ASSUME NEW i \in 1..(Len(s) - n) PROVE c[i] \in Names(s)
      OBVIOUS
    <3>1. n + i \in 1..Len(s) /\ c[i] = s[n + i]
      BY <1>1, <1>3
    <3> QED BY <3>1 DEF Names
  <2>5. Names(s) \subseteq Names(a) \cup Names(c)
    BY <2>2 DEF Names
  <2>6. Names(a) \subseteq Names(s) /\ Names(c) \subseteq Names(s)
    BY <1>2, <1>3, <2>3, <2>4 DEF Names
  <2> QED BY <2>5, <2>6
<1>5. /\ IsFiniteSet(Names(a)) /\ Cardinality(Names(a)) \in Nat /\ Cardinality(Names(a)) <= n
      /\ IsFiniteSet(Names(c)) /\ Cardinality(Names(c)) \in Nat
      /\ Cardinality(Names(c)) <= Len(s) - n
  BY <1>2, <1>3, NamesFinite
<1>6. Cardinality(Names(s)) <= Cardinality(Names(a)) + Cardinality(Names(c))
  <2>1. Cardinality(Names(a) \cup Names(c))
          = Cardinality(Names(a)) + Cardinality(Names(c)) - Cardinality(Names(a) \cap Names(c))
    BY <1>5, FS_Union
  <2>2. Cardinality(Names(a) \cap Names(c)) \in Nat
    <3>1. IsFiniteSet(Names(a) \cap Names(c))
      BY <1>5, FS_Intersection
    <3> QED BY <3>1, FS_CardinalityType
  <2> QED BY <1>4, <1>5, <2>1, <2>2
<1>7. Once(c)
  BY <1>1, <1>3, <1>5, <1>6 DEF Once
<1> QED BY <1>2, <1>3, <1>4, <1>7 DEF a, c

\* The batch takes the head of the queue.
LEMMA DrainInv ==
    ASSUME SyncIInv, Drain
    PROVE  SyncIInv'
<1> USE SyncAssumption
<1>0. /\ TypeOK /\ SerialNotAhead /\ Numbers /\ Pages /\ Batch /\ Failures
      /\ StaleIsFresh /\ SeenKept /\ EtagKept
  BY DEF SyncIInv, Kept
<1>1. /\ clock' = clock /\ remote' = remote /\ local' = local /\ ipc' = ipc
      /\ etag' = etag /\ seen' = seen /\ stale' = stale /\ todo' = todo
      /\ got' = got /\ tally' = tally /\ attempts' = attempts /\ cooling' = cooling
      /\ quarantined' = quarantined /\ b' = b /\ faults' = faults
      /\ crashes' = crashes
  BY DEF Drain, pypiVars, pollVars, syncVars, backoffVars
<1>2. PICK n \in 0..Len(pending) :
         /\ n <= BatchLimit
         /\ names' = SubSeq(pending, 1, n)
         /\ pending' = SubSeq(pending, n + 1, Len(pending))
  <2> DEFINE n == IF Len(pending) < BatchLimit THEN Len(pending) ELSE BatchLimit
  <2>1. pending \in Seq(Projects) /\ Len(pending) \in Nat
    BY <1>0 DEF TypeOK
  <2>2. n \in 0..Len(pending) /\ n <= BatchLimit
    BY <2>1
  <2> QED BY <2>2 DEF Drain
<1>3. spc = "idle" /\ spc' = "allow"
  BY DEF Drain
<1>4. pending \in Seq(Projects) /\ Once(pending)
  BY <1>0 DEF TypeOK, Once
<1>5. /\ names' \in Seq(Projects) /\ Len(names') <= BatchLimit
      /\ pending' \in Seq(Projects) /\ Len(pending') = Cardinality(Names(pending'))
      /\ Names(pending) = Names(names') \cup Names(pending')
  BY <1>2, <1>4, SplitIs DEF Once
<1>6. todo = {} /\ \A q \in Projects : got[q].kind = "none"
  BY <1>0, <1>3 DEF Batch
<1>7. SerialNotAhead' /\ Numbers' /\ Pages' /\ Failures'
  BY <1>0, <1>1 DEF SerialNotAhead, Numbers, Pages, Failures
<1>8. StaleIsFresh' /\ SeenKept'
  BY <1>0, <1>1 DEF StaleIsFresh, SeenKept, SeenBehind
<1>9. TypeOK'
  BY <1>0, <1>1, <1>3, <1>5 DEF TypeOK
<1>10. Batch'
  BY <1>0, <1>1, <1>3, <1>6 DEF Batch
<1>11. EtagKept'
  <2> SUFFICES ASSUME faults.other = 0, NEW q \in Projects, EtagBehind(q)' PROVE InHand(q)'
    BY <1>1 DEF EtagKept
  <2>1. InHand(q)
    BY <1>0, <1>1 DEF EtagKept, EtagBehind
  <2> QED BY <1>1, <1>3, <1>5, <2>1 DEF InHand
<1> QED
  BY <1>7, <1>8, <1>9, <1>10, <1>11 DEF SyncIInv, Kept

\* A batch the breaker refuses goes back to the queue.
LEMMA SyncRefusedInv ==
    ASSUME SyncIInv, SyncRefused
    PROVE  SyncIInv'
<1> USE SyncAssumption
<1>0. /\ TypeOK /\ SerialNotAhead /\ Numbers /\ Pages /\ Batch /\ Failures
      /\ StaleIsFresh /\ SeenKept /\ EtagKept
  BY DEF SyncIInv, Kept
<1>1. /\ clock' = clock /\ remote' = remote /\ local' = local /\ ipc' = ipc
      /\ etag' = etag /\ seen' = seen /\ stale' = stale /\ todo' = todo
      /\ got' = got /\ tally' = tally /\ attempts' = attempts /\ cooling' = cooling
      /\ quarantined' = quarantined /\ b' = b /\ faults' = faults
      /\ crashes' = crashes
  BY DEF SyncRefused, pypiVars, pollVars, syncVars, backoffVars
<1>2. spc = "allow" /\ spc' = "idle" /\ names' = <<>> /\ pending' = Requeued
  BY DEF SyncRefused
<1>3. pending \in Seq(Projects) /\ names \in Seq(Projects) /\ Once(pending)
  BY <1>0 DEF TypeOK, Once
<1>4. /\ pending' \in Seq(Projects) /\ Len(pending') = Cardinality(Names(pending'))
      /\ Names(pending) \subseteq Names(pending') /\ Names(names) \subseteq Names(pending')
  BY <1>2, <1>3, RequeuedIs DEF Once
<1>5. names' \in Seq(Projects) /\ Len(names') = 0
  BY <1>2
<1>6. todo = {} /\ \A q \in Projects : got[q].kind = "none"
  BY <1>0, <1>2 DEF Batch
<1>7. SerialNotAhead' /\ Numbers' /\ Pages' /\ Failures'
  BY <1>0, <1>1 DEF SerialNotAhead, Numbers, Pages, Failures
<1>8. StaleIsFresh' /\ SeenKept'
  BY <1>0, <1>1 DEF StaleIsFresh, SeenKept, SeenBehind
<1>9. TypeOK'
  BY <1>0, <1>1, <1>2, <1>4, <1>5 DEF TypeOK
<1>10. Batch'
  BY <1>0, <1>1, <1>2, <1>6 DEF Batch
<1>11. EtagKept'
  <2> SUFFICES ASSUME faults.other = 0, NEW q \in Projects, EtagBehind(q)' PROVE InHand(q)'
    BY <1>1 DEF EtagKept
  <2>1. InHand(q)
    BY <1>0, <1>1 DEF EtagKept, EtagBehind
  <2> QED BY <1>1, <1>2, <1>4, <2>1 DEF InHand
<1> QED
  BY <1>7, <1>8, <1>9, <1>10, <1>11 DEF SyncIInv, Kept

\* Without failures every project of the batch is eligible.
LEMMA SyncAllowedInv ==
    ASSUME SyncIInv, SyncAllowed
    PROVE  SyncIInv'
<1> USE SyncAssumption
<1>0. /\ TypeOK /\ SerialNotAhead /\ Numbers /\ Pages /\ Batch /\ Failures
      /\ StaleIsFresh /\ SeenKept /\ EtagKept
  BY DEF SyncIInv, Kept
<1>1. /\ clock' = clock /\ remote' = remote /\ local' = local /\ ipc' = ipc
      /\ etag' = etag /\ seen' = seen /\ stale' = stale /\ pending' = pending
      /\ names' = names /\ got' = got /\ tally' = tally /\ attempts' = attempts
      /\ cooling' = cooling /\ quarantined' = quarantined /\ faults' = faults
      /\ crashes' = crashes
  BY DEF SyncAllowed, pypiVars, pollVars, syncVars, backoffVars
<1>2. spc = "allow" /\ spc' = "work" /\ todo' = {q \in Names(names) : Eligible(q)}
  BY DEF SyncAllowed
<1>3. b' \in BreakerType
  BY <1>0, BreakerTypes DEF TypeOK, SyncAllowed, Granted
<1>4. Names(names) \subseteq Projects
  BY <1>0, NamesFinite DEF TypeOK
<1>5. \A q \in Projects : got[q].kind = "none"
  BY <1>0, <1>2 DEF Batch
<1>6. faults.other = 0 => todo' = Names(names)
  BY <1>0, <1>2 DEF Failures, Eligible
<1>7. SerialNotAhead' /\ Numbers' /\ Pages' /\ Failures'
  BY <1>0, <1>1 DEF SerialNotAhead, Numbers, Pages, Failures
<1>8. StaleIsFresh' /\ SeenKept'
  BY <1>0, <1>1 DEF StaleIsFresh, SeenKept, SeenBehind
<1>9. TypeOK'
  BY <1>0, <1>1, <1>2, <1>3, <1>4 DEF TypeOK
<1>10. Batch'
  BY <1>0, <1>1, <1>2, <1>5 DEF Batch
<1>11. EtagKept'
  <2> SUFFICES ASSUME faults.other = 0, NEW q \in Projects, EtagBehind(q)' PROVE InHand(q)'
    BY <1>1 DEF EtagKept
  <2>1. InHand(q)
    BY <1>0, <1>1 DEF EtagKept, EtagBehind
  <2> QED BY <1>1, <1>2, <1>6, <2>1 DEF InHand
<1> QED
  BY <1>7, <1>8, <1>9, <1>10, <1>11 DEF SyncIInv, Kept

\* A page is as PyPI has it at that moment.
LEMMA FetchPageInv ==
    ASSUME SyncIInv, NEW p \in Projects, FetchPage(p)
    PROVE  SyncIInv'
<1> USE SyncAssumption
<1>0. /\ TypeOK /\ SerialNotAhead /\ Numbers /\ Pages /\ Batch /\ Failures
      /\ StaleIsFresh /\ SeenKept /\ EtagKept
  BY DEF SyncIInv, Kept
<1>1. /\ clock' = clock /\ remote' = remote /\ local' = local /\ ipc' = ipc
      /\ etag' = etag /\ seen' = seen /\ stale' = stale /\ spc' = spc
      /\ pending' = pending /\ names' = names /\ tally' = tally
      /\ attempts' = attempts /\ cooling' = cooling /\ quarantined' = quarantined
      /\ b' = b /\ faults' = faults /\ crashes' = crashes
  BY DEF FetchPage, pypiVars, pollVars, syncVars, backoffVars
<1>2. spc = "work" /\ p \in todo /\ todo' = todo \ {p}
  BY DEF FetchPage
<1>3. /\ got' \in [Projects -> [kind : {"none", "ok", "gone", "retry", "limited"}, serial : Serials]]
      /\ got'[p].kind = (IF remote[p] = 0 THEN "gone" ELSE "ok") /\ got'[p].serial = remote[p]
      /\ \A q \in Projects \ {p} : got'[q] = got[q]
  BY <1>0 DEF FetchPage, TypeOK
<1>4. /\ remote[p] \in Nat /\ remote[p] <= clock /\ local[p] \in Nat
      /\ local[p] > remote[p] => remote[p] = 0
  BY Serial
<1>5. SerialNotAhead' /\ Numbers'
  BY <1>0, <1>1 DEF SerialNotAhead, Numbers
<1>6. StaleIsFresh' /\ SeenKept'
  BY <1>0, <1>1 DEF StaleIsFresh, SeenKept, SeenBehind
<1>7. TypeOK'
  BY <1>0, <1>1, <1>2, <1>3 DEF TypeOK
<1>8. Pages'
  BY <1>0, <1>1, <1>3, <1>4 DEF Pages
<1>9. Batch'
  <2>1. \A q \in Projects : got'[q].kind # "none" => q \in Names(names) /\ q \notin todo'
    BY <1>0, <1>2, <1>3 DEF Batch
  <2> QED BY <1>0, <1>1, <1>2, <2>1 DEF Batch
<1>10. Failures'
  <2>1. \A q \in Projects :
           got'[q].kind \in {"retry", "limited"} => got[q].kind = got'[q].kind
    BY <1>3
  <2> QED BY <1>0, <1>1, <2>1 DEF Failures
<1>11. EtagKept'
  <2> SUFFICES ASSUME faults.other = 0, NEW q \in Projects, EtagBehind(q)' PROVE InHand(q)'
    BY <1>1 DEF EtagKept
  <2>1. InHand(q)
    BY <1>0, <1>1 DEF EtagKept, EtagBehind
  <2>2. CASE q = p
    <3>1. got'[q].kind = "ok" /\ got'[q].serial = remote'[q]
      BY <1>1, <1>3, <1>4, <2>2 DEF EtagBehind
    <3> QED BY <1>1, <1>2, <3>1 DEF InHand
  <2>3. CASE q # p
    BY <1>1, <1>2, <1>3, <2>1, <2>3 DEF InHand
  <2> QED BY <2>2, <2>3
<1> QED
  BY <1>5, <1>6, <1>7, <1>8, <1>9, <1>10, <1>11 DEF SyncIInv, Kept

\* A failed request costs one failure.
LEMMA FetchPageFailsInv ==
    ASSUME SyncIInv, NEW p \in Projects, NEW k \in {"retry", "limited"}, FetchPageFails(p, k)
    PROVE  SyncIInv'
<1> USE SyncAssumption
<1>0. /\ TypeOK /\ SerialNotAhead /\ Numbers /\ Pages /\ Batch /\ Failures
      /\ StaleIsFresh /\ SeenKept /\ EtagKept
  BY DEF SyncIInv, Kept
<1>1. /\ clock' = clock /\ remote' = remote /\ local' = local /\ ipc' = ipc
      /\ etag' = etag /\ seen' = seen /\ stale' = stale /\ spc' = spc
      /\ pending' = pending /\ names' = names /\ tally' = tally
      /\ attempts' = attempts /\ cooling' = cooling /\ quarantined' = quarantined
      /\ b' = b /\ crashes' = crashes
  BY DEF FetchPageFails, pypiVars, pollVars, syncVars, backoffVars
<1>2. spc = "work" /\ p \in todo /\ todo' = todo \ {p} /\ Fault(k) /\ k # "poll"
  BY DEF FetchPageFails
<1>3. /\ got' \in [Projects -> [kind : {"none", "ok", "gone", "retry", "limited"}, serial : Serials]]
      /\ got'[p].kind = k
      /\ \A q \in Projects \ {p} : got'[q] = got[q]
  BY <1>0 DEF FetchPageFails, TypeOK, Serials
<1>4. /\ faults' \in [poll : 0..MaxFaults, other : 0..MaxFaults]
      /\ faults'.poll + faults'.other <= MaxFaults
      /\ faults'.other = faults.other + 1 /\ faults.other \in Nat
  BY <1>2, FaultIs
<1>5. faults'.other # 0
  BY <1>4
<1>6. SerialNotAhead' /\ Numbers'
  BY <1>0, <1>1 DEF SerialNotAhead, Numbers
<1>7. StaleIsFresh' /\ SeenKept'
  BY <1>0, <1>1 DEF StaleIsFresh, SeenKept, SeenBehind
<1>8. TypeOK'
  BY <1>0, <1>1, <1>2, <1>3, <1>4 DEF TypeOK
<1>9. Pages'
  BY <1>0, <1>1, <1>3 DEF Pages
<1>10. Batch'
  <2>1. \A q \in Projects : got'[q].kind # "none" => q \in Names(names) /\ q \notin todo'
    BY <1>0, <1>2, <1>3 DEF Batch
  <2> QED BY <1>0, <1>1, <1>2, <2>1 DEF Batch
<1>11. Failures'
  <2>1. \A q \in Projects : attempts[q] \in Nat /\ attempts[q] <= faults.other
    BY <1>0, Serial DEF Failures
  <2>2. \A q \in Projects : attempts[q] <= faults'.other /\ attempts[q] + 1 <= faults'.other
    BY <1>4, <2>1
  <2> QED BY <1>1, <1>4, <1>5, <2>2 DEF Failures
<1>12. EtagKept'
  BY <1>0, <1>1, <1>5 DEF EtagKept, EtagBehind, InHand
<1> QED
  BY <1>6, <1>7, <1>8, <1>9, <1>10, <1>11, <1>12 DEF SyncIInv, Kept

\* A page applied brings pypi_index forward, to a serial PyPI had.
LEMMA ApplyPageInv ==
    ASSUME SyncIInv, NEW p \in Projects, NEW changed \in BOOLEAN, ApplyPage(p, changed)
    PROVE  SyncIInv'
<1> USE SyncAssumption
<1>0. /\ TypeOK /\ SerialNotAhead /\ Numbers /\ Pages /\ Batch /\ Failures
      /\ StaleIsFresh /\ SeenKept /\ EtagKept
  BY DEF SyncIInv, Kept
<1>1. /\ clock' = clock /\ remote' = remote /\ ipc' = ipc /\ etag' = etag
      /\ seen' = seen /\ stale' = stale /\ spc' = spc /\ pending' = pending
      /\ names' = names /\ todo' = todo /\ b' = b /\ faults' = faults
      /\ crashes' = crashes
  BY DEF ApplyPage, pypiVars, pollVars, syncVars, backoffVars
<1>2. spc = "work" /\ got[p].kind = "ok" /\ got' = [got EXCEPT ![p] = NoPage]
  BY DEF ApplyPage
<1>3. /\ got' \in [Projects -> [kind : {"none", "ok", "gone", "retry", "limited"}, serial : Serials]]
      /\ got'[p].kind = "none"
      /\ \A q \in Projects \ {p} : got'[q] = got[q]
  BY <1>0, <1>2 DEF TypeOK, NoPage, Serials
<1>4. /\ got[p].serial \in Nat /\ 0 < got[p].serial /\ got[p].serial <= clock
      /\ local[p] <= got[p].serial /\ (got[p].serial > remote[p] => remote[p] = 0)
      /\ clock \in Nat /\ clock <= MaxSerial /\ local[p] \in Nat /\ remote[p] \in Nat
  BY <1>0, <1>2, Serial DEF Pages
<1>5. /\ local'[p] = got[p].serial /\ local' \in [Projects -> Serials]
      /\ \A q \in Projects \ {p} : local'[q] = local[q]
  BY <1>0, <1>4 DEF ApplyPage, TypeOK, Serials
<1>6. /\ attempts' \in [Projects -> 0..MaxFaults] /\ attempts'[p] = 0
      /\ \A q \in Projects \ {p} : attempts'[q] = attempts[q]
      /\ cooling' \subseteq cooling /\ quarantined' \subseteq quarantined
  BY <1>0 DEF ApplyPage, ForgetFailures, TypeOK
<1>7. tally' \in [retried : BOOLEAN, succeeded : BOOLEAN]
  <2>1. tally' = [tally EXCEPT !.succeeded = tally.succeeded \/ changed]
    BY DEF ApplyPage
  <2>2. tally \in [retried : BOOLEAN, succeeded : BOOLEAN]
    BY <1>0 DEF TypeOK
  <2>3. tally.succeeded \/ changed \in BOOLEAN
    BY <2>2
  <2>4. ASSUME NEW t \in BOOLEAN
        PROVE  [tally EXCEPT !.succeeded = t] \in [retried : BOOLEAN, succeeded : BOOLEAN]
    BY <2>2
  <2>5. (tally.succeeded \/ changed) \in BOOLEAN
    OBVIOUS
  <2> QED BY <2>1, <2>4, <2>5
<1>8. \A q \in Projects : local[q] \in Nat /\ seen[q] \in Int /\ etag[q] \in Int
  BY Serial
<1>9. Numbers'
  BY <1>0, <1>1 DEF Numbers
<1>10. StaleIsFresh'
  BY <1>0, <1>1 DEF StaleIsFresh
<1>11. TypeOK'
  BY <1>0, <1>1, <1>3, <1>5, <1>6, <1>7 DEF TypeOK
<1>12. SerialNotAhead'
  BY <1>0, <1>1, <1>4, <1>5 DEF SerialNotAhead
<1>13. Pages'
  BY <1>0, <1>1, <1>3, <1>5 DEF Pages
<1>14. Batch'
  <2>1. \A q \in Projects : got'[q].kind # "none" => got[q].kind # "none"
    BY <1>3
  <2> QED BY <1>0, <1>1, <1>2, <2>1 DEF Batch
<1>15. Failures'
  <2>1. faults.other \in Nat /\ \A q \in Projects : attempts'[q] = attempts[q] \/ attempts'[q] = 0
    BY <1>0, <1>6 DEF TypeOK
  <2>2. \A q \in Projects :
           /\ attempts'[q] <= faults.other
           /\ got'[q].kind = "retry" => attempts'[q] + 1 <= faults.other
    BY <1>0, <1>3, <1>6, <2>1 DEF Failures
  <2>3. faults.other = 0 =>
           /\ cooling' = {} /\ quarantined' = {}
           /\ \A q \in Projects : got'[q].kind \notin {"retry", "limited"}
    BY <1>0, <1>3, <1>6 DEF Failures
  <2> QED BY <1>0, <1>1, <2>2, <2>3 DEF Failures
<1>16. SeenKept'
  <2> SUFFICES ASSUME ipc = "finish", NEW q \in Projects, SeenBehind(q)' PROVE q \in stale
    BY <1>1 DEF SeenKept
  <2>1. SeenBehind(q)
    BY <1>1, <1>4, <1>5, <1>8 DEF SeenBehind
  <2> QED BY <1>0, <2>1 DEF SeenKept
<1>17. EtagKept'
  <2> SUFFICES ASSUME faults.other = 0, NEW q \in Projects, EtagBehind(q)' PROVE InHand(q)'
    BY <1>1 DEF EtagKept
  <2>1. EtagBehind(q)
    BY <1>1, <1>4, <1>5, <1>8 DEF EtagBehind
  <2>2. InHand(q)
    BY <1>0, <2>1 DEF EtagKept
  <2>3. q = p => got[q].serial # remote[q]
    BY <1>1, <1>4, <1>5 DEF EtagBehind
  <2> QED BY <1>1, <1>2, <1>3, <2>2, <2>3 DEF InHand
<1> QED
  BY <1>9, <1>10, <1>11, <1>12, <1>13, <1>14, <1>15, <1>16, <1>17 DEF SyncIInv, Kept

\* A project that is gone is forgotten; if it is back already, it was behind before.
LEMMA ApplyGoneInv ==
    ASSUME SyncIInv, NEW p \in Projects, ApplyGone(p)
    PROVE  SyncIInv'
<1> USE SyncAssumption
<1>0. /\ TypeOK /\ SerialNotAhead /\ Numbers /\ Pages /\ Batch /\ Failures
      /\ StaleIsFresh /\ SeenKept /\ EtagKept
  BY DEF SyncIInv, Kept
<1>1. /\ clock' = clock /\ remote' = remote /\ ipc' = ipc /\ etag' = etag
      /\ seen' = seen /\ stale' = stale /\ spc' = spc /\ pending' = pending
      /\ names' = names /\ todo' = todo /\ b' = b /\ faults' = faults
      /\ crashes' = crashes
  BY DEF ApplyGone, pypiVars, pollVars, syncVars, backoffVars
<1>2. spc = "work" /\ got[p].kind = "gone" /\ got' = [got EXCEPT ![p] = NoPage]
  BY DEF ApplyGone
<1>3. /\ got' \in [Projects -> [kind : {"none", "ok", "gone", "retry", "limited"}, serial : Serials]]
      /\ got'[p].kind = "none"
      /\ \A q \in Projects \ {p} : got'[q] = got[q]
  BY <1>0, <1>2 DEF TypeOK, NoPage, Serials
<1>4. /\ remote[p] > 0 => local[p] < remote[p]
      /\ clock \in Nat /\ MaxSerial \in Nat
  BY <1>0, <1>2, Serial DEF Pages
<1>5. /\ local'[p] = 0 /\ local' \in [Projects -> Serials]
      /\ \A q \in Projects \ {p} : local'[q] = local[q]
  BY <1>0, <1>4 DEF ApplyGone, TypeOK, Serials
<1>6. /\ attempts' \in [Projects -> 0..MaxFaults] /\ attempts'[p] = 0
      /\ \A q \in Projects \ {p} : attempts'[q] = attempts[q]
      /\ cooling' \subseteq cooling /\ quarantined' \subseteq quarantined
  BY <1>0 DEF ApplyGone, ForgetFailures, TypeOK
<1>7. tally' \in [retried : BOOLEAN, succeeded : BOOLEAN]
  <2>1. tally \in [retried : BOOLEAN, succeeded : BOOLEAN]
    BY <1>0 DEF TypeOK
  <2>2. ASSUME NEW t \in BOOLEAN
        PROVE  [tally EXCEPT !.succeeded = t] \in [retried : BOOLEAN, succeeded : BOOLEAN]
    BY <2>1
  <2>3. [tally EXCEPT !.succeeded = TRUE] \in [retried : BOOLEAN, succeeded : BOOLEAN]
    BY <2>2
  <2> QED BY <2>3 DEF ApplyGone
<1>8. \A q \in Projects : /\ local[q] \in Nat /\ seen[q] \in Int /\ etag[q] \in Int
                          /\ remote[q] \in Nat
  BY Serial
<1>9. Numbers'
  BY <1>0, <1>1 DEF Numbers
<1>10. StaleIsFresh'
  BY <1>0, <1>1 DEF StaleIsFresh
<1>11. TypeOK'
  BY <1>0, <1>1, <1>3, <1>5, <1>6, <1>7 DEF TypeOK
<1>12. SerialNotAhead'
  BY <1>0, <1>1, <1>4, <1>5, <1>8 DEF SerialNotAhead
<1>13. Pages'
  BY <1>0, <1>1, <1>3, <1>5 DEF Pages
<1>14. Batch'
  <2>1. \A q \in Projects : got'[q].kind # "none" => got[q].kind # "none"
    BY <1>3
  <2> QED BY <1>0, <1>1, <1>2, <2>1 DEF Batch
<1>15. Failures'
  <2>1. faults.other \in Nat /\ \A q \in Projects : attempts'[q] = attempts[q] \/ attempts'[q] = 0
    BY <1>0, <1>6 DEF TypeOK
  <2>2. \A q \in Projects :
           /\ attempts'[q] <= faults.other
           /\ got'[q].kind = "retry" => attempts'[q] + 1 <= faults.other
    BY <1>0, <1>3, <1>6, <2>1 DEF Failures
  <2>3. faults.other = 0 =>
           /\ cooling' = {} /\ quarantined' = {}
           /\ \A q \in Projects : got'[q].kind \notin {"retry", "limited"}
    BY <1>0, <1>3, <1>6 DEF Failures
  <2> QED BY <1>0, <1>1, <2>2, <2>3 DEF Failures
<1>16. SeenKept'
  <2> SUFFICES ASSUME ipc = "finish", NEW q \in Projects, SeenBehind(q)' PROVE q \in stale
    BY <1>1 DEF SeenKept
  <2>1. SeenBehind(q)
    BY <1>1, <1>4, <1>5, <1>8 DEF SeenBehind
  <2> QED BY <1>0, <2>1 DEF SeenKept
<1>17. EtagKept'
  <2> SUFFICES ASSUME faults.other = 0, NEW q \in Projects, EtagBehind(q)' PROVE InHand(q)'
    BY <1>1 DEF EtagKept
  <2>1. EtagBehind(q)
    BY <1>1, <1>4, <1>5, <1>8 DEF EtagBehind
  <2>2. InHand(q)
    BY <1>0, <2>1 DEF EtagKept
  <2> QED BY <1>1, <1>2, <1>3, <2>2 DEF InHand
<1> QED
  BY <1>9, <1>10, <1>11, <1>12, <1>13, <1>14, <1>15, <1>16, <1>17 DEF SyncIInv, Kept

\* A failure is counted once for its project.
LEMMA ApplyRetryInv ==
    ASSUME SyncIInv, NEW p \in Projects, ApplyRetry(p)
    PROVE  SyncIInv'
<1> USE SyncAssumption
<1>0. /\ TypeOK /\ SerialNotAhead /\ Numbers /\ Pages /\ Batch /\ Failures
      /\ StaleIsFresh /\ SeenKept /\ EtagKept
  BY DEF SyncIInv, Kept
<1>1. /\ clock' = clock /\ remote' = remote /\ local' = local /\ ipc' = ipc
      /\ etag' = etag /\ seen' = seen /\ stale' = stale /\ spc' = spc
      /\ pending' = pending /\ names' = names /\ todo' = todo /\ b' = b
      /\ faults' = faults /\ crashes' = crashes
  BY DEF ApplyRetry, pypiVars, pollVars, syncVars, backoffVars
<1>2. spc = "work" /\ got[p].kind = "retry" /\ got' = [got EXCEPT ![p] = NoPage]
  BY DEF ApplyRetry
<1>3. /\ got' \in [Projects -> [kind : {"none", "ok", "gone", "retry", "limited"}, serial : Serials]]
      /\ got'[p].kind = "none"
      /\ \A q \in Projects \ {p} : got'[q] = got[q]
  BY <1>0, <1>2 DEF TypeOK, NoPage, Serials
<1>4. /\ attempts[p] \in Nat /\ attempts[p] + 1 <= faults.other
      /\ faults.other \in 0..MaxFaults /\ faults.other # 0 /\ MaxFaults \in Nat
  <2>1. attempts[p] \in Nat /\ attempts[p] + 1 <= faults.other /\ faults.other \in 0..MaxFaults
    BY <1>0, <1>2, Serial DEF Failures, TypeOK
  <2> QED BY <2>1
<1>5. /\ attempts' \in [Projects -> 0..MaxFaults] /\ attempts'[p] = attempts[p] + 1
      /\ \A q \in Projects \ {p} : attempts'[q] = attempts[q]
  BY <1>0, <1>4 DEF ApplyRetry, TypeOK
<1>6. cooling' \subseteq Projects /\ quarantined' \subseteq Projects
  BY <1>0 DEF ApplyRetry, TypeOK
<1>7. tally' \in [retried : BOOLEAN, succeeded : BOOLEAN]
  <2>1. tally \in [retried : BOOLEAN, succeeded : BOOLEAN]
    BY <1>0 DEF TypeOK
  <2>2. ASSUME NEW t \in BOOLEAN
        PROVE  [tally EXCEPT !.retried = t] \in [retried : BOOLEAN, succeeded : BOOLEAN]
    BY <2>1
  <2>3. [tally EXCEPT !.retried = TRUE] \in [retried : BOOLEAN, succeeded : BOOLEAN]
    BY <2>2
  <2> QED BY <2>3 DEF ApplyRetry
<1>8. SerialNotAhead' /\ Numbers'
  BY <1>0, <1>1 DEF SerialNotAhead, Numbers
<1>9. StaleIsFresh' /\ SeenKept'
  BY <1>0, <1>1 DEF StaleIsFresh, SeenKept, SeenBehind
<1>10. TypeOK'
  BY <1>0, <1>1, <1>3, <1>5, <1>6, <1>7 DEF TypeOK
<1>11. Pages'
  BY <1>0, <1>1, <1>3 DEF Pages
<1>12. Batch'
  <2>1. \A q \in Projects : got'[q].kind # "none" => got[q].kind # "none"
    BY <1>3
  <2> QED BY <1>0, <1>1, <1>2, <2>1 DEF Batch
<1>13. Failures'
  <2>1. \A q \in Projects :
           /\ attempts'[q] <= faults.other
           /\ got'[q].kind = "retry" => attempts'[q] + 1 <= faults.other
    BY <1>0, <1>3, <1>4, <1>5 DEF Failures
  <2> QED BY <1>0, <1>1, <1>4, <2>1 DEF Failures
<1>14. EtagKept'
  BY <1>0, <1>1, <1>4 DEF EtagKept, EtagBehind, InHand
<1> QED
  BY <1>8, <1>9, <1>10, <1>11, <1>12, <1>13, <1>14 DEF SyncIInv, Kept

\* A throttled page is dropped.
LEMMA ApplyRateLimitedInv ==
    ASSUME SyncIInv, NEW p \in Projects, ApplyRateLimited(p)
    PROVE  SyncIInv'
<1> USE SyncAssumption
<1>0. /\ TypeOK /\ SerialNotAhead /\ Numbers /\ Pages /\ Batch /\ Failures
      /\ StaleIsFresh /\ SeenKept /\ EtagKept
  BY DEF SyncIInv, Kept
<1>1. /\ clock' = clock /\ remote' = remote /\ local' = local /\ ipc' = ipc
      /\ etag' = etag /\ seen' = seen /\ stale' = stale /\ spc' = spc
      /\ pending' = pending /\ names' = names /\ todo' = todo /\ tally' = tally
      /\ attempts' = attempts /\ cooling' = cooling /\ quarantined' = quarantined
      /\ b' = b /\ faults' = faults /\ crashes' = crashes
  BY DEF ApplyRateLimited, pypiVars, pollVars, syncVars, backoffVars
<1>2. spc = "work" /\ got[p].kind = "limited" /\ got' = [got EXCEPT ![p] = NoPage]
  BY DEF ApplyRateLimited
<1>3. /\ got' \in [Projects -> [kind : {"none", "ok", "gone", "retry", "limited"}, serial : Serials]]
      /\ got'[p].kind = "none"
      /\ \A q \in Projects \ {p} : got'[q] = got[q]
  BY <1>0, <1>2 DEF TypeOK, NoPage, Serials
<1>4. SerialNotAhead' /\ Numbers'
  BY <1>0, <1>1 DEF SerialNotAhead, Numbers
<1>5. StaleIsFresh' /\ SeenKept'
  BY <1>0, <1>1 DEF StaleIsFresh, SeenKept, SeenBehind
<1>6. TypeOK'
  BY <1>0, <1>1, <1>3 DEF TypeOK
<1>7. Pages'
  BY <1>0, <1>1, <1>3 DEF Pages
<1>8. Batch'
  <2>1. \A q \in Projects : got'[q].kind # "none" => got[q].kind # "none"
    BY <1>3
  <2> QED BY <1>0, <1>1, <1>2, <2>1 DEF Batch
<1>9. Failures'
  <2>1. \A q \in Projects :
           got'[q].kind \in {"retry", "limited"} => got[q].kind = got'[q].kind
    BY <1>3
  <2> QED BY <1>0, <1>1, <2>1 DEF Failures
<1>10. EtagKept'
  <2> SUFFICES ASSUME faults.other = 0, NEW q \in Projects, EtagBehind(q)' PROVE InHand(q)'
    BY <1>1 DEF EtagKept
  <2>1. InHand(q)
    BY <1>0, <1>1 DEF EtagKept, EtagBehind
  <2> QED BY <1>1, <1>2, <1>3, <2>1 DEF InHand
<1> QED
  BY <1>4, <1>5, <1>6, <1>7, <1>8, <1>9, <1>10 DEF SyncIInv, Kept

\* A batch that ends with an exception is lost, which is a failure.
LEMMA SyncRaisesInv ==
    ASSUME SyncIInv, SyncRaises
    PROVE  SyncIInv'
<1> USE SyncAssumption
<1>0. /\ TypeOK /\ SerialNotAhead /\ Numbers /\ Pages /\ Batch /\ Failures
      /\ StaleIsFresh /\ SeenKept /\ EtagKept
  BY DEF SyncIInv, Kept
<1>1. /\ clock' = clock /\ remote' = remote /\ local' = local /\ ipc' = ipc
      /\ etag' = etag /\ seen' = seen /\ stale' = stale /\ pending' = pending
      /\ attempts' = attempts /\ cooling' = cooling /\ quarantined' = quarantined
      /\ b' = b /\ crashes' = crashes
  BY DEF SyncRaises, pypiVars, pollVars, syncVars, backoffVars
<1>2. Fault("raise") /\ "raise" # "poll"
  BY DEF SyncRaises
<1>3. /\ spc' = "idle" /\ names' = <<>> /\ todo' = {} /\ tally' = NoTally
      /\ got' \in [Projects -> [kind : {"none", "ok", "gone", "retry", "limited"}, serial : Serials]]
      /\ \A q \in Projects : got'[q].kind = "none"
  BY DEF SyncRaises, NoPage, Serials
<1>4. /\ faults' \in [poll : 0..MaxFaults, other : 0..MaxFaults]
      /\ faults'.poll + faults'.other <= MaxFaults
      /\ faults'.other = faults.other + 1 /\ faults.other \in Nat
  BY <1>2, FaultIs
<1>5. faults'.other # 0
  BY <1>4
<1>6. names' \in Seq(Projects) /\ Len(names') = 0 /\ tally' \in [retried : BOOLEAN, succeeded : BOOLEAN]
  BY <1>3 DEF NoTally
<1>7. SerialNotAhead' /\ Numbers'
  BY <1>0, <1>1 DEF SerialNotAhead, Numbers
<1>8. StaleIsFresh' /\ SeenKept'
  BY <1>0, <1>1 DEF StaleIsFresh, SeenKept, SeenBehind
<1>9. TypeOK'
  BY <1>0, <1>1, <1>3, <1>4, <1>6 DEF TypeOK
<1>10. Pages'
  BY <1>0, <1>1, <1>3 DEF Pages
<1>11. Batch'
  BY <1>0, <1>1, <1>3 DEF Batch
<1>12. Failures'
  <2>1. \A q \in Projects : attempts[q] \in Nat /\ attempts[q] <= faults.other
    BY <1>0, Serial DEF Failures
  <2>2. \A q \in Projects : attempts[q] <= faults'.other
    BY <1>4, <2>1
  <2> QED BY <1>1, <1>3, <1>4, <1>5, <2>2 DEF Failures
<1>13. EtagKept'
  BY <1>0, <1>1, <1>5 DEF EtagKept, EtagBehind, InHand
<1> QED
  BY <1>7, <1>8, <1>9, <1>10, <1>11, <1>12, <1>13 DEF SyncIInv, Kept

\* A batch ends when every project of it was dealt with.
LEMMA SyncFinishInv ==
    ASSUME SyncIInv, SyncFinish
    PROVE  SyncIInv'
<1> USE SyncAssumption
<1>0. /\ TypeOK /\ SerialNotAhead /\ Numbers /\ Pages /\ Batch /\ Failures
      /\ StaleIsFresh /\ SeenKept /\ EtagKept
  BY DEF SyncIInv, Kept
<1>1. /\ clock' = clock /\ remote' = remote /\ local' = local /\ ipc' = ipc
      /\ etag' = etag /\ seen' = seen /\ stale' = stale /\ pending' = pending
      /\ todo' = todo /\ got' = got /\ attempts' = attempts /\ cooling' = cooling
      /\ quarantined' = quarantined /\ faults' = faults /\ crashes' = crashes
  BY DEF SyncFinish, pypiVars, pollVars, syncVars, backoffVars
<1>2. /\ spc = "work" /\ todo = {} /\ \A q \in Projects : got[q] = NoPage
      /\ spc' = "idle" /\ names' = <<>> /\ tally' = NoTally
  BY DEF SyncFinish
<1>3. \A q \in Projects : got[q].kind = "none"
  BY <1>2 DEF NoPage
<1>4. b' \in BreakerType
  BY <1>0, BreakerTypes DEF TypeOK, SyncFinish
<1>5. names' \in Seq(Projects) /\ Len(names') = 0 /\ tally' \in [retried : BOOLEAN, succeeded : BOOLEAN]
  BY <1>2 DEF NoTally
<1>6. SerialNotAhead' /\ Numbers' /\ Pages' /\ Failures'
  BY <1>0, <1>1 DEF SerialNotAhead, Numbers, Pages, Failures
<1>7. StaleIsFresh' /\ SeenKept'
  BY <1>0, <1>1 DEF StaleIsFresh, SeenKept, SeenBehind
<1>8. TypeOK'
  BY <1>0, <1>1, <1>2, <1>4, <1>5 DEF TypeOK
<1>9. Batch'
  BY <1>0, <1>1, <1>2, <1>3 DEF Batch
<1>10. EtagKept'
  <2> SUFFICES ASSUME faults.other = 0, NEW q \in Projects, EtagBehind(q)' PROVE InHand(q)'
    BY <1>1 DEF EtagKept
  <2>1. InHand(q)
    BY <1>0, <1>1 DEF EtagKept, EtagBehind
  <2> QED BY <1>1, <1>2, <1>3, <2>1 DEF InHand
<1> QED
  BY <1>6, <1>7, <1>8, <1>9, <1>10 DEF SyncIInv, Kept

\* A project's backoff runs out.
LEMMA CoolDownInv ==
    ASSUME SyncIInv, NEW p \in Projects, CoolDown(p)
    PROVE  SyncIInv'
<1> USE SyncAssumption
<1>0. /\ TypeOK /\ SerialNotAhead /\ Numbers /\ Pages /\ Batch /\ Failures
      /\ StaleIsFresh /\ SeenKept /\ EtagKept
  BY DEF SyncIInv, Kept
<1>1. /\ clock' = clock /\ remote' = remote /\ local' = local /\ ipc' = ipc
      /\ etag' = etag /\ seen' = seen /\ stale' = stale /\ spc' = spc
      /\ pending' = pending /\ names' = names /\ todo' = todo /\ got' = got
      /\ tally' = tally /\ attempts' = attempts /\ quarantined' = quarantined
      /\ b' = b /\ faults' = faults /\ crashes' = crashes
  BY DEF CoolDown, pypiVars, pollVars, syncVars, backoffVars
<1>2. cooling' = cooling \ {p}
  BY DEF CoolDown
<1>3. SerialNotAhead' /\ Numbers' /\ Pages' /\ Batch'
  BY <1>0, <1>1 DEF SerialNotAhead, Numbers, Pages, Batch
<1>4. StaleIsFresh' /\ SeenKept' /\ EtagKept'
  BY <1>0, <1>1 DEF StaleIsFresh, SeenKept, SeenBehind, EtagKept, EtagBehind, InHand
<1>5. TypeOK'
  BY <1>0, <1>1, <1>2 DEF TypeOK
<1>6. Failures'
  BY <1>0, <1>1, <1>2 DEF Failures
<1> QED
  BY <1>3, <1>4, <1>5, <1>6 DEF SyncIInv, Kept

\* The breaker's timeout runs out.
LEMMA BreakerDueInv ==
    ASSUME SyncIInv, BreakerDue
    PROVE  SyncIInv'
<1> USE SyncAssumption
<1>0. /\ TypeOK /\ SerialNotAhead /\ Numbers /\ Pages /\ Batch /\ Failures
      /\ StaleIsFresh /\ SeenKept /\ EtagKept
  BY DEF SyncIInv, Kept
<1>1. /\ clock' = clock /\ remote' = remote /\ local' = local /\ ipc' = ipc
      /\ etag' = etag /\ seen' = seen /\ stale' = stale /\ spc' = spc
      /\ pending' = pending /\ names' = names /\ todo' = todo /\ got' = got
      /\ tally' = tally /\ attempts' = attempts /\ cooling' = cooling
      /\ quarantined' = quarantined /\ faults' = faults /\ crashes' = crashes
  BY DEF BreakerDue, pypiVars, pollVars, syncVars, backoffVars
<1>2. b' \in BreakerType
  BY <1>0, BreakerTypes DEF TypeOK, BreakerDue
<1>3. SerialNotAhead' /\ Numbers' /\ Pages' /\ Batch' /\ Failures'
  BY <1>0, <1>1 DEF SerialNotAhead, Numbers, Pages, Batch, Failures
<1>4. StaleIsFresh' /\ SeenKept' /\ EtagKept'
  BY <1>0, <1>1 DEF StaleIsFresh, SeenKept, SeenBehind, EtagKept, EtagBehind, InHand
<1>5. TypeOK'
  BY <1>0, <1>1, <1>2 DEF TypeOK
<1> QED
  BY <1>3, <1>4, <1>5 DEF SyncIInv, Kept

\* A new process has no etag, so it looks at the next listing whole.
LEMMA RestartInv ==
    ASSUME SyncIInv, Restart
    PROVE  SyncIInv'
<1> USE SyncAssumption
<1>0. /\ TypeOK /\ SerialNotAhead /\ Numbers /\ Pages /\ Batch /\ Failures
      /\ StaleIsFresh /\ SeenKept /\ EtagKept
  BY DEF SyncIInv, Kept
<1>1. /\ clock' = clock /\ remote' = remote /\ local' = local /\ faults' = faults
  BY DEF Restart, pypiVars, pollVars, syncVars, backoffVars
<1>2. /\ ipc' = "idle" /\ stale' = {} /\ spc' = "idle" /\ pending' = <<>> /\ names' = <<>>
      /\ todo' = {} /\ tally' = NoTally /\ cooling' = {} /\ quarantined' = {}
      /\ crashes' \in 0..MaxCrashes
  BY <1>0 DEF Restart, NewProcess, TypeOK
<1>3. /\ etag' \in [Projects -> Serials \cup {-1}] /\ seen' \in [Projects -> Serials \cup {-1}]
      /\ \A q \in Projects : etag'[q] = -1 /\ seen'[q] = -1
  BY DEF Restart, NewProcess, NoEtag, NoListing
<1>4. /\ got' \in [Projects -> [kind : {"none", "ok", "gone", "retry", "limited"}, serial : Serials]]
      /\ \A q \in Projects : got'[q].kind = "none"
  BY DEF Restart, NewProcess, NoPage, Serials
<1>5. attempts' \in [Projects -> 0..MaxFaults] /\ \A q \in Projects : attempts'[q] = 0
  BY DEF Restart, NewProcess
<1>6. b' \in BreakerType
  BY <1>0, BreakerTypes DEF TypeOK, Restart, NewProcess
<1>7. /\ <<>> \in Seq(Projects) /\ Len(<<>>) = 0 /\ Len(<<>>) = Cardinality(Names(<<>>))
      /\ tally' \in [retried : BOOLEAN, succeeded : BOOLEAN]
  <2>1. Names(<<>>) = {} /\ Len(<<>>) = 0
    BY DEF Names
  <2>2. Cardinality(Names(<<>>)) = 0
    BY <2>1, FS_EmptySet
  <2>3. tally' \in [retried : BOOLEAN, succeeded : BOOLEAN]
    BY <1>2 DEF NoTally
  <2> QED BY <2>1, <2>2, <2>3
<1>8. \A q \in Projects : clock \in Nat /\ -1 <= clock
  BY Serial
<1>9. faults.other \in Nat
  BY <1>0 DEF TypeOK
<1>10. SerialNotAhead'
  BY <1>0, <1>1 DEF SerialNotAhead
<1>11. TypeOK'
  BY <1>0, <1>1, <1>2, <1>3, <1>4, <1>5, <1>6, <1>7 DEF TypeOK
<1>12. Numbers'
  BY <1>0, <1>1, <1>3, <1>8 DEF Numbers
<1>13. Pages'
  BY <1>0, <1>1, <1>4 DEF Pages
<1>14. Batch'
  BY <1>0, <1>1, <1>2, <1>4 DEF Batch
<1>15. Failures'
  BY <1>0, <1>1, <1>2, <1>4, <1>5, <1>9 DEF Failures
<1>16. StaleIsFresh'
  BY <1>0, <1>1, <1>2 DEF StaleIsFresh
<1>17. SeenKept'
  BY <1>0, <1>1, <1>2 DEF SeenKept, SeenBehind
<1>18. EtagKept'
  BY <1>0, <1>1, <1>3 DEF EtagKept, EtagBehind, InHand
<1> QED
  BY <1>10, <1>11, <1>12, <1>13, <1>14, <1>15, <1>16, <1>17, <1>18 DEF SyncIInv, Kept

\* Every step keeps the invariant.
LEMMA StepIInv == SyncIInv /\ [Next]_vars => SyncIInv'
<1> SUFFICES ASSUME SyncIInv, [Next]_vars PROVE SyncIInv'
  OBVIOUS
<1>1. ASSUME NEW p \in Projects, Publish(p) \/ Delete(p) \/ CoolDown(p) PROVE SyncIInv'
  BY <1>1, PublishInv, DeleteInv, CoolDownInv
<1>2. CASE PollNext
  <2>1. ASSUME NEW p \in Projects, PollEnqueue(p) PROVE SyncIInv'
    BY <2>1, PollEnqueueInv
  <2> QED BY <1>2, <2>1, PollStartInv, PollNotModifiedInv, PollListingInv, PollReadInv,
             PollFinishInv, PollDoneInv DEF PollNext
<1>3. CASE PollRateLimited \/ PollFails
  BY <1>3, PollRateLimitedInv, PollFailsInv
<1>4. CASE SyncNext
  <2>1. ASSUME NEW p \in Projects,
               FetchPage(p) \/ ApplyGone(p) \/ ApplyRetry(p) \/ ApplyRateLimited(p)
        PROVE  SyncIInv'
    BY <2>1, FetchPageInv, ApplyGoneInv, ApplyRetryInv, ApplyRateLimitedInv
  <2>2. ASSUME NEW p \in Projects, NEW changed \in BOOLEAN, ApplyPage(p, changed)
        PROVE  SyncIInv'
    BY <2>2, ApplyPageInv
  <2>3. CASE Drain \/ SyncRefused \/ SyncAllowed \/ SyncFinish
    BY <2>3, DrainInv, SyncRefusedInv, SyncAllowedInv, SyncFinishInv
  <2> QED BY <1>4, <2>1, <2>2, <2>3 DEF SyncNext
<1>5. CASE SyncRaises
  BY <1>5, SyncRaisesInv
<1>6. ASSUME NEW p \in Projects, NEW k \in {"retry", "limited"}, FetchPageFails(p, k)
      PROVE  SyncIInv'
  BY <1>6, FetchPageFailsInv
<1>7. CASE BreakerDue
  BY <1>7, BreakerDueInv
<1>8. CASE Restart
  BY <1>8, RestartInv
<1>9. CASE UNCHANGED vars
  <2>1. /\ clock' = clock /\ remote' = remote /\ local' = local /\ ipc' = ipc /\ etag' = etag
        /\ seen' = seen /\ stale' = stale /\ spc' = spc /\ pending' = pending
        /\ names' = names /\ todo' = todo /\ got' = got /\ tally' = tally
        /\ attempts' = attempts /\ cooling' = cooling /\ quarantined' = quarantined
        /\ b' = b /\ faults' = faults /\ crashes' = crashes
    BY <1>9 DEF vars, pypiVars, pollVars, syncVars, backoffVars
  <2>2. TypeOK' /\ SerialNotAhead'
    BY <2>1 DEF SyncIInv, TypeOK, SerialNotAhead
  <2>3. Numbers' /\ Pages' /\ Batch' /\ Failures'
    BY <2>1 DEF SyncIInv, Numbers, Pages, Batch, Failures
  <2>4. Kept'
    BY <2>1 DEF SyncIInv, Kept, StaleIsFresh, SeenKept, EtagKept, SeenBehind, EtagBehind, InHand
  <2> QED BY <2>2, <2>3, <2>4 DEF SyncIInv
<1> QED
  BY <1>1, <1>2, <1>3, <1>4, <1>5, <1>6, <1>7, <1>8, <1>9 DEF Next

(* SyncIInv is an invariant of the two stages. *)
THEOREM SyncInvariant == Spec => []SyncIInv
<1> QED BY InitIInv, StepIInv, PTL DEF Spec

(* pypi_index never gets ahead of PyPI (ingest.apply_project_page), a project
   is queued once (ProjectSyncStage._pending) and every variable keeps its
   type, through restarts, failures and pages that change under way. *)
THEOREM SyncSerials == Spec => []SyncInv
<1>1. SyncIInv => SyncInv
  BY DEF SyncIInv, SyncInv
<1> QED BY <1>1, SyncInvariant, PTL

(* As long as no page request fails, a project that the listing behind the
   etag showed as stale is queued, drained or being worked on until pypi_index
   has caught up (IndexPollStage.iterate, ProjectSyncStage.iterate), for any
   projects, batch size and interleaving, and through failed polls, refused
   batches and restarts. *)
THEOREM SyncNothingDropped == Spec => []NothingDropped
<1>1. SyncIInv => NothingDropped
  <2> SUFFICES ASSUME SyncIInv, faults.other = 0, NEW p \in Projects,
                      etag[p] > 0, etag[p] = remote[p], local[p] < etag[p]
               PROVE  p \in stale \cup Names(pending) \cup Names(names)
    BY DEF NothingDropped
  <2>1. InHand(p)
    BY DEF SyncIInv, Kept, EtagKept, EtagBehind
  <2> QED BY <2>1 DEF InHand, SyncIInv, Batch
<1> QED BY <1>1, SyncInvariant, PTL
=============================================================================
