-------------------------- MODULE RateLimitProofs --------------------------
(***************************************************************************)
(* For any number of threads and domains and any rates, the limiter grants *)
(* no more in a window of time than the burst and what the rate adds.      *)
(*                                                                         *)
(* GrantsBounded is not inductive: what a later grant may take is in the   *)
(* bucket.  LimitInv adds that tokens still in the bucket and tokens       *)
(* granted in the window together never exceed the burst plus the refill   *)
(* up to the last refill -- or that nothing was granted since the window   *)
(* began, if the last refill is older.  WaitInv, for the computed waits,   *)
(* comes with its own argument below.                                      *)
(***************************************************************************)
EXTENDS RateLimit, FiniteSetTheorems, NaturalsInduction, TLAPS

GlobalAccount ==
    IF glast >= from THEN gtok + grants <= Burst + Rate * (glast - from)
    ELSE grants = 0

OwnAccount(c) ==
    IF clast[c] >= from THEN ctok[c] + own[c] <= CBurst[c] + CRate[c] * (clast[c] - from)
    ELSE own[c] = 0

LimitInv == TypeOK /\ GlobalAccount /\ \A c \in Children : OwnAccount(c)

\* What a refill does to one account, in numbers.
LEMMA RefillAccount ==
    ASSUME NEW tokens \in Nat, NEW burst \in Nat, NEW rate \in Nat, NEW last \in Nat,
           NEW start \in Nat, NEW given \in Nat, now \in Nat, last <= now, start <= now,
           tokens <= burst,
           IF last >= start THEN tokens + given <= burst + rate * (last - start)
           ELSE given = 0
    PROVE  /\ Refilled(tokens, last, rate, burst) \in Nat
           /\ Refilled(tokens, last, rate, burst) <= burst
           /\ Refilled(tokens, last, rate, burst) + given <= burst + rate * (now - start)
<1>1. (now - last) * rate \in Nat /\ rate * (now - start) \in Nat
  BY SMT
<1>2. CASE last >= start
  <2>1. rate * (now - start) = rate * (last - start) + (now - last) * rate
    BY <1>2, SMT
  <2>2. rate * (last - start) \in Nat
    BY <1>2, SMT
  <2> QED BY <1>1, <1>2, <2>1, <2>2 DEF Refilled, Least
<1>3. CASE last < start
  BY <1>1, <1>3 DEF Refilled, Least
<1> QED BY <1>2, <1>3

\* A fresh limiter has full buckets and has granted nothing.
LEMMA InitInv == Init => LimitInv
<1> SUFFICES ASSUME Init PROVE LimitInv
  OBVIOUS
<1> USE RateLimitAssumption
<1>1. \A c \in Children : IdleThreshold(c) \in Int
  BY DEF IdleThreshold, CeilDiv
<1>2. TypeOK
  BY <1>1 DEF Init, TypeOK
<1>3. GlobalAccount
  BY DEF Init, GlobalAccount
<1>4. ASSUME NEW c \in Children PROVE OwnAccount(c)
  BY DEF Init, OwnAccount
<1> QED BY <1>2, <1>3, <1>4 DEF LimitInv

\* The two refills every attempt begins with.
LEMMA Refills ==
    ASSUME LimitInv, NEW c \in Children
    PROVE  /\ Global \in 0..Burst
           /\ Global + grants <= Burst + Rate * (now - from)
           /\ Own(c) \in 0..CBurst[c]
           /\ Own(c) + own[c] <= CBurst[c] + CRate[c] * (now - from)
<1> USE RateLimitAssumption
<1>1. /\ now \in Nat /\ from \in Nat /\ from <= now
      /\ gtok \in Nat /\ gtok <= Burst /\ glast \in Nat /\ glast <= now /\ grants \in Nat
      /\ ctok[c] \in Nat /\ ctok[c] <= CBurst[c] /\ clast[c] \in Nat /\ clast[c] <= now
      /\ own[c] \in Nat
      /\ Rate \in Nat /\ CRate[c] \in Nat /\ CBurst[c] \in Nat
  BY DEF LimitInv, TypeOK
<1>2. /\ Global \in Nat /\ Global <= Burst
      /\ Global + grants <= Burst + Rate * (now - from)
  BY <1>1, RefillAccount DEF LimitInv, GlobalAccount, Global
<1>3. /\ Own(c) \in Nat /\ Own(c) <= CBurst[c]
      /\ Own(c) + own[c] <= CBurst[c] + CRate[c] * (now - from)
  <2>1. IF clast[c] >= from THEN ctok[c] + own[c] <= CBurst[c] + CRate[c] * (clast[c] - from)
        ELSE own[c] = 0
    BY DEF LimitInv, OwnAccount
  <2> QED BY <1>1, <2>1, RefillAccount DEF Own
<1> QED BY <1>1, <1>2, <1>3

\* Moving tokens from the bucket to the grants keeps an account within its bound.
LEMMA Transfer ==
    ASSUME NEW a \in Nat, NEW g \in Nat, NEW a1 \in Nat, NEW g1 \in Nat, NEW m \in Nat,
           NEW r \in Nat, a + g <= m + r, a1 + g1 <= a + g
    PROVE  a1 + g1 <= m + r
OBVIOUS

\* What an attempt may do to the buckets and the counts, granted or not.
AttemptStep(c) ==
    /\ UNCHANGED <<now, pen, penalties, from>>
    /\ glast' = now /\ clast' = [clast EXCEPT ![c] = now]
    /\ \E n \in Nat : ctok' = [ctok EXCEPT ![c] = n] /\ n <= CBurst[c]
                      /\ n + own'[c] <= Own(c) + own[c]
    /\ own' \in [Children -> Nat] /\ \A d \in Children \ {c} : own'[d] = own[d]
    /\ gtok' \in 0..Burst /\ grants' \in Nat /\ gtok' + grants' <= Global + grants
    /\ attempt' \in [Children -> Int]
    /\ pc' \in [Callers -> {"out", "trying", "waiting"}]
    /\ child' \in [Callers -> Children \cup {"none"}]
    /\ DOMAIN wake' = Callers
    /\ tries' \in [Callers -> Nat]

\* An attempt, granted or not, keeps both accounts.
LEMMA AttemptPreserves ==
    ASSUME LimitInv, NEW c \in Children, AttemptStep(c)
    PROVE  LimitInv'
<1> USE RateLimitAssumption
<1>0. TypeOK
  BY DEF LimitInv
<1>4. GlobalAccount'
  <2>1. Rate * (now - from) \in Nat
    BY <1>0 DEF TypeOK
  <2>2. now' = now /\ from' = from /\ glast' = now /\ now >= from
    BY <1>0 DEF AttemptStep, TypeOK
  <2>3. gtok' + grants' <= Burst + Rate * (now - from)
    <3>1. Global \in Nat /\ Global + grants <= Burst + Rate * (now - from)
      BY Refills
    <3>2. gtok' \in Nat /\ grants' \in Nat /\ gtok' + grants' <= Global + grants
      BY DEF AttemptStep
    <3>3. grants \in Nat
      BY <1>0 DEF TypeOK
    <3>4. Burst \in Nat
      OBVIOUS
    <3> DEFINE left == gtok'
               given == grants'
    <3>5. left \in Nat /\ given \in Nat /\ left + given <= Global + grants
      BY <3>2
    <3> HIDE DEF left, given
    <3>6. left + given <= Burst + Rate * (now - from)
      BY <2>1, <3>1, <3>3, <3>4, <3>5, Transfer
    <3> QED BY <3>6 DEF left, given
  <2> QED BY <2>2, <2>3 DEF GlobalAccount
<1> PICK n \in Nat : /\ ctok' = [ctok EXCEPT ![c] = n] /\ n <= CBurst[c]
                     /\ n + own'[c] <= Own(c) + own[c]
  BY DEF AttemptStep
<1>1. TypeOK'
  BY <1>0 DEF AttemptStep, TypeOK
<1>3. ASSUME NEW d \in Children PROVE OwnAccount(d)'
  <2>1. CASE d = c
    <3>1. /\ ctok'[d] = n /\ clast'[d] = now /\ from' = from /\ now >= from
          /\ own'[d] \in Nat /\ own[d] \in Nat /\ CBurst[d] \in Nat
      BY <1>0, <2>1 DEF AttemptStep, TypeOK
    <3>2. CRate[d] * (now - from) \in Nat
      BY <1>0 DEF TypeOK
    <3>3. n + own'[d] <= CBurst[d] + CRate[d] * (now - from)
      BY <2>1, <3>1, <3>2, Refills
    <3> QED BY <3>1, <3>3 DEF OwnAccount
  <2>2. CASE d # c
    BY <1>0, <2>2 DEF LimitInv, OwnAccount, AttemptStep, TypeOK
  <2> QED BY <2>1, <2>2
<1> QED BY <1>1, <1>3, <1>4 DEF LimitInv

\* A grant from the reserve moves one token from each bucket to the counts.
LEMMA TakeOwnStep ==
    ASSUME LimitInv, NEW t \in Callers, NEW c \in Children, TakeOwn(t, c)
    PROVE  AttemptStep(c)
<1> USE RateLimitAssumption
<1>0. TypeOK /\ Own(c) \in 0..CBurst[c] /\ Global \in 0..Burst
  BY Refills DEF LimitInv
<1>1. /\ UNCHANGED <<now, pen, penalties, from>>
      /\ glast' = now /\ clast' = [clast EXCEPT ![c] = now]
  BY DEF TakeOwn, TakeGlobal, Granted
<1>2. own' = [own EXCEPT ![c] = @ + Cost] /\ own'[c] = own[c] + Cost
  BY <1>0 DEF TakeOwn, TypeOK
<1>3. /\ Own(c) - Cost \in Nat /\ Own(c) - Cost <= CBurst[c]
      /\ (Own(c) - Cost) + own'[c] <= Own(c) + own[c]
      /\ ctok' = [ctok EXCEPT ![c] = Own(c) - Cost]
  BY <1>0, <1>2 DEF TakeOwn, TypeOK
<1>4. own' \in [Children -> Nat] /\ \A d \in Children \ {c} : own'[d] = own[d]
  BY <1>0, <1>2 DEF TypeOK
<1>5. gtok' \in 0..Burst /\ grants' \in Nat /\ gtok' + grants' <= Global + grants
  BY <1>0 DEF TakeOwn, TakeGlobal, Granted, TypeOK
<1>6. /\ attempt' \in [Children -> Int]
      /\ pc' \in [Callers -> {"out", "trying", "waiting"}]
      /\ child' \in [Callers -> Children \cup {"none"}]
      /\ DOMAIN wake' = Callers
      /\ tries' \in [Callers -> Nat]
  BY <1>0 DEF TakeOwn, Enter, Granted, TypeOK
<1> QED BY <1>1, <1>3, <1>4, <1>5, <1>6 DEF AttemptStep

\* A borrowed grant moves one token from the global bucket to the count.
LEMMA BorrowStep ==
    ASSUME LimitInv, NEW t \in Callers, NEW c \in Children, Borrow(t, c)
    PROVE  AttemptStep(c)
<1> USE RateLimitAssumption
<1>0. TypeOK /\ Own(c) \in 0..CBurst[c] /\ Global \in 0..Burst
  BY Refills DEF LimitInv
<1>1. /\ UNCHANGED <<now, pen, penalties, from, own>>
      /\ glast' = now /\ clast' = [clast EXCEPT ![c] = now]
      /\ ctok' = [ctok EXCEPT ![c] = Own(c)]
  BY DEF Borrow, TakeGlobal, Granted
<1>2. own' \in [Children -> Nat] /\ Own(c) + own'[c] <= Own(c) + own[c]
  BY <1>0, <1>1 DEF TypeOK
<1>3. gtok' \in 0..Burst /\ grants' \in Nat /\ gtok' + grants' <= Global + grants
  BY <1>0 DEF Borrow, TakeGlobal, Granted, TypeOK
<1>4. /\ attempt' \in [Children -> Int]
      /\ pc' \in [Callers -> {"out", "trying", "waiting"}]
      /\ child' \in [Callers -> Children \cup {"none"}]
      /\ DOMAIN wake' = Callers
      /\ tries' \in [Callers -> Nat]
  BY <1>0 DEF Borrow, Enter, Granted, TypeOK
<1>5. \E n \in Nat : ctok' = [ctok EXCEPT ![c] = n] /\ n <= CBurst[c]
                   /\ n + own'[c] <= Own(c) + own[c]
  <2>1. Own(c) \in Nat /\ Own(c) <= CBurst[c]
    BY <1>0
  <2> QED BY <1>1, <1>2, <2>1
<1> QED BY <1>1, <1>2, <1>3, <1>4, <1>5 DEF AttemptStep

\* Both ways to go to sleep: the reserve is refilled, nothing is granted.
LEMMA SleepStep ==
    ASSUME LimitInv, NEW t \in Callers, NEW c \in Children, NEW others \in SUBSET Callers,
           Enter(t, c), Sleep(t, c, others),
           ctok' = [ctok EXCEPT ![c] = Own(c)], clast' = [clast EXCEPT ![c] = now]
    PROVE  AttemptStep(c)
<1> USE RateLimitAssumption
<1>0. TypeOK /\ Own(c) \in 0..CBurst[c] /\ Global \in 0..Burst
  BY Refills DEF LimitInv
<1>1. /\ UNCHANGED <<now, pen, penalties, from, grants, own>>
      /\ glast' = now /\ gtok' = Global
  BY DEF Sleep, windowVars
<1>2. own' \in [Children -> Nat] /\ Own(c) + own'[c] <= Own(c) + own[c]
  BY <1>0, <1>1 DEF TypeOK
<1>3. gtok' \in 0..Burst /\ grants' \in Nat /\ gtok' + grants' <= Global + grants
  BY <1>0, <1>1 DEF TypeOK
<1>4. attempt' \in [Children -> Int]
  BY <1>0 DEF Enter, TypeOK
<1>5. /\ pc' \in [Callers -> {"out", "trying", "waiting"}]
      /\ child' \in [Callers -> Children \cup {"none"}]
      /\ DOMAIN wake' = Callers
  BY <1>0 DEF Sleep, TypeOK
<1>6. tries' \in [Callers -> Nat]
  BY <1>0 DEF Sleep, TypeOK
<1>7. \E n \in Nat : ctok' = [ctok EXCEPT ![c] = n] /\ n <= CBurst[c]
                   /\ n + own'[c] <= Own(c) + own[c]
  <2>1. Own(c) \in Nat /\ Own(c) <= CBurst[c]
    BY <1>0
  <2> QED BY <1>1, <1>2, <2>1
<1> QED BY <1>1, <1>2, <1>3, <1>4, <1>5, <1>6, <1>7 DEF AttemptStep

\* No step of the limiter breaks LimitInv.
LEMMA StepInv == LimitInv /\ [Next]_vars => LimitInv'
<1> SUFFICES ASSUME LimitInv, [Next]_vars PROVE LimitInv'
  OBVIOUS
<1> USE RateLimitAssumption
<1>0. TypeOK
  BY DEF LimitInv
<1>1. ASSUME NEW t \in Callers, NEW c \in Children, TakeOwn(t, c) PROVE LimitInv'
  BY <1>1, TakeOwnStep, AttemptPreserves
<1>2. ASSUME NEW t \in Callers, NEW c \in Children, Borrow(t, c) PROVE LimitInv'
  BY <1>2, BorrowStep, AttemptPreserves
<1>3. ASSUME NEW t \in Callers, NEW c \in Children, Rollback(t, c) PROVE LimitInv'
  <2>1. GivenBack(c) = Own(c)
    BY Refills DEF GivenBack, Least
  <2> DEFINE woken == {u \in Callers : pc[u] = "waiting"}
  <2>2. /\ Enter(t, c) /\ Sleep(t, c, woken)
        /\ ctok' = [ctok EXCEPT ![c] = Own(c)] /\ clast' = [clast EXCEPT ![c] = now]
    BY <1>3, <2>1 DEF Rollback
  <2> HIDE DEF woken
  <2>3. woken \in SUBSET Callers
    BY DEF woken
  <2> QED BY <2>2, <2>3, SleepStep, AttemptPreserves
<1>4. ASSUME NEW t \in Callers, NEW c \in Children, Refused(t, c) PROVE LimitInv'
  <2>1. /\ Enter(t, c) /\ Sleep(t, c, {})
        /\ ctok' = [ctok EXCEPT ![c] = Own(c)] /\ clast' = [clast EXCEPT ![c] = now]
    BY <1>4 DEF Refused
  <2> QED BY <2>1, SleepStep, AttemptPreserves
<1>5. ASSUME NEW t \in Callers, Wake(t) PROVE LimitInv'
  <2>1. TypeOK'
    BY <1>0, <1>5 DEF Wake, TypeOK, bucketVars, windowVars
  <2> QED BY <1>5, <2>1
          DEF LimitInv, GlobalAccount, OwnAccount, Wake, bucketVars, windowVars
<1>6. ASSUME NEW c \in Children, Penalize(c) PROVE LimitInv'
  <2>1. TypeOK'
    BY <1>0, <1>6 DEF Penalize, TypeOK, Most, bucketVars, callVars, windowVars
  <2> QED BY <1>6, <2>1
          DEF LimitInv, GlobalAccount, OwnAccount, Penalize, bucketVars, windowVars
<1>7. ASSUME Tick PROVE LimitInv'
  <2>1. TypeOK'
    BY <1>0, <1>7 DEF Tick, TypeOK, bucketVars, windowVars
  <2> QED BY <1>7, <2>1
          DEF LimitInv, GlobalAccount, OwnAccount, Tick, bucketVars, windowVars
<1>8. ASSUME NewWindow PROVE LimitInv'
  <2>1. TypeOK'
    BY <1>0, <1>8 DEF NewWindow, TypeOK, bucketVars, callVars
  <2>2. GlobalAccount'
    BY <1>0, <1>8 DEF NewWindow, TypeOK, GlobalAccount, bucketVars
  <2>3. ASSUME NEW c \in Children PROVE OwnAccount(c)'
    <3>1. ctok[c] \in Nat /\ ctok[c] <= CBurst[c] /\ CBurst[c] \in Nat /\ CRate[c] \in Nat
          /\ clast[c] \in 0..now
      BY <1>0 DEF TypeOK
    <3>2. ctok' = ctok /\ clast' = clast /\ own'[c] = 0 /\ from' = now
      BY <1>8 DEF NewWindow, bucketVars
    <3> QED BY <1>0, <3>1, <3>2 DEF OwnAccount, TypeOK
  <2> QED BY <2>1, <2>2, <2>3 DEF LimitInv
<1>9. CASE UNCHANGED vars
  <2>1. TypeOK'
    BY <1>0, <1>9 DEF TypeOK, vars, bucketVars, callVars, windowVars
  <2> QED BY <1>9, <2>1
          DEF LimitInv, GlobalAccount, OwnAccount, vars, bucketVars, windowVars
<1> QED
  BY <1>1, <1>2, <1>3, <1>4, <1>5, <1>6, <1>7, <1>8, <1>9 DEF Next

\* The accounts imply the bounds on what was granted.
LEMMA InvBounds == LimitInv => GrantsBounded /\ ReserveBounded
<1> SUFFICES ASSUME LimitInv PROVE GrantsBounded /\ ReserveBounded
  OBVIOUS
<1> USE RateLimitAssumption
<1>0. TypeOK
  BY DEF LimitInv
<1>1. GrantsBounded
  <2>1. Rate * (now - from) \in Nat
    BY <1>0 DEF TypeOK
  <2>2. CASE glast >= from
    <3>1. Rate * (glast - from) <= Rate * (now - from) /\ Rate * (glast - from) \in Nat
      BY <1>0, <2>2, SMT DEF TypeOK
    <3> QED BY <1>0, <2>1, <2>2, <3>1 DEF LimitInv, GlobalAccount, GrantsBounded, TypeOK
  <2>3. CASE ~(glast >= from)
    BY <1>0, <2>1, <2>3 DEF LimitInv, GlobalAccount, GrantsBounded, TypeOK
  <2> QED BY <2>2, <2>3
<1>2. ASSUME NEW c \in Children PROVE own[c] <= CBurst[c] + CRate[c] * (now - from)
  <2>0. /\ CRate[c] \in Nat /\ CBurst[c] \in Nat /\ clast[c] \in 0..now /\ ctok[c] \in Nat
        /\ own[c] \in Nat /\ now \in Nat /\ from \in 0..now
    BY <1>0 DEF TypeOK
  <2>1. CRate[c] * (now - from) \in Nat
    BY <2>0
  <2>2. CASE clast[c] >= from
    <3>1. /\ CRate[c] * (clast[c] - from) <= CRate[c] * (now - from)
          /\ CRate[c] * (clast[c] - from) \in Nat
      BY <2>0, <2>2, SMT
    <3> QED BY <2>0, <2>1, <2>2, <3>1 DEF LimitInv, OwnAccount
  <2>3. CASE ~(clast[c] >= from)
    BY <2>0, <2>1, <2>3 DEF LimitInv, OwnAccount
  <2> QED BY <2>2, <2>3
<1> QED BY <1>1, <1>2 DEF ReserveBounded

(* LimitInv is an invariant of the limiter. *)
THEOREM LimiterInvariant == Spec => []LimitInv
<1> QED BY InitInv, StepInv, PTL DEF Spec

(* HierarchicalLimiter: buckets stay within their bursts. *)
THEOREM LimiterTypes == Spec => []TypeOK
<1>1. LimitInv => TypeOK
  BY DEF LimitInv
<1> QED BY <1>1, LimiterInvariant, PTL

(* "Sum of grants across all children provably never exceeds the global rate"
   (specs/03): over any window, for any rates, domains and threads. *)
THEOREM LimiterGrants == Spec => []GrantsBounded
<1> QED BY InvBounds, LimiterInvariant, PTL

(* Nor does a domain's own reserve give more than its rate. *)
THEOREM LimiterReserves == Spec => []ReserveBounded
<1> QED BY InvBounds, LimiterInvariant, PTL

-----------------------------------------------------------------------------
(* The waits.  WaitIsRight is not inductive: that a sleeper cannot be      *)
(* served now does not say that it cannot be served one tick later, with   *)
(* its wait still running.  Held names the reason that lasts until the     *)
(* wait ends: the penalty, the global bucket, or the reserve together with *)
(* one busy sibling.  What others do meanwhile (take tokens, ask, get      *)
(* penalties) only makes a reason last longer.                             *)
Held(c, w) ==
    \/ w <= pen[c]
    \/ gtok + (w - 1 - glast) * Rate < Cost
    \/ /\ ctok[c] + (w - 1 - clast[c]) * CRate[c] < Cost
       /\ \E d \in Children \ {c} : w <= attempt[d] + IdleThreshold(d)

Asked == \A c \in Children : attempt[c] <= now

SleepsForReason ==
    \A t \in Callers : pc[t] = "waiting" =>
        /\ child[t] \in Children
        /\ wake[t] \in Nat
        /\ wake[t] > now => Held(child[t], wake[t])

NoBusyLoop ==
    \A t \in Callers :
        pc[t] = "waiting" /\ tries[t] > 0 => wake[t] > now \/ Penalized(child[t])

WaitInv == Asked /\ SleepsForReason /\ NoBusyLoop

\* Induction in the form of a least counterexample.
LEMMA LeastNat ==
    ASSUME NEW T, T \subseteq Nat, T # {}
    PROVE  \E n \in T : \A m \in T : n <= m
<1>1. PICK n \in T : \A m \in T : ~(<<m, n>> \in OpToRel(<, Nat))
  BY WFMin, NatLessThanWellFounded
<1>2. \A m \in T : ~(m < n)
  BY <1>1 DEF OpToRel
<1> QED BY <1>2

\* A finite set of integers has a largest one: max() of the siblings' waits.
LEMMA LargestOfFinite ==
    ASSUME NEW S, S \subseteq Int, IsFiniteSet(S), S # {}
    PROVE  \E m \in S : \A v \in S : v <= m
<1> DEFINE Bad(X) == /\ IsFiniteSet(X) /\ X # {}
                     /\ ~(\E m \in X : \A v \in X : v <= m)
           T == {n \in Nat : \E X \in SUBSET Int : Bad(X) /\ Cardinality(X) = n}
<1> SUFFICES ASSUME Bad(S) PROVE FALSE
  OBVIOUS
<1>1. T # {} /\ T \subseteq Nat
  <2>1. Cardinality(S) \in Nat
    BY FS_CardinalityType
  <2> QED BY <2>1
<1>2. PICK n \in T : \A m \in T : n <= m
  BY <1>1, LeastNat
<1>3. PICK X \in SUBSET Int : Bad(X) /\ Cardinality(X) = n
  BY <1>2
<1>4. PICK x \in X : TRUE
  BY <1>3
<1> DEFINE Y == X \ {x}
<1>5. /\ IsFiniteSet(Y) /\ Cardinality(Y) = n - 1
      /\ Y \in SUBSET Int /\ n \in Nat /\ x \in Int
  BY <1>2, <1>3, <1>4, FS_RemoveElement
<1>6. \A z \in X : z \in Y \/ z = x
  OBVIOUS
<1>7. Y \subseteq X /\ x \in X
  BY <1>4
<1> HIDE DEF Y
<1>8. CASE Y = {}
  BY <1>3, <1>5, <1>6, <1>7, <1>8
<1>9. CASE Y # {}
  <2>1. ~Bad(Y)
    <3> SUFFICES ASSUME Bad(Y) PROVE FALSE
      OBVIOUS
    <3>1. Cardinality(Y) \in Nat
      BY <1>5, FS_CardinalityType
    <3>2. Cardinality(Y) \in T
      BY <1>5, <3>1
    <3> QED BY <1>2, <1>5, <3>1, <3>2
  <2>2. PICK m \in Y : \A v \in Y : v <= m
    BY <1>5, <1>9, <2>1
  <2>3. m \in X /\ m \in Int /\ x \in X /\ \A z \in X : z \in Int
    BY <1>5, <1>7, <2>2
  <2>4. CASE m <= x
    <3>1. \A z \in X : z <= x
      BY <1>5, <1>6, <2>2, <2>3, <2>4
    <3> QED BY <1>3, <1>7, <3>1
  <2>5. CASE ~(m <= x)
    <3>1. \A z \in X : z <= m
      BY <1>5, <1>6, <2>2, <2>3, <2>5
    <3> QED BY <1>3, <2>3, <3>1
  <2> QED BY <2>4, <2>5
<1> QED BY <1>8, <1>9

\* Rounding up a wait does not overshoot: one tick less is too early.
LEMMA CeilBound ==
    ASSUME NEW x \in Nat \ {0}, NEW y \in Nat \ {0}
    PROVE  /\ CeilDiv(x, y) \in Nat \ {0}
           /\ \A w \in Nat : w <= CeilDiv(x, y) => (w - 1) * y < x
<1> DEFINE q == (x + y - 1) \div y
<1>1. q \in Int /\ q * y <= x + y - 1 /\ x + y - 1 < (q + 1) * y
  BY SMTT(30)
<1>2. CeilDiv(x, y) = q
  BY DEF CeilDiv
<1> HIDE DEF q
<1>3. q \in Nat \ {0}
  BY <1>1, SMTT(30)
<1>4. ASSUME NEW w \in Nat, w <= q PROVE (w - 1) * y < x
  <2>1. (q - 1) * y = q * y - y /\ q * y \in Int
    BY <1>3, SMTT(30)
  <2>2. (w - 1) * y <= (q - 1) * y /\ (w - 1) * y \in Int
    BY <1>3, <1>4, SMTT(30)
  <2> QED BY <1>1, <2>1, <2>2
<1> QED BY <1>2, <1>3, <1>4

\* A bucket too low until just before w is still so after a refill and takings.
LEMMA RefillHolds ==
    ASSUME NEW tokens \in Nat, NEW last \in Nat, NEW rate \in Nat, NEW burst \in Nat,
           NEW w \in Nat, now \in Nat, last <= now, now < w,
           tokens + (w - 1 - last) * rate < Cost,
           NEW n \in Int, n <= Refilled(tokens, last, rate, burst)
    PROVE  /\ n + (w - 1 - now) * rate < Cost
           /\ Refilled(tokens, last, rate, burst) < Cost
<1> DEFINE a == (w - 1 - now) * rate
           b == (now - last) * rate
<1>1. (w - 1 - last) * rate = a + b /\ a \in Nat /\ b \in Nat
  BY SMTT(30)
<1>2. last = now => b = 0
  BY SMTT(30)
<1>3. Refilled(tokens, last, rate, burst) \in Nat
      /\ Refilled(tokens, last, rate, burst) <= tokens + b
  BY <1>1, <1>2 DEF Refilled, Least
<1> HIDE DEF a, b
<1>4. n + a < Cost /\ Refilled(tokens, last, rate, burst) < Cost
  BY <1>1, <1>3, RateLimitAssumption
<1> QED BY <1>4 DEF a

\* What the limiter's numbers are, in one place.
LEMMA LimiterNumbers ==
    ASSUME TypeOK, NEW c \in Children
    PROVE  /\ now \in Nat /\ Cost \in Nat \ {0}
           /\ gtok \in Nat /\ glast \in Nat /\ glast <= now /\ Rate \in Nat \ {0}
           /\ Burst \in Nat
           /\ ctok[c] \in Nat /\ clast[c] \in Nat /\ clast[c] <= now
           /\ CRate[c] \in Nat \ {0} /\ CBurst[c] \in Nat
           /\ pen[c] \in Nat /\ attempt[c] \in Int
  BY RateLimitAssumption DEF TypeOK

\* The idle threshold is some whole number of ticks.
LEMMA Thresholds ==
    ASSUME NEW c \in Children
    PROVE  IdleThreshold(c) \in Nat
  BY RateLimitAssumption, CeilBound DEF IdleThreshold

\* The largest of the siblings' remaining times, or zero.
LEMMA Siblings ==
    ASSUME TypeOK, NEW c \in Children
    PROVE  /\ SiblingsWait(c) \in Nat
           /\ \A d \in Children \ {c} : IdleThreshold(d) - (now - attempt[d]) <= SiblingsWait(c)
           /\ SiblingsWait(c) > 0 =>
                \E d \in Children \ {c} :
                    SiblingsWait(c) = IdleThreshold(d) - (now - attempt[d])
<1> DEFINE left(d) == IdleThreshold(d) - (now - attempt[d])
           others == {left(d) : d \in Children \ {c}}
           waits == others \cup {0}
           Top(w) == \A v \in waits : v <= w
<1>1. now \in Nat /\ \A d \in Children : left(d) \in Int
  BY LimiterNumbers, Thresholds
<1>2. IsFiniteSet(Children \ {c})
  BY RateLimitAssumption, FS_RemoveElement
<1>3. IsFiniteSet(others)
  <2> DEFINE f == [d \in Children \ {c} |-> left(d)]
  <2> HIDE DEF left
  <2>1. f \in Surjection(Children \ {c}, others)
    BY DEF Surjection
  <2> QED BY <1>2, <2>1, FS_Surjection
<1>4. others \subseteq Int /\ 0 \in waits /\ waits # {}
  BY <1>1
<1>5. IsFiniteSet(waits) /\ waits \subseteq Int
  <2>1. IsFiniteSet(waits)
    BY <1>3, FS_AddElement
  <2> QED BY <1>4, <2>1
<1>6. SiblingsWait(c) = CHOOSE w \in waits : Top(w)
  BY DEF SiblingsWait
<1>7. \A v \in others : \E d \in Children \ {c} : v = left(d)
  OBVIOUS
<1>8. \A d \in Children \ {c} : left(d) \in waits
  OBVIOUS
<1>9. \A v \in waits : v \in others \/ v = 0
  OBVIOUS
<1>10. \E w \in waits : Top(w)
  <2> HIDE DEF waits
  <2> QED BY <1>4, <1>5, LargestOfFinite
<1> HIDE DEF others, waits
<1>11. SiblingsWait(c) \in waits /\ Top(SiblingsWait(c))
  <2> HIDE DEF Top
  <2> QED BY <1>6, <1>10
<1>12. SiblingsWait(c) \in Nat
  <2>1. SiblingsWait(c) \in Int /\ 0 <= SiblingsWait(c)
    BY <1>4, <1>5, <1>11
  <2> QED BY <2>1
<1>13. \A d \in Children \ {c} : left(d) <= SiblingsWait(c)
  BY <1>8, <1>11
<1>14. SiblingsWait(c) > 0 => SiblingsWait(c) \in others
  BY <1>9, <1>11, <1>12
<1> QED BY <1>7, <1>12, <1>13, <1>14

\* The two waits a caller may have for tokens: no shorter one would do.
LEMMA TokenWaits ==
    ASSUME LimitInv, NEW c \in Children
    PROVE  /\ GlobalWait \in Nat /\ (GlobalWait > 0 <=> Global < Cost)
           /\ \A w \in Nat : 0 < w /\ w <= GlobalWait => Global + (w - 1) * Rate < Cost
           /\ OwnWait(c) \in Nat
           /\ ~Penalized(c) => (OwnWait(c) > 0 <=> Own(c) < Cost)
           /\ \A w \in Nat : 0 < w /\ w <= OwnWait(c) =>
                \/ now + w <= pen[c]
                \/ Own(c) + (w - 1) * CRate[c] < Cost
<1>1. TypeOK /\ Global \in Nat /\ Own(c) \in Nat
  BY Refills DEF LimitInv
<1>2. /\ Cost \in Nat \ {0} /\ Rate \in Nat \ {0} /\ CRate[c] \in Nat \ {0}
      /\ now \in Nat /\ pen[c] \in Nat
  BY <1>1, LimiterNumbers
<1>3. /\ GlobalWait \in Nat /\ (GlobalWait > 0 <=> Global < Cost)
      /\ \A w \in Nat : 0 < w /\ w <= GlobalWait => Global + (w - 1) * Rate < Cost
  <2>1. CASE Global >= Cost
    BY <1>1, <1>2, <2>1 DEF GlobalWait
  <2>2. CASE Global < Cost
    <3>1. Cost - Global \in Nat \ {0} /\ GlobalWait = CeilDiv(Cost - Global, Rate)
      BY <1>1, <1>2, <2>2 DEF GlobalWait
    <3>2. /\ GlobalWait \in Nat \ {0}
          /\ \A w \in Nat : w <= GlobalWait => (w - 1) * Rate < Cost - Global
      BY <1>2, <3>1, CeilBound
    <3>3. ASSUME NEW w \in Nat, w <= GlobalWait PROVE Global + (w - 1) * Rate < Cost
      <4>1. (w - 1) * Rate \in Int /\ (w - 1) * Rate < Cost - Global
        BY <1>2, <3>2, <3>3
      <4> QED BY <1>1, <1>2, <4>1
    <3> QED BY <2>2, <3>2, <3>3
  <2> QED BY <1>1, <1>2, <2>1, <2>2
<1> DEFINE mine == IF Own(c) >= Cost THEN 0 ELSE CeilDiv(Cost - Own(c), CRate[c])
<1>4. /\ mine \in Nat /\ (mine > 0 <=> Own(c) < Cost)
      /\ \A w \in Nat : 0 < w /\ w <= mine => Own(c) + (w - 1) * CRate[c] < Cost
  <2>1. CASE Own(c) >= Cost
    BY <1>1, <1>2, <2>1
  <2>2. CASE Own(c) < Cost
    <3>1. Cost - Own(c) \in Nat \ {0} /\ mine = CeilDiv(Cost - Own(c), CRate[c])
      BY <1>1, <1>2, <2>2
    <3> HIDE DEF mine
    <3>2. /\ mine \in Nat \ {0}
          /\ \A w \in Nat : w <= mine => (w - 1) * CRate[c] < Cost - Own(c)
      BY <1>2, <3>1, CeilBound
    <3>3. ASSUME NEW w \in Nat, w <= mine PROVE Own(c) + (w - 1) * CRate[c] < Cost
      <4>1. (w - 1) * CRate[c] \in Int /\ (w - 1) * CRate[c] < Cost - Own(c)
        BY <1>2, <3>2, <3>3
      <4> QED BY <1>1, <1>2, <4>1
    <3> QED BY <2>2, <3>2, <3>3
  <2> QED BY <1>1, <1>2, <2>1, <2>2
<1>5. OwnWait(c) = Most(Most(0, pen[c] - now), mine)
  BY DEF OwnWait
<1> HIDE DEF mine
<1>6. OwnWait(c) \in Nat
  BY <1>2, <1>4, <1>5 DEF Most
<1>7. ~Penalized(c) => OwnWait(c) = mine
  BY <1>2, <1>4, <1>5 DEF Most, Penalized
<1>8. ASSUME NEW w \in Nat, 0 < w, w <= OwnWait(c), ~(now + w <= pen[c])
      PROVE  w <= mine
  BY <1>2, <1>4, <1>5, <1>8 DEF Most
<1> QED BY <1>3, <1>4, <1>6, <1>7, <1>8

\* Going to sleep: the wait has a reason that lasts, and unless the child is
\* under a penalty it is not over at once.
LEMMA SleepIsRight ==
    ASSUME LimitInv, NEW c \in Children,
           \/ ~Penalized(c) /\ Own(c) >= Cost /\ Global < Cost
           \/ Penalized(c)
           \/ Own(c) < Cost /\ ~(SiblingsIdle(c) /\ Global >= Cost),
           gtok' = Global, glast' = now, pen' = pen,
           ctok'[c] = Own(c), clast'[c] = now,
           \A d \in Children \ {c} : attempt'[d] = attempt[d],
           NEW W, W = now + TimeUntil(c)
    PROVE  /\ W \in Nat
           /\ W > now \/ Penalized(c)
           /\ W > now => Held(c, W)'
<1>1. TypeOK /\ Global \in Nat /\ Own(c) \in Nat
  BY Refills DEF LimitInv
<1>2. /\ Cost \in Nat \ {0} /\ Rate \in Nat \ {0} /\ CRate[c] \in Nat \ {0}
      /\ now \in Nat /\ pen[c] \in Nat
  BY <1>1, LimiterNumbers
<1>3. GlobalWait \in Nat /\ OwnWait(c) \in Nat /\ SiblingsWait(c) \in Nat
  BY <1>1, TokenWaits, Siblings
<1>4. TimeUntil(c) \in Nat
  BY <1>3 DEF TimeUntil, Least, Most
<1>5. TimeUntil(c) > 0 \/ Penalized(c)
  <2> SUFFICES ASSUME ~Penalized(c) PROVE TimeUntil(c) > 0
    OBVIOUS
  <2>1. /\ GlobalWait > 0 <=> Global < Cost
        /\ OwnWait(c) > 0 <=> Own(c) < Cost
    BY TokenWaits
  <2>2. SiblingsIdle(c) <=> SiblingsWait(c) = 0
    BY <1>3 DEF SiblingsIdle
  <2>3. CASE Own(c) >= Cost
    BY <1>1, <1>2, <1>3, <2>1, <2>3 DEF TimeUntil
  <2>4. CASE Own(c) < Cost
    <3>1. SiblingsWait(c) > 0 \/ GlobalWait > 0
      BY <1>1, <1>2, <1>3, <2>1, <2>2, <2>4
    <3> QED BY <1>3, <2>1, <2>4, <3>1 DEF TimeUntil, Least, Most
  <2> QED BY <1>1, <1>2, <2>3, <2>4
<1> DEFINE w == TimeUntil(c)
<1>6. ASSUME w > 0
      PROVE  \/ W <= pen[c]
             \/ Global + (w - 1) * Rate < Cost
             \/ /\ Own(c) + (w - 1) * CRate[c] < Cost
                /\ \E d \in Children \ {c} : W <= attempt[d] + IdleThreshold(d)
  <2>1. w \in Nat /\ (w <= GlobalWait => Global + (w - 1) * Rate < Cost)
    BY <1>4, <1>6, TokenWaits
  <2>2. w <= OwnWait(c) => W <= pen[c] \/ Own(c) + (w - 1) * CRate[c] < Cost
    BY <1>4, <1>6, TokenWaits
  <2>3. w <= SiblingsWait(c) =>
            \E d \in Children \ {c} : W <= attempt[d] + IdleThreshold(d)
    <3> SUFFICES ASSUME w <= SiblingsWait(c)
                 PROVE  \E d \in Children \ {c} : W <= attempt[d] + IdleThreshold(d)
      OBVIOUS
    <3>1. SiblingsWait(c) > 0
      BY <1>3, <1>4, <1>6
    <3>2. PICK d \in Children \ {c} : SiblingsWait(c) = IdleThreshold(d) - (now - attempt[d])
      BY <1>1, <3>1, Siblings
    <3>3. attempt[d] \in Int /\ IdleThreshold(d) \in Nat
      BY <1>1, LimiterNumbers, Thresholds
    <3>4. W <= attempt[d] + IdleThreshold(d)
      BY <1>2, <1>4, <3>2, <3>3
    <3> QED BY <3>4
  <2>4. \/ w = GlobalWait
        \/ w <= OwnWait(c) /\ (w <= SiblingsWait(c) \/ w <= GlobalWait)
    BY <1>3 DEF TimeUntil, Least, Most
  <2> HIDE DEF w
  <2> QED BY <1>3, <2>1, <2>2, <2>3, <2>4
<1>7. ASSUME w > 0 PROVE Held(c, W)'
  <2>1. W \in Nat /\ W - 1 - now = w - 1
    BY <1>2, <1>4
  <2> HIDE DEF w
  <2>2. \A d \in Children \ {c} : attempt[d] = attempt'[d]
    OBVIOUS
  <2>3. CASE W <= pen[c]
    BY <2>3 DEF Held
  <2>4. CASE Global + (w - 1) * Rate < Cost
    BY <2>1, <2>4 DEF Held
  <2>5. CASE /\ Own(c) + (w - 1) * CRate[c] < Cost
             /\ \E d \in Children \ {c} : W <= attempt[d] + IdleThreshold(d)
    <3>1. PICK d \in Children \ {c} : W <= attempt'[d] + IdleThreshold(d)
      BY <2>2, <2>5
    <3>2. ctok'[c] + (W - 1 - clast'[c]) * CRate[c] < Cost
      BY <2>1, <2>5
    <3> QED BY <3>1, <3>2 DEF Held
  <2> QED BY <1>6, <1>7, <2>3, <2>4, <2>5
<1> QED BY <1>2, <1>4, <1>5, <1>7

\* What an attempt may do to the reasons of the others: it takes tokens, and
\* its domain has been asked.
Spends(c) ==
    /\ now' = now /\ pen' = pen
    /\ glast' = now /\ gtok' \in Int /\ gtok' <= Global
    /\ clast' = [clast EXCEPT ![c] = now]
    /\ \E n \in Int : ctok' = [ctok EXCEPT ![c] = n] /\ n <= Own(c)
    /\ \A d \in Children : attempt'[d] = attempt[d] \/ (d = c /\ attempt'[d] = now)

\* A reason outlasts every attempt.
LEMMA ReasonKept ==
    ASSUME LimitInv, Asked, NEW c \in Children, Spends(c),
           NEW d \in Children, NEW w \in Nat, now < w, Held(d, w)
    PROVE  Held(d, w)'
<1>1. TypeOK
  BY DEF LimitInv
<1>2. /\ now \in Nat /\ gtok \in Nat /\ glast \in Nat /\ glast <= now
      /\ Rate \in Nat /\ Burst \in Nat
      /\ ctok[d] \in Nat /\ clast[d] \in Nat /\ clast[d] <= now
      /\ CRate[d] \in Nat /\ CBurst[d] \in Nat
  BY <1>1, LimiterNumbers
<1>3. CASE w <= pen[d]
  BY <1>3 DEF Held, Spends
<1>4. CASE gtok + (w - 1 - glast) * Rate < Cost
  <2>1. gtok' \in Int /\ gtok' <= Refilled(gtok, glast, Rate, Burst) /\ glast' = now
    BY DEF Spends, Global
  <2> DEFINE n == gtok'
  <2>2. n \in Int /\ n <= Refilled(gtok, glast, Rate, Burst)
    BY <2>1
  <2> HIDE DEF n
  <2>3. n + (w - 1 - now) * Rate < Cost
    BY <1>2, <1>4, <2>2, RefillHolds
  <2> QED BY <2>1, <2>3 DEF Held, n
<1>5. CASE /\ ctok[d] + (w - 1 - clast[d]) * CRate[d] < Cost
           /\ \E e \in Children \ {d} : w <= attempt[e] + IdleThreshold(e)
  <2>1. ctok'[d] + (w - 1 - clast'[d]) * CRate[d] < Cost
    <3>1. CASE d = c
      <4>1. PICK n \in Int : ctok' = [ctok EXCEPT ![c] = n] /\ n <= Own(c)
        BY DEF Spends
      <4>2. n <= Refilled(ctok[d], clast[d], CRate[d], CBurst[d])
        BY <3>1, <4>1 DEF Own
      <4>3. n + (w - 1 - now) * CRate[d] < Cost
        BY <1>2, <1>5, <4>2, RefillHolds
      <4>4. ctok'[d] = n /\ clast'[d] = now
        BY <1>1, <3>1, <4>1 DEF Spends, TypeOK
      <4> QED BY <4>3, <4>4
    <3>2. CASE d # c
      <4>1. ctok'[d] = ctok[d] /\ clast'[d] = clast[d]
        BY <1>1, <3>2 DEF Spends, TypeOK
      <4> QED BY <1>5, <4>1
    <3> QED BY <3>1, <3>2
  <2>2. PICK e \in Children \ {d} : w <= attempt[e] + IdleThreshold(e)
    BY <1>5
  <2>3. attempt[e] \in Int /\ IdleThreshold(e) \in Nat /\ attempt[e] <= now
    BY <1>1, LimiterNumbers, Thresholds DEF Asked
  <2>4. w <= attempt'[e] + IdleThreshold(e)
    <3>1. attempt'[e] = attempt[e] \/ attempt'[e] = now
      BY DEF Spends
    <3> QED BY <1>2, <2>2, <2>3, <3>1
  <2> QED BY <2>1, <2>2, <2>4 DEF Held
<1> QED BY <1>3, <1>4, <1>5 DEF Held

\* Callers an attempt does not touch sleep on for the same reason.
LEMMA OthersSleepOn ==
    ASSUME LimitInv, WaitInv, NEW c \in Children, Spends(c), NEW u \in Callers,
           pc[u] = "waiting", child'[u] = child[u], wake'[u] = wake[u], tries'[u] = tries[u]
    PROVE  /\ child'[u] \in Children /\ wake'[u] \in Nat
           /\ \A d, w : d = child'[u] /\ w = wake'[u] /\ w > now' => Held(d, w)'
           /\ tries'[u] > 0 => wake'[u] > now' \/ now' < pen'[child'[u]]
<1>1. /\ child[u] \in Children /\ wake[u] \in Nat
      /\ wake[u] > now => Held(child[u], wake[u])
      /\ tries[u] > 0 => wake[u] > now \/ now < pen[child[u]]
  BY DEF WaitInv, SleepsForReason, NoBusyLoop, Penalized
<1>2. now' = now /\ pen' = pen /\ now \in Nat
  BY DEF Spends, LimitInv, TypeOK
<1>3. ASSUME NEW d, d = child[u], NEW w, w = wake[u], wake[u] > now
      PROVE  Held(d, w)'
  BY <1>1, <1>2, <1>3, ReasonKept DEF WaitInv
<1> QED BY <1>1, <1>2, <1>3

\* What Enter does to the attempts.
LEMMA EnterAsks ==
    ASSUME LimitInv, Asked, NEW t \in Callers, NEW c \in Children, Enter(t, c), now' = now
    PROVE  /\ \A d \in Children : attempt'[d] = attempt[d] \/ (d = c /\ attempt'[d] = now)
           /\ Asked'
<1>1. attempt \in [Children -> Int] /\ now \in Nat
  BY DEF LimitInv, TypeOK
<1>2. \A d \in Children : attempt'[d] = attempt[d] \/ (d = c /\ attempt'[d] = now)
  BY <1>1 DEF Enter
<1>3. \A d \in Children : attempt'[d] <= now'
  BY <1>1, <1>2 DEF Asked
<1> QED BY <1>2, <1>3 DEF Asked

\* Reading SleepsForReason and NoBusyLoop of the next state caller by caller.
LEMMA WaitsOneByOne ==
    ASSUME Asked',
           \A u \in Callers : pc'[u] = "waiting" =>
               /\ child'[u] \in Children /\ wake'[u] \in Nat
               /\ \A d, w : d = child'[u] /\ w = wake'[u] /\ w > now' => Held(d, w)'
               /\ tries'[u] > 0 => wake'[u] > now' \/ now' < pen'[child'[u]]
    PROVE  WaitInv'
<1>1. SleepsForReason'
  <2> SUFFICES ASSUME NEW u \in Callers, pc'[u] = "waiting"
               PROVE  /\ child'[u] \in Children /\ wake'[u] \in Nat
                      /\ wake'[u] > now' => Held(child[u], wake[u])'
    BY DEF SleepsForReason
  <2> SUFFICES ASSUME wake'[u] > now' PROVE Held(child[u], wake[u])'
    OBVIOUS
  <2>1. \A d, w : d = child'[u] /\ w = wake'[u] => Held(d, w)'
    OBVIOUS
  <2> QED BY <2>1 DEF Held
<1>2. NoBusyLoop'
  BY DEF NoBusyLoop, Penalized
<1> QED BY <1>1, <1>2 DEF WaitInv

\* A grant: the caller leaves, the others sleep on.
LEMMA GrantWaits ==
    ASSUME LimitInv, WaitInv, NEW t \in Callers, NEW c \in Children,
           TakeOwn(t, c) \/ Borrow(t, c)
    PROVE  WaitInv'
<1> USE RateLimitAssumption
<1>1. TypeOK /\ Own(c) \in 0..CBurst[c] /\ Global \in 0..Burst /\ Asked
  BY Refills DEF LimitInv, WaitInv
<1>2. Enter(t, c) /\ Granted(t) /\ TakeGlobal /\ clast' = [clast EXCEPT ![c] = now]
  BY DEF TakeOwn, Borrow
<1>3. now' = now /\ pen' = pen
  BY <1>2 DEF Granted
<1>4. Asked' /\ \A d \in Children : attempt'[d] = attempt[d] \/ (d = c /\ attempt'[d] = now)
  BY <1>1, <1>2, <1>3, EnterAsks
<1>5. Spends(c)
  <2>1. glast' = now /\ gtok' \in Int /\ gtok' <= Global
    BY <1>1, <1>2 DEF TakeGlobal
  <2>2. \E n \in Int : ctok' = [ctok EXCEPT ![c] = n] /\ n <= Own(c)
    <3>1. Own(c) \in Int /\ Own(c) - Cost \in Int /\ Own(c) - Cost <= Own(c) /\ Own(c) <= Own(c)
      BY <1>1
    <3>2. ctok' = [ctok EXCEPT ![c] = Own(c)] \/ ctok' = [ctok EXCEPT ![c] = Own(c) - Cost]
      BY DEF TakeOwn, Borrow
    <3> QED BY <3>1, <3>2
  <2> QED BY <1>2, <1>3, <1>4, <2>1, <2>2 DEF Spends
<1>6. ASSUME NEW u \in Callers, pc'[u] = "waiting"
      PROVE  /\ pc[u] = "waiting"
             /\ child'[u] = child[u] /\ wake'[u] = wake[u] /\ tries'[u] = tries[u]
  BY <1>1, <1>2, <1>6 DEF Granted, TypeOK
<1> QED BY <1>4, <1>5, <1>6, OthersSleepOn, WaitsOneByOne

\* A refusal: the caller sleeps for a reason, those it did not wake sleep on.
LEMMA SleepWaits ==
    ASSUME LimitInv, WaitInv, NEW t \in Callers, NEW c \in Children,
           NEW others \in SUBSET Callers, Enter(t, c), Sleep(t, c, others),
           ctok' = [ctok EXCEPT ![c] = Own(c)], clast' = [clast EXCEPT ![c] = now],
           \/ ~Penalized(c) /\ Own(c) >= Cost /\ Global < Cost
           \/ Penalized(c)
           \/ Own(c) < Cost /\ ~(SiblingsIdle(c) /\ Global >= Cost)
    PROVE  WaitInv'
<1> USE RateLimitAssumption
<1>1. TypeOK /\ Own(c) \in 0..CBurst[c] /\ Global \in 0..Burst /\ Asked
  BY Refills DEF LimitInv, WaitInv
<1>2. now' = now /\ pen' = pen /\ gtok' = Global /\ glast' = now
  BY DEF Sleep
<1>3. Asked' /\ \A d \in Children : attempt'[d] = attempt[d] \/ (d = c /\ attempt'[d] = now)
  BY <1>1, <1>2, EnterAsks
<1>4. Spends(c)
  <2>1. gtok' \in Int /\ gtok' <= Global /\ Own(c) \in Int /\ Own(c) <= Own(c)
    BY <1>1, <1>2
  <2> QED BY <1>2, <1>3, <2>1 DEF Spends
<1>5. /\ pc'[t] = "waiting" /\ child'[t] = c /\ wake'[t] = now + TimeUntil(c)
  BY <1>1 DEF Sleep, TypeOK
<1>6. ctok'[c] = Own(c) /\ clast'[c] = now
  BY <1>1 DEF TypeOK
<1>7. /\ wake'[t] \in Nat
      /\ wake'[t] > now \/ Penalized(c)
      /\ \A d, w : d = c /\ w = wake'[t] /\ w > now => Held(d, w)'
  <2>1. ASSUME NEW W, W = now + TimeUntil(c)
        PROVE  W \in Nat /\ (W > now \/ Penalized(c)) /\ (W > now => Held(c, W)')
    BY <1>2, <1>3, <1>6, <2>1, SleepIsRight
  <2> QED BY <1>5, <2>1
<1>8. ASSUME NEW u \in Callers, pc'[u] = "waiting", u # t
      PROVE  /\ pc[u] = "waiting"
             /\ child'[u] = child[u] /\ wake'[u] = wake[u] /\ tries'[u] = tries[u]
  BY <1>1, <1>8 DEF Sleep, TypeOK
<1>9. ASSUME NEW u \in Callers, pc'[u] = "waiting"
      PROVE  /\ child'[u] \in Children /\ wake'[u] \in Nat
             /\ \A d, w : d = child'[u] /\ w = wake'[u] /\ w > now' => Held(d, w)'
             /\ tries'[u] > 0 => wake'[u] > now' \/ now' < pen'[child'[u]]
  <2>1. CASE u = t
    BY <1>2, <1>5, <1>7, <2>1 DEF Penalized
  <2>2. CASE u # t
    BY <1>4, <1>8, <1>9, <2>2, OthersSleepOn
  <2> QED BY <2>1, <2>2
<1> QED BY <1>3, <1>9, WaitsOneByOne

\* The steps that spend nothing keep every reason.
LEMMA QuietWaits ==
    ASSUME LimitInv, WaitInv,
           gtok' = gtok, glast' = glast, ctok' = ctok, clast' = clast, attempt' = attempt,
           now' \in Nat, now' >= now, \A c \in Children : pen'[c] \in Nat /\ pen'[c] >= pen[c],
           \A u \in Callers : pc'[u] = "waiting" =>
               /\ pc[u] = "waiting" /\ child'[u] = child[u] /\ wake'[u] = wake[u]
               /\ tries'[u] > 0 => tries[u] > 0 /\ now' = now
    PROVE  WaitInv'
<1> USE RateLimitAssumption
<1>1. TypeOK /\ now \in Nat
  BY DEF LimitInv, TypeOK
<1>2. Asked'
  <2>1. \A c \in Children : attempt[c] \in Int /\ attempt[c] <= now
    BY <1>1 DEF WaitInv, Asked, TypeOK
  <2>2. \A c \in Children : attempt[c] <= now'
    BY <1>1, <2>1
  <2> QED BY <2>2 DEF Asked
<1>3. ASSUME NEW d \in Children, NEW w \in Nat, Held(d, w) PROVE Held(d, w)'
  <2>1. pen[d] \in Nat /\ pen'[d] \in Nat /\ pen[d] <= pen'[d]
    BY <1>1 DEF TypeOK
  <2>2. w <= pen[d] => w <= pen'[d]
    BY <2>1
  <2> QED BY <1>3, <2>2 DEF Held
<1>4. ASSUME NEW u \in Callers, pc'[u] = "waiting"
      PROVE  /\ child'[u] \in Children /\ wake'[u] \in Nat
             /\ \A d, w : d = child'[u] /\ w = wake'[u] /\ w > now' => Held(d, w)'
             /\ tries'[u] > 0 => wake'[u] > now' \/ now' < pen'[child'[u]]
  <2>1. /\ pc[u] = "waiting" /\ child'[u] = child[u] /\ wake'[u] = wake[u]
        /\ tries'[u] > 0 => tries[u] > 0 /\ now' = now
    BY <1>4
  <2>2. /\ child[u] \in Children /\ wake[u] \in Nat
        /\ wake[u] > now => Held(child[u], wake[u])
        /\ tries[u] > 0 => wake[u] > now \/ now < pen[child[u]]
    BY <2>1 DEF WaitInv, SleepsForReason, NoBusyLoop, Penalized
  <2>3. pen[child[u]] \in Nat /\ pen'[child[u]] \in Nat /\ pen[child[u]] <= pen'[child[u]]
    BY <1>1, <2>2 DEF TypeOK
  <2>4. wake[u] > now' => Held(child[u], wake[u])
    BY <1>1, <2>2
  <2>5. \A d, w : d = child[u] /\ w = wake[u] /\ w > now' => Held(d, w)'
    BY <1>3, <2>2, <2>4
  <2>6. tries'[u] > 0 => wake[u] > now' \/ now' < pen'[child[u]]
    BY <1>1, <2>1, <2>2, <2>3
  <2> QED BY <2>1, <2>2, <2>5, <2>6
<1> QED BY <1>2, <1>4, WaitsOneByOne

\* No step breaks WaitInv.
LEMMA WaitStep == LimitInv /\ WaitInv /\ [Next]_vars => WaitInv'
<1> SUFFICES ASSUME LimitInv, WaitInv, [Next]_vars PROVE WaitInv'
  OBVIOUS
<1> USE RateLimitAssumption
<1>0. TypeOK /\ now \in Nat /\ pen \in [Children -> Nat]
  BY DEF LimitInv, TypeOK
<1>1. ASSUME NEW t \in Callers, NEW c \in Children, TakeOwn(t, c) \/ Borrow(t, c) PROVE WaitInv'
  BY <1>1, GrantWaits
<1>2. ASSUME NEW t \in Callers, NEW c \in Children, Rollback(t, c) PROVE WaitInv'
  <2>1. GivenBack(c) = Own(c)
    BY Refills DEF GivenBack, Least
  <2> DEFINE woken == {u \in Callers : pc[u] = "waiting"}
  <2>2. /\ Enter(t, c) /\ Sleep(t, c, woken)
        /\ ctok' = [ctok EXCEPT ![c] = Own(c)] /\ clast' = [clast EXCEPT ![c] = now]
        /\ ~Penalized(c) /\ Own(c) >= Cost /\ Global < Cost
    BY <1>2, <2>1 DEF Rollback
  <2>3. woken \in SUBSET Callers
    OBVIOUS
  <2> HIDE DEF woken
  <2> QED BY <2>2, <2>3, SleepWaits
<1>3. ASSUME NEW t \in Callers, NEW c \in Children, Refused(t, c) PROVE WaitInv'
  <2>1. /\ Enter(t, c) /\ Sleep(t, c, {})
        /\ ctok' = [ctok EXCEPT ![c] = Own(c)] /\ clast' = [clast EXCEPT ![c] = now]
        /\ Penalized(c) \/ (Own(c) < Cost /\ ~(SiblingsIdle(c) /\ Global >= Cost))
    BY <1>3 DEF Refused
  <2>2. {} \in SUBSET Callers
    OBVIOUS
  <2> QED BY <2>1, <2>2, SleepWaits
<1>4. ASSUME NEW t \in Callers, Wake(t) PROVE WaitInv'
  <2>1. /\ gtok' = gtok /\ glast' = glast /\ ctok' = ctok /\ clast' = clast
        /\ attempt' = attempt /\ now' = now /\ pen' = pen
    BY <1>4 DEF Wake, bucketVars
  <2>2. ASSUME NEW u \in Callers, pc'[u] = "waiting"
        PROVE  /\ pc[u] = "waiting" /\ child'[u] = child[u] /\ wake'[u] = wake[u]
               /\ tries'[u] = tries[u]
    BY <1>0, <1>4, <2>2 DEF Wake, TypeOK
  <2> QED BY <1>0, <2>1, <2>2, QuietWaits
<1>5. ASSUME NEW c \in Children, Penalize(c) PROVE WaitInv'
  <2>1. /\ gtok' = gtok /\ glast' = glast /\ ctok' = ctok /\ clast' = clast
        /\ attempt' = attempt /\ now' = now
        /\ pc' = pc /\ child' = child /\ wake' = wake /\ tries' = tries
    BY <1>5 DEF Penalize, bucketVars, callVars
  <2>2. \A d \in Children : pen'[d] \in Nat /\ pen'[d] >= pen[d]
    BY <1>0, <1>5 DEF Penalize, Most
  <2> QED BY <1>0, <2>1, <2>2, QuietWaits
<1>6. ASSUME Tick PROVE WaitInv'
  <2>1. /\ gtok' = gtok /\ glast' = glast /\ ctok' = ctok /\ clast' = clast
        /\ attempt' = attempt /\ now' = now + 1 /\ pen' = pen
        /\ pc' = pc /\ child' = child /\ wake' = wake
        /\ \A u \in Callers : tries'[u] = 0
    BY <1>6 DEF Tick, bucketVars
  <2> QED BY <1>0, <2>1, QuietWaits
<1>7. ASSUME NewWindow \/ UNCHANGED vars PROVE WaitInv'
  <2>1. /\ gtok' = gtok /\ glast' = glast /\ ctok' = ctok /\ clast' = clast
        /\ attempt' = attempt /\ now' = now /\ pen' = pen
        /\ pc' = pc /\ child' = child /\ wake' = wake /\ tries' = tries
    BY <1>7 DEF NewWindow, vars, bucketVars, callVars
  <2> QED BY <1>0, <2>1, QuietWaits
<1> QED
  BY <1>1, <1>2, <1>3, <1>4, <1>5, <1>6, <1>7 DEF Next

\* A reason that lasts until the wait ends is a reason now.
LEMMA ReasonRefuses ==
    ASSUME LimitInv, NEW c \in Children, NEW w \in Nat, now < w, Held(c, w)
    PROVE  ~CanTake(c)
<1>1. TypeOK
  BY DEF LimitInv
<1>2. /\ now \in Nat /\ gtok \in Nat /\ glast \in Nat /\ glast <= now
      /\ Rate \in Nat /\ Burst \in Nat /\ Cost \in Nat
      /\ ctok[c] \in Nat /\ clast[c] \in Nat /\ clast[c] <= now
      /\ CRate[c] \in Nat /\ CBurst[c] \in Nat /\ pen[c] \in Nat
      /\ Global \in Nat /\ Own(c) \in Nat
  BY <1>1, LimiterNumbers, Refills
<1>3. CASE w <= pen[c]
  BY <1>2, <1>3 DEF CanTake, Penalized
<1>4. CASE gtok + (w - 1 - glast) * Rate < Cost
  <2>1. ASSUME NEW n, n = Refilled(gtok, glast, Rate, Burst), n \in Nat PROVE n < Cost
    <3>1. n \in Int /\ n <= Refilled(gtok, glast, Rate, Burst)
      BY <2>1
    <3>2. Refilled(gtok, glast, Rate, Burst) < Cost
      BY <1>2, <1>4, <3>1, RefillHolds
    <3> QED BY <2>1, <3>2
  <2>2. Global < Cost
    BY <1>2, <2>1 DEF Global
  <2> QED BY <1>2, <2>2 DEF CanTake
<1>5. CASE /\ ctok[c] + (w - 1 - clast[c]) * CRate[c] < Cost
           /\ \E d \in Children \ {c} : w <= attempt[d] + IdleThreshold(d)
  <2>1. ASSUME NEW n, n = Refilled(ctok[c], clast[c], CRate[c], CBurst[c]), n \in Nat PROVE n < Cost
    <3>1. n \in Int /\ n <= Refilled(ctok[c], clast[c], CRate[c], CBurst[c])
      BY <2>1
    <3>2. Refilled(ctok[c], clast[c], CRate[c], CBurst[c]) < Cost
      BY <1>2, <1>5, <3>1, RefillHolds
    <3> QED BY <2>1, <3>2
  <2>2. Own(c) < Cost
    BY <1>2, <2>1 DEF Own
  <2>3. PICK d \in Children \ {c} : w <= attempt[d] + IdleThreshold(d)
    BY <1>5
  <2>4. /\ SiblingsWait(c) \in Nat
        /\ IdleThreshold(d) - (now - attempt[d]) <= SiblingsWait(c)
        /\ attempt[d] \in Int /\ IdleThreshold(d) \in Nat
    BY <1>1, Siblings, LimiterNumbers, Thresholds
  <2>5. SiblingsWait(c) > 0
    BY <1>2, <2>3, <2>4
  <2> QED BY <1>2, <2>2, <2>4, <2>5 DEF CanTake, SiblingsIdle
<1> QED BY <1>3, <1>4, <1>5 DEF Held

(* HierarchicalLimiter.acquire's Condition.wait(timeout) is right for any
   rates, bursts, domains, threads and penalties: nobody oversleeps a token it
   could have had, although others take tokens, give them back and ask while it
   sleeps, and a refused caller outside a penalty never tries again at the same
   instant. *)
THEOREM LimiterWaits == Spec => []WaitIsRight
<1>1. Init => LimitInv /\ WaitInv
  <2> SUFFICES ASSUME Init PROVE WaitInv
    BY InitInv
  <2>1. \A c \in Children : attempt[c] <= now
    <3> SUFFICES ASSUME NEW c \in Children PROVE attempt[c] <= now
      OBVIOUS
    <3>1. IdleThreshold(c) \in Nat
      BY Thresholds
    <3>2. attempt[c] = -IdleThreshold(c) /\ now = 0
      BY DEF Init
    <3> QED BY <3>1, <3>2
  <2>2. \A t \in Callers : pc[t] = "out"
    BY DEF Init
  <2> QED BY <2>1, <2>2 DEF WaitInv, Asked, SleepsForReason, NoBusyLoop
<1>2. LimitInv /\ WaitInv /\ [Next]_vars => (LimitInv /\ WaitInv)'
  BY StepInv, WaitStep
<1>3. LimitInv /\ WaitInv => WaitIsRight
  <2> SUFFICES ASSUME LimitInv, WaitInv, NEW t \in Callers, pc[t] = "waiting", wake[t] > now
               PROVE  ~CanTake(child[t])
    BY DEF WaitInv, NoBusyLoop, WaitIsRight
  <2>1. child[t] \in Children /\ wake[t] \in Nat /\ Held(child[t], wake[t]) /\ now \in Nat
    BY DEF WaitInv, SleepsForReason, LimitInv, TypeOK
  <2> QED BY <2>1, ReasonRefuses
<1> QED BY <1>1, <1>2, <1>3, PTL DEF Spec
=============================================================================
