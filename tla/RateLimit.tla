----------------------------- MODULE RateLimit -----------------------------
(***************************************************************************)
(* The rate limiter (src/reroll_sync/ratelimit.py): TokenBucket and        *)
(* HierarchicalLimiter.acquire as the PyPI client calls it, for one token  *)
(* and without a timeout, from many threads.                               *)
(*                                                                         *)
(* Time is counted in ticks and a token in Cost units, so that a bucket's  *)
(* rate is a whole number of units per tick: Cost plays the role of the 60 *)
(* seconds of a rate per minute, and nothing is rounded but the wait, up.  *)
(* One lock guards everything, so an attempt is one step.                  *)
(***************************************************************************)
EXTENDS Integers, FiniteSets

CONSTANTS
    Callers,       \* threads
    Children,      \* the domains
    Cost,          \* units of one token
    Rate, Burst,   \* the global bucket
    CRate, CBurst, \* each child's
    Penalty,       \* ticks of a Retry-After
    MaxPenalties,  \* bound: how many of them arrive
    MaxTime        \* bound: how long

(* _one_second_burst keeps every burst at one token or more; config.py wants
   positive rates. *)
ASSUME RateLimitAssumption ==
    /\ IsFiniteSet(Callers) /\ IsFiniteSet(Children)
    /\ Cost \in Nat \ {0}
    /\ Rate \in Nat \ {0} /\ Burst \in Nat /\ Burst >= Cost
    /\ CRate \in [Children -> Nat \ {0}]
    /\ CBurst \in [Children -> Nat] /\ \A c \in Children : CBurst[c] >= Cost
    /\ Penalty \in Nat /\ MaxPenalties \in Nat /\ MaxTime \in Nat

VARIABLES
    now,
    gtok, glast,   \* the global bucket: _tokens, _last_refill
    ctok, clast,   \* the children's
    pen,           \* the children's _penalty_deadline
    attempt,       \* _last_attempt
    pc,            \* each caller: "out", "trying", "waiting"
    child,         \* the domain it asks for, or "none"
    wake,          \* when its wait times out
    tries,         \* its failed attempts at this very instant, capped
    penalties,
    \* any window of time, to count in
    from,          \* its start
    grants,        \* all grants in it
    own            \* each child's grants from its own reserve

bucketVars == <<gtok, glast, ctok, clast>>
callVars   == <<pc, child, wake, tries>>
windowVars == <<from, grants, own>>
vars == <<now, bucketVars, pen, attempt, callVars, penalties, windowVars>>

Least(x, y) == IF x < y THEN x ELSE y
Most(x, y) == IF x > y THEN x ELSE y

\* units over a rate, in whole ticks, up
CeilDiv(x, y) == (x + y - 1) \div y

\* the time one token of the child's reserve takes
IdleThreshold(c) == CeilDiv(Cost, CRate[c])

\* a bound on how often we count a caller's attempts at one instant
MaxTries == Cardinality(Callers) + 2

Init ==
    /\ now = 0
    /\ gtok = Burst /\ glast = 0
    /\ ctok = CBurst /\ clast = [c \in Children |-> 0]
    /\ pen = [c \in Children |-> 0]
    /\ attempt = [c \in Children |-> -IdleThreshold(c)]
    /\ pc = [t \in Callers |-> "out"]
    /\ child = [t \in Callers |-> "none"]
    /\ wake = [t \in Callers |-> 0]
    /\ tries = [t \in Callers |-> 0]
    /\ penalties = 0
    /\ from = 0 /\ grants = 0 /\ own = [c \in Children |-> 0]

-----------------------------------------------------------------------------
(* Buckets *)

\* Wrong variant: no cap.
RefilledUncapped(tokens, last, rate, burst) == tokens + (now - last) * rate

\* _refill_locked
Refilled(tokens, last, rate, burst) ==
    IF now > last THEN Least(burst, tokens + (now - last) * rate) ELSE tokens

Global == Refilled(gtok, glast, Rate, Burst)
Own(c) == Refilled(ctok[c], clast[c], CRate[c], CBurst[c])

Penalized(c) == now < pen[c]

\* time until each other child has gone unasked for its idle threshold
SiblingsWait(c) ==
    LET left(d) == IdleThreshold(d) - (now - attempt[d])
        waits == {left(d) : d \in Children \ {c}} \cup {0}
    IN  CHOOSE w \in waits : \A v \in waits : v <= w

SiblingsIdle(c) == SiblingsWait(c) <= 0

\* _try_take_locked would succeed
CanTake(c) ==
    /\ ~Penalized(c)
    /\ Own(c) >= Cost \/ SiblingsIdle(c)
    /\ Global >= Cost

GlobalWait == IF Global >= Cost THEN 0 ELSE CeilDiv(Cost - Global, Rate)

\* TokenBucket.time_until_available of the child
OwnWait(c) ==
    Most(Most(0, pen[c] - now),
         IF Own(c) >= Cost THEN 0 ELSE CeilDiv(Cost - Own(c), CRate[c]))

\* Wrong variant: the child waits for its own bucket only.
TimeUntilOwn(c) == IF OwnWait(c) = 0 THEN GlobalWait ELSE OwnWait(c)

\* _time_until_locked
TimeUntil(c) ==
    IF OwnWait(c) = 0 THEN GlobalWait
    ELSE Least(OwnWait(c), Most(SiblingsWait(c), GlobalWait))

-----------------------------------------------------------------------------
(* acquire *)

\* A caller comes in, which its domain remembers, or tries once more.
Enter(t, c) ==
    \/ /\ pc[t] = "out"
       /\ attempt' = [attempt EXCEPT ![c] = now]
    \/ /\ pc[t] = "trying" /\ child[t] = c
       /\ UNCHANGED attempt

\* it has its tokens and leaves
Granted(t) ==
    /\ pc' = [pc EXCEPT ![t] = "out"]
    /\ child' = [child EXCEPT ![t] = "none"]
    /\ wake' = [wake EXCEPT ![t] = 0]
    /\ tries' = [tries EXCEPT ![t] = 0]
    /\ grants' = grants + Cost
    /\ UNCHANGED <<now, pen, penalties, from>>

\* Wrong variant: the global bucket is not charged.
TakeGlobalFree == gtok' = Global /\ glast' = now

\* global.try_acquire succeeds
TakeGlobal == gtok' = Global - Cost /\ glast' = now

\* Wrong variant: the reserve is not charged.
TakeOwnKeepsReserve(t, c) ==
    /\ Enter(t, c)
    /\ ~Penalized(c) /\ Own(c) >= Cost /\ Global >= Cost
    /\ ctok' = [ctok EXCEPT ![c] = Own(c)]
    /\ clast' = [clast EXCEPT ![c] = now]
    /\ TakeGlobal
    /\ own' = [own EXCEPT ![c] = @ + Cost]
    /\ Granted(t)

\* from the child's reserve and the global bucket
TakeOwn(t, c) ==
    /\ Enter(t, c)
    /\ ~Penalized(c) /\ Own(c) >= Cost /\ Global >= Cost
    /\ ctok' = [ctok EXCEPT ![c] = Own(c) - Cost]
    /\ clast' = [clast EXCEPT ![c] = now]
    /\ TakeGlobal
    /\ own' = [own EXCEPT ![c] = @ + Cost]
    /\ Granted(t)

\* from the global bucket alone, while the siblings are idle
Borrow(t, c) ==
    /\ Enter(t, c)
    /\ ~Penalized(c) /\ Own(c) < Cost /\ SiblingsIdle(c) /\ Global >= Cost
    /\ ctok' = [ctok EXCEPT ![c] = Own(c)]
    /\ clast' = [clast EXCEPT ![c] = now]
    /\ TakeGlobal
    /\ UNCHANGED own
    /\ Granted(t)

\* the computed wait; both buckets are refilled on the way
Sleep(t, c, others) ==
    /\ pc' = [u \in Callers |-> IF u = t THEN "waiting"
                                ELSE IF u \in others THEN "trying" ELSE pc[u]]
    /\ child' = [child EXCEPT ![t] = c]
    /\ wake' = [u \in Callers |-> IF u = t THEN now + TimeUntil(c)
                                  ELSE IF u \in others THEN 0 ELSE wake[u]]
    /\ tries' = [tries EXCEPT ![t] = IF @ < MaxTries THEN @ + 1 ELSE @]
    /\ gtok' = Global /\ glast' = now
    /\ UNCHANGED <<now, pen, penalties, windowVars>>

\* return_tokens of what try_acquire took
GivenBack(c) == Least(CBurst[c], (Own(c) - Cost) + Cost)

\* The child's tokens are taken and returned, which wakes every waiter.
Rollback(t, c) ==
    /\ Enter(t, c)
    /\ ~Penalized(c) /\ Own(c) >= Cost /\ Global < Cost
    /\ ctok' = [ctok EXCEPT ![c] = GivenBack(c)]
    /\ clast' = [clast EXCEPT ![c] = now]
    /\ Sleep(t, c, {u \in Callers : pc[u] = "waiting"})

Refused(t, c) ==
    /\ Enter(t, c)
    /\ Penalized(c) \/ (Own(c) < Cost /\ ~(SiblingsIdle(c) /\ Global >= Cost))
    /\ ctok' = [ctok EXCEPT ![c] = Own(c)]
    /\ clast' = [clast EXCEPT ![c] = now]
    /\ Sleep(t, c, {})

\* Condition.wait times out
Wake(t) ==
    /\ pc[t] = "waiting" /\ wake[t] <= now
    /\ pc' = [pc EXCEPT ![t] = "trying"]
    /\ wake' = [wake EXCEPT ![t] = 0]
    /\ UNCHANGED <<now, bucketVars, pen, attempt, child, tries, penalties, windowVars>>

Penalize(c) ==
    /\ penalties < MaxPenalties
    /\ penalties' = penalties + 1
    /\ pen' = [pen EXCEPT ![c] = Most(@, now + Penalty)]
    /\ UNCHANGED <<now, bucketVars, attempt, callVars, windowVars>>

Tick ==
    /\ now < MaxTime
    /\ now' = now + 1
    /\ tries' = [t \in Callers |-> 0]
    /\ UNCHANGED <<bucketVars, pen, attempt, pc, child, wake, penalties, windowVars>>

\* Counting starts afresh, at any moment.
NewWindow ==
    /\ from' = now /\ grants' = 0 /\ own' = [c \in Children |-> 0]
    /\ UNCHANGED <<now, bucketVars, pen, attempt, callVars, penalties>>

Next ==
    \/ \E t \in Callers, c \in Children :
          TakeOwn(t, c) \/ Borrow(t, c) \/ Rollback(t, c) \/ Refused(t, c)
    \/ \E t \in Callers : Wake(t)
    \/ \E c \in Children : Penalize(c)
    \/ Tick
    \/ NewWindow

Spec == Init /\ [][Next]_vars

-----------------------------------------------------------------------------
(* Properties *)

(* The variables keep their types: no bucket holds more than its burst or less
   than nothing. *)
TypeOK ==
    /\ now \in Nat
    /\ gtok \in 0..Burst /\ glast \in 0..now
    /\ ctok \in [Children -> Nat] /\ \A c \in Children : ctok[c] <= CBurst[c]
    /\ clast \in [Children -> 0..now]
    /\ pen \in [Children -> Nat]
    /\ attempt \in [Children -> Int]
    /\ pc \in [Callers -> {"out", "trying", "waiting"}]
    /\ child \in [Callers -> Children \cup {"none"}]
    /\ DOMAIN wake = Callers
    /\ tries \in [Callers -> Nat]
    /\ penalties \in Nat
    /\ from \in 0..now /\ grants \in Nat
    /\ own \in [Children -> Nat]

(* "The sum across children never exceeds the global rate over any window"
   (specs/03): in any window of time all domains together, reserved and
   borrowed, are granted at most the burst and what the rate adds. *)
GrantsBounded == grants <= Burst + Rate * (now - from)

(* No domain takes more from its own reserve than the reserve's rate allows,
   although tokens are taken and given back when the global bucket is empty. *)
ReserveBounded ==
    \A c \in Children : own[c] <= CBurst[c] + CRate[c] * (now - from)

(* The computed wait is right, whatever the others have done since.  Nobody
   oversleeps: a caller whose wait has not timed out could not be served now.
   And a caller that was refused at this very instant waits for a later one
   ("never a busy loop", specs/03) -- except for a child under a penalty, whose
   wait _time_until_locked computes as zero when its siblings are idle. *)
WaitIsRight ==
    \A t \in Callers :
        /\ pc[t] = "waiting" /\ wake[t] > now => ~CanTake(child[t])
        /\ pc[t] = "waiting" /\ tries[t] > 0 => wake[t] > now \/ Penalized(child[t])
=============================================================================
