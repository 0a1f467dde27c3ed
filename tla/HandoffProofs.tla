---------------------------- MODULE HandoffProofs ----------------------------
(***************************************************************************)
(* For any wheels, sizes, budget, claim limit and number of faults and     *)
(* restarts: the in-flight set is exact, no download is at two places, a   *)
(* wheel that went on has its METADATA in a segment, nothing is dropped    *)
(* within the grace period, and the queue's bytes are what its items weigh *)
(* and keep to the budget.                                                 *)
(*                                                                         *)
(* OnePlace is not inductive: that a claim returns nothing already in hand *)
(* needs ClaimsExact, and ArchivePhase for the item that is applied but    *)
(* still charged; that the old batch is gone by then needs FetchPhase.     *)
(* DoneIsArchived needs ArchivePhase: what is about to be committed has    *)
(* been appended.  DropsOnlyWhenLate needs CloseOrder: the   *)
(* queue closes after the fetch thread has left, or too late.  BudgetHeld  *)
(* needs Places: that an item is charged once, and still charged when its  *)
(* bytes are given back.                                                   *)
(***************************************************************************)
EXTENDS Handoff, FiniteSetTheorems, TLAPS

(* The types this proof needs.                                             *)
Shapes ==
    /\ st \in [Items -> {"need", "done", "quarantined"}]
    /\ open \subseteq Items /\ sealed \subseteq Items
    /\ fpc \in {"idle", "claim", "batch", "put", "check", "exited"}
    /\ batch \subseteq Items /\ fetched \in Items \cup {0}
    /\ q \in Seq(Items) /\ cur \in Items \cup {0}
    /\ apc \in {"poll", "add", "apply", "feed", "release", "exited", "crashed"}
    /\ spc \in {"run", "joinFetch", "joinArchive", "stopped"}

(* The fetch thread has a batch only inside iterate, and a download at     *)
(* hand only while it puts it.                                             *)
FetchPhase ==
    /\ fpc \in {"idle", "claim", "exited"} => batch = {}
    /\ fpc = "put" <=> fetched # 0

(* The archive thread has an item from get to release, has appended it     *)
(* before it applies, and has applied it before it feeds it to convert.    *)
ArchivePhase ==
    /\ apc \in {"add", "apply", "feed", "release"} <=> cur # 0
    /\ apc = "apply" => cur \in open \cup sealed
    /\ apc \in {"feed", "release"} => st[cur] = "done"

QueueDistinct == \A j, k \in 1..Len(q) : q[j] = q[k] => j = k

(* Where everything is.                                                    *)
Places == FetchPhase /\ QueueDistinct /\ OnePlace /\ ClaimsExact

Archived == ArchivePhase /\ DoneIsArchived

CloseOrder ==
    /\ closed => fpc = "exited" \/ late
    /\ fpc = "exited" => spc # "run"
    /\ closed => spc \in {"joinArchive", "stopped"}
    /\ dropped # {} => late

HandoffIInv == Shapes /\ Places /\ Archived /\ CloseOrder

LEMMA NoZero == 0 \notin Items
  BY HandoffAssumption

(* What is on the queue after a put and after a get.                       *)
LEMMA PutAdds ==
    ASSUME NEW s \in Seq(Items), NEW x \in Items
    PROVE  {Append(s, x)[k] : k \in 1..Len(Append(s, x))} = {s[k] : k \in 1..Len(s)} \cup {x}
<1>1. Len(Append(s, x)) = Len(s) + 1 /\ Len(s) \in Nat
  OBVIOUS
<1>2. \A k \in 1..Len(s) : Append(s, x)[k] = s[k]
  OBVIOUS
<1>3. Append(s, x)[Len(s) + 1] = x
  OBVIOUS
<1>4. \A k \in 1..(Len(s) + 1) : k \in 1..Len(s) \/ k = Len(s) + 1
  BY <1>1
<1>5. 1..Len(s) \subseteq 1..(Len(s) + 1) /\ Len(s) + 1 \in 1..(Len(s) + 1)
  BY <1>1
<1> QED
  BY <1>1, <1>2, <1>3, <1>4, <1>5

LEMMA GetTakes ==
    ASSUME NEW s \in Seq(Items), s # <<>>
    PROVE  /\ Head(s) \in Items /\ Tail(s) \in Seq(Items)
           /\ {s[k] : k \in 1..Len(s)} = {Tail(s)[k] : k \in 1..Len(Tail(s))} \cup {Head(s)}
           /\ \A k \in 1..Len(Tail(s)) : Tail(s)[k] = s[k + 1] /\ k + 1 \in 2..Len(s)
           /\ Head(s) = s[1] /\ 1 \in 1..Len(s)
<1>1. Len(s) \in Nat /\ Len(s) > 0 /\ Len(Tail(s)) = Len(s) - 1
  OBVIOUS
<1>2. Head(s) = s[1] /\ Head(s) \in Items /\ Tail(s) \in Seq(Items)
  OBVIOUS
<1>3. \A k \in 1..Len(Tail(s)) : Tail(s)[k] = s[k + 1] /\ k + 1 \in 2..Len(s)
  BY <1>1
<1>4. \A k \in 1..Len(s) : k = 1 \/ (k - 1 \in 1..Len(Tail(s)) /\ s[k] = Tail(s)[k - 1])
  BY <1>1, <1>3
<1>5. 2..Len(s) \subseteq 1..Len(s) /\ 1 \in 1..Len(s)
  BY <1>1
<1> QED
  BY <1>2, <1>3, <1>4, <1>5

(* A process that has just begun.                                          *)
LEMMA InitInv == Init => HandoffIInv
<1> SUFFICES ASSUME Init PROVE HandoffIInv
  OBVIOUS
<1>1. Shapes
  BY DEF Init, Shapes
<1>2. Charged = {}
  BY DEF Init, Charged
<1>3. Places
  BY <1>2, NoZero DEF Init, Places, FetchPhase, QueueDistinct, OnePlace, ClaimsExact, InHand,
     Applied
<1>4. Archived /\ CloseOrder
  BY DEF Init, Archived, ArchivePhase, DoneIsArchived, CloseOrder
<1> QED
  BY <1>1, <1>3, <1>4 DEF HandoffIInv

(* Every step keeps the types.                                             *)
LEMMA ShapesStep ==
    ASSUME Shapes, Places, Archived, [Next]_vars
    PROVE  Shapes'
<1> USE DEF diskVars, fetchVars, queueVars, archiveVars, guardVars, stopVars
<1>1. CASE FetchStart
  BY <1>1 DEF FetchStart, Shapes
<1>2. CASE FetchClaim
  BY <1>2 DEF FetchClaim, Claim, Shapes
<1>3. CASE FetchClaimEmpty
  BY <1>3 DEF FetchClaimEmpty, Shapes
<1>4. CASE FetchClaimRaises
  BY <1>4 DEF FetchClaimRaises, Shapes
<1>5. ASSUME NEW i \in Items, FetchOk(i)
      PROVE  Shapes'
  BY <1>5 DEF FetchOk, Shapes
<1>6. ASSUME NEW i \in Items, NEW kind \in {"retry", "skip", "limited"},
             NEW last \in BOOLEAN, FetchOther(i, kind, last)
      PROVE  Shapes'
  BY <1>6 DEF FetchOther, Shapes
<1>7. CASE Put
  <2>1. fetched \in Items
    BY <1>7 DEF Put, Shapes, Places, FetchPhase
  <2> QED
    BY <1>7, <2>1 DEF Put, Shapes
<1>8. CASE PutRefused
  BY <1>8 DEF PutRefused, Shapes
<1>9. CASE FetchNext
  BY <1>9 DEF FetchNext, Shapes
<1>10. CASE FetchFinish
  BY <1>10 DEF FetchFinish, Shapes
<1>11. CASE FetchExit
  BY <1>11 DEF FetchExit, Shapes
<1>12. CASE PauseStage
  BY <1>12 DEF PauseStage, Shapes
<1>13. CASE ResumeStage
  BY <1>13 DEF ResumeStage, Shapes
<1>14. CASE ArchiveGet
  BY <1>14, GetTakes DEF ArchiveGet, Shapes
<1>15. CASE ArchiveExit
  BY <1>15 DEF ArchiveExit, Shapes
<1>16. ASSUME NEW seal \in BOOLEAN, ArchiveAdd(seal)
      PROVE  Shapes'
  BY <1>16 DEF ArchiveAdd, Archived, ArchivePhase, Shapes
<1>17. CASE ArchiveRefused
  BY <1>17 DEF ArchiveRefused, ArchiveDies, ArchiveLeaks, Shapes
<1>18. CASE ArchiveFails
  BY <1>18 DEF ArchiveFails, ArchiveDies, ArchiveLeaks, Shapes
<1>19. CASE ArchiveApply
  BY <1>19 DEF ArchiveApply, Archived, ArchivePhase, Shapes
<1>20. ASSUME NEW s \in {"low", "mid", "high"}, SpaceGoes(s)
      PROVE  Shapes'
  BY <1>20 DEF SpaceGoes, Shapes
<1>21. CASE GuardCheck
  BY <1>21 DEF GuardCheck, Shapes
<1>22. ASSUME NEW i \in Items, CoolDown(i)
      PROVE  Shapes'
  BY <1>22 DEF CoolDown, Shapes
<1>23. CASE BreakerDue
  BY <1>23 DEF BreakerDue, Shapes
<1>24. CASE Shutdown
  BY <1>24 DEF Shutdown, Shapes
<1>25. CASE GraceOver
  BY <1>25 DEF GraceOver, Shapes
<1>26. CASE JoinFetch
  BY <1>26 DEF JoinFetch, Shapes
<1>27. CASE JoinArchive
  BY <1>27 DEF JoinArchive, Shapes
<1>28. CASE Start
  BY <1>28 DEF Start, StateAfterStart, Shapes
<1>29. CASE UNCHANGED vars
  BY <1>29 DEF vars, Shapes
<1>30. CASE FetchLoadRaises
  BY <1>30 DEF FetchLoadRaises, Shapes
<1>31. ASSUME NEW i \in Items, FetchApplyRaises(i)
      PROVE  Shapes'
  BY <1>31 DEF FetchApplyRaises, Shapes
<1>32. CASE ArchiveApplyRaises
  BY <1>32 DEF ArchiveApplyRaises, ArchiveDies, Shapes
<1>33. CASE ArchiveFeed
  BY <1>33 DEF ArchiveFeed, Shapes
<1>34. CASE ArchiveRelease
  BY <1>34 DEF ArchiveRelease, Shapes
<1>35. ASSUME NEW n \in 1..FedMax, ConvertTakes(n)
      PROVE  Shapes'
  BY <1>35 DEF ConvertTakes, Shapes
<1> QED
  BY <1>1, <1>2, <1>3, <1>4, <1>5, <1>6, <1>7, <1>8, <1>9, <1>10, <1>11,
     <1>12, <1>13, <1>14, <1>15, <1>16, <1>17, <1>18, <1>19, <1>20, <1>21,
     <1>22, <1>23, <1>24, <1>25, <1>26, <1>27, <1>28, <1>29, <1>30, <1>31, <1>32, <1>33,
     <1>34, <1>35 DEF Next,
     FetchNextStep, ArchiveNextStep, ShutdownNextStep

LEMMA ChargedItems ==
    ASSUME Shapes
    PROVE  Charged \subseteq Items
  BY DEF Shapes, Charged

(* Who changes the charge, and how.                                        *)
LEMMA PutCharges ==
    ASSUME Shapes, Places, Put
    PROVE  /\ fetched \in Items /\ fetched \notin Charged
           /\ Charged' = Charged \cup {fetched}
<1>1. fetched \in Items /\ fetched # 0
  BY NoZero DEF Put, Shapes, Places, FetchPhase
<1>2. Charged' = Charged \cup {fetched}
  BY <1>1, PutAdds, NoZero DEF Put, Charged, Shapes, queueVars, archiveVars
<1> QED
  BY <1>1, <1>2 DEF Places, OnePlace

LEMMA GetKeepsCharged ==
    ASSUME Shapes, Archived, ArchiveGet
    PROVE  Charged' = Charged
<1>1. cur = 0 /\ q \in Seq(Items) /\ q # <<>>
  BY DEF ArchiveGet, Shapes, Archived, ArchivePhase
<1>2. cur' = Head(q) /\ q' = Tail(q) /\ cur' # 0
  BY <1>1, GetTakes, NoZero DEF ArchiveGet
<1> DEFINE before == {q[k] : k \in 1..Len(q)}
           after == {q'[k] : k \in 1..Len(q')}
<1>3. before = after \cup {cur'}
  <2>1. before = {Tail(q)[k] : k \in 1..Len(Tail(q))} \cup {Head(q)}
    BY <1>1, GetTakes
  <2>2. after = {Tail(q)[k] : k \in 1..Len(Tail(q))}
    BY <1>2
  <2> QED
    BY <2>1, <2>2, <1>2
<1>4. Charged = before \cup ({cur} \ {0}) /\ Charged' = after \cup ({cur'} \ {0})
  BY DEF Charged
<1> HIDE DEF before, after
<1> QED
  BY <1>1, <1>2, <1>3, <1>4

LEMMA CurLeaves ==
    ASSUME Places, cur # 0, cur' = 0, q' = q
    PROVE  cur \in Charged /\ Charged' = Charged \ {cur}
  BY DEF Charged, Places, OnePlace

(* Nothing comes to be at two places, and claims follow what is in hand.   *)
LEMMA PlacesStep ==
    ASSUME Shapes, Places, Archived, [Next]_vars
    PROVE  Places'
<1> USE DEF diskVars, fetchVars, queueVars, archiveVars, guardVars, stopVars
<1>1. CASE FetchStart
  BY <1>1 DEF FetchStart, Places, FetchPhase, QueueDistinct, OnePlace,
     ClaimsExact, InHand, Applied, Charged
<1>2. CASE FetchClaim
  <2>1. Claim \subseteq Items /\ Claim \cap inflight = {}
    BY DEF Claim
  <2>2. batch = {} /\ fetched = 0 /\ Charged' = Charged
    BY <1>2 DEF FetchClaim, Places, FetchPhase, Charged
  <2>3. Applied \cap Claim = {} /\ Applied' = Applied
    BY <1>2 DEF FetchClaim, Applied, Claim, Archived, ArchivePhase
  <2>4. InHand \subseteq inflight /\ Charged \cap Claim = {} /\ 0 \notin Claim
    BY <2>1, <2>3, NoZero DEF Places, ClaimsExact, InHand
  <2>5. OnePlace'
    BY <1>2, <2>1, <2>2, <2>4 DEF FetchClaim, Places, OnePlace
  <2>6. ClaimsExact'
    BY <1>2, <2>1, <2>2, <2>3, <2>4 DEF FetchClaim, Places, ClaimsExact, InHand
  <2>7. FetchPhase' /\ QueueDistinct'
    BY <1>2, <2>2 DEF FetchClaim, Places, FetchPhase, QueueDistinct
  <2> QED
    BY <2>5, <2>6, <2>7 DEF Places
<1>3. CASE FetchClaimEmpty
  BY <1>3 DEF FetchClaimEmpty, Places, FetchPhase, QueueDistinct, OnePlace,
     ClaimsExact, InHand, Applied, Charged
<1>4. CASE FetchClaimRaises
  BY <1>4 DEF FetchClaimRaises, Places, FetchPhase, QueueDistinct, OnePlace,
     ClaimsExact, InHand, Applied, Charged
<1>5. ASSUME NEW i \in Items, FetchOk(i)
      PROVE  Places'
  <2>1. Charged' = Charged
    BY <1>5 DEF FetchOk, Charged
  <2>2. FetchPhase' /\ QueueDistinct'
    BY <1>5, NoZero DEF FetchOk, Places, FetchPhase, QueueDistinct, Shapes
  <2>3. OnePlace'
    BY <1>5, <2>1, NoZero, ChargedItems DEF FetchOk, Places, OnePlace, FetchPhase, Shapes
  <2>4. ClaimsExact'
    BY <1>5, <2>1, NoZero, ChargedItems DEF FetchOk, Places, OnePlace, FetchPhase, ClaimsExact,
       InHand, Applied,
       Shapes
  <2> QED
    BY <2>2, <2>3, <2>4 DEF Places
<1>6. ASSUME NEW i \in Items, NEW kind \in {"retry", "skip", "limited"},
             NEW last \in BOOLEAN, FetchOther(i, kind, last)
      PROVE  Places'
  <2>1. Charged' = Charged
    BY <1>6 DEF FetchOther, Charged
  <2>2. FetchPhase' /\ QueueDistinct'
    BY <1>6, NoZero DEF FetchOther, Places, FetchPhase, QueueDistinct, Shapes
  <2>3. OnePlace'
    BY <1>6, <2>1, NoZero, ChargedItems DEF FetchOther, Places, OnePlace, FetchPhase, Shapes
  <2>4. ClaimsExact'
    BY <1>6, <2>1, NoZero, ChargedItems DEF FetchOther, Places, OnePlace, FetchPhase, ClaimsExact,
       InHand, Applied,
       Shapes
  <2> QED
    BY <2>2, <2>3, <2>4 DEF Places
<1>7. CASE Put
  <2>1. fetched \in Items /\ fetched # 0
    BY <1>7, NoZero DEF Put, Shapes, Places, FetchPhase
  <2>2. Charged' = Charged \cup {fetched}
    BY <1>7, PutCharges
  <2>3. InHand' = InHand
    <3>1. Applied' = Applied /\ Applied \subseteq {cur} /\ fetched # cur
      BY <1>7, <2>1, NoZero DEF Put, Applied, Places, OnePlace, Charged
    <3> QED
      BY <1>7, <2>1, <2>2, <3>1 DEF Put, InHand
  <2>4. \A k \in 1..Len(q) : q[k] # fetched
    BY DEF Places, OnePlace, Charged
  <2>5. Len(q) \in Nat /\ Len(q') = Len(q) + 1 /\ q'[Len(q) + 1] = fetched
        /\ \A k \in 1..Len(q) : q'[k] = q[k]
    BY <1>7, <2>1 DEF Put, Shapes
  <2>6. QueueDistinct'
    <3> SUFFICES ASSUME NEW j \in 1..Len(q'), NEW k \in 1..Len(q'), q'[j] = q'[k]
                 PROVE  j = k
      BY DEF QueueDistinct
    <3>1. (j \in 1..Len(q) \/ j = Len(q) + 1) /\ (k \in 1..Len(q) \/ k = Len(q) + 1)
      BY <2>5
    <3> QED
      BY <3>1, <2>4, <2>5 DEF Places, QueueDistinct
  <2>7. fetched # cur
    BY <2>1, NoZero DEF Places, OnePlace, Charged
  <2>8. \A k \in 1..Len(q') : q'[k] # cur
    <3> SUFFICES ASSUME NEW k \in 1..Len(q') PROVE q'[k] # cur
      OBVIOUS
    <3>1. k \in 1..Len(q) \/ k = Len(q) + 1
      BY <2>5
    <3> QED
      BY <3>1, <2>5, <2>7 DEF Places, OnePlace
  <2>9. 0 \notin Charged'
    BY <2>1, <2>2, NoZero, ChargedItems
  <2>10. OnePlace'
    BY <1>7, <2>2, <2>8, <2>9, NoZero DEF Put, Places, OnePlace, Shapes
  <2>11. ClaimsExact' /\ FetchPhase'
    BY <1>7, <2>3 DEF Put, Places, ClaimsExact, FetchPhase
  <2> QED
    BY <2>6, <2>10, <2>11 DEF Places
<1>8. CASE PutRefused
  <2>1. Charged' = Charged
    BY <1>8 DEF PutRefused, Charged
  <2>2. FetchPhase' /\ QueueDistinct'
    BY <1>8, NoZero DEF PutRefused, Places, FetchPhase, QueueDistinct, Shapes
  <2>3. OnePlace'
    BY <1>8, <2>1, NoZero, ChargedItems DEF PutRefused, Places, OnePlace, FetchPhase, Shapes
  <2>4. ClaimsExact'
    BY <1>8, <2>1, NoZero, ChargedItems DEF PutRefused, Places, OnePlace, FetchPhase, ClaimsExact,
       InHand, Applied,
       Shapes
  <2> QED
    BY <2>2, <2>3, <2>4 DEF Places
<1>9. CASE FetchNext
  BY <1>9 DEF FetchNext, Places, FetchPhase, QueueDistinct, OnePlace,
     ClaimsExact, InHand, Applied, Charged
<1>10. CASE FetchFinish
  <2>1. Charged' = Charged
    BY <1>10 DEF FetchFinish, Charged
  <2>2. FetchPhase' /\ QueueDistinct'
    BY <1>10, NoZero DEF FetchFinish, Places, FetchPhase, QueueDistinct, Shapes
  <2>3. OnePlace'
    BY <1>10, <2>1, NoZero, ChargedItems DEF FetchFinish, Places, OnePlace, FetchPhase, Shapes
  <2>4. ClaimsExact'
    BY <1>10, <2>1, NoZero, ChargedItems DEF FetchFinish, Places, OnePlace, FetchPhase,
       ClaimsExact, InHand, Applied,
       Shapes
  <2> QED
    BY <2>2, <2>3, <2>4 DEF Places
<1>11. CASE FetchExit
  BY <1>11 DEF FetchExit, Places, FetchPhase, QueueDistinct, OnePlace,
     ClaimsExact, InHand, Applied, Charged
<1>12. CASE PauseStage
  BY <1>12 DEF PauseStage, Places, FetchPhase, QueueDistinct, OnePlace,
     ClaimsExact, InHand, Applied, Charged
<1>13. CASE ResumeStage
  BY <1>13 DEF ResumeStage, Places, FetchPhase, QueueDistinct, OnePlace,
     ClaimsExact, InHand, Applied, Charged
<1>14. CASE ArchiveGet
  <2>1. cur = 0 /\ q \in Seq(Items) /\ q # <<>>
    BY <1>14 DEF ArchiveGet, Shapes, Archived, ArchivePhase
  <2>2. cur' = Head(q) /\ q' = Tail(q) /\ cur' # 0
    BY <1>14, <2>1, GetTakes, NoZero DEF ArchiveGet
  <2>3. Charged' = Charged
    BY <1>14, GetKeepsCharged
  <2>4. \A k \in 1..Len(q') : q'[k] = q[k + 1] /\ k + 1 \in 2..Len(q)
    BY <2>1, <2>2, GetTakes
  <2>5. cur' = q[1] /\ 1 \in 1..Len(q) /\ Len(q) \in Nat
    BY <2>1, <2>2, GetTakes
  <2>6. \A k \in 1..Len(q') : q'[k] # cur'
    <3> SUFFICES ASSUME NEW k \in 1..Len(q') PROVE q'[k] # cur'
      OBVIOUS
    <3>1. q'[k] = q[k + 1] /\ k + 1 \in 1..Len(q) /\ k + 1 # 1
      BY <2>4, <2>5
    <3> QED
      BY <3>1, <2>5 DEF Places, QueueDistinct
  <2>7. QueueDistinct'
    <3> SUFFICES ASSUME NEW j \in 1..Len(q'), NEW k \in 1..Len(q'), q'[j] = q'[k]
                 PROVE  j = k
      BY DEF QueueDistinct
    <3>1. j + 1 \in 1..Len(q) /\ k + 1 \in 1..Len(q) /\ q[j + 1] = q[k + 1]
      BY <2>4, <2>5
    <3>2. j + 1 = k + 1
      BY <3>1 DEF Places, QueueDistinct
    <3> QED
      BY <3>2
  <2>8. OnePlace'
    BY <1>14, <2>3, <2>6 DEF ArchiveGet, Places, OnePlace
  <2>9. ClaimsExact' /\ FetchPhase'
    BY <1>14, <2>3 DEF ArchiveGet, Places, ClaimsExact, FetchPhase, InHand, Applied
  <2> QED
    BY <2>7, <2>8, <2>9 DEF Places
<1>15. CASE ArchiveExit
  BY <1>15 DEF ArchiveExit, Places, FetchPhase, QueueDistinct, OnePlace,
     ClaimsExact, InHand, Applied, Charged
<1>16. ASSUME NEW seal \in BOOLEAN, ArchiveAdd(seal)
      PROVE  Places'
  BY <1>16 DEF ArchiveAdd, Places, FetchPhase, QueueDistinct, OnePlace,
     ClaimsExact, InHand, Applied, Charged
<1>17. CASE ArchiveRefused
  <2>1. cur # 0
    BY <1>17 DEF ArchiveRefused, ArchiveDies, ArchiveLeaks, Archived, ArchivePhase
  <2>2. Charged' = Charged \ {cur} /\ cur \in Charged
    BY <1>17, <2>1, CurLeaves DEF ArchiveRefused, ArchiveDies, ArchiveLeaks
  <2>3. cur \notin batch /\ cur # fetched
    BY <2>2 DEF Places, OnePlace
  <2>4. \A k \in 1..Len(q') : q'[k] # cur'
    BY <1>17, NoZero DEF ArchiveRefused, ArchiveDies, ArchiveLeaks, Shapes
  <2>5. OnePlace'
    BY <1>17, <2>2, <2>4 DEF ArchiveRefused, ArchiveDies, ArchiveLeaks, Places, OnePlace
  <2>6. ClaimsExact'
    BY <1>17, <2>1, <2>2, <2>3 DEF ArchiveRefused, ArchiveDies, ArchiveLeaks, Places, ClaimsExact,
       InHand, Applied
  <2>7. FetchPhase' /\ QueueDistinct'
    BY <1>17 DEF ArchiveRefused, ArchiveDies, ArchiveLeaks, Places, FetchPhase, QueueDistinct
  <2> QED
    BY <2>5, <2>6, <2>7 DEF Places
<1>18. CASE ArchiveFails
  <2>1. cur # 0
    BY <1>18 DEF ArchiveFails, ArchiveDies, ArchiveLeaks, Archived, ArchivePhase
  <2>2. Charged' = Charged \ {cur} /\ cur \in Charged
    BY <1>18, <2>1, CurLeaves DEF ArchiveFails, ArchiveDies, ArchiveLeaks
  <2>3. cur \notin batch /\ cur # fetched
    BY <2>2 DEF Places, OnePlace
  <2>4. \A k \in 1..Len(q') : q'[k] # cur'
    BY <1>18, NoZero DEF ArchiveFails, ArchiveDies, ArchiveLeaks, Shapes
  <2>5. OnePlace'
    BY <1>18, <2>2, <2>4 DEF ArchiveFails, ArchiveDies, ArchiveLeaks, Places, OnePlace
  <2>6. ClaimsExact'
    BY <1>18, <2>1, <2>2, <2>3 DEF ArchiveFails, ArchiveDies, ArchiveLeaks, Places, ClaimsExact,
       InHand, Applied
  <2>7. FetchPhase' /\ QueueDistinct'
    BY <1>18 DEF ArchiveFails, ArchiveDies, ArchiveLeaks, Places, FetchPhase, QueueDistinct
  <2> QED
    BY <2>5, <2>6, <2>7 DEF Places
<1>19. CASE ArchiveApply
  <2>1. cur # 0 /\ Charged' = Charged /\ cur \in Charged
    BY <1>19 DEF ArchiveApply, Archived, ArchivePhase, Charged
  <2>2. cur \notin batch /\ cur # fetched
    BY <2>1 DEF Places, OnePlace
  <2>3. Applied = {} /\ Applied' = {cur}
    BY <1>19 DEF ArchiveApply, Applied
  <2>4. ClaimsExact'
    BY <1>19, <2>1, <2>2, <2>3 DEF ArchiveApply, Places, ClaimsExact, InHand
  <2>5. OnePlace' /\ FetchPhase' /\ QueueDistinct'
    BY <1>19, <2>1 DEF ArchiveApply, Places, OnePlace, FetchPhase, QueueDistinct
  <2> QED
    BY <2>4, <2>5 DEF Places
<1>20. ASSUME NEW s \in {"low", "mid", "high"}, SpaceGoes(s)
      PROVE  Places'
  BY <1>20 DEF SpaceGoes, Places, FetchPhase, QueueDistinct, OnePlace,
     ClaimsExact, InHand, Applied, Charged
<1>21. CASE GuardCheck
  BY <1>21 DEF GuardCheck, Places, FetchPhase, QueueDistinct, OnePlace,
     ClaimsExact, InHand, Applied, Charged
<1>22. ASSUME NEW i \in Items, CoolDown(i)
      PROVE  Places'
  BY <1>22 DEF CoolDown, Places, FetchPhase, QueueDistinct, OnePlace,
     ClaimsExact, InHand, Applied, Charged
<1>23. CASE BreakerDue
  BY <1>23 DEF BreakerDue, Places, FetchPhase, QueueDistinct, OnePlace,
     ClaimsExact, InHand, Applied, Charged
<1>24. CASE Shutdown
  BY <1>24 DEF Shutdown, Places, FetchPhase, QueueDistinct, OnePlace,
     ClaimsExact, InHand, Applied, Charged
<1>25. CASE GraceOver
  BY <1>25 DEF GraceOver, Places, FetchPhase, QueueDistinct, OnePlace,
     ClaimsExact, InHand, Applied, Charged
<1>26. CASE JoinFetch
  BY <1>26 DEF JoinFetch, Places, FetchPhase, QueueDistinct, OnePlace,
     ClaimsExact, InHand, Applied, Charged
<1>27. CASE JoinArchive
  BY <1>27 DEF JoinArchive, Places, FetchPhase, QueueDistinct, OnePlace,
     ClaimsExact, InHand, Applied, Charged
<1>28. CASE Start
  <2>1. Charged' = {} /\ InHand' = {}
    BY <1>28 DEF Start, Charged, InHand, Applied
  <2> QED
    BY <1>28, <2>1 DEF Start, Places, FetchPhase, QueueDistinct, OnePlace, ClaimsExact
<1>29. CASE UNCHANGED vars
  BY <1>29 DEF vars, Places, FetchPhase, QueueDistinct, OnePlace,
     ClaimsExact, InHand, Applied, Charged
<1>30. CASE FetchLoadRaises
  <2>1. Claim \cap inflight = {} /\ Charged' = Charged /\ InHand' = InHand
    BY <1>30 DEF FetchLoadRaises, Claim, Charged, InHand, Applied
  <2>2. ClaimsExact'
    BY <1>30, <2>1 DEF FetchLoadRaises, Places, ClaimsExact
  <2> QED
    BY <1>30, <2>1, <2>2 DEF FetchLoadRaises, Places, FetchPhase, QueueDistinct, OnePlace
<1>31. ASSUME NEW i \in Items, FetchApplyRaises(i)
      PROVE  Places'
  <2>1. Charged' = Charged /\ Applied' = Applied /\ fetched = 0
    BY <1>31 DEF FetchApplyRaises, Charged, Applied, Places, FetchPhase
  <2>2. FetchPhase' /\ QueueDistinct' /\ OnePlace'
    BY <1>31, <2>1 DEF FetchApplyRaises, Places, FetchPhase, QueueDistinct, OnePlace
  <2>3. ClaimsExact'
    BY <1>31, <2>1 DEF FetchApplyRaises, Places, OnePlace, ClaimsExact, InHand
  <2> QED
    BY <2>2, <2>3 DEF Places
<1>32. CASE ArchiveApplyRaises
  <2>1. cur # 0
    BY <1>32 DEF ArchiveApplyRaises, Archived, ArchivePhase
  <2>2. Charged' = Charged \ {cur} /\ cur \in Charged
    BY <1>32, <2>1, CurLeaves DEF ArchiveApplyRaises, ArchiveDies
  <2>3. cur \notin batch /\ cur # fetched
    BY <2>2 DEF Places, OnePlace
  <2>4. \A k \in 1..Len(q') : q'[k] # cur'
    BY <1>32, NoZero DEF ArchiveApplyRaises, ArchiveDies, Shapes
  <2>5. OnePlace'
    BY <1>32, <2>2, <2>4 DEF ArchiveApplyRaises, ArchiveDies, Places, OnePlace
  <2>6. ClaimsExact'
    BY <1>32, <2>1, <2>2, <2>3 DEF ArchiveApplyRaises, ArchiveDies, Places, ClaimsExact, InHand,
       Applied
  <2>7. FetchPhase' /\ QueueDistinct'
    BY <1>32 DEF ArchiveApplyRaises, ArchiveDies, Places, FetchPhase, QueueDistinct
  <2> QED
    BY <2>5, <2>6, <2>7 DEF Places
<1>33. CASE ArchiveFeed
  BY <1>33 DEF ArchiveFeed, Places, FetchPhase, QueueDistinct, OnePlace,
     ClaimsExact, InHand, Applied, Charged
<1>34. CASE ArchiveRelease
  <2>1. cur # 0
    BY <1>34 DEF ArchiveRelease, Archived, ArchivePhase
  <2>2. Charged' = Charged \ {cur} /\ cur \in Charged
    BY <1>34, <2>1, CurLeaves DEF ArchiveRelease
  <2>3. \A k \in 1..Len(q') : q'[k] # cur'
    BY <1>34, NoZero DEF ArchiveRelease, Shapes
  <2>4. OnePlace'
    BY <1>34, <2>2, <2>3 DEF ArchiveRelease, Places, OnePlace
  <2>5. ClaimsExact'
    BY <1>34, <2>2 DEF ArchiveRelease, Places, ClaimsExact, InHand, Applied
  <2>6. FetchPhase' /\ QueueDistinct'
    BY <1>34 DEF ArchiveRelease, Places, FetchPhase, QueueDistinct
  <2> QED
    BY <2>4, <2>5, <2>6 DEF Places
<1>35. ASSUME NEW n \in 1..FedMax, ConvertTakes(n)
      PROVE  Places'
  BY <1>35 DEF ConvertTakes, Places, FetchPhase, QueueDistinct, OnePlace,
     ClaimsExact, InHand, Applied, Charged
<1> QED
  BY <1>1, <1>2, <1>3, <1>4, <1>5, <1>6, <1>7, <1>8, <1>9, <1>10, <1>11,
     <1>12, <1>13, <1>14, <1>15, <1>16, <1>17, <1>18, <1>19, <1>20, <1>21,
     <1>22, <1>23, <1>24, <1>25, <1>26, <1>27, <1>28, <1>29, <1>30, <1>31, <1>32, <1>33,
     <1>34, <1>35 DEF Next,
     FetchNextStep, ArchiveNextStep, ShutdownNextStep

(* What is committed is in a segment.                                      *)
LEMMA ArchivedStep ==
    ASSUME Shapes, Places, Archived, [Next]_vars
    PROVE  Archived'
<1> USE DEF diskVars, fetchVars, queueVars, archiveVars, guardVars, stopVars
<1>1. CASE FetchStart
  BY <1>1 DEF FetchStart, Archived, ArchivePhase, DoneIsArchived, Shapes
<1>2. CASE FetchClaim
  BY <1>2 DEF FetchClaim, Archived, ArchivePhase, DoneIsArchived, Shapes
<1>3. CASE FetchClaimEmpty
  BY <1>3 DEF FetchClaimEmpty, Archived, ArchivePhase, DoneIsArchived, Shapes
<1>4. CASE FetchClaimRaises
  BY <1>4 DEF FetchClaimRaises, Archived, ArchivePhase, DoneIsArchived, Shapes
<1>5. ASSUME NEW i \in Items, FetchOk(i)
      PROVE  Archived'
  BY <1>5 DEF FetchOk, Archived, ArchivePhase, DoneIsArchived, Shapes
<1>6. ASSUME NEW i \in Items, NEW kind \in {"retry", "skip", "limited"},
             NEW last \in BOOLEAN, FetchOther(i, kind, last)
      PROVE  Archived'
  <2>1. cur # 0 => cur # i
    BY <1>6 DEF FetchOther, Places, OnePlace, Charged
  <2> QED
    BY <1>6, <2>1 DEF FetchOther, Archived, ArchivePhase, DoneIsArchived, Shapes
<1>7. CASE Put
  BY <1>7 DEF Put, Archived, ArchivePhase, DoneIsArchived, Shapes
<1>8. CASE PutRefused
  BY <1>8 DEF PutRefused, Archived, ArchivePhase, DoneIsArchived, Shapes
<1>9. CASE FetchNext
  BY <1>9 DEF FetchNext, Archived, ArchivePhase, DoneIsArchived, Shapes
<1>10. CASE FetchFinish
  BY <1>10 DEF FetchFinish, Archived, ArchivePhase, DoneIsArchived, Shapes
<1>11. CASE FetchExit
  BY <1>11 DEF FetchExit, Archived, ArchivePhase, DoneIsArchived, Shapes
<1>12. CASE PauseStage
  BY <1>12 DEF PauseStage, Archived, ArchivePhase, DoneIsArchived, Shapes
<1>13. CASE ResumeStage
  BY <1>13 DEF ResumeStage, Archived, ArchivePhase, DoneIsArchived, Shapes
<1>14. CASE ArchiveGet
  BY <1>14, GetTakes, NoZero DEF ArchiveGet, Archived, ArchivePhase,
     DoneIsArchived, Shapes
<1>15. CASE ArchiveExit
  BY <1>15 DEF ArchiveExit, Archived, ArchivePhase, DoneIsArchived, Shapes
<1>16. ASSUME NEW seal \in BOOLEAN, ArchiveAdd(seal)
      PROVE  Archived'
  BY <1>16 DEF ArchiveAdd, Archived, ArchivePhase, DoneIsArchived, Shapes
<1>17. CASE ArchiveRefused
  BY <1>17 DEF ArchiveRefused, ArchiveDies, ArchiveLeaks, Archived, ArchivePhase,
     DoneIsArchived, Shapes
<1>18. CASE ArchiveFails
  BY <1>18 DEF ArchiveFails, ArchiveDies, ArchiveLeaks, Archived, ArchivePhase,
     DoneIsArchived, Shapes
<1>19. CASE ArchiveApply
  BY <1>19 DEF ArchiveApply, Archived, ArchivePhase, DoneIsArchived, Shapes
<1>20. ASSUME NEW s \in {"low", "mid", "high"}, SpaceGoes(s)
      PROVE  Archived'
  BY <1>20 DEF SpaceGoes, Archived, ArchivePhase, DoneIsArchived, Shapes
<1>21. CASE GuardCheck
  BY <1>21 DEF GuardCheck, Archived, ArchivePhase, DoneIsArchived, Shapes
<1>22. ASSUME NEW i \in Items, CoolDown(i)
      PROVE  Archived'
  BY <1>22 DEF CoolDown, Archived, ArchivePhase, DoneIsArchived, Shapes
<1>23. CASE BreakerDue
  BY <1>23 DEF BreakerDue, Archived, ArchivePhase, DoneIsArchived, Shapes
<1>24. CASE Shutdown
  BY <1>24 DEF Shutdown, Archived, ArchivePhase, DoneIsArchived, Shapes
<1>25. CASE GraceOver
  BY <1>25 DEF GraceOver, Archived, ArchivePhase, DoneIsArchived, Shapes
<1>26. CASE JoinFetch
  BY <1>26 DEF JoinFetch, Archived, ArchivePhase, DoneIsArchived, Shapes
<1>27. CASE JoinArchive
  BY <1>27 DEF JoinArchive, Archived, ArchivePhase, DoneIsArchived, Shapes
<1>28. CASE Start
  BY <1>28 DEF Start, StateAfterStart, Archived, ArchivePhase, DoneIsArchived,
     Shapes
<1>29. CASE UNCHANGED vars
  BY <1>29 DEF vars, Archived, ArchivePhase, DoneIsArchived, Shapes
<1>30. CASE FetchLoadRaises
  BY <1>30 DEF FetchLoadRaises, Archived, ArchivePhase, DoneIsArchived, Shapes
<1>31. ASSUME NEW i \in Items, FetchApplyRaises(i)
      PROVE  Archived'
  BY <1>31 DEF FetchApplyRaises, Archived, ArchivePhase, DoneIsArchived, Shapes
<1>32. CASE ArchiveApplyRaises
  BY <1>32 DEF ArchiveApplyRaises, ArchiveDies, Archived, ArchivePhase, DoneIsArchived, Shapes
<1>33. CASE ArchiveFeed
  BY <1>33 DEF ArchiveFeed, Archived, ArchivePhase, DoneIsArchived, Shapes
<1>34. CASE ArchiveRelease
  BY <1>34 DEF ArchiveRelease, Archived, ArchivePhase, DoneIsArchived, Shapes
<1>35. ASSUME NEW n \in 1..FedMax, ConvertTakes(n)
      PROVE  Archived'
  BY <1>35 DEF ConvertTakes, Archived, ArchivePhase, DoneIsArchived, Shapes
<1> QED
  BY <1>1, <1>2, <1>3, <1>4, <1>5, <1>6, <1>7, <1>8, <1>9, <1>10, <1>11,
     <1>12, <1>13, <1>14, <1>15, <1>16, <1>17, <1>18, <1>19, <1>20, <1>21,
     <1>22, <1>23, <1>24, <1>25, <1>26, <1>27, <1>28, <1>29, <1>30, <1>31, <1>32, <1>33,
     <1>34, <1>35 DEF Next,
     FetchNextStep, ArchiveNextStep, ShutdownNextStep

(* The queue closes behind the fetch thread, or too late.                  *)
LEMMA CloseStep ==
    ASSUME Shapes, CloseOrder, [Next]_vars
    PROVE  CloseOrder'
<1> USE DEF diskVars, fetchVars, queueVars, archiveVars, guardVars, stopVars
<1>1. CASE FetchStart
  BY <1>1 DEF FetchStart, ShuttingDown, CloseOrder, Shapes
<1>2. CASE FetchClaim
  BY <1>2 DEF FetchClaim, CloseOrder, Shapes
<1>3. CASE FetchClaimEmpty
  BY <1>3 DEF FetchClaimEmpty, CloseOrder, Shapes
<1>4. CASE FetchClaimRaises
  BY <1>4 DEF FetchClaimRaises, CloseOrder, Shapes
<1>5. ASSUME NEW i \in Items, FetchOk(i)
      PROVE  CloseOrder'
  BY <1>5 DEF FetchOk, CloseOrder, Shapes
<1>6. ASSUME NEW i \in Items, NEW kind \in {"retry", "skip", "limited"},
             NEW last \in BOOLEAN, FetchOther(i, kind, last)
      PROVE  CloseOrder'
  BY <1>6 DEF FetchOther, CloseOrder, Shapes
<1>7. CASE Put
  BY <1>7 DEF Put, CloseOrder, Shapes
<1>8. CASE PutRefused
  BY <1>8 DEF PutRefused, CloseOrder, Shapes
<1>9. CASE FetchNext
  BY <1>9 DEF FetchNext, ShuttingDown, CloseOrder, Shapes
<1>10. CASE FetchFinish
  BY <1>10 DEF FetchFinish, ShuttingDown, CloseOrder, Shapes
<1>11. CASE FetchExit
  BY <1>11 DEF FetchExit, ShuttingDown, CloseOrder, Shapes
<1>12. CASE PauseStage
  BY <1>12 DEF PauseStage, CloseOrder, Shapes
<1>13. CASE ResumeStage
  BY <1>13 DEF ResumeStage, CloseOrder, Shapes
<1>14. CASE ArchiveGet
  BY <1>14 DEF ArchiveGet, CloseOrder, Shapes
<1>15. CASE ArchiveExit
  BY <1>15 DEF ArchiveExit, CloseOrder, Shapes
<1>16. ASSUME NEW seal \in BOOLEAN, ArchiveAdd(seal)
      PROVE  CloseOrder'
  BY <1>16 DEF ArchiveAdd, CloseOrder, Shapes
<1>17. CASE ArchiveRefused
  BY <1>17 DEF ArchiveRefused, ArchiveDies, ArchiveLeaks, CloseOrder, Shapes
<1>18. CASE ArchiveFails
  BY <1>18 DEF ArchiveFails, ArchiveDies, ArchiveLeaks, CloseOrder, Shapes
<1>19. CASE ArchiveApply
  BY <1>19 DEF ArchiveApply, CloseOrder, Shapes
<1>20. ASSUME NEW s \in {"low", "mid", "high"}, SpaceGoes(s)
      PROVE  CloseOrder'
  BY <1>20 DEF SpaceGoes, CloseOrder, Shapes
<1>21. CASE GuardCheck
  BY <1>21 DEF GuardCheck, CloseOrder, Shapes
<1>22. ASSUME NEW i \in Items, CoolDown(i)
      PROVE  CloseOrder'
  BY <1>22 DEF CoolDown, CloseOrder, Shapes
<1>23. CASE BreakerDue
  BY <1>23 DEF BreakerDue, CloseOrder, Shapes
<1>24. CASE Shutdown
  BY <1>24 DEF Shutdown, CloseOrder, Shapes
<1>25. CASE GraceOver
  BY <1>25 DEF GraceOver, CloseOrder, Shapes
<1>26. CASE JoinFetch
  BY <1>26 DEF JoinFetch, CloseOrder, Shapes
<1>27. CASE JoinArchive
  BY <1>27 DEF JoinArchive, CloseOrder, Shapes
<1>28. CASE Start
  BY <1>28 DEF Start, CloseOrder, Shapes
<1>29. CASE UNCHANGED vars
  BY <1>29 DEF vars, CloseOrder, Shapes
<1>30. CASE FetchLoadRaises
  BY <1>30 DEF FetchLoadRaises, CloseOrder, Shapes
<1>31. ASSUME NEW i \in Items, FetchApplyRaises(i)
      PROVE  CloseOrder'
  BY <1>31 DEF FetchApplyRaises, CloseOrder, Shapes
<1>32. CASE ArchiveApplyRaises
  BY <1>32 DEF ArchiveApplyRaises, ArchiveDies, CloseOrder, Shapes
<1>33. CASE ArchiveFeed
  BY <1>33 DEF ArchiveFeed, CloseOrder, Shapes
<1>34. CASE ArchiveRelease
  BY <1>34 DEF ArchiveRelease, CloseOrder, Shapes
<1>35. ASSUME NEW n \in 1..FedMax, ConvertTakes(n)
      PROVE  CloseOrder'
  BY <1>35 DEF ConvertTakes, CloseOrder, Shapes
<1> QED
  BY <1>1, <1>2, <1>3, <1>4, <1>5, <1>6, <1>7, <1>8, <1>9, <1>10, <1>11,
     <1>12, <1>13, <1>14, <1>15, <1>16, <1>17, <1>18, <1>19, <1>20, <1>21,
     <1>22, <1>23, <1>24, <1>25, <1>26, <1>27, <1>28, <1>29, <1>30, <1>31, <1>32, <1>33,
     <1>34, <1>35 DEF Next,
     FetchNextStep, ArchiveNextStep, ShutdownNextStep

(* The invariant holds in every reachable state of the download path.      *)
THEOREM HandoffInvariant == Spec => []HandoffIInv
<1>1. HandoffIInv /\ [Next]_vars => HandoffIInv'
  BY ShapesStep, PlacesStep, ArchivedStep, CloseStep DEF HandoffIInv
<1> QED
  BY InitInv, <1>1, PTL DEF Spec

(* What the dispatcher thinks is in flight is in somebody's hands, or was  *)
(* left by an exception between claim and apply_outcome, nothing is at two *)
(* places, and a wheel in NEED_CONVERT has its METADATA in a segment,      *)
(* whatever fetch and archive thread, shutdown, kills and faults do        *)
(* (stages/fetch.py, ByteBudgetedQueue, ArchiveHandoff).                   *)
THEOREM HandoffPlaces == Spec => []HandoffInv
<1>1. HandoffIInv => HandoffInv
  BY DEF HandoffIInv, Places, Archived, HandoffInv
<1> QED
  BY HandoffInvariant, <1>1, PTL

(* Only a shutdown whose grace period ran out refuses a download that has  *)
(* already been made (service.py joins fetch before it closes the queue).  *)
THEOREM HandoffDropsLate == Spec => []DropsOnlyWhenLate
<1>1. HandoffIInv => DropsOnlyWhenLate
  BY DEF HandoffIInv, CloseOrder, DropsOnlyWhenLate
<1> QED
  BY HandoffInvariant, <1>1, PTL

-----------------------------------------------------------------------------
(* What a set of items weighs.  MapThenSumSet sums over a set by taking    *)
(* one element out of it after the other; that the order does not matter   *)
(* is an induction over sets, put here as the choice of a smallest         *)
(* counterexample.                                                         *)

Weight(S) == MapThenSumSet(LAMBDA i : Size[i], S)

\* the element that CHOOSE takes first
First(s) == CHOOSE x \in s : TRUE

\* f sums the subsets of T as MapThenSumSet does
SumsIn(f, T) ==
    f = [s \in SUBSET T |->
            IF s = {} THEN 0 ELSE Size[First(s)] + f[s \ {First(s)}]]

LEMMA WeightIsChosen ==
    ASSUME NEW T PROVE Weight(T) = (CHOOSE f : SumsIn(f, T))[T]
  BY DEF Weight, MapThenSumSet, MapThenFoldSet, SumsIn, First

(* A family of sets of items has a smallest member.                        *)
LEMMA SmallestSet ==
    ASSUME NEW F, F \subseteq SUBSET Items, F # {}
    PROVE  \E s \in F : \A t \in F : t \subseteq s => t = s
<1>1. FiniteSubsetsOf(Items) = SUBSET Items
  BY HandoffAssumption, FS_FiniteSubsetsOfFinite
<1>2. PICK s \in F : \A t \in F : ~(<<t, s>> \in StrictSubsetOrdering(Items))
  <2>1. IsWellFoundedOn(StrictSubsetOrdering(Items), SUBSET Items)
    BY <1>1, FS_StrictSubsetOrderingWellFounded
  <2> QED
    BY <2>1, WFMin
<1>3. \A t \in F : <<t, s>> \in (SUBSET Items) \X (SUBSET Items)
  OBVIOUS
<1> QED
  BY <1>2, <1>3 DEF StrictSubsetOrdering

LEMMA FirstIn ==
    ASSUME NEW s \in SUBSET Items, s # {}
    PROVE  /\ First(s) \in s /\ First(s) \in Items
           /\ s \ {First(s)} \subseteq s /\ s \ {First(s)} # s
           /\ s \ {First(s)} \in SUBSET Items
<1>1. First(s) \in s
  BY DEF First
<1>2. ASSUME NEW x \in s
      PROVE  x \in Items /\ s \ {x} \subseteq s /\ s \ {x} # s /\ s \ {x} \in SUBSET Items
  <2>1. x \notin s \ {x}
    OBVIOUS
  <2> QED
    BY <2>1
<1> QED
  BY <1>1, <1>2

LEMMA SumsInApply ==
    ASSUME NEW f, NEW T \in SUBSET Items, SumsIn(f, T), NEW s \in SUBSET T
    PROVE  f[s] = IF s = {} THEN 0 ELSE Size[First(s)] + f[s \ {First(s)}]
  BY DEF SumsIn

(* Two such functions agree where both are defined.                        *)
LEMMA SumsAgree ==
    ASSUME NEW f, NEW g, NEW S \in SUBSET Items, NEW T \in SUBSET Items,
           SumsIn(f, S), SumsIn(g, T), NEW s \in SUBSET (S \cap T)
    PROVE  f[s] = g[s]
<1> DEFINE F == {t \in SUBSET (S \cap T) : f[t] # g[t]}
<1> SUFFICES ASSUME F # {} PROVE FALSE
  OBVIOUS
<1>0. F \subseteq SUBSET Items
  OBVIOUS
<1>1. PICK t \in F : \A u \in F : u \subseteq t => u = t
  <2> HIDE DEF F
  <2> QED
    BY <1>0, SmallestSet
<1>2. /\ f[t] = IF t = {} THEN 0 ELSE Size[First(t)] + f[t \ {First(t)}]
      /\ g[t] = IF t = {} THEN 0 ELSE Size[First(t)] + g[t \ {First(t)}]
  BY SumsInApply
<1>3. t # {} /\ t \in SUBSET Items
  <2>1. f[t] # g[t]
    OBVIOUS
  <2> QED
    BY <1>2, <2>1
<1>4. t \ {First(t)} \notin F
  <2> HIDE DEF F
  <2> QED
    BY <1>1, <1>3, FirstIn
<1>5. t \ {First(t)} \in SUBSET (S \cap T)
  BY <1>3
<1> QED
  BY <1>2, <1>3, <1>4, <1>5

(* There is such a function for every set of items.                        *)
LEMMA SumsExist ==
    ASSUME NEW T \in SUBSET Items
    PROVE  \E f : SumsIn(f, T)
<1> DEFINE F == {t \in SUBSET Items : ~\E f : SumsIn(f, t)}
<1> SUFFICES ASSUME F # {} PROVE FALSE
  OBVIOUS
<1>0. F \subseteq SUBSET Items
  OBVIOUS
<1>1. PICK t \in F : \A u \in F : u \subseteq t => u = t
  <2> HIDE DEF F
  <2> QED
    BY <1>0, SmallestSet
<1> DEFINE Of(u) == CHOOSE f : SumsIn(f, u)
           W(u) == Of(u)[u]
           g == [s \in SUBSET t |-> IF s = {} THEN 0 ELSE Size[First(s)] + W(s \ {First(s)})]
<1>2. \A u \in SUBSET Items : u \subseteq t /\ u # t => SumsIn(Of(u), u)
  BY <1>1
<1> HIDE DEF Of
<1>3. ASSUME NEW u \in SUBSET Items, u \subseteq t, u # t, u # {}
      PROVE  W(u) = Size[First(u)] + W(u \ {First(u)})
  <2> DEFINE v == u \ {First(u)}
  <2>1. v \in SUBSET Items /\ v \subseteq u /\ v \subseteq t /\ v # t
    BY <1>3, FirstIn
  <2>2. SumsIn(Of(u), u) /\ SumsIn(Of(v), v)
    BY <1>2, <1>3, <2>1
  <2>3. Of(u)[u] = Size[First(u)] + Of(u)[v]
    BY <1>3, <2>2, SumsInApply
  <2>4. v \in SUBSET (u \cap v)
    BY <2>1
  <2> HIDE DEF v
  <2>5. Of(u)[v] = Of(v)[v]
    BY <1>3, <2>1, <2>2, <2>4, SumsAgree
  <2> QED
    BY <2>3, <2>5 DEF v
<1>4. W({}) = 0 \/ t = {}
  <2>1. CASE t # {}
    <3>1. SumsIn(Of({}), {})
      BY <1>2, <2>1
    <3>2. {} \in SUBSET Items /\ {} \in SUBSET {}
      OBVIOUS
    <3> QED
      BY <3>1, <3>2, SumsInApply
  <2> QED
    BY <2>1
<1>5. ASSUME NEW s \in SUBSET t, s # {}
      PROVE  g[s] = Size[First(s)] + g[s \ {First(s)}]
  <2> DEFINE v == s \ {First(s)}
  <2>1. s \in SUBSET Items /\ t \in SUBSET Items
    OBVIOUS
  <2>2. v \in SUBSET Items /\ v \subseteq s /\ v # s /\ v \subseteq t /\ v # t /\ t # {}
    BY <1>5, <2>1, FirstIn
  <2>3. g[s] = Size[First(s)] + W(v)
    BY <1>5
  <2>4. g[v] = IF v = {} THEN 0 ELSE Size[First(v)] + W(v \ {First(v)})
    BY <2>2
  <2> HIDE DEF v
  <2>5. g[v] = W(v)
    <3> HIDE DEF W, g
    <3> QED
      BY <1>3, <1>4, <2>2, <2>4
  <2> QED
    BY <2>3, <2>5 DEF v
<1>6. g = [s \in SUBSET t |-> IF s = {} THEN 0 ELSE Size[First(s)] + g[s \ {First(s)}]]
  <2>1. g[{}] = 0
    OBVIOUS
  <2> DEFINE h == [s \in SUBSET t |-> IF s = {} THEN 0 ELSE Size[First(s)] + g[s \ {First(s)}]]
  <2>2. \A s \in SUBSET t : g[s] = h[s]
    <3> HIDE DEF g
    <3> QED
      BY <1>5, <2>1
  <2>3. DOMAIN g = SUBSET t /\ DOMAIN h = SUBSET t
        /\ g = [s \in DOMAIN g |-> g[s]] /\ h = [s \in DOMAIN h |-> h[s]]
    OBVIOUS
  <2> HIDE DEF g, h
  <2>4. g = h
    BY <2>2, <2>3
  <2> QED
    BY <2>4 DEF h
<1> HIDE DEF g
<1>7. SumsIn(g, t)
  BY <1>6 DEF SumsIn
<1> QED
  BY <1>7

(* How Weight computes, with whatever CHOOSE takes first.                  *)
LEMMA WeightFirst ==
    /\ Weight({}) = 0
    /\ \A s \in SUBSET Items :
          s # {} => Weight(s) = Size[First(s)] + Weight(s \ {First(s)})
<1> DEFINE Of(u) == CHOOSE f : SumsIn(f, u)
<1>1. \A u \in SUBSET Items : SumsIn(Of(u), u)
  BY SumsExist
<1>2. \A u \in SUBSET Items : Weight(u) = Of(u)[u]
  BY WeightIsChosen
<1> HIDE DEF Of
<1>3. Weight({}) = 0
  <2>1. {} \in SUBSET Items /\ {} \in SUBSET {}
    OBVIOUS
  <2> QED
    BY <1>1, <1>2, <2>1, SumsInApply
<1>4. ASSUME NEW s \in SUBSET Items, s # {}
      PROVE  Weight(s) = Size[First(s)] + Weight(s \ {First(s)})
  <2> DEFINE v == s \ {First(s)}
  <2>1. v \in SUBSET Items /\ v \subseteq s
    OBVIOUS
  <2>2. Of(s)[s] = Size[First(s)] + Of(s)[v]
    BY <1>1, <1>4, SumsInApply
  <2>3. v \in SUBSET (s \cap v)
    BY <2>1
  <2> HIDE DEF v
  <2>4. Of(s)[v] = Of(v)[v]
    BY <1>1, <2>1, <2>3, SumsAgree
  <2> QED
    BY <1>2, <2>1, <2>2, <2>4 DEF v
<1> QED
  BY <1>3, <1>4

(* The order does not matter: any element may be taken out first.          *)
LEMMA WeightTakeOut ==
    ASSUME NEW S \in SUBSET Items, NEW x \in S
    PROVE  /\ Weight(S) = Size[x] + Weight(S \ {x})
           /\ Weight(S) \in Nat /\ Weight(S \ {x}) \in Nat /\ Size[x] \in Nat \ {0}
<1>1. \A i \in Items : Size[i] \in Nat \ {0}
  BY HandoffAssumption
<1>2. ASSUME NEW s \in SUBSET Items PROVE Weight(s) \in Nat
  <2> DEFINE F == {t \in SUBSET Items : Weight(t) \notin Nat}
  <2> SUFFICES ASSUME F # {} PROVE FALSE
    BY <1>2
  <2>0. F \subseteq SUBSET Items
    OBVIOUS
  <2>1. PICK t \in F : \A u \in F : u \subseteq t => u = t
    <3> HIDE DEF F
    <3> QED
      BY <2>0, SmallestSet
  <2>2. t # {} /\ t \in SUBSET Items
    <3>1. Weight(t) \notin Nat /\ t \in SUBSET Items
      OBVIOUS
    <3> QED
      BY <3>1, WeightFirst
  <2>3. t \ {First(t)} \notin F /\ First(t) \in Items /\ t \ {First(t)} \in SUBSET Items
    BY <2>1, <2>2, FirstIn
  <2>4. Weight(t \ {First(t)}) \in Nat /\ Size[First(t)] \in Nat
    BY <1>1, <2>3
  <2> QED
    BY <2>2, <2>4, WeightFirst
<1> DEFINE Bad(t) == \E y \in t : Weight(t) # Size[y] + Weight(t \ {y})
           F == {t \in SUBSET Items : Bad(t)}
<1>3. ASSUME F # {} PROVE FALSE
  <2>0. F \subseteq SUBSET Items
    OBVIOUS
  <2>1. PICK t \in F : \A u \in F : u \subseteq t => u = t
    <3> HIDE DEF F
    <3> QED
      BY <1>3, <2>0, SmallestSet
  <2>2. PICK y \in t : Weight(t) # Size[y] + Weight(t \ {y})
    OBVIOUS
  <2>3. t # {} /\ t \in SUBSET Items /\ y \in Items
    OBVIOUS
  <2> DEFINE z == First(t)
             a == t \ {z}
             c == t \ {y}
             e == t \ {y, z}
  <2>4. z \in t /\ z \in Items /\ Weight(t) = Size[z] + Weight(a)
    BY <2>3, FirstIn, WeightFirst
  <2> HIDE DEF z
  <2>5. y # z
    BY <2>2, <2>4
  <2>6. /\ a \in SUBSET Items /\ a \subseteq t /\ a # t /\ y \in a
        /\ c \in SUBSET Items /\ c \subseteq t /\ c # t /\ z \in c
        /\ e \in SUBSET Items /\ e = a \ {y} /\ e = c \ {z}
    BY <2>3, <2>4, <2>5
  <2>7. a \notin F /\ c \notin F
    <3> HIDE DEF F, a, c
    <3> QED
      BY <2>1, <2>6
  <2>8. Weight(a) = Size[y] + Weight(e)
    <3>1. ~Bad(a)
      BY <2>6, <2>7
    <3> HIDE DEF a, e
    <3> QED
      BY <2>6, <3>1
  <2>9. Weight(c) = Size[z] + Weight(e)
    <3>1. ~Bad(c)
      BY <2>6, <2>7
    <3> HIDE DEF c, e
    <3> QED
      BY <2>6, <3>1
  <2> HIDE DEF e, a
  <2>10. Weight(e) \in Nat /\ Size[y] \in Nat /\ Size[z] \in Nat
    BY <1>1, <1>2, <2>3, <2>4, <2>6
  <2>11. Weight(t) # Size[y] + Weight(c)
    BY <2>2
  <2> HIDE DEF c
  <2> QED
    BY <2>4, <2>8, <2>9, <2>10, <2>11
<1>4. Weight(S) = Size[x] + Weight(S \ {x})
  BY <1>3
<1>5. S \ {x} \in SUBSET Items /\ x \in Items
  OBVIOUS
<1> QED
  BY <1>1, <1>2, <1>4, <1>5

(* A queue that holds nothing twice holds as many items as it is long.     *)
LEMMA DistinctLen ==
    ASSUME NEW s \in Seq(Items), \A j, k \in 1..Len(s) : s[j] = s[k] => j = k
    PROVE  Len(s) = Cardinality({s[k] : k \in 1..Len(s)})
<1> DEFINE T == {s[k] : k \in 1..Len(s)}
           f == [k \in 1..Len(s) |-> s[k]]
<1>1. Len(s) \in Nat
  OBVIOUS
<1>2. f \in [1..Len(s) -> T]
  OBVIOUS
<1>3. \A t \in T : \E k \in 1..Len(s) : f[k] = t
  OBVIOUS
<1>4. \A j, k \in 1..Len(s) : f[j] = f[k] => j = k
  OBVIOUS
<1> HIDE DEF f, T
<1>5. f \in Bijection(1..Len(s), T)
  BY <1>2, <1>3, <1>4 DEF Bijection, Injection, Surjection, IsInjective
<1>6. ExistsBijection(1..Len(s), T)
  BY <1>5 DEF ExistsBijection
<1>7. Cardinality(T) = Len(s)
  BY <1>1, <1>6, FS_CountingElements
<1> QED
  BY <1>7 DEF T

(* The types of the variables that the other invariants do not speak of.   *)
Settings ==
    /\ cooling \subseteq Items /\ held \in BOOLEAN /\ cursor \in Items \cup {0}
    /\ inflight \subseteq Items /\ leaked \subseteq Items /\ fed \in 0..FedMax
    /\ saw \in [ok : BOOLEAN, failed : BOOLEAN]
    /\ b \in BreakerType /\ closed \in BOOLEAN
    /\ space \in {"low", "mid", "high"} /\ paused \in BOOLEAN
    /\ late \in BOOLEAN /\ dropped \subseteq Items
    /\ faults \in [hard : 0..MaxFaults, soft : 0..MaxFaults] /\ starts \in 0..MaxStarts

(* n is what the items of C weigh, and over the budget only if C is one.   *)
Weighed(C, n) ==
    /\ n = Weight(C)
    /\ n > Budget => Cardinality(C) = 1

BudgetInv == Settings /\ Weighed(Charged, bytes)

LEMMA WeighedNothing == Weighed({}, 0)
<1>1. Weight({}) = 0 /\ ~(0 > Budget)
  BY WeightFirst, HandoffAssumption
<1> QED
  BY <1>1 DEF Weighed

(* put: there is room, or there is nothing else.                           *)
LEMMA WeighedMore ==
    ASSUME NEW C \in SUBSET Items, NEW n, NEW x \in Items, x \notin C,
           Weighed(C, n), n = 0 \/ n + Size[x] <= Budget
    PROVE  Weighed(C \cup {x}, n + Size[x])
<1> DEFINE D == C \cup {x}
<1>1. D \in SUBSET Items /\ x \in D /\ D \ {x} = C
  OBVIOUS
<1> HIDE DEF D
<1>2. Weight(D) = Size[x] + Weight(C) /\ Weight(C) \in Nat /\ Size[x] \in Nat
  BY <1>1, WeightTakeOut
<1>3. Weight(D) = n + Size[x]
  BY <1>2 DEF Weighed
<1>4. CASE n = 0
  <2>1. C = {}
    <3> SUFFICES ASSUME NEW y \in C PROVE FALSE
      OBVIOUS
    <3>1. Weight(C) = Size[y] + Weight(C \ {y}) /\ Weight(C \ {y}) \in Nat /\ Size[y] \in Nat \ {0}
      BY WeightTakeOut
    <3>2. Weight(C) = 0
      BY <1>4 DEF Weighed
    <3> QED
      BY <3>1, <3>2
  <2>2. D = {x}
    BY <2>1 DEF D
  <2>3. Cardinality(D) = 1
    BY <2>2, FS_Singleton
  <2> QED
    BY <1>3, <2>3 DEF Weighed, D
<1>5. CASE n + Size[x] <= Budget
  <2>1. n + Size[x] \in Nat /\ Budget \in Nat
    BY <1>2, HandoffAssumption DEF Weighed
  <2>2. ~(n + Size[x] > Budget)
    BY <1>5, <2>1
  <2> QED
    BY <1>3, <2>2 DEF Weighed, D
<1> QED
  BY <1>4, <1>5

(* release: what was over the budget was alone.                            *)
LEMMA WeighedLess ==
    ASSUME NEW C \in SUBSET Items, NEW n, NEW x \in C, Weighed(C, n)
    PROVE  Weighed(C \ {x}, n - Size[x])
<1>1. /\ Weight(C) = Size[x] + Weight(C \ {x}) /\ Weight(C \ {x}) \in Nat
      /\ Size[x] \in Nat \ {0} /\ Budget \in Nat \ {0} /\ n = Weight(C)
  BY WeightTakeOut, HandoffAssumption DEF Weighed
<1>2. n - Size[x] = Weight(C \ {x})
  BY <1>1
<1>3. CASE n > Budget
  <2>1. Cardinality(C) = 1 /\ IsFiniteSet(C)
    BY <1>3, HandoffAssumption, FS_Subset DEF Weighed
  <2>2. C = {x}
    BY <2>1, FS_Singleton
  <2>3. C \ {x} = {}
    BY <2>2
  <2>4. Weight(C \ {x}) = 0
    BY <2>3, WeightFirst
  <2> QED
    BY <1>1, <1>2, <2>4 DEF Weighed
<1>4. CASE ~(n > Budget)
  <2>1. ~(n - Size[x] > Budget)
    BY <1>1, <1>2, <1>4
  <2> QED
    BY <1>2, <2>1 DEF Weighed
<1> QED
  BY <1>3, <1>4

(* claim's cursor is one of the wheels.                                    *)
LEMMA MaxIsMember ==
    ASSUME NEW S \in SUBSET Items, S # {}
    PROVE  Max(S) \in S
<1>1. S \subseteq Nat /\ Items \subseteq Nat
  BY HandoffAssumption
<1> DEFINE Above(x) == {y \in S : y > x}
           F == {Above(x) : x \in S}
<1>2. F \subseteq SUBSET Items /\ F # {}
  OBVIOUS
<1>3. PICK s \in F : \A t \in F : t \subseteq s => t = s
  <2> HIDE DEF F
  <2> QED
    BY <1>2, SmallestSet
<1>4. PICK x \in S : s = Above(x)
  OBVIOUS
<1>5. \A y \in S : x >= y
  <2> SUFFICES ASSUME NEW y \in S, ~(x >= y) PROVE FALSE
    OBVIOUS
  <2>1. y > x /\ y \in Nat /\ x \in Nat
    BY <1>1
  <2>2. Above(y) \subseteq Above(x)
    <3> SUFFICES ASSUME NEW z \in S, z > y PROVE z > x
      OBVIOUS
    <3>1. z \in Nat
      BY <1>1
    <3> QED
      BY <2>1, <3>1
  <2>3. Above(y) = Above(x)
    <3>1. Above(y) \in F
      OBVIOUS
    <3> HIDE DEF F, Above
    <3> QED
      BY <1>3, <1>4, <2>2, <3>1
  <2>4. y \in Above(x) /\ y \notin Above(y)
    BY <2>1
  <2> QED
    BY <2>3, <2>4
<1> QED
  BY <1>5 DEF Max

\* The breaker's operators stay within its type.
LEMMA BreakerTypes ==
    ASSUME NEW x \in BreakerType
    PROVE  /\ AfterAllow(x) \in BreakerType /\ RecordSuccess(x) \in BreakerType
           /\ RecordFailure(x) \in BreakerType /\ Recovered(x) \in BreakerType
           /\ NewBreaker \in BreakerType
<1>1. ASSUME NEW s \in {"closed", "open", "half_open"}, NEW n \in 0..Threshold,
             NEW d \in BOOLEAN, NEW t \in BOOLEAN
      PROVE  /\ [x EXCEPT !.state = s, !.trial = t] \in BreakerType
             /\ [x EXCEPT !.state = s, !.fails = n, !.trial = t] \in BreakerType
             /\ [x EXCEPT !.due = d] \in BreakerType /\ [x EXCEPT !.fails = n] \in BreakerType
             /\ [state |-> s, fails |-> n, due |-> d, trial |-> t] \in BreakerType
  BY DEF BreakerType
<1>2. 0 \in 0..Threshold /\ Threshold \in 0..Threshold
  BY BreakerAssumption
<1> DEFINE n == IF x.fails < Threshold THEN x.fails + 1 ELSE Threshold
<1>3. n \in 0..Threshold
  BY BreakerAssumption DEF BreakerType
<1> HIDE DEF n
<1>4. RecordFailure(x) = IF x.state = "half_open" \/ n >= Threshold
          THEN [state |-> "open", fails |-> n, due |-> FALSE, trial |-> FALSE]
          ELSE [x EXCEPT !.fails = n]
  BY DEF RecordFailure, n
<1>5. RecordFailure(x) \in BreakerType
  BY <1>1, <1>3, <1>4
<1>6. AfterAllow(x) \in BreakerType
  <2>1. [x EXCEPT !.state = "half_open", !.trial = TRUE] \in BreakerType
    BY <1>1, <1>2
  <2> QED
    BY <2>1 DEF AfterAllow
<1>7. RecordSuccess(x) \in BreakerType
  <2>1. [x EXCEPT !.state = "closed", !.fails = 0, !.trial = FALSE] \in BreakerType
    BY <1>1, <1>2
  <2> QED
    BY <2>1 DEF RecordSuccess
<1>8. Recovered(x) \in BreakerType
  <2>1. [x EXCEPT !.due = TRUE] \in BreakerType
    BY <1>1, <1>2
  <2> QED
    BY <2>1 DEF Recovered
<1>9. NewBreaker \in BreakerType
  BY <1>1, <1>2 DEF NewBreaker
<1> QED
  BY <1>5, <1>6, <1>7, <1>8, <1>9

\* One more fault is counted, within the bound.
LEMMA FaultCounted ==
    ASSUME Settings, NEW k, Fault(k)
    PROVE  faults' \in [hard : 0..MaxFaults, soft : 0..MaxFaults]
<1>1. MaxFaults \in Nat /\ faults \in [hard : 0..MaxFaults, soft : 0..MaxFaults]
  BY HandoffAssumption DEF Settings
<1>2. CASE k \in HardFaults
  <2>1. faults.hard + 1 \in 0..MaxFaults
    BY <1>1, <1>2 DEF Fault
  <2> QED
    BY <1>1, <1>2, <2>1 DEF Fault
<1>3. CASE k \notin HardFaults
  <2>1. faults.soft + 1 \in 0..MaxFaults
    BY <1>1, <1>3 DEF Fault
  <2> QED
    BY <1>1, <1>3, <2>1 DEF Fault
<1> QED
  BY <1>2, <1>3

(* Every step keeps the settings.                                          *)
LEMMA SettingsStep ==
    ASSUME Shapes, Places, Archived, Settings, [Next]_vars
    PROVE  Settings'
<1> USE DEF diskVars, fetchVars, queueVars, archiveVars, guardVars, stopVars
<1>1. CASE FetchStart
  <2>1. b' \in BreakerType
    BY <1>1, BreakerTypes DEF FetchStart, Settings
  <2> QED
    BY <1>1, <2>1 DEF FetchStart, Settings
<1>2. CASE FetchClaim
  <2>1. Claim \in SUBSET Items /\ Claim # {}
    BY <1>2 DEF FetchClaim, Claim
  <2>2. NextCursor(Claim) \in Items \cup {0}
    BY <2>1, MaxIsMember DEF NextCursor
  <2>3. SawNothing \in [ok : BOOLEAN, failed : BOOLEAN]
    BY DEF SawNothing
  <2> QED
    BY <1>2, <2>1, <2>2, <2>3 DEF FetchClaim, Settings
<1>3. CASE FetchClaimEmpty
  BY <1>3 DEF FetchClaimEmpty, Settings
<1>4. CASE FetchClaimRaises
  BY <1>4 DEF FetchClaimRaises, Settings
<1>5. ASSUME NEW i \in Items, FetchOk(i)
      PROVE  Settings'
  BY <1>5 DEF FetchOk, Settings
<1>6. ASSUME NEW i \in Items, NEW kind \in {"retry", "skip", "limited"},
             NEW last \in BOOLEAN, FetchOther(i, kind, last)
      PROVE  Settings'
  <2>1. faults' \in [hard : 0..MaxFaults, soft : 0..MaxFaults]
    BY <1>6, FaultCounted DEF FetchOther
  <2>2. saw' \in [ok : BOOLEAN, failed : BOOLEAN]
    <3>1. ASSUME NEW t \in BOOLEAN
          PROVE  [saw EXCEPT !.failed = t] \in [ok : BOOLEAN, failed : BOOLEAN]
      BY DEF Settings
    <3>2. (saw.failed \/ kind = "retry") \in BOOLEAN
      OBVIOUS
    <3>3. saw' = [saw EXCEPT !.failed = saw.failed \/ kind = "retry"]
      BY <1>6 DEF FetchOther
    <3> QED
      BY <3>1, <3>2, <3>3
  <2> QED
    BY <1>6, <2>1, <2>2 DEF FetchOther, Settings
<1>7. CASE Put
  BY <1>7 DEF Put, Settings
<1>8. CASE PutRefused
  <2>1. fetched \in Items
    BY <1>8, NoZero DEF PutRefused, Shapes, Places, FetchPhase
  <2> QED
    BY <1>8, <2>1 DEF PutRefused, Settings, Shapes
<1>9. CASE FetchNext
  BY <1>9 DEF FetchNext, Settings
<1>10. CASE FetchFinish
  <2>1. b' \in BreakerType
    <3>1. /\ b \in BreakerType /\ RecordFailure(b) \in BreakerType
          /\ RecordSuccess(b) \in BreakerType
      BY BreakerTypes DEF Settings
    <3> QED
      BY <1>10, <3>1 DEF FetchFinish
  <2> QED
    BY <1>10, <2>1 DEF FetchFinish, Settings
<1>11. CASE FetchExit
  BY <1>11 DEF FetchExit, Settings
<1>12. CASE PauseStage
  <2>1. faults' \in [hard : 0..MaxFaults, soft : 0..MaxFaults]
    BY <1>12, FaultCounted DEF PauseStage
  <2> QED
    BY <1>12, <2>1 DEF PauseStage, Settings
<1>13. CASE ResumeStage
  BY <1>13 DEF ResumeStage, Settings
<1>14. CASE ArchiveGet
  BY <1>14 DEF ArchiveGet, Settings
<1>15. CASE ArchiveExit
  BY <1>15 DEF ArchiveExit, Settings
<1>16. ASSUME NEW seal \in BOOLEAN, ArchiveAdd(seal)
      PROVE  Settings'
  BY <1>16 DEF ArchiveAdd, Settings
<1>17. CASE ArchiveRefused
  <2>1. cur \in Items
    BY <1>17 DEF ArchiveRefused, Archived, ArchivePhase, Shapes
  <2> QED
    BY <1>17, <2>1 DEF ArchiveRefused, ArchiveDies, ArchiveLeaks, Settings
<1>18. CASE ArchiveFails
  <2>1. faults' \in [hard : 0..MaxFaults, soft : 0..MaxFaults]
    BY <1>18, FaultCounted DEF ArchiveFails
  <2>2. cur \in Items
    BY <1>18 DEF ArchiveFails, Archived, ArchivePhase, Shapes
  <2> QED
    BY <1>18, <2>1, <2>2 DEF ArchiveFails, ArchiveDies, ArchiveLeaks, Settings
<1>19. CASE ArchiveApply
  BY <1>19 DEF ArchiveApply, Settings
<1>20. ASSUME NEW s \in {"low", "mid", "high"}, SpaceGoes(s)
      PROVE  Settings'
  <2>1. faults' \in [hard : 0..MaxFaults, soft : 0..MaxFaults]
    BY <1>20, FaultCounted DEF SpaceGoes, Settings
  <2> QED
    BY <1>20, <2>1 DEF SpaceGoes, Settings
<1>21. CASE GuardCheck
  BY <1>21 DEF GuardCheck, Checked, Settings
<1>22. ASSUME NEW i \in Items, CoolDown(i)
      PROVE  Settings'
  BY <1>22 DEF CoolDown, Settings
<1>23. CASE BreakerDue
  <2>1. b' \in BreakerType
    BY <1>23, BreakerTypes DEF BreakerDue, Settings
  <2> QED
    BY <1>23, <2>1 DEF BreakerDue, Settings
<1>24. CASE Shutdown
  BY <1>24 DEF Shutdown, Settings
<1>25. CASE GraceOver
  BY <1>25 DEF GraceOver, Settings
<1>26. CASE JoinFetch
  BY <1>26 DEF JoinFetch, Settings
<1>27. CASE JoinArchive
  BY <1>27 DEF JoinArchive, Settings
<1>28. CASE Start
  <2>1. b' \in BreakerType
    BY <1>28, BreakerTypes DEF Start, Settings
  <2>2. saw' \in [ok : BOOLEAN, failed : BOOLEAN]
    BY <1>28 DEF Start, SawNothing
  <2>3. starts' \in 0..MaxStarts
    BY <1>28, HandoffAssumption DEF Start, Settings
  <2>4. fed' \in 0..FedMax
    BY <1>28, HandoffAssumption DEF Start
  <2> QED
    BY <1>28, <2>1, <2>2, <2>3, <2>4 DEF Start, Settings
<1>29. CASE UNCHANGED vars
  BY <1>29 DEF vars, Settings
<1>30. CASE FetchLoadRaises
  <2>1. Claim \in SUBSET Items /\ Claim # {}
    BY <1>30 DEF FetchLoadRaises, Claim
  <2>2. NextCursor(Claim) \in Items \cup {0}
    BY <2>1, MaxIsMember DEF NextCursor
  <2>3. faults' \in [hard : 0..MaxFaults, soft : 0..MaxFaults]
    BY <1>30, FaultCounted DEF FetchLoadRaises
  <2> QED
    BY <1>30, <2>1, <2>2, <2>3 DEF FetchLoadRaises, Settings
<1>31. ASSUME NEW i \in Items, FetchApplyRaises(i)
      PROVE  Settings'
  <2>1. faults' \in [hard : 0..MaxFaults, soft : 0..MaxFaults]
    BY <1>31, FaultCounted DEF FetchApplyRaises, Settings
  <2> QED
    BY <1>31, <2>1 DEF FetchApplyRaises, Settings, Shapes
<1>32. CASE ArchiveApplyRaises
  <2>1. faults' \in [hard : 0..MaxFaults, soft : 0..MaxFaults]
    BY <1>32, FaultCounted DEF ArchiveApplyRaises, Settings
  <2> QED
    BY <1>32, <2>1 DEF ArchiveApplyRaises, ArchiveDies, Settings
<1>33. CASE ArchiveFeed
  <2>1. fed' \in 0..FedMax
    BY <1>33, HandoffAssumption DEF ArchiveFeed, Settings
  <2> QED
    BY <1>33, <2>1 DEF ArchiveFeed, Settings
<1>34. CASE ArchiveRelease
  BY <1>34 DEF ArchiveRelease, Settings
<1>35. ASSUME NEW n \in 1..FedMax, ConvertTakes(n)
      PROVE  Settings'
  <2>1. fed' \in 0..FedMax
    BY <1>35, HandoffAssumption DEF ConvertTakes, Settings
  <2> QED
    BY <1>35, <2>1 DEF ConvertTakes, Settings
<1> QED
  BY <1>1, <1>2, <1>3, <1>4, <1>5, <1>6, <1>7, <1>8, <1>9, <1>10, <1>11,
     <1>12, <1>13, <1>14, <1>15, <1>16, <1>17, <1>18, <1>19, <1>20, <1>21,
     <1>22, <1>23, <1>24, <1>25, <1>26, <1>27, <1>28, <1>29, <1>30, <1>31, <1>32, <1>33,
     <1>34, <1>35 DEF Next,
     FetchNextStep, ArchiveNextStep, ShutdownNextStep

(* Every step keeps the charge and the bytes together.                     *)
LEMMA ChargeStep ==
    ASSUME Shapes, Places, Archived, Weighed(Charged, bytes), [Next]_vars
    PROVE  Weighed(Charged, bytes)'
<1> USE DEF diskVars, fetchVars, queueVars, archiveVars, guardVars, stopVars
<1>items. Charged \in SUBSET Items
  BY ChargedItems
<1>primed. Weighed(Charged, bytes)' <=> Weighed(Charged', bytes')
  OBVIOUS
<1>kept. Charged' = Charged /\ bytes' = bytes => Weighed(Charged, bytes)'
  BY <1>primed
<1>1. CASE FetchStart
  BY <1>1, <1>kept DEF FetchStart, Charged
<1>2. CASE FetchClaim
  BY <1>2, <1>kept DEF FetchClaim, Charged
<1>3. CASE FetchClaimEmpty
  BY <1>3, <1>kept DEF FetchClaimEmpty, Charged
<1>4. CASE FetchClaimRaises
  BY <1>4, <1>kept DEF FetchClaimRaises, Charged
<1>5. ASSUME NEW i \in Items, FetchOk(i)
      PROVE  Weighed(Charged, bytes)'
  BY <1>5, <1>kept DEF FetchOk, Charged
<1>6. ASSUME NEW i \in Items, NEW kind \in {"retry", "skip", "limited"},
             NEW last \in BOOLEAN, FetchOther(i, kind, last)
      PROVE  Weighed(Charged, bytes)'
  BY <1>6, <1>kept DEF FetchOther, Charged
<1>7. CASE Put
  <2>1. /\ fetched \in Items /\ fetched \notin Charged /\ Charged' = Charged \cup {fetched}
        /\ bytes' = bytes + Size[fetched] /\ (bytes = 0 \/ bytes + Size[fetched] <= Budget)
    BY <1>7, PutCharges DEF Put, HasRoom
  <2> QED
    BY <1>items, <1>primed, <2>1, WeighedMore
<1>8. CASE PutRefused
  BY <1>8, <1>kept DEF PutRefused, Charged
<1>9. CASE FetchNext
  BY <1>9, <1>kept DEF FetchNext, Charged
<1>10. CASE FetchFinish
  BY <1>10, <1>kept DEF FetchFinish, Charged
<1>11. CASE FetchExit
  BY <1>11, <1>kept DEF FetchExit, Charged
<1>12. CASE PauseStage
  BY <1>12, <1>kept DEF PauseStage, Charged
<1>13. CASE ResumeStage
  BY <1>13, <1>kept DEF ResumeStage, Charged
<1>14. CASE ArchiveGet
  <2>1. Charged' = Charged /\ bytes' = bytes
    BY <1>14, GetKeepsCharged DEF ArchiveGet
  <2> QED
    BY <2>1, <1>kept
<1>15. CASE ArchiveExit
  BY <1>15, <1>kept DEF ArchiveExit, Charged
<1>16. ASSUME NEW seal \in BOOLEAN, ArchiveAdd(seal)
      PROVE  Weighed(Charged, bytes)'
  BY <1>16, <1>kept DEF ArchiveAdd, Charged
<1>17. CASE ArchiveRefused
  <2>1. cur \in Charged /\ Charged' = Charged \ {cur} /\ bytes' = bytes - Size[cur]
    BY <1>17, CurLeaves DEF ArchiveRefused, ArchiveDies, ArchiveLeaks, Archived, ArchivePhase
  <2> QED
    BY <1>items, <1>primed, <2>1, WeighedLess
<1>18. CASE ArchiveFails
  <2>1. cur \in Charged /\ Charged' = Charged \ {cur} /\ bytes' = bytes - Size[cur]
    BY <1>18, CurLeaves DEF ArchiveFails, ArchiveDies, ArchiveLeaks, Archived, ArchivePhase
  <2> QED
    BY <1>items, <1>primed, <2>1, WeighedLess
<1>19. CASE ArchiveApply
  BY <1>19, <1>kept DEF ArchiveApply, Charged
<1>20. ASSUME NEW s \in {"low", "mid", "high"}, SpaceGoes(s)
      PROVE  Weighed(Charged, bytes)'
  BY <1>20, <1>kept DEF SpaceGoes, Charged
<1>21. CASE GuardCheck
  BY <1>21, <1>kept DEF GuardCheck, Charged
<1>22. ASSUME NEW i \in Items, CoolDown(i)
      PROVE  Weighed(Charged, bytes)'
  BY <1>22, <1>kept DEF CoolDown, Charged
<1>23. CASE BreakerDue
  BY <1>23, <1>kept DEF BreakerDue, Charged
<1>24. CASE Shutdown
  BY <1>24, <1>kept DEF Shutdown, Charged
<1>25. CASE GraceOver
  BY <1>25, <1>kept DEF GraceOver, Charged
<1>26. CASE JoinFetch
  BY <1>26, <1>kept DEF JoinFetch, Charged
<1>27. CASE JoinArchive
  BY <1>27, <1>kept DEF JoinArchive, Charged
<1>28. CASE Start
  <2>1. Charged' = {} /\ bytes' = 0
    BY <1>28 DEF Start, Charged
  <2> QED
    BY <1>primed, <2>1, WeighedNothing
<1>29. CASE UNCHANGED vars
  BY <1>29, <1>kept DEF vars, Charged
<1>30. CASE FetchLoadRaises
  BY <1>30, <1>kept DEF FetchLoadRaises, Charged
<1>31. ASSUME NEW i \in Items, FetchApplyRaises(i)
      PROVE  Weighed(Charged, bytes)'
  BY <1>31, <1>kept DEF FetchApplyRaises, Charged
<1>32. CASE ArchiveApplyRaises
  <2>1. cur \in Charged /\ Charged' = Charged \ {cur} /\ bytes' = bytes - Size[cur]
    BY <1>32, CurLeaves DEF ArchiveApplyRaises, ArchiveDies, Archived, ArchivePhase
  <2> QED
    BY <1>items, <1>primed, <2>1, WeighedLess
<1>33. CASE ArchiveFeed
  BY <1>33, <1>kept DEF ArchiveFeed, Charged
<1>34. CASE ArchiveRelease
  <2>1. cur \in Charged /\ Charged' = Charged \ {cur} /\ bytes' = bytes - Size[cur]
    BY <1>34, CurLeaves DEF ArchiveRelease, Archived, ArchivePhase
  <2> QED
    BY <1>items, <1>primed, <2>1, WeighedLess
<1>35. ASSUME NEW n \in 1..FedMax, ConvertTakes(n)
      PROVE  Weighed(Charged, bytes)'
  BY <1>35, <1>kept DEF ConvertTakes, Charged
<1> QED
  BY <1>1, <1>2, <1>3, <1>4, <1>5, <1>6, <1>7, <1>8, <1>9, <1>10, <1>11,
     <1>12, <1>13, <1>14, <1>15, <1>16, <1>17, <1>18, <1>19, <1>20, <1>21,
     <1>22, <1>23, <1>24, <1>25, <1>26, <1>27, <1>28, <1>29, <1>30, <1>31, <1>32, <1>33,
     <1>34, <1>35 DEF Next,
     FetchNextStep, ArchiveNextStep, ShutdownNextStep

LEMMA InitBudget == Init => BudgetInv
<1> SUFFICES ASSUME Init PROVE BudgetInv
  OBVIOUS
<1>1. b \in BreakerType
  BY BreakerAssumption DEF Init, NewBreaker, BreakerType
<1>2. /\ faults \in [hard : 0..MaxFaults, soft : 0..MaxFaults] /\ starts \in 0..MaxStarts
      /\ saw \in [ok : BOOLEAN, failed : BOOLEAN]
  BY HandoffAssumption DEF Init, SawNothing
<1>3. Settings
  <2>1. fed \in 0..FedMax
    BY HandoffAssumption DEF Init
  <2> QED
    BY <1>1, <1>2, <2>1 DEF Init, Settings
<1>4. Charged = {} /\ bytes = 0
  BY DEF Init, Charged
<1> QED
  BY <1>3, <1>4, WeighedNothing DEF BudgetInv

LEMMA BudgetFollows == HandoffIInv /\ BudgetInv => BudgetHeld
<1> SUFFICES ASSUME HandoffIInv, BudgetInv PROVE BudgetHeld
  OBVIOUS
<1>1. Shapes /\ QueueDistinct /\ Settings /\ Weighed(Charged, bytes)
  BY DEF HandoffIInv, Places, BudgetInv
<1>2. Len(q) = Cardinality({q[k] : k \in 1..Len(q)})
  BY <1>1, DistinctLen DEF Shapes, QueueDistinct
<1>3. bytes \in Nat
  <2>1. Charged \in SUBSET Items
    BY <1>1, ChargedItems
  <2>2. Weight(Charged) \in Nat
    <3>1. CASE Charged = {}
      BY <3>1, WeightFirst
    <3>2. ASSUME NEW x \in Charged PROVE Weight(Charged) \in Nat
      BY <2>1, WeightTakeOut
    <3> QED
      BY <3>1, <3>2
  <2> QED
    BY <1>1, <2>2 DEF Weighed
<1>4. TypeOK
  BY <1>1, <1>2, <1>3 DEF Shapes, Settings, TypeOK
<1>5. /\ bytes = MapThenSumSet(LAMBDA i : Size[i], Charged)
      /\ bytes > Budget => Cardinality(Charged) = 1
  BY <1>1 DEF Weighed, Weight
<1> QED
  BY <1>4, <1>5 DEF BudgetHeld

(* The budget is charged with exactly the bytes that are queued or being   *)
(* archived, through refused puts, failed appends, shutdowns and restarts, *)
(* and only an item that is alone exceeds it (ByteBudgetedQueue: release   *)
(* in process_one's finally).                                              *)
THEOREM HandoffBudget == Spec => []BudgetHeld
<1>1. HandoffIInv /\ BudgetInv /\ [Next]_vars => BudgetInv'
  BY SettingsStep, ChargeStep DEF HandoffIInv, BudgetInv
<1>2. HandoffIInv /\ BudgetInv => BudgetHeld
  BY BudgetFollows
<1> QED
  BY InitBudget, HandoffInvariant, <1>1, <1>2, PTL DEF Spec
=============================================================================
