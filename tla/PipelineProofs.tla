--------------------------- MODULE PipelineProofs ---------------------------
(***************************************************************************)
(* Proofs about Pipeline and Fsck, for every set of wheels and contents    *)
(* and every bound: PipelineInv is inductive, and with it go the           *)
(* invariants that hold under every interleaving of the stages, the admin  *)
(* commands, crashes and recovery.  What fsck may rely on comes after it.  *)
(***************************************************************************)
EXTENDS Fsck, TLAPS

(* A retry keeps the types of what it writes: the count it stores is at    *)
(* most the one that quarantines.                                          *)
LEMMA RetryType ==
    ASSUME TypeOK, NEW w \in Wheels, NEW s \in Stages, RetryOp(w, s)
    PROVE  /\ state' \in [Wheels -> RowStates]
           /\ attempts' \in [Wheels -> [Stages -> 0..(MaxAttempts + 1)]]
           /\ quar' \in [Wheels -> [Stages -> BOOLEAN]]
<1>1. NextAttempt(w, s) \in 0..(MaxAttempts + 1)
  BY PipelineAssumption DEF TypeOK, NextAttempt
<1>2. state' \in [Wheels -> RowStates]
  BY DEF TypeOK, RetryOp, RowStates, States
<1>3. attempts' \in [Wheels -> [Stages -> 0..(MaxAttempts + 1)]]
  BY <1>1 DEF TypeOK, RetryOp
<1>4. quar' \in [Wheels -> [Stages -> BOOLEAN]]
  <2>1. quar' = quar \/ quar' = [quar EXCEPT ![w][s] = TRUE]
    BY DEF RetryOp
  <2>2. quar \in [Wheels -> [Stages -> BOOLEAN]]
    BY DEF TypeOK
  <2>3. [quar EXCEPT ![w][s] = TRUE] \in [Wheels -> [Stages -> BOOLEAN]]
    BY <2>2
  <2> QED
    BY <2>1, <2>2, <2>3
<1> QED
  BY <1>2, <1>3, <1>4

(* Deleting a work row keeps the types of the work table.                  *)
LEMMA DeleteWorkType ==
    ASSUME TypeOK, NEW w \in Wheels, NEW s \in Stages, DeleteWork(w, s)
    PROVE  /\ attempts' \in [Wheels -> [Stages -> 0..(MaxAttempts + 1)]]
           /\ quar' \in [Wheels -> [Stages -> BOOLEAN]]
<1>1. 0 \in 0..(MaxAttempts + 1)
  BY PipelineAssumption
<1> QED
  BY <1>1 DEF TypeOK, DeleteWork

(* A quarantining retry stamps the work row of the wheel it quarantines.   *)
LEMMA RetryQuarantines ==
    ASSUME TypeOK, QuarantinedHasWork,
           NEW w \in Wheels, NEW s \in Stages, RetryOp(w, s)
    PROVE  QuarantinedHasWork'
<1> SUFFICES ASSUME NEW x \in Wheels, state'[x] = "QUARANTINED"
             PROVE  \E t \in Stages : quar'[x][t]
  BY DEF QuarantinedHasWork
<1>1. CASE NextAttempt(w, s) > MaxAttempts
  <2>1. CASE x = w
    BY <1>1, <2>1 DEF RetryOp, TypeOK
  <2>2. CASE x # w
    BY <1>1, <2>2 DEF RetryOp, TypeOK, QuarantinedHasWork
  <2> QED
    BY <2>1, <2>2
<1>2. CASE ~(NextAttempt(w, s) > MaxAttempts)
  BY <1>2 DEF RetryOp, QuarantinedHasWork
<1> QED
  BY <1>1, <1>2

(* Every action keeps the types.                                           *)
LEMMA TypeStep ==
    ASSUME TypeOK, QueuedHasBody, [Next]_vars
    PROVE  TypeOK'
<1> USE DEF remote, rows, work, db, ingest, fetch, conv, admin
<1>1. CASE Publish
  BY <1>1, PipelineAssumption DEF Publish, EntryType, TypeOK, RowStates,
     States
<1>2. CASE FetchPage
  BY <1>2, PipelineAssumption DEF FetchPage, TypeOK, RowStates, States
<1>3. CASE FetchPageGone
  BY <1>3, PipelineAssumption DEF FetchPageGone, TypeOK, RowStates, States
<1>4. CASE ReadRows
  BY <1>4, PipelineAssumption DEF ReadRows, PlanFor, NewWheel, DiffCommon, PlanKinds,
     TypeOK, RowStates, States
<1>5. CASE ApplyPlan
  BY <1>5, PipelineAssumption DEF ApplyPlan, PlannedState, InitialState,
     PlannedBlob, ClearsBlob, PlanKinds, Unlisted, NoPlan, EntryType, TypeOK, RowStates,
     States
<1>6. CASE ApplyGone
  BY <1>6, PipelineAssumption DEF ApplyGone, TypeOK, RowStates, States
<1>7. ASSUME NEW S \in SUBSET Wheels, ClaimFetch(S)
      PROVE  TypeOK'
  BY <1>7, PipelineAssumption DEF ClaimFetch, TypeOK, RowStates, States
<1>8. CASE LoadFetch
  BY <1>8, PipelineAssumption DEF LoadFetch, TypeOK, RowStates, States
<1>9. ASSUME NEW w \in Wheels, NEW c \in Contents, FetchOk(w, c)
      PROVE  TypeOK'
  BY <1>9, PipelineAssumption DEF FetchOk, TypeOK, RowStates, States
<1>10. ASSUME NEW w \in Wheels, FetchRetry(w)
       PROVE  TypeOK'
  <2>1. w \in Wheels /\ "fetch" \in Stages
    BY <1>10 DEF Stages, TypeOK, Futures
  <2>2. RetryOp(w, "fetch")
    BY <1>10 DEF FetchRetry, ReleaseFetch
  <2>3. /\ state' \in [Wheels -> RowStates]
        /\ attempts' \in [Wheels -> [Stages -> 0..(MaxAttempts + 1)]]
        /\ quar' \in [Wheels -> [Stages -> BOOLEAN]]
    BY <2>1, <2>2, RetryType
  <2> QED
    BY <1>10, <2>2, <2>3 DEF FetchRetry, ReleaseFetch, RetryOp, TypeOK
<1>11. ASSUME NEW w \in Wheels, FetchRateLimited(w)
       PROVE  TypeOK'
  BY <1>11, PipelineAssumption DEF FetchRateLimited, ReleaseFetch, TypeOK,
     RowStates, States
<1>12. ASSUME NEW w \in Wheels, ArchiveAdd(w)
       PROVE  TypeOK'
  BY <1>12, PipelineAssumption DEF ArchiveAdd, QueuedHasBody, TypeOK,
     RowStates, States
<1>13. CASE Seal
  BY <1>13, PipelineAssumption DEF Seal, TypeOK, RowStates, States
<1>14. CASE ArchiveOk
  <2>1. arc \in [at : {"added", "committed"}, w : Wheels, c : Contents]
    BY <1>14 DEF TypeOK, ArchiveOk, NoArc
  <2>2. arc' \in [at : {"added", "committed"}, w : Wheels, c : Contents]
    BY <1>14, <2>1 DEF ArchiveOk
  <2>3. arc.w \in Wheels /\ arc.c \in Contents /\ "fetch" \in Stages
    BY <2>1 DEF Stages
  <2>4. /\ attempts' \in [Wheels -> [Stages -> 0..(MaxAttempts + 1)]]
        /\ quar' \in [Wheels -> [Stages -> BOOLEAN]]
    BY <1>14, <2>3, DeleteWorkType DEF ArchiveOk, FetchOkOp
  <2> QED
    BY <1>14, <2>2, <2>3, <2>4
    DEF TypeOK, ArchiveOk, FetchOkOp, ReleaseFetch, RowStates, States
<1>15. CASE Feed
  BY <1>15, PipelineAssumption DEF Feed, NoArc, TypeOK, RowStates, States
<1>16. CASE DrainFed
  BY <1>16, PipelineAssumption DEF DrainFed, DrainCount, Futures, TypeOK,
     RowStates, States
<1>17. ASSUME NEW S \in SUBSET Wheels, NEW bad \in SUBSET Contents, BulkClaim(S, bad)
       PROVE  TypeOK'
  BY <1>17, PipelineAssumption DEF BulkClaim, ReadBlob, Futures, TypeOK,
     RowStates, States
<1>18. ASSUME NEW w \in Wheels, BulkRetry(w)
       PROVE  TypeOK'
  <2>1. w \in Wheels /\ "convert" \in Stages
    BY <1>18 DEF Stages, TypeOK, Futures
  <2>2. RetryOp(w, "convert")
    BY <1>18 DEF BulkRetry
  <2>3. /\ state' \in [Wheels -> RowStates]
        /\ attempts' \in [Wheels -> [Stages -> 0..(MaxAttempts + 1)]]
        /\ quar' \in [Wheels -> [Stages -> BOOLEAN]]
    BY <2>1, <2>2, RetryType
  <2> QED
    BY <1>18, <2>2, <2>3 DEF BulkRetry, RetryOp, TypeOK
<1>19. ASSUME NEW w \in Wheels, BulkSkipCorrupt(w)
       PROVE  TypeOK'
  BY <1>19, PipelineAssumption DEF BulkSkipCorrupt, SkipOp, DeleteWork,
     Stages, TypeOK, RowStates, States
<1>20. ASSUME NEW f \in batch, ConvertOk(f)
       PROVE  TypeOK'
  <2>1. f[2] \in Wheels /\ f[3] \in Contents
    BY <1>20 DEF TypeOK, Futures
  <2>2. state' \in [Wheels -> RowStates] /\ repodata' \in [Wheels -> Contents \cup {None}]
    BY <1>20, <2>1 DEF ConvertOk, ConvertOkOp, TypeOK, RowStates, States
  <2>3. /\ attempts' \in [Wheels -> [Stages -> 0..(MaxAttempts + 1)]]
        /\ quar' \in [Wheels -> [Stages -> BOOLEAN]]
    BY <1>20, <2>1, PipelineAssumption DEF ConvertOk, ConvertOkOp, DeleteWork, Stages, TypeOK
  <2>4. batch' \subseteq Futures
    BY <1>20 DEF ConvertOk, Complete, TypeOK
  <2> QED
    BY <1>20, <2>2, <2>3, <2>4 DEF ConvertOk, Complete, ConvertOkOp, TypeOK
<1>21. ASSUME NEW f \in batch, ConvertRetry(f)
       PROVE  TypeOK'
  <2>1. f[2] \in Wheels /\ "convert" \in Stages
    BY <1>21 DEF Stages, TypeOK, Futures
  <2>2. RetryOp(f[2], "convert")
    BY <1>21 DEF ConvertRetry, Complete
  <2>3. /\ state' \in [Wheels -> RowStates]
        /\ attempts' \in [Wheels -> [Stages -> 0..(MaxAttempts + 1)]]
        /\ quar' \in [Wheels -> [Stages -> BOOLEAN]]
    BY <2>1, <2>2, RetryType
  <2> QED
    BY <1>21, <2>2, <2>3 DEF ConvertRetry, Complete, RetryOp, TypeOK
<1>22. ASSUME NEW f \in batch, NEW kind \in {"permanent", "versioned"}, ConvertSkip(f, kind)
       PROVE  TypeOK'
  <2>1. f[2] \in Wheels
    BY <1>22 DEF TypeOK, Futures
  <2>2. /\ state' \in [Wheels -> RowStates]
        /\ skip' \in [Wheels -> {"none", "permanent", "versioned", "unversioned"}]
    BY <1>22, <2>1 DEF ConvertSkip, SkipOp, TypeOK, RowStates, States
  <2>3. /\ attempts' \in [Wheels -> [Stages -> 0..(MaxAttempts + 1)]]
        /\ quar' \in [Wheels -> [Stages -> BOOLEAN]]
    BY <1>22, <2>1, PipelineAssumption DEF ConvertSkip, SkipOp, DeleteWork, Stages, TypeOK
  <2>4. batch' \subseteq Futures
    BY <1>22 DEF ConvertSkip, Complete, TypeOK
  <2> QED
    BY <1>22, <2>2, <2>3, <2>4 DEF ConvertSkip, Complete, SkipOp, TypeOK
<1>23. ASSUME NEW sel \in Selectors, NEW S \in SUBSET Wheels, SelectChunk(sel, S)
       PROVE  TypeOK'
  BY <1>23, PipelineAssumption DEF SelectChunk, SelectorType, TypeOK,
     RowStates, States
<1>24. CASE ReprocessChunk
  BY <1>24, PipelineAssumption DEF ReprocessChunk, DeleteAllWork,
     RequeuedState, NoAdm, NoWork, NoQuar, Stages, TypeOK, RowStates, States
<1>25. CASE UnquarantineChunk
  BY <1>25, PipelineAssumption DEF UnquarantineChunk, DeleteAllWork, NoAdm,
     NoWork, NoQuar, Stages, TypeOK, RowStates, States
<1>26. CASE Crash
  <2>1. /\ seen' \in [Wheels -> EntryType \cup {None}]
        /\ plan' \in [Wheels -> PlanKinds]
        /\ fpc' \in [Wheels -> {"idle", "claimed", "loaded", "queued"}]
        /\ fval' \in [Wheels -> Contents \cup {None}]
        /\ unread' \in [Wheels -> {"no", "missing", "corrupt"}]
    BY <1>26 DEF Crash, Unlisted, NoPlan, PlanKinds, Idle, NoUnread
  <2>2. fed' \in Seq(Wheels \X Contents) /\ batch' \subseteq Futures
    BY <1>26 DEF Crash
  <2>3. adm' \in [cmd : SelectorType \cup {None}, ids : SUBSET Wheels]
    BY <1>26 DEF Crash, NoAdm
  <2>4. blobs' \in [Contents -> {"absent", "open", "sealed", "lost"}]
    BY <1>26 DEF Crash, TypeOK
  <2>5. crashes' \in Nat
    BY <1>26 DEF Crash, TypeOK
  <2> QED
    BY <1>26, <2>1, <2>2, <2>3, <2>4, <2>5 DEF TypeOK, Crash
<1>27. ASSUME NEW C \in SUBSET Contents, RecoverChunk(C)
       PROVE  TypeOK'
  BY <1>27, PipelineAssumption DEF RecoverChunk, RecoveredState, Orphans,
     TypeOK, RowStates, States
<1>28. CASE UNCHANGED vars
  BY <1>28 DEF TypeOK, RowStates, States, vars
<1> QED
  BY <1>1, <1>2, <1>3, <1>4, <1>5, <1>6, <1>7, <1>8, <1>9, <1>10, <1>11,
     <1>12, <1>13, <1>14, <1>15, <1>16, <1>17, <1>18, <1>19, <1>20, <1>21,
     <1>22, <1>23, <1>24, <1>25, <1>26, <1>27, <1>28 DEF Next, IngestNext,
     FetchNext, ArchiveNext, ConvertNext, AdminNext

(* skips rows go only with a requeued wheel.                               *)
LEMMA SkippedStep ==
    ASSUME TypeOK, SkippedHasRow, [Next]_vars
    PROVE  SkippedHasRow'
<1> USE DEF remote, rows, work, db, ingest, fetch, conv, admin
<1>1. CASE Publish
  BY <1>1 DEF Publish, SkippedHasRow, TypeOK
<1>2. CASE FetchPage
  BY <1>2 DEF FetchPage, SkippedHasRow, TypeOK
<1>3. CASE FetchPageGone
  BY <1>3 DEF FetchPageGone, SkippedHasRow, TypeOK
<1>4. CASE ReadRows
  BY <1>4 DEF ReadRows, SkippedHasRow, TypeOK
<1>5. CASE ApplyPlan
  BY <1>5 DEF ApplyPlan, PlannedState, InitialState, SkippedHasRow, TypeOK
<1>6. CASE ApplyGone
  BY <1>6 DEF ApplyGone, SkippedHasRow, TypeOK
<1>7. ASSUME NEW S \in SUBSET Wheels, ClaimFetch(S)
      PROVE  SkippedHasRow'
  BY <1>7 DEF ClaimFetch, SkippedHasRow, TypeOK
<1>8. CASE LoadFetch
  BY <1>8 DEF LoadFetch, SkippedHasRow, TypeOK
<1>9. ASSUME NEW w \in Wheels, NEW c \in Contents, FetchOk(w, c)
      PROVE  SkippedHasRow'
  BY <1>9 DEF FetchOk, SkippedHasRow, TypeOK
<1>10. ASSUME NEW w \in Wheels, FetchRetry(w)
       PROVE  SkippedHasRow'
  BY <1>10 DEF FetchRetry, ReleaseFetch, RetryOp, SkippedHasRow, TypeOK
<1>11. ASSUME NEW w \in Wheels, FetchRateLimited(w)
       PROVE  SkippedHasRow'
  BY <1>11 DEF FetchRateLimited, ReleaseFetch, SkippedHasRow, TypeOK
<1>12. ASSUME NEW w \in Wheels, ArchiveAdd(w)
       PROVE  SkippedHasRow'
  BY <1>12 DEF ArchiveAdd, SkippedHasRow, TypeOK
<1>13. CASE Seal
  BY <1>13 DEF Seal, SkippedHasRow, TypeOK
<1>14. CASE ArchiveOk
  BY <1>14 DEF ArchiveOk, FetchOkOp, DeleteWork, ReleaseFetch, SkippedHasRow,
     TypeOK
<1>15. CASE Feed
  BY <1>15 DEF Feed, SkippedHasRow, TypeOK
<1>16. CASE DrainFed
  BY <1>16 DEF DrainFed, SkippedHasRow, TypeOK
<1>17. ASSUME NEW S \in SUBSET Wheels, NEW bad \in SUBSET Contents, BulkClaim(S, bad)
       PROVE  SkippedHasRow'
  BY <1>17 DEF BulkClaim, SkippedHasRow, TypeOK
<1>18. ASSUME NEW w \in Wheels, BulkRetry(w)
       PROVE  SkippedHasRow'
  BY <1>18 DEF BulkRetry, RetryOp, SkippedHasRow, TypeOK
<1>19. ASSUME NEW w \in Wheels, BulkSkipCorrupt(w)
       PROVE  SkippedHasRow'
  BY <1>19 DEF BulkSkipCorrupt, SkipOp, DeleteWork, SkippedHasRow, TypeOK
<1>20. ASSUME NEW f \in batch, ConvertOk(f)
       PROVE  SkippedHasRow'
  BY <1>20 DEF ConvertOk, Complete, ConvertOkOp, DeleteWork, SkippedHasRow,
     TypeOK
<1>21. ASSUME NEW f \in batch, ConvertRetry(f)
       PROVE  SkippedHasRow'
  BY <1>21 DEF ConvertRetry, Complete, RetryOp, SkippedHasRow, TypeOK
<1>22. ASSUME NEW f \in batch, NEW kind \in {"permanent", "versioned"}, ConvertSkip(f, kind)
       PROVE  SkippedHasRow'
  BY <1>22 DEF ConvertSkip, Complete, SkipOp, DeleteWork, SkippedHasRow,
     TypeOK
<1>23. ASSUME NEW sel \in Selectors, NEW S \in SUBSET Wheels, SelectChunk(sel, S)
       PROVE  SkippedHasRow'
  BY <1>23 DEF SelectChunk, SkippedHasRow, TypeOK
<1>24. CASE ReprocessChunk
  BY <1>24 DEF ReprocessChunk, DeleteAllWork, RequeuedState, SkippedHasRow,
     TypeOK
<1>25. CASE UnquarantineChunk
  BY <1>25 DEF UnquarantineChunk, DeleteAllWork, SkippedHasRow, TypeOK
<1>26. CASE Crash
  BY <1>26 DEF Crash, SkippedHasRow, TypeOK
<1>27. ASSUME NEW C \in SUBSET Contents, RecoverChunk(C)
       PROVE  SkippedHasRow'
  BY <1>27 DEF RecoverChunk, RecoveredState, Orphans, SkippedHasRow, TypeOK
<1>28. CASE UNCHANGED vars
  BY <1>28 DEF SkippedHasRow, TypeOK, vars
<1> QED
  BY <1>1, <1>2, <1>3, <1>4, <1>5, <1>6, <1>7, <1>8, <1>9, <1>10, <1>11,
     <1>12, <1>13, <1>14, <1>15, <1>16, <1>17, <1>18, <1>19, <1>20, <1>21,
     <1>22, <1>23, <1>24, <1>25, <1>26, <1>27, <1>28 DEF Next, IngestNext,
     FetchNext, ArchiveNext, ConvertNext, AdminNext

(* A stamped work row goes only with a wheel that leaves QUARANTINED.      *)
LEMMA QuarantinedStep ==
    ASSUME TypeOK, QuarantinedHasWork, [Next]_vars
    PROVE  QuarantinedHasWork'
<1> USE DEF remote, rows, work, db, ingest, fetch, conv, admin
<1>1. CASE Publish
  BY <1>1 DEF Publish, QuarantinedHasWork, TypeOK
<1>2. CASE FetchPage
  BY <1>2 DEF FetchPage, QuarantinedHasWork, TypeOK
<1>3. CASE FetchPageGone
  BY <1>3 DEF FetchPageGone, QuarantinedHasWork, TypeOK
<1>4. CASE ReadRows
  BY <1>4 DEF ReadRows, QuarantinedHasWork, TypeOK
<1>5. CASE ApplyPlan
  BY <1>5 DEF ApplyPlan, PlannedState, InitialState, QuarantinedHasWork,
     TypeOK
<1>6. CASE ApplyGone
  BY <1>6 DEF ApplyGone, QuarantinedHasWork, TypeOK
<1>7. ASSUME NEW S \in SUBSET Wheels, ClaimFetch(S)
      PROVE  QuarantinedHasWork'
  BY <1>7 DEF ClaimFetch, QuarantinedHasWork, TypeOK
<1>8. CASE LoadFetch
  BY <1>8 DEF LoadFetch, QuarantinedHasWork, TypeOK
<1>9. ASSUME NEW w \in Wheels, NEW c \in Contents, FetchOk(w, c)
      PROVE  QuarantinedHasWork'
  BY <1>9 DEF FetchOk, QuarantinedHasWork, TypeOK
<1>10. ASSUME NEW w \in Wheels, FetchRetry(w)
       PROVE  QuarantinedHasWork'
  <2>1. w \in Wheels /\ "fetch" \in Stages
    BY <1>10 DEF Stages, TypeOK, Futures
  <2> QED
    BY <1>10, <2>1, RetryQuarantines DEF FetchRetry
<1>11. ASSUME NEW w \in Wheels, FetchRateLimited(w)
       PROVE  QuarantinedHasWork'
  BY <1>11 DEF FetchRateLimited, ReleaseFetch, QuarantinedHasWork, TypeOK
<1>12. ASSUME NEW w \in Wheels, ArchiveAdd(w)
       PROVE  QuarantinedHasWork'
  BY <1>12 DEF ArchiveAdd, QuarantinedHasWork, TypeOK
<1>13. CASE Seal
  BY <1>13 DEF Seal, QuarantinedHasWork, TypeOK
<1>14. CASE ArchiveOk
  BY <1>14 DEF ArchiveOk, FetchOkOp, DeleteWork, ReleaseFetch,
     QuarantinedHasWork, TypeOK
<1>15. CASE Feed
  BY <1>15 DEF Feed, QuarantinedHasWork, TypeOK
<1>16. CASE DrainFed
  BY <1>16 DEF DrainFed, QuarantinedHasWork, TypeOK
<1>17. ASSUME NEW S \in SUBSET Wheels, NEW bad \in SUBSET Contents, BulkClaim(S, bad)
       PROVE  QuarantinedHasWork'
  BY <1>17 DEF BulkClaim, QuarantinedHasWork, TypeOK
<1>18. ASSUME NEW w \in Wheels, BulkRetry(w)
       PROVE  QuarantinedHasWork'
  <2>1. w \in Wheels /\ "convert" \in Stages
    BY <1>18 DEF Stages, TypeOK, Futures
  <2> QED
    BY <1>18, <2>1, RetryQuarantines DEF BulkRetry
<1>19. ASSUME NEW w \in Wheels, BulkSkipCorrupt(w)
       PROVE  QuarantinedHasWork'
  BY <1>19 DEF BulkSkipCorrupt, SkipOp, DeleteWork, QuarantinedHasWork, TypeOK
<1>20. ASSUME NEW f \in batch, ConvertOk(f)
       PROVE  QuarantinedHasWork'
  BY <1>20 DEF ConvertOk, Complete, ConvertOkOp, DeleteWork,
     QuarantinedHasWork, TypeOK
<1>21. ASSUME NEW f \in batch, ConvertRetry(f)
       PROVE  QuarantinedHasWork'
  <2>1. f[2] \in Wheels /\ "convert" \in Stages
    BY <1>21 DEF Stages, TypeOK, Futures
  <2> QED
    BY <1>21, <2>1, RetryQuarantines DEF ConvertRetry
<1>22. ASSUME NEW f \in batch, NEW kind \in {"permanent", "versioned"}, ConvertSkip(f, kind)
       PROVE  QuarantinedHasWork'
  BY <1>22 DEF ConvertSkip, Complete, SkipOp, DeleteWork, QuarantinedHasWork,
     TypeOK
<1>23. ASSUME NEW sel \in Selectors, NEW S \in SUBSET Wheels, SelectChunk(sel, S)
       PROVE  QuarantinedHasWork'
  BY <1>23 DEF SelectChunk, QuarantinedHasWork, TypeOK
<1>24. CASE ReprocessChunk
  BY <1>24 DEF ReprocessChunk, DeleteAllWork, RequeuedState,
     QuarantinedHasWork, TypeOK
<1>25. CASE UnquarantineChunk
  BY <1>25 DEF UnquarantineChunk, DeleteAllWork, QuarantinedHasWork, TypeOK
<1>26. CASE Crash
  BY <1>26 DEF Crash, QuarantinedHasWork, TypeOK
<1>27. ASSUME NEW C \in SUBSET Contents, RecoverChunk(C)
       PROVE  QuarantinedHasWork'
  BY <1>27 DEF RecoverChunk, RecoveredState, Orphans, QuarantinedHasWork,
     TypeOK
<1>28. CASE UNCHANGED vars
  BY <1>28 DEF QuarantinedHasWork, TypeOK, vars
<1> QED
  BY <1>1, <1>2, <1>3, <1>4, <1>5, <1>6, <1>7, <1>8, <1>9, <1>10, <1>11,
     <1>12, <1>13, <1>14, <1>15, <1>16, <1>17, <1>18, <1>19, <1>20, <1>21,
     <1>22, <1>23, <1>24, <1>25, <1>26, <1>27, <1>28 DEF Next, IngestNext,
     FetchNext, ArchiveNext, ConvertNext, AdminNext

(* deleted_at is cleared only by the plan that also revives the state.     *)
LEMMA TombstoneStep ==
    ASSUME TypeOK, TombstoneDated, [Next]_vars
    PROVE  TombstoneDated'
<1> USE DEF remote, rows, work, db, ingest, fetch, conv, admin
<1>1. CASE Publish
  BY <1>1 DEF Publish, TombstoneDated, TypeOK
<1>2. CASE FetchPage
  BY <1>2 DEF FetchPage, TombstoneDated, TypeOK
<1>3. CASE FetchPageGone
  BY <1>3 DEF FetchPageGone, TombstoneDated, TypeOK
<1>4. CASE ReadRows
  BY <1>4 DEF ReadRows, TombstoneDated, TypeOK
<1>5. CASE ApplyPlan
  BY <1>5 DEF ApplyPlan, PlannedState, InitialState, TombstoneDated, TypeOK
<1>6. CASE ApplyGone
  BY <1>6 DEF ApplyGone, Vanishing, TombstoneDated, TypeOK
<1>7. ASSUME NEW S \in SUBSET Wheels, ClaimFetch(S)
      PROVE  TombstoneDated'
  BY <1>7 DEF ClaimFetch, TombstoneDated, TypeOK
<1>8. CASE LoadFetch
  BY <1>8 DEF LoadFetch, TombstoneDated, TypeOK
<1>9. ASSUME NEW w \in Wheels, NEW c \in Contents, FetchOk(w, c)
      PROVE  TombstoneDated'
  BY <1>9 DEF FetchOk, TombstoneDated, TypeOK
<1>10. ASSUME NEW w \in Wheels, FetchRetry(w)
       PROVE  TombstoneDated'
  BY <1>10 DEF FetchRetry, ReleaseFetch, RetryOp, TombstoneDated, TypeOK
<1>11. ASSUME NEW w \in Wheels, FetchRateLimited(w)
       PROVE  TombstoneDated'
  BY <1>11 DEF FetchRateLimited, ReleaseFetch, TombstoneDated, TypeOK
<1>12. ASSUME NEW w \in Wheels, ArchiveAdd(w)
       PROVE  TombstoneDated'
  BY <1>12 DEF ArchiveAdd, TombstoneDated, TypeOK
<1>13. CASE Seal
  BY <1>13 DEF Seal, TombstoneDated, TypeOK
<1>14. CASE ArchiveOk
  BY <1>14 DEF ArchiveOk, FetchOkOp, DeleteWork, ReleaseFetch, TombstoneDated,
     TypeOK
<1>15. CASE Feed
  BY <1>15 DEF Feed, TombstoneDated, TypeOK
<1>16. CASE DrainFed
  BY <1>16 DEF DrainFed, TombstoneDated, TypeOK
<1>17. ASSUME NEW S \in SUBSET Wheels, NEW bad \in SUBSET Contents, BulkClaim(S, bad)
       PROVE  TombstoneDated'
  BY <1>17 DEF BulkClaim, TombstoneDated, TypeOK
<1>18. ASSUME NEW w \in Wheels, BulkRetry(w)
       PROVE  TombstoneDated'
  BY <1>18 DEF BulkRetry, RetryOp, TombstoneDated, TypeOK
<1>19. ASSUME NEW w \in Wheels, BulkSkipCorrupt(w)
       PROVE  TombstoneDated'
  BY <1>19 DEF BulkSkipCorrupt, SkipOp, DeleteWork, TombstoneDated, TypeOK
<1>20. ASSUME NEW f \in batch, ConvertOk(f)
       PROVE  TombstoneDated'
  BY <1>20 DEF ConvertOk, Complete, ConvertOkOp, DeleteWork, TombstoneDated,
     TypeOK
<1>21. ASSUME NEW f \in batch, ConvertRetry(f)
       PROVE  TombstoneDated'
  BY <1>21 DEF ConvertRetry, Complete, RetryOp, TombstoneDated, TypeOK
<1>22. ASSUME NEW f \in batch, NEW kind \in {"permanent", "versioned"}, ConvertSkip(f, kind)
       PROVE  TombstoneDated'
  BY <1>22 DEF ConvertSkip, Complete, SkipOp, DeleteWork, TombstoneDated,
     TypeOK
<1>23. ASSUME NEW sel \in Selectors, NEW S \in SUBSET Wheels, SelectChunk(sel, S)
       PROVE  TombstoneDated'
  BY <1>23 DEF SelectChunk, TombstoneDated, TypeOK
<1>24. CASE ReprocessChunk
  BY <1>24 DEF ReprocessChunk, DeleteAllWork, RequeuedState, TombstoneDated,
     TypeOK
<1>25. CASE UnquarantineChunk
  BY <1>25 DEF UnquarantineChunk, DeleteAllWork, TombstoneDated, TypeOK
<1>26. CASE Crash
  BY <1>26 DEF Crash, TombstoneDated, TypeOK
<1>27. ASSUME NEW C \in SUBSET Contents, RecoverChunk(C)
       PROVE  TombstoneDated'
  BY <1>27 DEF RecoverChunk, RecoveredState, Orphans, TombstoneDated, TypeOK
<1>28. CASE UNCHANGED vars
  BY <1>28 DEF TombstoneDated, TypeOK, vars
<1> QED
  BY <1>1, <1>2, <1>3, <1>4, <1>5, <1>6, <1>7, <1>8, <1>9, <1>10, <1>11,
     <1>12, <1>13, <1>14, <1>15, <1>16, <1>17, <1>18, <1>19, <1>20, <1>21,
     <1>22, <1>23, <1>24, <1>25, <1>26, <1>27, <1>28 DEF Next, IngestNext,
     FetchNext, ArchiveNext, ConvertNext, AdminNext

(* What is queued for the archive thread has bytes.                        *)
LEMMA QueuedStep ==
    ASSUME TypeOK, QueuedHasBody, [Next]_vars
    PROVE  QueuedHasBody'
<1> USE DEF remote, rows, work, db, ingest, fetch, conv, admin
<1>1. CASE Publish
  BY <1>1 DEF Publish, QueuedHasBody, TypeOK
<1>2. CASE FetchPage
  BY <1>2 DEF FetchPage, QueuedHasBody, TypeOK
<1>3. CASE FetchPageGone
  BY <1>3 DEF FetchPageGone, QueuedHasBody, TypeOK
<1>4. CASE ReadRows
  BY <1>4 DEF ReadRows, QueuedHasBody, TypeOK
<1>5. CASE ApplyPlan
  BY <1>5 DEF ApplyPlan, QueuedHasBody, TypeOK
<1>6. CASE ApplyGone
  BY <1>6 DEF ApplyGone, QueuedHasBody, TypeOK
<1>7. ASSUME NEW S \in SUBSET Wheels, ClaimFetch(S)
      PROVE  QueuedHasBody'
  BY <1>7 DEF ClaimFetch, QueuedHasBody, TypeOK
<1>8. CASE LoadFetch
  BY <1>8 DEF LoadFetch, QueuedHasBody, TypeOK
<1>9. ASSUME NEW w \in Wheels, NEW c \in Contents, FetchOk(w, c)
      PROVE  QueuedHasBody'
  BY <1>9, PipelineAssumption DEF FetchOk, Fetchable, QueuedHasBody, TypeOK
<1>10. ASSUME NEW w \in Wheels, FetchRetry(w)
       PROVE  QueuedHasBody'
  BY <1>10 DEF FetchRetry, ReleaseFetch, RetryOp, QueuedHasBody, TypeOK
<1>11. ASSUME NEW w \in Wheels, FetchRateLimited(w)
       PROVE  QueuedHasBody'
  BY <1>11 DEF FetchRateLimited, ReleaseFetch, QueuedHasBody, TypeOK
<1>12. ASSUME NEW w \in Wheels, ArchiveAdd(w)
       PROVE  QueuedHasBody'
  BY <1>12 DEF ArchiveAdd, QueuedHasBody, TypeOK
<1>13. CASE Seal
  BY <1>13 DEF Seal, QueuedHasBody, TypeOK
<1>14. CASE ArchiveOk
  BY <1>14 DEF ArchiveOk, FetchOkOp, DeleteWork, ReleaseFetch, QueuedHasBody,
     TypeOK
<1>15. CASE Feed
  BY <1>15 DEF Feed, QueuedHasBody, TypeOK
<1>16. CASE DrainFed
  BY <1>16 DEF DrainFed, QueuedHasBody, TypeOK
<1>17. ASSUME NEW S \in SUBSET Wheels, NEW bad \in SUBSET Contents, BulkClaim(S, bad)
       PROVE  QueuedHasBody'
  BY <1>17 DEF BulkClaim, QueuedHasBody, TypeOK
<1>18. ASSUME NEW w \in Wheels, BulkRetry(w)
       PROVE  QueuedHasBody'
  BY <1>18 DEF BulkRetry, RetryOp, QueuedHasBody, TypeOK
<1>19. ASSUME NEW w \in Wheels, BulkSkipCorrupt(w)
       PROVE  QueuedHasBody'
  BY <1>19 DEF BulkSkipCorrupt, SkipOp, DeleteWork, QueuedHasBody, TypeOK
<1>20. ASSUME NEW f \in batch, ConvertOk(f)
       PROVE  QueuedHasBody'
  BY <1>20 DEF ConvertOk, Complete, ConvertOkOp, DeleteWork, QueuedHasBody,
     TypeOK
<1>21. ASSUME NEW f \in batch, ConvertRetry(f)
       PROVE  QueuedHasBody'
  BY <1>21 DEF ConvertRetry, Complete, RetryOp, QueuedHasBody, TypeOK
<1>22. ASSUME NEW f \in batch, NEW kind \in {"permanent", "versioned"}, ConvertSkip(f, kind)
       PROVE  QueuedHasBody'
  BY <1>22 DEF ConvertSkip, Complete, SkipOp, DeleteWork, QueuedHasBody,
     TypeOK
<1>23. ASSUME NEW sel \in Selectors, NEW S \in SUBSET Wheels, SelectChunk(sel, S)
       PROVE  QueuedHasBody'
  BY <1>23 DEF SelectChunk, QueuedHasBody, TypeOK
<1>24. CASE ReprocessChunk
  BY <1>24 DEF ReprocessChunk, DeleteAllWork, RequeuedState, QueuedHasBody,
     TypeOK
<1>25. CASE UnquarantineChunk
  BY <1>25 DEF UnquarantineChunk, DeleteAllWork, QueuedHasBody, TypeOK
<1>26. CASE Crash
  BY <1>26 DEF Crash, Idle, QueuedHasBody, TypeOK
<1>27. ASSUME NEW C \in SUBSET Contents, RecoverChunk(C)
       PROVE  QueuedHasBody'
  BY <1>27 DEF RecoverChunk, RecoveredState, Orphans, QueuedHasBody, TypeOK
<1>28. CASE UNCHANGED vars
  BY <1>28 DEF QueuedHasBody, TypeOK, vars
<1> QED
  BY <1>1, <1>2, <1>3, <1>4, <1>5, <1>6, <1>7, <1>8, <1>9, <1>10, <1>11,
     <1>12, <1>13, <1>14, <1>15, <1>16, <1>17, <1>18, <1>19, <1>20, <1>21,
     <1>22, <1>23, <1>24, <1>25, <1>26, <1>27, <1>28 DEF Next, IngestNext,
     FetchNext, ArchiveNext, ConvertNext, AdminNext

(* The archive thread links only bytes whose blobs row is committed.       *)
LEMMA LinkStep ==
    ASSUME TypeOK, LinkIsStored, QueuedHasBody, QuietInRecovery, [Next]_vars
    PROVE  LinkIsStored'
<1> USE DEF remote, rows, work, db, ingest, fetch, conv, admin
<1>1. CASE Publish
  BY <1>1 DEF Publish, LinkIsStored, TypeOK
<1>2. CASE FetchPage
  BY <1>2 DEF FetchPage, LinkIsStored, TypeOK
<1>3. CASE FetchPageGone
  BY <1>3 DEF FetchPageGone, LinkIsStored, TypeOK
<1>4. CASE ReadRows
  BY <1>4 DEF ReadRows, LinkIsStored, TypeOK
<1>5. CASE ApplyPlan
  BY <1>5 DEF ApplyPlan, LinkIsStored, TypeOK
<1>6. CASE ApplyGone
  BY <1>6 DEF ApplyGone, LinkIsStored, TypeOK
<1>7. ASSUME NEW S \in SUBSET Wheels, ClaimFetch(S)
      PROVE  LinkIsStored'
  BY <1>7 DEF ClaimFetch, LinkIsStored, TypeOK
<1>8. CASE LoadFetch
  BY <1>8 DEF LoadFetch, LinkIsStored, TypeOK
<1>9. ASSUME NEW w \in Wheels, NEW c \in Contents, FetchOk(w, c)
      PROVE  LinkIsStored'
  BY <1>9 DEF FetchOk, LinkIsStored, TypeOK
<1>10. ASSUME NEW w \in Wheels, FetchRetry(w)
       PROVE  LinkIsStored'
  BY <1>10 DEF FetchRetry, ReleaseFetch, RetryOp, LinkIsStored, TypeOK
<1>11. ASSUME NEW w \in Wheels, FetchRateLimited(w)
       PROVE  LinkIsStored'
  BY <1>11 DEF FetchRateLimited, ReleaseFetch, LinkIsStored, TypeOK
<1>12. ASSUME NEW w \in Wheels, ArchiveAdd(w)
       PROVE  LinkIsStored'
  BY <1>12 DEF ArchiveAdd, QueuedHasBody, LinkIsStored, TypeOK
<1>13. CASE Seal
  BY <1>13 DEF Seal, LinkIsStored, TypeOK
<1>14. CASE ArchiveOk
  BY <1>14 DEF ArchiveOk, FetchOkOp, DeleteWork, ReleaseFetch, NoArc,
     LinkIsStored, TypeOK
<1>15. CASE Feed
  BY <1>15 DEF Feed, NoArc, LinkIsStored, TypeOK
<1>16. CASE DrainFed
  BY <1>16 DEF DrainFed, LinkIsStored, TypeOK
<1>17. ASSUME NEW S \in SUBSET Wheels, NEW bad \in SUBSET Contents, BulkClaim(S, bad)
       PROVE  LinkIsStored'
  BY <1>17 DEF BulkClaim, LinkIsStored, TypeOK
<1>18. ASSUME NEW w \in Wheels, BulkRetry(w)
       PROVE  LinkIsStored'
  BY <1>18 DEF BulkRetry, RetryOp, LinkIsStored, TypeOK
<1>19. ASSUME NEW w \in Wheels, BulkSkipCorrupt(w)
       PROVE  LinkIsStored'
  BY <1>19 DEF BulkSkipCorrupt, SkipOp, DeleteWork, LinkIsStored, TypeOK
<1>20. ASSUME NEW f \in batch, ConvertOk(f)
       PROVE  LinkIsStored'
  BY <1>20 DEF ConvertOk, Complete, ConvertOkOp, DeleteWork, LinkIsStored,
     TypeOK
<1>21. ASSUME NEW f \in batch, ConvertRetry(f)
       PROVE  LinkIsStored'
  BY <1>21 DEF ConvertRetry, Complete, RetryOp, LinkIsStored, TypeOK
<1>22. ASSUME NEW f \in batch, NEW kind \in {"permanent", "versioned"}, ConvertSkip(f, kind)
       PROVE  LinkIsStored'
  BY <1>22 DEF ConvertSkip, Complete, SkipOp, DeleteWork, LinkIsStored, TypeOK
<1>23. ASSUME NEW sel \in Selectors, NEW S \in SUBSET Wheels, SelectChunk(sel, S)
       PROVE  LinkIsStored'
  BY <1>23 DEF SelectChunk, LinkIsStored, TypeOK
<1>24. CASE ReprocessChunk
  BY <1>24 DEF ReprocessChunk, DeleteAllWork, RequeuedState, LinkIsStored,
     TypeOK
<1>25. CASE UnquarantineChunk
  BY <1>25 DEF UnquarantineChunk, DeleteAllWork, LinkIsStored, TypeOK
<1>26. CASE Crash
  BY <1>26 DEF Crash, LinkIsStored, TypeOK
<1>27. ASSUME NEW C \in SUBSET Contents, RecoverChunk(C)
       PROVE  LinkIsStored'
  BY <1>27 DEF RecoverChunk, RecoveredState, Orphans, QuietInRecovery,
     Running, LinkIsStored, TypeOK
<1>28. CASE UNCHANGED vars
  BY <1>28 DEF LinkIsStored, TypeOK, vars
<1> QED
  BY <1>1, <1>2, <1>3, <1>4, <1>5, <1>6, <1>7, <1>8, <1>9, <1>10, <1>11,
     <1>12, <1>13, <1>14, <1>15, <1>16, <1>17, <1>18, <1>19, <1>20, <1>21,
     <1>22, <1>23, <1>24, <1>25, <1>26, <1>27, <1>28 DEF Next, IngestNext,
     FetchNext, ArchiveNext, ConvertNext, AdminNext

(* Nothing starts before recovery is over.                                 *)
LEMMA QuietStep ==
    ASSUME TypeOK, QuietInRecovery, QueuedHasBody, [Next]_vars
    PROVE  QuietInRecovery'
<1> USE DEF remote, rows, work, db, ingest, fetch, conv, admin
<1>1. CASE Publish
  BY <1>1 DEF Publish, QuietInRecovery, Running, TypeOK
<1>2. CASE FetchPage
  BY <1>2 DEF FetchPage, QuietInRecovery, Running, TypeOK
<1>3. CASE FetchPageGone
  BY <1>3 DEF FetchPageGone, QuietInRecovery, Running, TypeOK
<1>4. CASE ReadRows
  BY <1>4 DEF ReadRows, QuietInRecovery, Running, TypeOK
<1>5. CASE ApplyPlan
  BY <1>5 DEF ApplyPlan, QuietInRecovery, Running, TypeOK
<1>6. CASE ApplyGone
  BY <1>6 DEF ApplyGone, QuietInRecovery, Running, TypeOK
<1>7. ASSUME NEW S \in SUBSET Wheels, ClaimFetch(S)
      PROVE  QuietInRecovery'
  BY <1>7 DEF ClaimFetch, QuietInRecovery, Running, TypeOK
<1>8. CASE LoadFetch
  BY <1>8 DEF LoadFetch, Idle, QuietInRecovery, Running, TypeOK
<1>9. ASSUME NEW w \in Wheels, NEW c \in Contents, FetchOk(w, c)
      PROVE  QuietInRecovery'
  BY <1>9 DEF FetchOk, Idle, QuietInRecovery, Running, TypeOK
<1>10. ASSUME NEW w \in Wheels, FetchRetry(w)
       PROVE  QuietInRecovery'
  BY <1>10 DEF FetchRetry, ReleaseFetch, RetryOp, Idle, QuietInRecovery,
     Running, TypeOK
<1>11. ASSUME NEW w \in Wheels, FetchRateLimited(w)
       PROVE  QuietInRecovery'
  BY <1>11 DEF FetchRateLimited, ReleaseFetch, Idle, QuietInRecovery, Running,
     TypeOK
<1>12. ASSUME NEW w \in Wheels, ArchiveAdd(w)
       PROVE  QuietInRecovery'
  BY <1>12 DEF ArchiveAdd, Idle, QuietInRecovery, Running, TypeOK
<1>13. CASE Seal
  BY <1>13 DEF Seal, NoArc, QuietInRecovery, Running, TypeOK
<1>14. CASE ArchiveOk
  BY <1>14 DEF ArchiveOk, FetchOkOp, DeleteWork, ReleaseFetch, NoArc,
     QuietInRecovery, Running, TypeOK
<1>15. CASE Feed
  BY <1>15 DEF Feed, NoArc, QuietInRecovery, Running, TypeOK
<1>16. CASE DrainFed
  BY <1>16 DEF DrainFed, QuietInRecovery, Running, TypeOK
<1>17. ASSUME NEW S \in SUBSET Wheels, NEW bad \in SUBSET Contents, BulkClaim(S, bad)
       PROVE  QuietInRecovery'
  BY <1>17 DEF BulkClaim, QuietInRecovery, Running, TypeOK
<1>18. ASSUME NEW w \in Wheels, BulkRetry(w)
       PROVE  QuietInRecovery'
  BY <1>18 DEF BulkRetry, RetryOp, NoUnread, QuietInRecovery, Running, TypeOK
<1>19. ASSUME NEW w \in Wheels, BulkSkipCorrupt(w)
       PROVE  QuietInRecovery'
  BY <1>19 DEF BulkSkipCorrupt, SkipOp, DeleteWork, NoUnread, QuietInRecovery,
     Running, TypeOK
<1>20. ASSUME NEW f \in batch, ConvertOk(f)
       PROVE  QuietInRecovery'
  BY <1>20 DEF ConvertOk, Complete, ConvertOkOp, DeleteWork, QuietInRecovery,
     Running, TypeOK
<1>21. ASSUME NEW f \in batch, ConvertRetry(f)
       PROVE  QuietInRecovery'
  BY <1>21 DEF ConvertRetry, Complete, RetryOp, QuietInRecovery, Running,
     TypeOK
<1>22. ASSUME NEW f \in batch, NEW kind \in {"permanent", "versioned"}, ConvertSkip(f, kind)
       PROVE  QuietInRecovery'
  BY <1>22 DEF ConvertSkip, Complete, SkipOp, DeleteWork, QuietInRecovery,
     Running, TypeOK
<1>23. ASSUME NEW sel \in Selectors, NEW S \in SUBSET Wheels, SelectChunk(sel, S)
       PROVE  QuietInRecovery'
  BY <1>23 DEF SelectChunk, QuietInRecovery, Running, TypeOK
<1>24. CASE ReprocessChunk
  BY <1>24 DEF ReprocessChunk, DeleteAllWork, RequeuedState, NoAdm,
     QuietInRecovery, Running, TypeOK
<1>25. CASE UnquarantineChunk
  BY <1>25 DEF UnquarantineChunk, DeleteAllWork, NoAdm, QuietInRecovery,
     Running, TypeOK
<1>26. CASE Crash
  BY <1>26 DEF Crash, QuietInRecovery, Running, TypeOK
<1>27. ASSUME NEW C \in SUBSET Contents, RecoverChunk(C)
       PROVE  QuietInRecovery'
  BY <1>27 DEF RecoverChunk, RecoveredState, Orphans, QuietInRecovery,
     Running, TypeOK
<1>28. CASE UNCHANGED vars
  BY <1>28 DEF QuietInRecovery, Running, TypeOK, vars
<1> QED
  BY <1>1, <1>2, <1>3, <1>4, <1>5, <1>6, <1>7, <1>8, <1>9, <1>10, <1>11,
     <1>12, <1>13, <1>14, <1>15, <1>16, <1>17, <1>18, <1>19, <1>20, <1>21,
     <1>22, <1>23, <1>24, <1>25, <1>26, <1>27, <1>28 DEF Next, IngestNext,
     FetchNext, ArchiveNext, ConvertNext, AdminNext

(* An imported body that is not linked yet stays where the import sealed   *)
(* it, and a plan links one that is there: nobody else writes              *)
(* unlinked_blobs.                                                         *)
LEMMA UnlinkedStep ==
    ASSUME TypeOK, UnlinkedStored, [Next]_vars
    PROVE  UnlinkedStored'
<1> USE DEF remote, rows, work, db, ingest, fetch, conv, admin
<1>1. CASE Publish
  BY <1>1 DEF Publish, UnlinkedStored, TypeOK
<1>2. CASE FetchPage
  BY <1>2 DEF FetchPage, UnlinkedStored, TypeOK
<1>3. CASE FetchPageGone
  BY <1>3 DEF FetchPageGone, UnlinkedStored, TypeOK
<1>4. CASE ReadRows
  BY <1>4 DEF ReadRows, PlanFor, NewWheel, DiffCommon, UnlinkedStored,
     TypeOK
<1>5. CASE ApplyPlan
  BY <1>5 DEF ApplyPlan, PlannedState, InitialState, NoPlan, UnlinkedStored,
     TypeOK
<1>6. CASE ApplyGone
  BY <1>6 DEF ApplyGone, Vanishing, UnlinkedStored, TypeOK
<1>7. ASSUME NEW S \in SUBSET Wheels, ClaimFetch(S)
       PROVE  UnlinkedStored'
  BY <1>7 DEF ClaimFetch, Claimable, QueueState, UnlinkedStored, TypeOK
<1>8. CASE LoadFetch
  BY <1>8 DEF LoadFetch, UnlinkedStored, TypeOK
<1>9. ASSUME NEW w \in Wheels, NEW c \in Contents, FetchOk(w, c)
       PROVE  UnlinkedStored'
  BY <1>9 DEF FetchOk, UnlinkedStored, TypeOK
<1>10. ASSUME NEW w \in Wheels, FetchRetry(w)
       PROVE  UnlinkedStored'
  BY <1>10 DEF FetchRetry, ReleaseFetch, RetryOp, UnlinkedStored, TypeOK
<1>11. ASSUME NEW w \in Wheels, FetchRateLimited(w)
       PROVE  UnlinkedStored'
  BY <1>11 DEF FetchRateLimited, ReleaseFetch, UnlinkedStored, TypeOK
<1>12. ASSUME NEW w \in Wheels, ArchiveAdd(w)
       PROVE  UnlinkedStored'
  BY <1>12, PipelineAssumption DEF ArchiveAdd, NoArc, UnlinkedStored, TypeOK
<1>13. CASE Seal
  BY <1>13 DEF Seal, UnlinkedStored, TypeOK
<1>14. CASE ArchiveOk
  BY <1>14 DEF ArchiveOk, FetchOkOp, DeleteWork, ReleaseFetch, NoArc,
     UnlinkedStored, TypeOK
<1>15. CASE Feed
  BY <1>15 DEF Feed, UnlinkedStored, TypeOK
<1>16. CASE DrainFed
  BY <1>16 DEF DrainFed, UnlinkedStored, TypeOK
<1>17. ASSUME NEW S \in SUBSET Wheels, NEW bad \in SUBSET Contents, BulkClaim(S, bad)
       PROVE  UnlinkedStored'
  BY <1>17 DEF BulkClaim, Claimable, QueueState, ReadBlob, UnlinkedStored,
     TypeOK
<1>18. ASSUME NEW w \in Wheels, BulkRetry(w)
       PROVE  UnlinkedStored'
  BY <1>18 DEF BulkRetry, RetryOp, UnlinkedStored, TypeOK
<1>19. ASSUME NEW w \in Wheels, BulkSkipCorrupt(w)
       PROVE  UnlinkedStored'
  BY <1>19 DEF BulkSkipCorrupt, SkipOp, DeleteWork, UnlinkedStored, TypeOK
<1>20. ASSUME NEW f \in batch, ConvertOk(f)
       PROVE  UnlinkedStored'
  BY <1>20 DEF ConvertOk, Complete, ConvertOkOp, DeleteWork, Futures,
     UnlinkedStored, TypeOK
<1>21. ASSUME NEW f \in batch, ConvertRetry(f)
       PROVE  UnlinkedStored'
  BY <1>21 DEF ConvertRetry, Complete, RetryOp, Futures, UnlinkedStored,
     TypeOK
<1>22. ASSUME NEW f \in batch, NEW kind \in {"permanent", "versioned"}, ConvertSkip(f, kind)
       PROVE  UnlinkedStored'
  BY <1>22 DEF ConvertSkip, Complete, SkipOp, DeleteWork, Futures,
     UnlinkedStored, TypeOK
<1>23. ASSUME NEW sel \in Selectors, NEW S \in SUBSET Wheels, SelectChunk(sel, S)
       PROVE  UnlinkedStored'
  BY <1>23 DEF SelectChunk, Matching, Live, UnlinkedStored, TypeOK
<1>24. CASE ReprocessChunk
  BY <1>24 DEF ReprocessChunk, DeleteAllWork, RequeuedState, NoAdm,
     UnlinkedStored, TypeOK
<1>25. CASE UnquarantineChunk
  BY <1>25 DEF UnquarantineChunk, DeleteAllWork, NoAdm, UnlinkedStored,
     TypeOK
<1>26. CASE Crash
  BY <1>26 DEF Crash, UnlinkedStored, TypeOK
<1>27. ASSUME NEW C \in SUBSET Contents, RecoverChunk(C)
       PROVE  UnlinkedStored'
  BY <1>27 DEF RecoverChunk, RecoveredState, Orphans, Live, UnlinkedStored,
     TypeOK
<1>28. CASE UNCHANGED vars
  BY <1>28 DEF vars, UnlinkedStored, TypeOK
<1> QED
  BY <1>1, <1>2, <1>3, <1>4, <1>5, <1>6, <1>7, <1>8, <1>9, <1>10, <1>11,
     <1>12, <1>13, <1>14, <1>15, <1>16, <1>17, <1>18, <1>19, <1>20, <1>21,
     <1>22, <1>23, <1>24, <1>25, <1>26, <1>27, <1>28 DEF Next, IngestNext,
     FetchNext, ArchiveNext, ConvertNext, AdminNext


(* A wheel that a thread holds, or that is not DELETED, keeps a blob that  *)
(* resolves: threads take only wheels that resolve, no blobs row goes      *)
(* while they hold any, and recovery resets the wheels of the rows it      *)
(* removes.                                                                *)
LEMMA HeldStep ==
    ASSUME TypeOK, HeldBlobResolves, UnlinkedStored, LinkIsStored, QueuedHasBody,
           QuietInRecovery, [Next]_vars
    PROVE  HeldBlobResolves'
<1> USE DEF remote, rows, work, db, ingest, fetch, conv, admin
<1>1. CASE Publish
  BY <1>1 DEF Publish, HeldBlobResolves, Held, Live, TypeOK
<1>2. CASE FetchPage
  BY <1>2 DEF FetchPage, HeldBlobResolves, Held, Live, TypeOK
<1>3. CASE FetchPageGone
  BY <1>3 DEF FetchPageGone, HeldBlobResolves, Held, Live, TypeOK
<1>4. CASE ReadRows
  BY <1>4 DEF ReadRows, PlanFor, NewWheel, DiffCommon, HeldBlobResolves, Held, Live,
     TypeOK
<1>5. CASE ApplyPlan
  BY <1>5 DEF ApplyPlan, PlannedState, InitialState, PlannedBlob, ClearsBlob,
     UnlinkedStored, HeldBlobResolves, Held, Live, TypeOK
<1>6. CASE ApplyGone
  BY <1>6 DEF ApplyGone, Vanishing, HeldBlobResolves, Held, Live, TypeOK
<1>7. ASSUME NEW S \in SUBSET Wheels, ClaimFetch(S)
      PROVE  HeldBlobResolves'
  BY <1>7 DEF ClaimFetch, Claimable, QueueState, HeldBlobResolves, Held, Live,
     TypeOK
<1>8. CASE LoadFetch
  BY <1>8 DEF LoadFetch, HeldBlobResolves, Held, Live, TypeOK
<1>9. ASSUME NEW w \in Wheels, NEW c \in Contents, FetchOk(w, c)
      PROVE  HeldBlobResolves'
  BY <1>9 DEF FetchOk, HeldBlobResolves, Held, Live, TypeOK
<1>10. ASSUME NEW w \in Wheels, FetchRetry(w)
       PROVE  HeldBlobResolves'
  BY <1>10 DEF FetchRetry, ReleaseFetch, RetryOp, HeldBlobResolves, Held,
     Live, TypeOK
<1>11. ASSUME NEW w \in Wheels, FetchRateLimited(w)
       PROVE  HeldBlobResolves'
  BY <1>11 DEF FetchRateLimited, ReleaseFetch, HeldBlobResolves, Held, Live,
     TypeOK
<1>12. ASSUME NEW w \in Wheels, ArchiveAdd(w)
       PROVE  HeldBlobResolves'
  BY <1>12 DEF ArchiveAdd, QueuedHasBody, NoArc, HeldBlobResolves, Held, Live,
     TypeOK
<1>13. CASE Seal
  BY <1>13 DEF Seal, HeldBlobResolves, Held, Live, TypeOK
<1>14. CASE ArchiveOk
  BY <1>14, PipelineAssumption DEF ArchiveOk, FetchOkOp, DeleteWork,
     ReleaseFetch, LinkIsStored, NoArc, HeldBlobResolves, Held, Live, TypeOK
<1>15. CASE Feed
  <2> SUFFICES ASSUME NEW x \in Wheels, Held(x)', blob[x] # None
               PROVE  Held(x) \/ Live(x)
    BY <1>15 DEF Feed, HeldBlobResolves, Live
  <2>1. arc.w \in Wheels /\ fed \in Seq(Wheels \X Contents)
    BY <1>15 DEF Feed, TypeOK, NoArc
  <2>2. ASSUME NEW i \in 1..Len(fed'), fed'[i][1] = x
        PROVE  Held(x)
    <3>1. i \in 1..Len(fed) \/ i = Len(fed) + 1
      BY <1>15, <2>1 DEF Feed
    <3>2. CASE i \in 1..Len(fed)
      BY <1>15, <2>1, <2>2, <3>2 DEF Feed, Held
    <3>3. CASE i = Len(fed) + 1
      BY <1>15, <2>1, <2>2, <3>3 DEF Feed, Held
    <3> QED
      BY <3>1, <3>2, <3>3
  <2>3. arc'.w # x
    BY <1>15, PipelineAssumption DEF Feed, NoArc
  <2> QED
    BY <1>15, <2>2, <2>3 DEF Feed, Held
<1>16. CASE DrainFed
  <2> SUFFICES ASSUME NEW x \in Wheels, Held(x)', blob[x] # None
               PROVE  Held(x) \/ Live(x)
    BY <1>16 DEF DrainFed, HeldBlobResolves, Live
  <2>1. fed \in Seq(Wheels \X Contents) /\ DrainCount \in 1..Len(fed)
    BY <1>16, PipelineAssumption DEF DrainFed, DrainCount, TypeOK
  <2>2. ASSUME NEW i \in 1..Len(fed'), fed'[i][1] = x
        PROVE  Held(x)
    <3>1. fed'[i] = fed[i + DrainCount] /\ i + DrainCount \in 1..Len(fed)
      BY <1>16, <2>1 DEF DrainFed
    <3> QED
      BY <2>2, <3>1 DEF Held
  <2>3. ASSUME NEW f \in batch', f[2] = x
        PROVE  Held(x)
    <3>1. PICK i \in 1..DrainCount : f = <<i, fed[i][1], fed[i][2]>>
      BY <1>16 DEF DrainFed
    <3> QED
      BY <2>1, <2>3, <3>1 DEF Held
  <2> QED
    BY <1>16, <2>2, <2>3 DEF DrainFed, Held
<1>17. ASSUME NEW S \in SUBSET Wheels, NEW bad \in SUBSET Contents, BulkClaim(S, bad)
       PROVE  HeldBlobResolves'
  BY <1>17 DEF BulkClaim, Claimable, QueueState, ReadBlob, HeldBlobResolves,
     Held, Live, TypeOK
<1>18. ASSUME NEW w \in Wheels, BulkRetry(w)
       PROVE  HeldBlobResolves'
  BY <1>18 DEF BulkRetry, RetryOp, HeldBlobResolves, Held, Live, TypeOK
<1>19. ASSUME NEW w \in Wheels, BulkSkipCorrupt(w)
       PROVE  HeldBlobResolves'
  BY <1>19 DEF BulkSkipCorrupt, SkipOp, DeleteWork, HeldBlobResolves, Held,
     Live, TypeOK
<1>20. ASSUME NEW f \in batch, ConvertOk(f)
       PROVE  HeldBlobResolves'
  BY <1>20 DEF ConvertOk, Complete, ConvertOkOp, DeleteWork, Futures,
     HeldBlobResolves, Held, Live, TypeOK
<1>21. ASSUME NEW f \in batch, ConvertRetry(f)
       PROVE  HeldBlobResolves'
  BY <1>21 DEF ConvertRetry, Complete, RetryOp, Futures, HeldBlobResolves,
     Held, Live, TypeOK
<1>22. ASSUME NEW f \in batch, NEW kind \in {"permanent", "versioned"}, ConvertSkip(f, kind)
       PROVE  HeldBlobResolves'
  BY <1>22 DEF ConvertSkip, Complete, SkipOp, DeleteWork, Futures,
     HeldBlobResolves, Held, Live, TypeOK
<1>23. ASSUME NEW sel \in Selectors, NEW S \in SUBSET Wheels, SelectChunk(sel, S)
       PROVE  HeldBlobResolves'
  BY <1>23 DEF SelectChunk, Matching, HeldBlobResolves, Held, Live, TypeOK
<1>24. CASE ReprocessChunk
  BY <1>24 DEF ReprocessChunk, DeleteAllWork, RequeuedState, NoAdm,
     HeldBlobResolves, Held, Live, TypeOK
<1>25. CASE UnquarantineChunk
  BY <1>25 DEF UnquarantineChunk, DeleteAllWork, NoAdm, HeldBlobResolves,
     Held, Live, TypeOK
<1>26. CASE Crash
  <2>1. \A x \in Wheels : ~Held(x)'
    <3>1. Len(fed') = 0 /\ batch' = {} /\ adm'.ids = {} /\ ipc' = "idle"
      BY <1>26 DEF Crash, NoAdm
    <3>2. \A x \in Wheels : fpc'[x] = "idle" /\ unread'[x] = "no" /\ arc'.w # x
      BY <1>26, PipelineAssumption DEF Crash, Idle, NoUnread, NoArc
    <3> QED
      BY <3>1, <3>2 DEF Held
  <2> QED
    BY <1>26, <2>1 DEF Crash, HeldBlobResolves, Live, TypeOK
<1>27. ASSUME NEW C \in SUBSET Contents, RecoverChunk(C)
       PROVE  HeldBlobResolves'
  BY <1>27, PipelineAssumption DEF RecoverChunk, RecoveredState, Orphans,
     QuietInRecovery, Running, Idle, NoArc, NoUnread, NoAdm, HeldBlobResolves,
     Held, Live, TypeOK
<1>28. CASE UNCHANGED vars
  BY <1>28 DEF HeldBlobResolves, Held, Live, TypeOK, vars
<1> QED
  BY <1>1, <1>2, <1>3, <1>4, <1>5, <1>6, <1>7, <1>8, <1>9, <1>10, <1>11,
     <1>12, <1>13, <1>14, <1>15, <1>16, <1>17, <1>18, <1>19, <1>20, <1>21,
     <1>22, <1>23, <1>24, <1>25, <1>26, <1>27, <1>28 DEF Next, IngestNext,
     FetchNext, ArchiveNext, ConvertNext, AdminNext

(* An idle daemon, whatever the import left behind, satisfies the          *)
(* invariant.                                                              *)
LEMMA InvInit == Init => PipelineInv
<1> SUFFICES ASSUME Init PROVE PipelineInv
  OBVIOUS
<1>1. TypeOK
  BY PipelineAssumption
  DEF Init, TypeOK, Unlisted, NoPlan, PlanKinds, Idle, NoUnread, NoArc, NoAdm,
      NoWork, NoQuar, RowStates, Stages, Futures
<1>2. SkippedHasRow /\ QuarantinedHasWork /\ TombstoneDated
  BY DEF Init, SkippedHasRow, QuarantinedHasWork, TombstoneDated
<1>3. QueuedHasBody /\ LinkIsStored /\ QuietInRecovery
  BY DEF Init, QueuedHasBody, LinkIsStored, QuietInRecovery, Running, Idle
<1>4. UnlinkedStored
  BY <1>1 DEF Init, UnlinkedStored, TypeOK
<1>5. HeldBlobResolves
  BY DEF Init, HeldBlobResolves
<1> QED
  BY <1>1, <1>2, <1>3, <1>4, <1>5 DEF PipelineInv

(* Every behaviour of the pipeline keeps the inductive invariant.          *)
THEOREM PipelineInvariant == Spec => []PipelineInv
<1>1. PipelineInv /\ [Next]_vars => PipelineInv'
  <2> SUFFICES ASSUME PipelineInv, [Next]_vars PROVE PipelineInv'
    OBVIOUS
  <2>1. TypeOK' /\ QueuedHasBody' /\ LinkIsStored' /\ QuietInRecovery'
    BY TypeStep, QueuedStep, LinkStep, QuietStep DEF PipelineInv
  <2>2. SkippedHasRow' /\ QuarantinedHasWork' /\ TombstoneDated'
    BY SkippedStep, QuarantinedStep, TombstoneStep DEF PipelineInv
  <2>3. UnlinkedStored' /\ HeldBlobResolves'
    BY UnlinkedStep, HeldStep DEF PipelineInv
  <2> QED
    BY <2>1, <2>2, <2>3 DEF PipelineInv
<1> QED
  BY <1>1, InvInit, PTL DEF Spec

(* Type correctness.                                                       *)
THEOREM PipelineTypes == Spec => []TypeOK
<1>1. PipelineInv => TypeOK
  BY DEF PipelineInv
<1> QED
  BY <1>1, PipelineInvariant, PTL

(* A wheel that is not DELETED never names a blob whose row is gone: not   *)
(* when ingest links an imported body to a new row, not after a crash in   *)
(* mid-archive, not in mid-recovery, and not when a late outcome, a stale  *)
(* plan or a reprocess chunk revives its row.                              *)
THEOREM PipelineBlobResolves == Spec => []BlobResolves
<1>1. PipelineInv => BlobResolves
  BY DEF PipelineInv, HeldBlobResolves, BlobResolves
<1> QED
  BY <1>1, PipelineInvariant, PTL

-----------------------------------------------------------------------------
(***************************************************************************)
(* What fsck may rely on for every set of wheels and contents, every page  *)
(* history and any number of crashes.                                      *)
(*                                                                         *)
(* FsckHolds is PipelineInv in fsck's words.  That a tombstone nobody      *)
(* holds is at rest needs more: the plan of a diff still fits the row      *)
(* (PlanFits), which depends on nobody holding a wheel that has no row     *)
(* (AbsentIsFree).                                                         *)
(*                                                                         *)
(* While the page has been published once (rev <= 1) more holds.  A row is *)
(* the one the only diff inserted (RowOfPage); and with reprocess kept to  *)
(* archived wheels nobody fetches for a row that has its blob, so a blob   *)
(* once linked is not replaced, and the bytes on their way to a conversion *)
(* are the ones their row names (CalmRows, BytesOfRow).                    *)
(***************************************************************************)

AbsentIsFree == \A x \in Wheels : state[x] = "ABSENT" => ~Held(x)

PlanFits ==
    ipc = "plan" =>
        \A x \in Wheels :
            /\ plan[x] \in {"insert", "link"} => state[x] = "ABSENT"
            /\ plan[x] \in {"refetch", "promote"} => ~deleted[x]

FsckInv == PipelineInv /\ AbsentIsFree /\ PlanFits

(* A conversion that completes gives up a hold and takes none.             *)
LEMMA CompleteReleases ==
    ASSUME NEW f \in batch, Complete(f), NEW x \in Wheels, Held(x)'
    PROVE  Held(x)
<1>1. /\ fpc' = fpc /\ arc' = arc /\ fed' = fed /\ unread' = unread
      /\ adm' = adm /\ ipc' = ipc /\ plan' = plan
      /\ batch' \subseteq batch
  BY DEF Complete, remote, ingest, fetch, admin
<1> QED
  BY <1>1 DEF Held

(* Only a diff gives a wheel its row, and nobody takes a wheel without one.*)
LEMMA AbsentStep ==
    ASSUME TypeOK, AbsentIsFree, QuietInRecovery, [Next]_vars
    PROVE  AbsentIsFree'
<1> USE DEF remote, rows, work, db, ingest, fetch, conv, admin
<1>1. CASE Publish
  BY <1>1 DEF Publish, AbsentIsFree, Held, TypeOK
<1>2. CASE FetchPage
  BY <1>2 DEF FetchPage, AbsentIsFree, Held, TypeOK
<1>3. CASE FetchPageGone
  BY <1>3 DEF FetchPageGone, AbsentIsFree, Held, TypeOK
<1>4. CASE ReadRows
  BY <1>4 DEF ReadRows, PlanFor, NewWheel, DiffCommon, AbsentIsFree, Held, TypeOK
<1>5. CASE ApplyPlan
  BY <1>5 DEF ApplyPlan, PlannedState, InitialState, AbsentIsFree, Held,
     TypeOK
<1>6. CASE ApplyGone
  BY <1>6 DEF ApplyGone, Vanishing, AbsentIsFree, Held, TypeOK
<1>7. ASSUME NEW S \in SUBSET Wheels, ClaimFetch(S)
      PROVE  AbsentIsFree'
  BY <1>7 DEF ClaimFetch, Claimable, QueueState, AbsentIsFree, Held, TypeOK
<1>8. CASE LoadFetch
  BY <1>8 DEF LoadFetch, AbsentIsFree, Held, TypeOK
<1>9. ASSUME NEW w \in Wheels, NEW c \in Contents, FetchOk(w, c)
      PROVE  AbsentIsFree'
  BY <1>9 DEF FetchOk, AbsentIsFree, Held, TypeOK
<1>10. ASSUME NEW w \in Wheels, FetchRetry(w)
      PROVE  AbsentIsFree'
  BY <1>10 DEF FetchRetry, ReleaseFetch, RetryOp, AbsentIsFree, Held, TypeOK
<1>11. ASSUME NEW w \in Wheels, FetchRateLimited(w)
      PROVE  AbsentIsFree'
  BY <1>11 DEF FetchRateLimited, ReleaseFetch, AbsentIsFree, Held, TypeOK
<1>12. ASSUME NEW w \in Wheels, ArchiveAdd(w)
      PROVE  AbsentIsFree'
  BY <1>12 DEF ArchiveAdd, NoArc, AbsentIsFree, Held, TypeOK
<1>13. CASE Seal
  BY <1>13 DEF Seal, AbsentIsFree, Held, TypeOK
<1>14. CASE ArchiveOk
  BY <1>14, PipelineAssumption DEF ArchiveOk, FetchOkOp, DeleteWork,
     ReleaseFetch, NoArc, AbsentIsFree, Held, TypeOK
<1>15. CASE Feed
  <2> SUFFICES ASSUME NEW x \in Wheels, Held(x)' PROVE Held(x)
    BY <1>15 DEF Feed, AbsentIsFree
  <2>1. arc.w \in Wheels /\ fed \in Seq(Wheels \X Contents)
    BY <1>15 DEF Feed, TypeOK, NoArc
  <2>2. ASSUME NEW i \in 1..Len(fed'), fed'[i][1] = x
        PROVE  Held(x)
    <3>1. i \in 1..Len(fed) \/ i = Len(fed) + 1
      BY <1>15, <2>1 DEF Feed
    <3> QED
      BY <1>15, <2>1, <2>2, <3>1 DEF Feed, Held
  <2>3. arc'.w # x
    BY <1>15, PipelineAssumption DEF Feed, NoArc
  <2> QED
    BY <1>15, <2>2, <2>3 DEF Feed, Held
<1>16. CASE DrainFed
  <2> SUFFICES ASSUME NEW x \in Wheels, Held(x)' PROVE Held(x)
    BY <1>16 DEF DrainFed, AbsentIsFree
  <2>1. fed \in Seq(Wheels \X Contents) /\ DrainCount \in 1..Len(fed)
    BY <1>16, PipelineAssumption DEF DrainFed, DrainCount, TypeOK
  <2>2. ASSUME NEW i \in 1..Len(fed'), fed'[i][1] = x
        PROVE  Held(x)
    <3>1. fed'[i] = fed[i + DrainCount] /\ i + DrainCount \in 1..Len(fed)
      BY <1>16, <2>1 DEF DrainFed
    <3> QED
      BY <2>2, <3>1 DEF Held
  <2>3. ASSUME NEW f \in batch', f[2] = x
        PROVE  Held(x)
    <3>1. PICK i \in 1..DrainCount : f = <<i, fed[i][1], fed[i][2]>>
      BY <1>16 DEF DrainFed
    <3> QED
      BY <2>1, <2>3, <3>1 DEF Held
  <2> QED
    BY <1>16, <2>2, <2>3 DEF DrainFed, Held
<1>17. ASSUME NEW S \in SUBSET Wheels, NEW bad \in SUBSET Contents, BulkClaim(S, bad)
      PROVE  AbsentIsFree'
  BY <1>17 DEF BulkClaim, Claimable, QueueState, ReadBlob, AbsentIsFree, Held,
     TypeOK
<1>18. ASSUME NEW w \in Wheels, BulkRetry(w)
      PROVE  AbsentIsFree'
  BY <1>18 DEF BulkRetry, RetryOp, AbsentIsFree, Held, TypeOK
<1>19. ASSUME NEW w \in Wheels, BulkSkipCorrupt(w)
      PROVE  AbsentIsFree'
  BY <1>19 DEF BulkSkipCorrupt, SkipOp, DeleteWork, AbsentIsFree, Held, TypeOK
<1>20. ASSUME NEW f \in batch, ConvertOk(f)
      PROVE  AbsentIsFree'
  <2>1. \A x \in Wheels : state'[x] = "ABSENT" => state[x] = "ABSENT"
    BY <1>20 DEF ConvertOk, ConvertOkOp, TypeOK
  <2>2. Complete(f)
    BY <1>20 DEF ConvertOk
  <2> QED
    BY <2>1, <2>2, CompleteReleases DEF AbsentIsFree
<1>21. ASSUME NEW f \in batch, ConvertRetry(f)
      PROVE  AbsentIsFree'
  <2>1. \A x \in Wheels : state'[x] = "ABSENT" => state[x] = "ABSENT"
    BY <1>21 DEF ConvertRetry, RetryOp, TypeOK
  <2>2. Complete(f)
    BY <1>21 DEF ConvertRetry
  <2> QED
    BY <2>1, <2>2, CompleteReleases DEF AbsentIsFree
<1>22. ASSUME NEW f \in batch, NEW kind \in {"permanent", "versioned"}, ConvertSkip(f, kind)
      PROVE  AbsentIsFree'
  <2>1. \A x \in Wheels : state'[x] = "ABSENT" => state[x] = "ABSENT"
    BY <1>22 DEF ConvertSkip, SkipOp, TypeOK
  <2>2. Complete(f)
    BY <1>22 DEF ConvertSkip
  <2> QED
    BY <2>1, <2>2, CompleteReleases DEF AbsentIsFree
<1>23. ASSUME NEW sel \in Selectors, NEW S \in SUBSET Wheels, SelectChunk(sel, S)
      PROVE  AbsentIsFree'
  BY <1>23 DEF SelectChunk, Matching, Live, AbsentIsFree, Held, TypeOK
<1>24. CASE ReprocessChunk
  BY <1>24 DEF ReprocessChunk, DeleteAllWork, RequeuedState, NoAdm,
     AbsentIsFree, Held, TypeOK
<1>25. CASE UnquarantineChunk
  BY <1>25 DEF UnquarantineChunk, DeleteAllWork, NoAdm, AbsentIsFree, Held,
     TypeOK
<1>26. CASE Crash
  <2>1. Len(fed') = 0 /\ batch' = {} /\ adm'.ids = {} /\ ipc' = "idle"
    BY <1>26 DEF Crash, NoAdm
  <2>2. \A x \in Wheels : fpc'[x] = "idle" /\ unread'[x] = "no" /\ arc'.w # x
    BY <1>26, PipelineAssumption DEF Crash, Idle, NoUnread, NoArc
  <2> QED
    BY <2>1, <2>2 DEF AbsentIsFree, Held
<1>27. ASSUME NEW C \in SUBSET Contents, RecoverChunk(C)
      PROVE  AbsentIsFree'
  BY <1>27, PipelineAssumption DEF RecoverChunk, RecoveredState, Orphans,
     QuietInRecovery, Running, Idle, NoArc, NoUnread, NoAdm, AbsentIsFree,
     Held, TypeOK
<1>28. CASE UNCHANGED vars
  BY <1>28 DEF vars, AbsentIsFree, Held, TypeOK
<1> QED
  BY <1>1, <1>2, <1>3, <1>4, <1>5, <1>6, <1>7, <1>8, <1>9, <1>10, <1>11,
     <1>12, <1>13, <1>14, <1>15, <1>16, <1>17, <1>18, <1>19, <1>20, <1>21,
     <1>22, <1>23, <1>24, <1>25, <1>26, <1>27, <1>28 DEF Next, IngestNext,
     FetchNext, ArchiveNext, ConvertNext, AdminNext

(* Between the diff and its op nothing tombstones a wheel or gives it a    *)
(* row, so what the plan says of either still holds.                       *)
LEMMA PlanStep ==
    ASSUME TypeOK, AbsentIsFree, PlanFits, [Next]_vars
    PROVE  PlanFits'
<1> USE DEF remote, rows, work, db, ingest, fetch, conv, admin
<1>1. CASE Publish
  BY <1>1 DEF Publish, AbsentIsFree, Held, PlanFits, TypeOK
<1>2. CASE FetchPage
  BY <1>2 DEF FetchPage, AbsentIsFree, Held, PlanFits, TypeOK
<1>3. CASE FetchPageGone
  BY <1>3 DEF FetchPageGone, AbsentIsFree, Held, PlanFits, TypeOK
<1>4. CASE ReadRows
  BY <1>4 DEF ReadRows, PlanFor, NewWheel, DiffCommon, AbsentIsFree, Held, PlanFits,
     TypeOK
<1>5. CASE ApplyPlan
  BY <1>5 DEF ApplyPlan, PlannedState, InitialState, AbsentIsFree, Held,
     PlanFits, TypeOK
<1>6. CASE ApplyGone
  BY <1>6 DEF ApplyGone, Vanishing, AbsentIsFree, Held, PlanFits, TypeOK
<1>7. ASSUME NEW S \in SUBSET Wheels, ClaimFetch(S)
      PROVE  PlanFits'
  BY <1>7 DEF ClaimFetch, Claimable, QueueState, AbsentIsFree, Held, PlanFits,
     TypeOK
<1>8. CASE LoadFetch
  BY <1>8 DEF LoadFetch, AbsentIsFree, Held, PlanFits, TypeOK
<1>9. ASSUME NEW w \in Wheels, NEW c \in Contents, FetchOk(w, c)
      PROVE  PlanFits'
  BY <1>9 DEF FetchOk, AbsentIsFree, Held, PlanFits, TypeOK
<1>10. ASSUME NEW w \in Wheels, FetchRetry(w)
      PROVE  PlanFits'
  BY <1>10 DEF FetchRetry, ReleaseFetch, RetryOp, AbsentIsFree, Held,
     PlanFits, TypeOK
<1>11. ASSUME NEW w \in Wheels, FetchRateLimited(w)
      PROVE  PlanFits'
  BY <1>11 DEF FetchRateLimited, ReleaseFetch, AbsentIsFree, Held, PlanFits,
     TypeOK
<1>12. ASSUME NEW w \in Wheels, ArchiveAdd(w)
      PROVE  PlanFits'
  BY <1>12 DEF ArchiveAdd, NoArc, AbsentIsFree, Held, PlanFits, TypeOK
<1>13. CASE Seal
  BY <1>13 DEF Seal, AbsentIsFree, Held, PlanFits, TypeOK
<1>14. CASE ArchiveOk
  BY <1>14 DEF ArchiveOk, FetchOkOp, DeleteWork, ReleaseFetch, NoArc,
     AbsentIsFree, Held, PlanFits, TypeOK
<1>15. CASE Feed
  BY <1>15 DEF Feed, AbsentIsFree, Held, PlanFits, TypeOK
<1>16. CASE DrainFed
  BY <1>16 DEF DrainFed, AbsentIsFree, Held, PlanFits, TypeOK
<1>17. ASSUME NEW S \in SUBSET Wheels, NEW bad \in SUBSET Contents, BulkClaim(S, bad)
      PROVE  PlanFits'
  BY <1>17 DEF BulkClaim, Claimable, QueueState, AbsentIsFree, Held, PlanFits,
     TypeOK
<1>18. ASSUME NEW w \in Wheels, BulkRetry(w)
      PROVE  PlanFits'
  BY <1>18 DEF BulkRetry, RetryOp, AbsentIsFree, Held, PlanFits, TypeOK
<1>19. ASSUME NEW w \in Wheels, BulkSkipCorrupt(w)
      PROVE  PlanFits'
  BY <1>19 DEF BulkSkipCorrupt, SkipOp, DeleteWork, AbsentIsFree, Held,
     PlanFits, TypeOK
<1>20. ASSUME NEW f \in batch, ConvertOk(f)
      PROVE  PlanFits'
  BY <1>20 DEF ConvertOk, Complete, ConvertOkOp, DeleteWork, Futures,
     AbsentIsFree, Held, PlanFits, TypeOK
<1>21. ASSUME NEW f \in batch, ConvertRetry(f)
      PROVE  PlanFits'
  BY <1>21 DEF ConvertRetry, Complete, RetryOp, Futures, AbsentIsFree, Held,
     PlanFits, TypeOK
<1>22. ASSUME NEW f \in batch, NEW kind \in {"permanent", "versioned"}, ConvertSkip(f, kind)
      PROVE  PlanFits'
  BY <1>22 DEF ConvertSkip, Complete, SkipOp, DeleteWork, Futures,
     AbsentIsFree, Held, PlanFits, TypeOK
<1>23. ASSUME NEW sel \in Selectors, NEW S \in SUBSET Wheels, SelectChunk(sel, S)
      PROVE  PlanFits'
  BY <1>23 DEF SelectChunk, Matching, AbsentIsFree, Held, PlanFits, TypeOK
<1>24. CASE ReprocessChunk
  BY <1>24 DEF ReprocessChunk, DeleteAllWork, RequeuedState, NoAdm,
     AbsentIsFree, Held, PlanFits, TypeOK
<1>25. CASE UnquarantineChunk
  BY <1>25 DEF UnquarantineChunk, DeleteAllWork, NoAdm, AbsentIsFree, Held,
     PlanFits, TypeOK
<1>26. CASE Crash
  BY <1>26 DEF Crash, AbsentIsFree, Held, PlanFits, TypeOK
<1>27. ASSUME NEW C \in SUBSET Contents, RecoverChunk(C)
      PROVE  PlanFits'
  BY <1>27 DEF RecoverChunk, RecoveredState, Orphans, Live, AbsentIsFree,
     Held, PlanFits, TypeOK
<1>28. CASE UNCHANGED vars
  BY <1>28 DEF vars, AbsentIsFree, Held, PlanFits, TypeOK
<1> QED
  BY <1>1, <1>2, <1>3, <1>4, <1>5, <1>6, <1>7, <1>8, <1>9, <1>10, <1>11,
     <1>12, <1>13, <1>14, <1>15, <1>16, <1>17, <1>18, <1>19, <1>20, <1>21,
     <1>22, <1>23, <1>24, <1>25, <1>26, <1>27, <1>28 DEF Next, IngestNext,
     FetchNext, ArchiveNext, ConvertNext, AdminNext

(* A thread takes only wheels that are neither ABSENT nor DELETED.         *)
HeldGrows == \A x \in Wheels : Held(x)' => Held(x) \/ Live(x)

(* Claims and selections look at the state, and so does a diff; the other  *)
(* steps hand on what is held already, or let it go.                       *)
LEMMA HeldGrowsStep ==
    ASSUME TypeOK, TombstoneDated, [Next]_vars
    PROVE  HeldGrows
<1> USE DEF remote, rows, work, db, ingest, fetch, conv, admin
<1>1. CASE Publish
  BY <1>1 DEF Publish, HeldGrows, Held, Live, TypeOK
<1>2. CASE FetchPage
  BY <1>2 DEF FetchPage, HeldGrows, Held, Live, TypeOK
<1>3. CASE FetchPageGone
  BY <1>3 DEF FetchPageGone, HeldGrows, Held, Live, TypeOK
<1>4. CASE ReadRows
  BY <1>4 DEF ReadRows, PlanFor, NewWheel, DiffCommon, TombstoneDated,
     HeldGrows, Held, Live, TypeOK
<1>5. CASE ApplyPlan
  BY <1>5 DEF ApplyPlan, PlannedState, InitialState, HeldGrows, Held, Live,
     TypeOK
<1>6. CASE ApplyGone
  BY <1>6 DEF ApplyGone, Vanishing, HeldGrows, Held, Live, TypeOK
<1>7. ASSUME NEW S \in SUBSET Wheels, ClaimFetch(S)
       PROVE  HeldGrows
  BY <1>7 DEF ClaimFetch, Claimable, QueueState, HeldGrows, Held, Live,
     TypeOK
<1>8. CASE LoadFetch
  BY <1>8 DEF LoadFetch, HeldGrows, Held, Live, TypeOK
<1>9. ASSUME NEW w \in Wheels, NEW c \in Contents, FetchOk(w, c)
       PROVE  HeldGrows
  BY <1>9 DEF FetchOk, HeldGrows, Held, Live, TypeOK
<1>10. ASSUME NEW w \in Wheels, FetchRetry(w)
       PROVE  HeldGrows
  BY <1>10 DEF FetchRetry, ReleaseFetch, RetryOp, HeldGrows, Held, Live,
     TypeOK
<1>11. ASSUME NEW w \in Wheels, FetchRateLimited(w)
       PROVE  HeldGrows
  BY <1>11 DEF FetchRateLimited, ReleaseFetch, HeldGrows, Held, Live, TypeOK
<1>12. ASSUME NEW w \in Wheels, ArchiveAdd(w)
       PROVE  HeldGrows
  BY <1>12 DEF ArchiveAdd, NoArc, HeldGrows, Held, Live, TypeOK
<1>13. CASE Seal
  BY <1>13 DEF Seal, HeldGrows, Held, Live, TypeOK
<1>14. CASE ArchiveOk
  BY <1>14, PipelineAssumption DEF ArchiveOk, FetchOkOp, DeleteWork,
     ReleaseFetch, NoArc, HeldGrows, Held, Live, TypeOK
<1>15. CASE Feed
  <2> SUFFICES ASSUME NEW x \in Wheels, Held(x)' PROVE Held(x)
    BY DEF HeldGrows
  <2>1. arc.w \in Wheels /\ fed \in Seq(Wheels \X Contents)
    BY <1>15 DEF Feed, TypeOK, NoArc
  <2>2. ASSUME NEW i \in 1..Len(fed'), fed'[i][1] = x
        PROVE  Held(x)
    <3>1. i \in 1..Len(fed) \/ i = Len(fed) + 1
      BY <1>15, <2>1 DEF Feed
    <3> QED
      BY <1>15, <2>1, <2>2, <3>1 DEF Feed, Held
  <2>3. arc'.w # x
    BY <1>15, PipelineAssumption DEF Feed, NoArc
  <2> QED
    BY <1>15, <2>2, <2>3 DEF Feed, Held
<1>16. CASE DrainFed
  <2> SUFFICES ASSUME NEW x \in Wheels, Held(x)' PROVE Held(x)
    BY DEF HeldGrows
  <2>1. fed \in Seq(Wheels \X Contents) /\ DrainCount \in 1..Len(fed)
    BY <1>16, PipelineAssumption DEF DrainFed, DrainCount, TypeOK
  <2>2. ASSUME NEW i \in 1..Len(fed'), fed'[i][1] = x
        PROVE  Held(x)
    <3>1. fed'[i] = fed[i + DrainCount] /\ i + DrainCount \in 1..Len(fed)
      BY <1>16, <2>1 DEF DrainFed
    <3> QED
      BY <2>2, <3>1 DEF Held
  <2>3. ASSUME NEW f \in batch', f[2] = x
        PROVE  Held(x)
    <3>1. PICK i \in 1..DrainCount : f = <<i, fed[i][1], fed[i][2]>>
      BY <1>16 DEF DrainFed
    <3> QED
      BY <2>1, <2>3, <3>1 DEF Held
  <2> QED
    BY <1>16, <2>2, <2>3 DEF DrainFed, Held
<1>17. ASSUME NEW S \in SUBSET Wheels, NEW bad \in SUBSET Contents, BulkClaim(S, bad)
       PROVE  HeldGrows
  BY <1>17 DEF BulkClaim, Claimable, QueueState, ReadBlob, HeldGrows, Held,
     Live, TypeOK
<1>18. ASSUME NEW w \in Wheels, BulkRetry(w)
       PROVE  HeldGrows
  BY <1>18 DEF BulkRetry, RetryOp, HeldGrows, Held, Live, TypeOK
<1>19. ASSUME NEW w \in Wheels, BulkSkipCorrupt(w)
       PROVE  HeldGrows
  BY <1>19 DEF BulkSkipCorrupt, SkipOp, DeleteWork, HeldGrows, Held, Live,
     TypeOK
<1>20. ASSUME NEW f \in batch, ConvertOk(f)
       PROVE  HeldGrows
  BY <1>20, CompleteReleases DEF ConvertOk, HeldGrows
<1>21. ASSUME NEW f \in batch, ConvertRetry(f)
       PROVE  HeldGrows
  BY <1>21, CompleteReleases DEF ConvertRetry, HeldGrows
<1>22. ASSUME NEW f \in batch, NEW kind \in {"permanent", "versioned"}, ConvertSkip(f, kind)
       PROVE  HeldGrows
  BY <1>22, CompleteReleases DEF ConvertSkip, HeldGrows
<1>23. ASSUME NEW sel \in Selectors, NEW S \in SUBSET Wheels, SelectChunk(sel, S)
       PROVE  HeldGrows
  BY <1>23 DEF SelectChunk, Matching, Live, HeldGrows, Held, TypeOK
<1>24. CASE ReprocessChunk
  BY <1>24 DEF ReprocessChunk, DeleteAllWork, RequeuedState, NoAdm,
     HeldGrows, Held, Live, TypeOK
<1>25. CASE UnquarantineChunk
  BY <1>25 DEF UnquarantineChunk, DeleteAllWork, NoAdm, HeldGrows, Held,
     Live, TypeOK
<1>26. CASE Crash
  <2>1. Len(fed') = 0 /\ batch' = {} /\ adm'.ids = {} /\ ipc' = "idle"
    BY <1>26 DEF Crash, NoAdm
  <2>2. \A x \in Wheels : fpc'[x] = "idle" /\ unread'[x] = "no" /\ arc'.w # x
    BY <1>26, PipelineAssumption DEF Crash, Idle, NoUnread, NoArc
  <2> QED
    BY <2>1, <2>2 DEF HeldGrows, Held
<1>27. ASSUME NEW C \in SUBSET Contents, RecoverChunk(C)
       PROVE  HeldGrows
  BY <1>27 DEF RecoverChunk, RecoveredState, Orphans, Live, HeldGrows, Held,
     TypeOK
<1>28. CASE UNCHANGED vars
  BY <1>28 DEF vars, HeldGrows, Held, Live, TypeOK
<1> QED
  BY <1>1, <1>2, <1>3, <1>4, <1>5, <1>6, <1>7, <1>8, <1>9, <1>10, <1>11,
     <1>12, <1>13, <1>14, <1>15, <1>16, <1>17, <1>18, <1>19, <1>20, <1>21,
     <1>22, <1>23, <1>24, <1>25, <1>26, <1>27, <1>28 DEF Next, IngestNext,
     FetchNext, ArchiveNext, ConvertNext, AdminNext


(* One step of Next keeps an unheld tombstone as it is, unless its file    *)
(* has come back.                                                          *)
TombstoneStays ==
    \A x \in Wheels :
        state[x] = "DELETED" /\ ~Held(x) /\ (deleted[x] => deleted'[x]) => state'[x] = "DELETED"

(* Whoever writes state without having read that the wheel is not DELETED  *)
(* holds it.                                                               *)
LEMMA TombstoneStaysStep ==
    ASSUME TypeOK, TombstoneDated, PlanFits, [Next]_vars
    PROVE  TombstoneStays
<1> USE DEF remote, rows, work, db, ingest, fetch, conv, admin
<1>1. CASE Publish
  BY <1>1 DEF Publish, TombstoneStays, Held, TypeOK
<1>2. CASE FetchPage
  BY <1>2 DEF FetchPage, TombstoneStays, Held, TypeOK
<1>3. CASE FetchPageGone
  BY <1>3 DEF FetchPageGone, TombstoneStays, Held, TypeOK
<1>4. CASE ReadRows
  BY <1>4 DEF ReadRows, PlanFor, NewWheel, DiffCommon, TombstoneStays, Held,
     TypeOK
<1>5. CASE ApplyPlan
  BY <1>5 DEF ApplyPlan, PlannedState, InitialState, TombstoneDated,
     PlanFits, TombstoneStays, Held, TypeOK
<1>6. CASE ApplyGone
  BY <1>6 DEF ApplyGone, Vanishing, TombstoneStays, Held, TypeOK
<1>7. ASSUME NEW S \in SUBSET Wheels, ClaimFetch(S)
       PROVE  TombstoneStays
  BY <1>7 DEF ClaimFetch, Claimable, QueueState, TombstoneStays, Held,
     TypeOK
<1>8. CASE LoadFetch
  BY <1>8 DEF LoadFetch, TombstoneStays, Held, TypeOK
<1>9. ASSUME NEW w \in Wheels, NEW c \in Contents, FetchOk(w, c)
       PROVE  TombstoneStays
  BY <1>9 DEF FetchOk, TombstoneStays, Held, TypeOK
<1>10. ASSUME NEW w \in Wheels, FetchRetry(w)
       PROVE  TombstoneStays
  BY <1>10 DEF FetchRetry, ReleaseFetch, RetryOp, TombstoneStays, Held,
     TypeOK
<1>11. ASSUME NEW w \in Wheels, FetchRateLimited(w)
       PROVE  TombstoneStays
  BY <1>11 DEF FetchRateLimited, ReleaseFetch, TombstoneStays, Held, TypeOK
<1>12. ASSUME NEW w \in Wheels, ArchiveAdd(w)
       PROVE  TombstoneStays
  BY <1>12 DEF ArchiveAdd, NoArc, TombstoneStays, Held, TypeOK
<1>13. CASE Seal
  BY <1>13 DEF Seal, TombstoneStays, Held, TypeOK
<1>14. CASE ArchiveOk
  BY <1>14 DEF ArchiveOk, FetchOkOp, DeleteWork, ReleaseFetch, NoArc,
     TombstoneStays, Held, TypeOK
<1>15. CASE Feed
  BY <1>15 DEF Feed, TombstoneStays, Held, TypeOK
<1>16. CASE DrainFed
  BY <1>16 DEF DrainFed, TombstoneStays, Held, TypeOK
<1>17. ASSUME NEW S \in SUBSET Wheels, NEW bad \in SUBSET Contents, BulkClaim(S, bad)
       PROVE  TombstoneStays
  BY <1>17 DEF BulkClaim, Claimable, QueueState, ReadBlob, TombstoneStays,
     Held, TypeOK
<1>18. ASSUME NEW w \in Wheels, BulkRetry(w)
       PROVE  TombstoneStays
  BY <1>18 DEF BulkRetry, RetryOp, TombstoneStays, Held, TypeOK
<1>19. ASSUME NEW w \in Wheels, BulkSkipCorrupt(w)
       PROVE  TombstoneStays
  BY <1>19 DEF BulkSkipCorrupt, SkipOp, DeleteWork, TombstoneStays, Held,
     TypeOK
<1>20. ASSUME NEW f \in batch, ConvertOk(f)
       PROVE  TombstoneStays
  BY <1>20 DEF ConvertOk, Complete, ConvertOkOp, DeleteWork, Futures,
     TombstoneStays, Held, TypeOK
<1>21. ASSUME NEW f \in batch, ConvertRetry(f)
       PROVE  TombstoneStays
  BY <1>21 DEF ConvertRetry, Complete, RetryOp, Futures, TombstoneStays,
     Held, TypeOK
<1>22. ASSUME NEW f \in batch, NEW kind \in {"permanent", "versioned"}, ConvertSkip(f, kind)
       PROVE  TombstoneStays
  BY <1>22 DEF ConvertSkip, Complete, SkipOp, DeleteWork, Futures,
     TombstoneStays, Held, TypeOK
<1>23. ASSUME NEW sel \in Selectors, NEW S \in SUBSET Wheels, SelectChunk(sel, S)
       PROVE  TombstoneStays
  BY <1>23 DEF SelectChunk, Matching, Live, TombstoneStays, Held, TypeOK
<1>24. CASE ReprocessChunk
  BY <1>24 DEF ReprocessChunk, DeleteAllWork, RequeuedState, NoAdm,
     TombstoneStays, Held, TypeOK
<1>25. CASE UnquarantineChunk
  BY <1>25 DEF UnquarantineChunk, DeleteAllWork, NoAdm, TombstoneStays,
     Held, TypeOK
<1>26. CASE Crash
  BY <1>26 DEF Crash, TombstoneStays, Held, TypeOK
<1>27. ASSUME NEW C \in SUBSET Contents, RecoverChunk(C)
       PROVE  TombstoneStays
  BY <1>27 DEF RecoverChunk, RecoveredState, Orphans, Live, TombstoneStays,
     Held, TypeOK
<1>28. CASE UNCHANGED vars
  BY <1>28 DEF vars, TombstoneStays, Held, TypeOK
<1> QED
  BY <1>1, <1>2, <1>3, <1>4, <1>5, <1>6, <1>7, <1>8, <1>9, <1>10, <1>11,
     <1>12, <1>13, <1>14, <1>15, <1>16, <1>17, <1>18, <1>19, <1>20, <1>21,
     <1>22, <1>23, <1>24, <1>25, <1>26, <1>27, <1>28 DEF Next, IngestNext,
     FetchNext, ArchiveNext, ConvertNext, AdminNext


(* Every behaviour keeps the strengthened invariant.                       *)
LEMMA FsckInvariant == Spec => []FsckInv
<1>1. Init => FsckInv
  <2> SUFFICES ASSUME Init PROVE FsckInv
    OBVIOUS
  <2>1. PipelineInv
    BY InvInit
  <2>2. AbsentIsFree /\ PlanFits
    BY PipelineAssumption DEF Init, AbsentIsFree, PlanFits, Held, Idle, NoArc, NoUnread, NoAdm
  <2> QED
    BY <2>1, <2>2 DEF FsckInv
<1>2. PipelineInv /\ FsckInv /\ [Next]_vars /\ PipelineInv' => FsckInv'
  <2> SUFFICES ASSUME FsckInv, PipelineInv, [Next]_vars, PipelineInv' PROVE FsckInv'
    OBVIOUS
  <2>1. AbsentIsFree' /\ PlanFits'
    BY AbsentStep, PlanStep DEF FsckInv, PipelineInv
  <2> QED
    BY <2>1 DEF FsckInv
<1> QED
  BY <1>1, <1>2, PipelineInvariant, PTL DEF Spec

(* fsck rules 5, 6 and 7a match nothing in any reachable state.            *)
THEOREM FsckClean == Spec => []FsckHolds
<1>1. PipelineInv => FsckHolds
  <2> SUFFICES ASSUME PipelineInv PROVE FsckHolds
    OBVIOUS
  <2>1. SkippedWithoutSkipsRow = {}
    BY DEF PipelineInv, SkippedHasRow, SkippedWithoutSkipsRow, In
  <2>2. QuarantinedWithoutWork = {}
    BY DEF PipelineInv, QuarantinedHasWork, QuarantinedWithoutWork, In
  <2>3. DeletedWithoutDeletedAt = {}
    BY DEF PipelineInv, TombstoneDated, DeletedWithoutDeletedAt, In
  <2> QED
    BY <2>1, <2>2, <2>3 DEF FsckHolds
<1> QED
  BY <1>1, PipelineInvariant, PTL

(* A tombstone that nobody holds is not taken up again before its file is  *)
(* back on the page: no claim, admin selection, stale plan, recovery or    *)
(* late outcome of another wheel touches it.                               *)
THEOREM TombstoneKept == Spec => TombstoneRests
<1>1. FsckInv /\ [Next]_vars => [HeldGrows /\ TombstoneStays]_vars
  BY HeldGrowsStep, TombstoneStaysStep DEF FsckInv, PipelineInv
<1>2. [HeldGrows /\ TombstoneStays]_vars =>
        [\A w \in Wheels :
           state[w] = "DELETED" /\ ~Held(w) /\ (deleted[w] => deleted'[w]) =>
               state'[w] = "DELETED" /\ ~Held(w)']_vars
  BY DEF HeldGrows, TombstoneStays, Live
<1> QED
  BY <1>1, <1>2, FsckInvariant, PTL DEF Spec, TombstoneRests

-----------------------------------------------------------------------------
(* What holds until the page changes for the first time.                   *)

(* Nothing has happened before the first page.                             *)
Unpublished ==
    rev = 0 => /\ page = Unlisted /\ serial = 0 /\ ipc = "idle"
               /\ adm = NoAdm
               /\ \A x \in Wheels :
                     state[x] = "ABSENT" /\ ~deleted[x] /\ blob[x] = None /\ skip[x] = "none"

(* The diff of the only page inserts all its files, once.                  *)
PageOnce ==
    rev = 1 => /\ page # Unlisted /\ page \in [Wheels -> Entries \cup {None}]
               /\ ipc # "gone"
               /\ ipc # "idle" => seen = page /\ seenRev = 1 /\ serial = 0
               /\ ipc = "plan" =>
                     \A x \in Wheels : plan[x] = IF page[x] = None THEN "keep" ELSE NewWheel(x)
               /\ serial \in {0, 1}
               /\ serial = 0 => \A x \in Wheels : state[x] = "ABSENT"

(* A row says what the page says.                                          *)
RowOfPage ==
    rev = 1 =>
       \A x \in Wheels :
          /\ ~deleted[x]
          /\ state[x] = "ABSENT" => blob[x] = None
          /\ state[x] # "ABSENT" => page[x] # None /\ meta[x] = page[x].sha
          /\ state[x] = "NO_METADATA" => ~page[x].has_metadata

(* A sealed blob is only skipped for its bytes where bytes may rot.        *)
NoRot ==
    rev = 1 /\ ~Corruption =>
       \A x \in Wheels : skip[x] # "unversioned" /\ unread[x] # "corrupt"

Calm == rev = 1 /\ Selectors \subseteq Archived

(* A wheel that is past the fetch, or selected as such, has its blob; one  *)
(* that waits for the fetch, or is being fetched, has none.                *)
CalmRows ==
    Calm => /\ adm.cmd # "UNQUARANTINE"
            /\ arc.at = "added" => fpc[arc.w] = "queued"
            /\ \A x \in Wheels :
                  /\ state[x] \in Archived \/ unread[x] # "no" \/ x \in adm.ids => blob[x] # None
                  /\ state[x] = "NEED_METADATA" \/ fpc[x] # "idle" => blob[x] = None

(* What is on its way to a conversion is what the row names.               *)
BytesOfRow ==
    Calm => /\ arc.at = "committed" => arc.c = blob[arc.w]
            /\ \A i \in 1..Len(fed) : fed[i][2] = blob[fed[i][1]]
            /\ \A f \in batch : f[3] = blob[f[2]]

OnceInv ==
    Unpublished /\ PageOnce /\ RowOfPage /\ NoRot /\ CalmRows /\ BytesOfRow /\ ReadyIsCurrent

(* With no rows, nobody holds anything.                                    *)
LEMMA NobodyHolds ==
    ASSUME TypeOK, AbsentIsFree, \A x \in Wheels : state[x] = "ABSENT"
    PROVE  /\ \A x \in Wheels : fpc[x] = "idle" /\ unread[x] = "no"
           /\ arc = NoArc /\ Len(fed) = 0 /\ batch = {} /\ adm.ids = {}
<1>1. \A x \in Wheels : ~Held(x)
  BY DEF AbsentIsFree
<1>2. \A x \in Wheels : fpc[x] = "idle" /\ unread[x] = "no"
  BY <1>1 DEF Held
<1>3. arc = NoArc
  BY <1>1 DEF Held, TypeOK
<1>4. adm.ids = {}
  BY <1>1 DEF Held, TypeOK
<1>5. batch = {}
  <2> SUFFICES ASSUME NEW f \in batch PROVE FALSE
    OBVIOUS
  <2>1. f[2] \in Wheels
    BY DEF TypeOK, Futures
  <2> QED
    BY <1>1, <2>1 DEF Held
<1>6. Len(fed) = 0
  <2> SUFFICES ASSUME Len(fed) # 0 PROVE FALSE
    OBVIOUS
  <2>1. 1 \in 1..Len(fed) /\ fed[1][1] \in Wheels
    BY DEF TypeOK
  <2> QED
    BY <1>1, <2>1 DEF Held
<1> QED
  BY <1>2, <1>3, <1>4, <1>5, <1>6

(* Before the first page nobody holds a wheel and so nothing is written.   *)
LEMMA UnpublishedStep ==
    ASSUME TypeOK, AbsentIsFree, Unpublished, [Next]_vars
    PROVE  Unpublished'
<1> USE DEF remote, rows, work, db, ingest, fetch, conv, admin
<1>1. CASE Publish
  BY <1>1 DEF Publish, Unpublished, AbsentIsFree, Held, TypeOK
<1>2. CASE FetchPage
  BY <1>2 DEF FetchPage, Unpublished, AbsentIsFree, Held, TypeOK
<1>3. CASE FetchPageGone
  BY <1>3 DEF FetchPageGone, Unpublished, AbsentIsFree, Held, TypeOK
<1>4. CASE ReadRows
  BY <1>4 DEF ReadRows, PlanFor, NewWheel, DiffCommon, Unpublished,
     AbsentIsFree, Held, TypeOK
<1>5. CASE ApplyPlan
  BY <1>5 DEF ApplyPlan, PlannedState, InitialState, PlannedBlob,
     ClearsBlob, Unpublished, AbsentIsFree, Held, TypeOK
<1>6. CASE ApplyGone
  BY <1>6 DEF ApplyGone, Vanishing, Unpublished, AbsentIsFree, Held, TypeOK
<1>7. ASSUME NEW S \in SUBSET Wheels, ClaimFetch(S)
       PROVE  Unpublished'
  BY <1>7 DEF ClaimFetch, Claimable, QueueState, Unpublished, AbsentIsFree,
     Held, TypeOK
<1>8. CASE LoadFetch
  BY <1>8 DEF LoadFetch, Unpublished, AbsentIsFree, Held, TypeOK
<1>9. ASSUME NEW w \in Wheels, NEW c \in Contents, FetchOk(w, c)
       PROVE  Unpublished'
  BY <1>9 DEF FetchOk, Unpublished, AbsentIsFree, Held, TypeOK
<1>10. ASSUME NEW w \in Wheels, FetchRetry(w)
       PROVE  Unpublished'
  BY <1>10 DEF FetchRetry, ReleaseFetch, RetryOp, Unpublished, AbsentIsFree,
     Held, TypeOK
<1>11. ASSUME NEW w \in Wheels, FetchRateLimited(w)
       PROVE  Unpublished'
  BY <1>11 DEF FetchRateLimited, ReleaseFetch, Unpublished, AbsentIsFree,
     Held, TypeOK
<1>12. ASSUME NEW w \in Wheels, ArchiveAdd(w)
       PROVE  Unpublished'
  BY <1>12 DEF ArchiveAdd, NoArc, Unpublished, AbsentIsFree, Held, TypeOK
<1>13. CASE Seal
  BY <1>13 DEF Seal, Unpublished, AbsentIsFree, Held, TypeOK
<1>14. CASE ArchiveOk
  BY <1>14 DEF ArchiveOk, FetchOkOp, DeleteWork, ReleaseFetch, NoArc,
     Unpublished, AbsentIsFree, Held, TypeOK
<1>15. CASE Feed
  BY <1>15 DEF Feed, Unpublished, AbsentIsFree, Held, TypeOK
<1>16. CASE DrainFed
  BY <1>16 DEF DrainFed, Unpublished, AbsentIsFree, Held, TypeOK
<1>17. ASSUME NEW S \in SUBSET Wheels, NEW bad \in SUBSET Contents, BulkClaim(S, bad)
       PROVE  Unpublished'
  BY <1>17 DEF BulkClaim, Claimable, QueueState, ReadBlob, Unpublished,
     AbsentIsFree, Held, TypeOK
<1>18. ASSUME NEW w \in Wheels, BulkRetry(w)
       PROVE  Unpublished'
  BY <1>18 DEF BulkRetry, RetryOp, Unpublished, AbsentIsFree, Held, TypeOK
<1>19. ASSUME NEW w \in Wheels, BulkSkipCorrupt(w)
       PROVE  Unpublished'
  BY <1>19 DEF BulkSkipCorrupt, SkipOp, DeleteWork, Unpublished,
     AbsentIsFree, Held, TypeOK
<1>20. ASSUME NEW f \in batch, ConvertOk(f)
       PROVE  Unpublished'
  BY <1>20 DEF ConvertOk, Complete, ConvertOkOp, DeleteWork, Futures,
     Unpublished, AbsentIsFree, Held, TypeOK
<1>21. ASSUME NEW f \in batch, ConvertRetry(f)
       PROVE  Unpublished'
  BY <1>21 DEF ConvertRetry, Complete, RetryOp, Futures, Unpublished,
     AbsentIsFree, Held, TypeOK
<1>22. ASSUME NEW f \in batch, NEW kind \in {"permanent", "versioned"}, ConvertSkip(f, kind)
       PROVE  Unpublished'
  BY <1>22 DEF ConvertSkip, Complete, SkipOp, DeleteWork, Futures,
     Unpublished, AbsentIsFree, Held, TypeOK
<1>23. ASSUME NEW sel \in Selectors, NEW S \in SUBSET Wheels, SelectChunk(sel, S)
       PROVE  Unpublished'
  BY <1>23 DEF SelectChunk, Matching, Live, Unpublished, AbsentIsFree, Held,
     TypeOK
<1>24. CASE ReprocessChunk
  BY <1>24 DEF ReprocessChunk, DeleteAllWork, RequeuedState, NoAdm,
     Unpublished, AbsentIsFree, Held, TypeOK
<1>25. CASE UnquarantineChunk
  BY <1>25 DEF UnquarantineChunk, DeleteAllWork, NoAdm, Unpublished,
     AbsentIsFree, Held, TypeOK
<1>26. CASE Crash
  BY <1>26 DEF Crash, Unpublished, AbsentIsFree, Held, TypeOK
<1>27. ASSUME NEW C \in SUBSET Contents, RecoverChunk(C)
       PROVE  Unpublished'
  BY <1>27 DEF RecoverChunk, RecoveredState, Orphans, Live, Unpublished,
     AbsentIsFree, Held, TypeOK
<1>28. CASE UNCHANGED vars
  BY <1>28 DEF vars, Unpublished, AbsentIsFree, Held, TypeOK
<1> QED
  BY <1>1, <1>2, <1>3, <1>4, <1>5, <1>6, <1>7, <1>8, <1>9, <1>10, <1>11,
     <1>12, <1>13, <1>14, <1>15, <1>16, <1>17, <1>18, <1>19, <1>20, <1>21,
     <1>22, <1>23, <1>24, <1>25, <1>26, <1>27, <1>28 DEF Next, IngestNext,
     FetchNext, ArchiveNext, ConvertNext, AdminNext


(* serial keeps the page from being diffed a second time.                  *)
LEMMA PageOnceStep ==
    ASSUME TypeOK, AbsentIsFree, Unpublished, PageOnce, [Next]_vars
    PROVE  PageOnce'
<1> USE DEF remote, rows, work, db, ingest, fetch, conv, admin
<1>1. CASE Publish
  BY <1>1 DEF Publish, Unpublished, PageOnce, NewWheel, AbsentIsFree, Held,
     TypeOK
<1>2. CASE FetchPage
  BY <1>2 DEF FetchPage, Unpublished, PageOnce, NewWheel, AbsentIsFree,
     Held, TypeOK
<1>3. CASE FetchPageGone
  BY <1>3 DEF FetchPageGone, Unpublished, PageOnce, NewWheel, AbsentIsFree,
     Held, TypeOK
<1>4. CASE ReadRows
  BY <1>4 DEF ReadRows, PlanFor, NewWheel, DiffCommon, Unpublished,
     PageOnce, AbsentIsFree, Held, TypeOK
<1>5. CASE ApplyPlan
  BY <1>5 DEF ApplyPlan, PlannedState, InitialState, Unpublished, PageOnce,
     NewWheel, AbsentIsFree, Held, TypeOK
<1>6. CASE ApplyGone
  BY <1>6 DEF ApplyGone, Vanishing, Unpublished, PageOnce, NewWheel,
     AbsentIsFree, Held, TypeOK
<1>7. ASSUME NEW S \in SUBSET Wheels, ClaimFetch(S)
       PROVE  PageOnce'
  BY <1>7 DEF ClaimFetch, Claimable, QueueState, Unpublished, PageOnce,
     NewWheel, AbsentIsFree, Held, TypeOK
<1>8. CASE LoadFetch
  BY <1>8 DEF LoadFetch, Unpublished, PageOnce, NewWheel, AbsentIsFree,
     Held, TypeOK
<1>9. ASSUME NEW w \in Wheels, NEW c \in Contents, FetchOk(w, c)
       PROVE  PageOnce'
  BY <1>9 DEF FetchOk, Unpublished, PageOnce, NewWheel, AbsentIsFree, Held,
     TypeOK
<1>10. ASSUME NEW w \in Wheels, FetchRetry(w)
       PROVE  PageOnce'
  BY <1>10 DEF FetchRetry, ReleaseFetch, RetryOp, Unpublished, PageOnce,
     NewWheel, AbsentIsFree, Held, TypeOK
<1>11. ASSUME NEW w \in Wheels, FetchRateLimited(w)
       PROVE  PageOnce'
  BY <1>11 DEF FetchRateLimited, ReleaseFetch, Unpublished, PageOnce,
     NewWheel, AbsentIsFree, Held, TypeOK
<1>12. ASSUME NEW w \in Wheels, ArchiveAdd(w)
       PROVE  PageOnce'
  BY <1>12 DEF ArchiveAdd, NoArc, Unpublished, PageOnce, NewWheel,
     AbsentIsFree, Held, TypeOK
<1>13. CASE Seal
  BY <1>13 DEF Seal, Unpublished, PageOnce, NewWheel, AbsentIsFree, Held,
     TypeOK
<1>14. CASE ArchiveOk
  BY <1>14 DEF ArchiveOk, FetchOkOp, DeleteWork, ReleaseFetch, NoArc,
     Unpublished, PageOnce, NewWheel, AbsentIsFree, Held, TypeOK
<1>15. CASE Feed
  BY <1>15 DEF Feed, Unpublished, PageOnce, NewWheel, AbsentIsFree, Held,
     TypeOK
<1>16. CASE DrainFed
  BY <1>16 DEF DrainFed, Unpublished, PageOnce, NewWheel, AbsentIsFree,
     Held, TypeOK
<1>17. ASSUME NEW S \in SUBSET Wheels, NEW bad \in SUBSET Contents, BulkClaim(S, bad)
       PROVE  PageOnce'
  BY <1>17 DEF BulkClaim, Claimable, QueueState, ReadBlob, Unpublished,
     PageOnce, NewWheel, AbsentIsFree, Held, TypeOK
<1>18. ASSUME NEW w \in Wheels, BulkRetry(w)
       PROVE  PageOnce'
  BY <1>18 DEF BulkRetry, RetryOp, Unpublished, PageOnce, NewWheel,
     AbsentIsFree, Held, TypeOK
<1>19. ASSUME NEW w \in Wheels, BulkSkipCorrupt(w)
       PROVE  PageOnce'
  BY <1>19 DEF BulkSkipCorrupt, SkipOp, DeleteWork, Unpublished, PageOnce,
     NewWheel, AbsentIsFree, Held, TypeOK
<1>20. ASSUME NEW f \in batch, ConvertOk(f)
       PROVE  PageOnce'
  BY <1>20 DEF ConvertOk, Complete, ConvertOkOp, DeleteWork, Futures,
     Unpublished, PageOnce, NewWheel, AbsentIsFree, Held, TypeOK
<1>21. ASSUME NEW f \in batch, ConvertRetry(f)
       PROVE  PageOnce'
  BY <1>21 DEF ConvertRetry, Complete, RetryOp, Futures, Unpublished,
     PageOnce, NewWheel, AbsentIsFree, Held, TypeOK
<1>22. ASSUME NEW f \in batch, NEW kind \in {"permanent", "versioned"}, ConvertSkip(f, kind)
       PROVE  PageOnce'
  BY <1>22 DEF ConvertSkip, Complete, SkipOp, DeleteWork, Futures,
     Unpublished, PageOnce, NewWheel, AbsentIsFree, Held, TypeOK
<1>23. ASSUME NEW sel \in Selectors, NEW S \in SUBSET Wheels, SelectChunk(sel, S)
       PROVE  PageOnce'
  BY <1>23 DEF SelectChunk, Matching, Live, Unpublished, PageOnce, NewWheel,
     AbsentIsFree, Held, TypeOK
<1>24. CASE ReprocessChunk
  BY <1>24 DEF ReprocessChunk, DeleteAllWork, RequeuedState, NoAdm,
     Unpublished, PageOnce, NewWheel, AbsentIsFree, Held, TypeOK
<1>25. CASE UnquarantineChunk
  BY <1>25 DEF UnquarantineChunk, DeleteAllWork, NoAdm, Unpublished,
     PageOnce, NewWheel, AbsentIsFree, Held, TypeOK
<1>26. CASE Crash
  BY <1>26 DEF Crash, Unpublished, PageOnce, NewWheel, AbsentIsFree, Held,
     TypeOK
<1>27. ASSUME NEW C \in SUBSET Contents, RecoverChunk(C)
       PROVE  PageOnce'
  BY <1>27 DEF RecoverChunk, RecoveredState, Orphans, Live, Unpublished,
     PageOnce, NewWheel, AbsentIsFree, Held, TypeOK
<1>28. CASE UNCHANGED vars
  BY <1>28 DEF vars, Unpublished, PageOnce, NewWheel, AbsentIsFree, Held,
     TypeOK
<1> QED
  BY <1>1, <1>2, <1>3, <1>4, <1>5, <1>6, <1>7, <1>8, <1>9, <1>10, <1>11,
     <1>12, <1>13, <1>14, <1>15, <1>16, <1>17, <1>18, <1>19, <1>20, <1>21,
     <1>22, <1>23, <1>24, <1>25, <1>26, <1>27, <1>28 DEF Next, IngestNext,
     FetchNext, ArchiveNext, ConvertNext, AdminNext


(* A row is what the diff of the only page inserted, and ingest does not   *)
(* touch it again.                                                         *)
LEMMA RowOfPageStep ==
    ASSUME TypeOK, TombstoneDated, AbsentIsFree, Unpublished, PageOnce,
           RowOfPage, [Next]_vars
    PROVE  RowOfPage'
<1> USE DEF remote, rows, work, db, ingest, fetch, conv, admin
<1>1. CASE Publish
  BY <1>1 DEF Publish, Unpublished, RowOfPage, AbsentIsFree, Held, TypeOK
<1>2. CASE FetchPage
  BY <1>2 DEF FetchPage, RowOfPage, AbsentIsFree, Held, TypeOK
<1>3. CASE FetchPageGone
  BY <1>3 DEF FetchPageGone, RowOfPage, AbsentIsFree, Held, TypeOK
<1>4. CASE ReadRows
  BY <1>4 DEF ReadRows, PlanFor, NewWheel, DiffCommon, RowOfPage,
     AbsentIsFree, Held, TypeOK
<1>5. CASE ApplyPlan
  BY <1>5 DEF ApplyPlan, PlannedState, InitialState, PlannedBlob,
     ClearsBlob, NewWheel, PageOnce, RowOfPage, AbsentIsFree, Held, TypeOK
<1>6. CASE ApplyGone
  BY <1>6 DEF ApplyGone, Vanishing, PageOnce, RowOfPage, AbsentIsFree, Held,
     TypeOK
<1>7. ASSUME NEW S \in SUBSET Wheels, ClaimFetch(S)
       PROVE  RowOfPage'
  BY <1>7 DEF ClaimFetch, Claimable, QueueState, RowOfPage, AbsentIsFree,
     Held, TypeOK
<1>8. CASE LoadFetch
  BY <1>8 DEF LoadFetch, RowOfPage, AbsentIsFree, Held, TypeOK
<1>9. ASSUME NEW w \in Wheels, NEW c \in Contents, FetchOk(w, c)
       PROVE  RowOfPage'
  BY <1>9 DEF FetchOk, RowOfPage, AbsentIsFree, Held, TypeOK
<1>10. ASSUME NEW w \in Wheels, FetchRetry(w)
       PROVE  RowOfPage'
  BY <1>10 DEF FetchRetry, ReleaseFetch, RetryOp, RowOfPage, AbsentIsFree,
     Held, TypeOK
<1>11. ASSUME NEW w \in Wheels, FetchRateLimited(w)
       PROVE  RowOfPage'
  BY <1>11 DEF FetchRateLimited, ReleaseFetch, RowOfPage, AbsentIsFree,
     Held, TypeOK
<1>12. ASSUME NEW w \in Wheels, ArchiveAdd(w)
       PROVE  RowOfPage'
  BY <1>12 DEF ArchiveAdd, NoArc, RowOfPage, AbsentIsFree, Held, TypeOK
<1>13. CASE Seal
  BY <1>13 DEF Seal, RowOfPage, AbsentIsFree, Held, TypeOK
<1>14. CASE ArchiveOk
  BY <1>14 DEF ArchiveOk, FetchOkOp, DeleteWork, ReleaseFetch, NoArc,
     RowOfPage, AbsentIsFree, Held, TypeOK
<1>15. CASE Feed
  BY <1>15 DEF Feed, RowOfPage, AbsentIsFree, Held, TypeOK
<1>16. CASE DrainFed
  BY <1>16 DEF DrainFed, RowOfPage, AbsentIsFree, Held, TypeOK
<1>17. ASSUME NEW S \in SUBSET Wheels, NEW bad \in SUBSET Contents, BulkClaim(S, bad)
       PROVE  RowOfPage'
  BY <1>17 DEF BulkClaim, Claimable, QueueState, ReadBlob, RowOfPage,
     AbsentIsFree, Held, TypeOK
<1>18. ASSUME NEW w \in Wheels, BulkRetry(w)
       PROVE  RowOfPage'
  BY <1>18 DEF BulkRetry, RetryOp, RowOfPage, AbsentIsFree, Held, TypeOK
<1>19. ASSUME NEW w \in Wheels, BulkSkipCorrupt(w)
       PROVE  RowOfPage'
  BY <1>19 DEF BulkSkipCorrupt, SkipOp, DeleteWork, RowOfPage, AbsentIsFree,
     Held, TypeOK
<1>20. ASSUME NEW f \in batch, ConvertOk(f)
       PROVE  RowOfPage'
  BY <1>20 DEF ConvertOk, Complete, ConvertOkOp, DeleteWork, Futures,
     RowOfPage, AbsentIsFree, Held, TypeOK
<1>21. ASSUME NEW f \in batch, ConvertRetry(f)
       PROVE  RowOfPage'
  BY <1>21 DEF ConvertRetry, Complete, RetryOp, Futures, RowOfPage,
     AbsentIsFree, Held, TypeOK
<1>22. ASSUME NEW f \in batch, NEW kind \in {"permanent", "versioned"}, ConvertSkip(f, kind)
       PROVE  RowOfPage'
  BY <1>22 DEF ConvertSkip, Complete, SkipOp, DeleteWork, Futures,
     RowOfPage, AbsentIsFree, Held, TypeOK
<1>23. ASSUME NEW sel \in Selectors, NEW S \in SUBSET Wheels, SelectChunk(sel, S)
       PROVE  RowOfPage'
  BY <1>23 DEF SelectChunk, Matching, Live, RowOfPage, AbsentIsFree, Held,
     TypeOK
<1>24. CASE ReprocessChunk
  BY <1>24 DEF ReprocessChunk, DeleteAllWork, RequeuedState, NoAdm,
     RowOfPage, AbsentIsFree, Held, TypeOK
<1>25. CASE UnquarantineChunk
  BY <1>25 DEF UnquarantineChunk, DeleteAllWork, NoAdm, RowOfPage,
     AbsentIsFree, Held, TypeOK
<1>26. CASE Crash
  BY <1>26 DEF Crash, RowOfPage, AbsentIsFree, Held, TypeOK
<1>27. ASSUME NEW C \in SUBSET Contents, RecoverChunk(C)
       PROVE  RowOfPage'
  BY <1>27 DEF RecoverChunk, RecoveredState, Orphans, Live, RowOfPage,
     AbsentIsFree, Held, TypeOK
<1>28. CASE UNCHANGED vars
  BY <1>28 DEF vars, RowOfPage, AbsentIsFree, Held, TypeOK
<1> QED
  BY <1>1, <1>2, <1>3, <1>4, <1>5, <1>6, <1>7, <1>8, <1>9, <1>10, <1>11,
     <1>12, <1>13, <1>14, <1>15, <1>16, <1>17, <1>18, <1>19, <1>20, <1>21,
     <1>22, <1>23, <1>24, <1>25, <1>26, <1>27, <1>28 DEF Next, IngestNext,
     FetchNext, ArchiveNext, ConvertNext, AdminNext


(* Only a corrupt blob is skipped without a version.                       *)
LEMMA NoRotStep ==
    ASSUME TypeOK, AbsentIsFree, Unpublished, NoRot, [Next]_vars
    PROVE  NoRot'
<1> USE DEF remote, rows, work, db, ingest, fetch, conv, admin
<1>1. CASE Publish
  BY <1>1, NobodyHolds DEF Publish, Unpublished, NoRot, TypeOK
<1>2. CASE FetchPage
  BY <1>2 DEF FetchPage, NoRot, TypeOK
<1>3. CASE FetchPageGone
  BY <1>3 DEF FetchPageGone, NoRot, TypeOK
<1>4. CASE ReadRows
  BY <1>4 DEF ReadRows, PlanFor, NewWheel, DiffCommon, NoRot, TypeOK
<1>5. CASE ApplyPlan
  BY <1>5 DEF ApplyPlan, PlannedState, InitialState, NoRot, TypeOK
<1>6. CASE ApplyGone
  BY <1>6 DEF ApplyGone, Vanishing, NoRot, TypeOK
<1>7. ASSUME NEW S \in SUBSET Wheels, ClaimFetch(S)
       PROVE  NoRot'
  BY <1>7 DEF ClaimFetch, Claimable, QueueState, NoRot, TypeOK
<1>8. CASE LoadFetch
  BY <1>8 DEF LoadFetch, NoRot, TypeOK
<1>9. ASSUME NEW w \in Wheels, NEW c \in Contents, FetchOk(w, c)
       PROVE  NoRot'
  BY <1>9 DEF FetchOk, NoRot, TypeOK
<1>10. ASSUME NEW w \in Wheels, FetchRetry(w)
       PROVE  NoRot'
  BY <1>10 DEF FetchRetry, ReleaseFetch, RetryOp, NoRot, TypeOK
<1>11. ASSUME NEW w \in Wheels, FetchRateLimited(w)
       PROVE  NoRot'
  BY <1>11 DEF FetchRateLimited, ReleaseFetch, NoRot, TypeOK
<1>12. ASSUME NEW w \in Wheels, ArchiveAdd(w)
       PROVE  NoRot'
  BY <1>12 DEF ArchiveAdd, NoArc, NoRot, TypeOK
<1>13. CASE Seal
  BY <1>13 DEF Seal, NoRot, TypeOK
<1>14. CASE ArchiveOk
  BY <1>14 DEF ArchiveOk, FetchOkOp, DeleteWork, ReleaseFetch, NoArc, NoRot,
     TypeOK
<1>15. CASE Feed
  BY <1>15 DEF Feed, NoRot, TypeOK
<1>16. CASE DrainFed
  BY <1>16 DEF DrainFed, NoRot, TypeOK
<1>17. ASSUME NEW S \in SUBSET Wheels, NEW bad \in SUBSET Contents, BulkClaim(S, bad)
       PROVE  NoRot'
  BY <1>17 DEF BulkClaim, Claimable, QueueState, ReadBlob, NoRot, TypeOK
<1>18. ASSUME NEW w \in Wheels, BulkRetry(w)
       PROVE  NoRot'
  BY <1>18 DEF BulkRetry, RetryOp, NoRot, TypeOK
<1>19. ASSUME NEW w \in Wheels, BulkSkipCorrupt(w)
       PROVE  NoRot'
  BY <1>19 DEF BulkSkipCorrupt, SkipOp, DeleteWork, NoRot, TypeOK
<1>20. ASSUME NEW f \in batch, ConvertOk(f)
       PROVE  NoRot'
  BY <1>20 DEF ConvertOk, Complete, ConvertOkOp, DeleteWork, Futures, NoRot,
     TypeOK
<1>21. ASSUME NEW f \in batch, ConvertRetry(f)
       PROVE  NoRot'
  BY <1>21 DEF ConvertRetry, Complete, RetryOp, Futures, NoRot, TypeOK
<1>22. ASSUME NEW f \in batch, NEW kind \in {"permanent", "versioned"}, ConvertSkip(f, kind)
       PROVE  NoRot'
  BY <1>22 DEF ConvertSkip, Complete, SkipOp, DeleteWork, Futures, NoRot,
     TypeOK
<1>23. ASSUME NEW sel \in Selectors, NEW S \in SUBSET Wheels, SelectChunk(sel, S)
       PROVE  NoRot'
  BY <1>23 DEF SelectChunk, Matching, Live, NoRot, TypeOK
<1>24. CASE ReprocessChunk
  BY <1>24 DEF ReprocessChunk, DeleteAllWork, RequeuedState, NoAdm, NoRot,
     TypeOK
<1>25. CASE UnquarantineChunk
  BY <1>25 DEF UnquarantineChunk, DeleteAllWork, NoAdm, NoRot, TypeOK
<1>26. CASE Crash
  BY <1>26 DEF Crash, NoUnread, NoRot, TypeOK
<1>27. ASSUME NEW C \in SUBSET Contents, RecoverChunk(C)
       PROVE  NoRot'
  BY <1>27 DEF RecoverChunk, RecoveredState, Orphans, Live, NoRot, TypeOK
<1>28. CASE UNCHANGED vars
  BY <1>28 DEF vars, NoRot, TypeOK
<1> QED
  BY <1>1, <1>2, <1>3, <1>4, <1>5, <1>6, <1>7, <1>8, <1>9, <1>10, <1>11,
     <1>12, <1>13, <1>14, <1>15, <1>16, <1>17, <1>18, <1>19, <1>20, <1>21,
     <1>22, <1>23, <1>24, <1>25, <1>26, <1>27, <1>28 DEF Next, IngestNext,
     FetchNext, ArchiveNext, ConvertNext, AdminNext


(* No op gives a wheel a state its blob does not fit, and no fetch goes on *)
(* for a wheel whose blob is linked.                                       *)
LEMMA CalmRowsStep ==
    ASSUME TypeOK, QuietInRecovery, AbsentIsFree, Unpublished, PageOnce,
           CalmRows, BytesOfRow, [Next]_vars
    PROVE  CalmRows'
<1> USE DEF remote, rows, work, db, ingest, fetch, conv, admin
<1>1. CASE Publish
  <2>1. SUFFICES ASSUME rev' = 1 PROVE CalmRows'
    BY DEF CalmRows, Calm
  <2>2. \A x \in Wheels : state[x] = "ABSENT" /\ blob[x] = None
    BY <1>1, <2>1 DEF Publish, Unpublished, TypeOK
  <2>3. adm = NoAdm
    BY <1>1, <2>1 DEF Publish, Unpublished, TypeOK
  <2>4. arc = NoArc /\ \A x \in Wheels : fpc[x] = "idle" /\ unread[x] = "no"
    BY <2>2, NobodyHolds
  <2> QED
    BY <1>1, <2>2, <2>3, <2>4, EntryAssumption
    DEF Publish, CalmRows, NoAdm, NoArc, Archived, SelectorType
<1>2. CASE FetchPage
  BY <1>2 DEF FetchPage, CalmRows, Calm, Archived, TypeOK
<1>3. CASE FetchPageGone
  BY <1>3 DEF FetchPageGone, CalmRows, Calm, Archived, TypeOK
<1>4. CASE ReadRows
  BY <1>4 DEF ReadRows, PlanFor, NewWheel, DiffCommon, CalmRows, Calm,
     Archived, TypeOK
<1>5. CASE ApplyPlan
  <2>1. SUFFICES ASSUME rev = 1 PROVE CalmRows'
    BY <1>5 DEF ApplyPlan, CalmRows, Calm
  <2>2. \A x \in Wheels : state[x] = "ABSENT"
    BY <1>5, <2>1 DEF ApplyPlan, PageOnce, TypeOK
  <2>3. /\ \A x \in Wheels : fpc[x] = "idle" /\ unread[x] = "no"
        /\ arc = NoArc /\ adm.ids = {}
    BY <2>2, NobodyHolds
  <2>4. \A x \in Wheels :
           plan[x] = "keep" \/ plan[x] = "insert" \/ (plan[x] = "link" /\ unlinked[x] # None)
    BY <1>5, <2>1 DEF ApplyPlan, PageOnce, NewWheel
  <2>5. \A x \in Wheels : /\ state'[x] \in Archived => blob'[x] # None
                          /\ state'[x] = "NEED_METADATA" => blob'[x] = None
    BY <1>5, <2>2, <2>4
    DEF ApplyPlan, PlannedState, PlannedBlob, ClearsBlob, InitialState, Archived
  <2> QED
    BY <1>5, <2>3, <2>5 DEF ApplyPlan, CalmRows, Calm, NoArc
<1>6. CASE ApplyGone
  BY <1>6 DEF ApplyGone, Vanishing, PageOnce, CalmRows, Calm, Archived,
     TypeOK
<1>7. ASSUME NEW S \in SUBSET Wheels, ClaimFetch(S)
       PROVE  CalmRows'
  BY <1>7 DEF ClaimFetch, Claimable, QueueState, InFlight, NoArc, CalmRows,
     Calm, Archived, TypeOK
<1>8. CASE LoadFetch
  BY <1>8 DEF LoadFetch, NoArc, CalmRows, Calm, Archived, TypeOK
<1>9. ASSUME NEW w \in Wheels, NEW c \in Contents, FetchOk(w, c)
       PROVE  CalmRows'
  BY <1>9 DEF FetchOk, CalmRows, Calm, Archived, TypeOK
<1>10. ASSUME NEW w \in Wheels, FetchRetry(w)
       PROVE  CalmRows'
  BY <1>10 DEF FetchRetry, ReleaseFetch, RetryOp, CalmRows, Calm, Archived,
     TypeOK
<1>11. ASSUME NEW w \in Wheels, FetchRateLimited(w)
       PROVE  CalmRows'
  BY <1>11 DEF FetchRateLimited, ReleaseFetch, CalmRows, Calm, Archived,
     TypeOK
<1>12. ASSUME NEW w \in Wheels, ArchiveAdd(w)
       PROVE  CalmRows'
  BY <1>12 DEF ArchiveAdd, NoArc, CalmRows, Calm, Archived, TypeOK
<1>13. CASE Seal
  BY <1>13 DEF Seal, CalmRows, Calm, Archived, TypeOK
<1>14. CASE ArchiveOk
  BY <1>14, PipelineAssumption DEF ArchiveOk, FetchOkOp, DeleteWork,
     ReleaseFetch, NoArc, CalmRows, Calm, Archived, TypeOK
<1>15. CASE Feed
  BY <1>15 DEF Feed, NoArc, CalmRows, Calm, Archived, TypeOK
<1>16. CASE DrainFed
  BY <1>16 DEF DrainFed, CalmRows, Calm, Archived, TypeOK
<1>17. ASSUME NEW S \in SUBSET Wheels, NEW bad \in SUBSET Contents, BulkClaim(S, bad)
       PROVE  CalmRows'
  BY <1>17 DEF BulkClaim, Claimable, QueueState, ReadBlob, CalmRows, Calm,
     Archived, TypeOK
<1>18. ASSUME NEW w \in Wheels, BulkRetry(w)
       PROVE  CalmRows'
  BY <1>18 DEF BulkRetry, RetryOp, CalmRows, Calm, Archived, TypeOK
<1>19. ASSUME NEW w \in Wheels, BulkSkipCorrupt(w)
       PROVE  CalmRows'
  BY <1>19 DEF BulkSkipCorrupt, SkipOp, DeleteWork, CalmRows, Calm,
     Archived, TypeOK
<1>20. ASSUME NEW f \in batch, ConvertOk(f)
       PROVE  CalmRows'
  BY <1>20, PipelineAssumption DEF ConvertOk, Complete, ConvertOkOp,
     DeleteWork, Futures, BytesOfRow, CalmRows, Calm, Archived, TypeOK
<1>21. ASSUME NEW f \in batch, ConvertRetry(f)
       PROVE  CalmRows'
  BY <1>21 DEF ConvertRetry, Complete, RetryOp, Futures, CalmRows, Calm,
     Archived, TypeOK
<1>22. ASSUME NEW f \in batch, NEW kind \in {"permanent", "versioned"}, ConvertSkip(f, kind)
       PROVE  CalmRows'
  BY <1>22, PipelineAssumption DEF ConvertSkip, Complete, SkipOp,
     DeleteWork, Futures, BytesOfRow, CalmRows, Calm, Archived, TypeOK
<1>23. ASSUME NEW sel \in Selectors, NEW S \in SUBSET Wheels, SelectChunk(sel, S)
       PROVE  CalmRows'
  <2>1. SUFFICES ASSUME rev = 1, Selectors \subseteq Archived PROVE CalmRows'
    BY <1>23 DEF SelectChunk, CalmRows, Calm
  <2>2. sel \in Archived /\ sel # "UNQUARANTINE"
    BY <2>1 DEF Archived
  <2>3. \A x \in S : state[x] = sel
    BY <1>23, <2>2 DEF SelectChunk, Matching, Archived
  <2>4. adm'.cmd = sel /\ adm'.ids = S
    BY <1>23 DEF SelectChunk
  <2> QED
    BY <1>23, <2>1, <2>2, <2>3, <2>4 DEF SelectChunk, CalmRows, Calm
<1>24. CASE ReprocessChunk
  BY <1>24, EntryAssumption DEF ReprocessChunk, DeleteAllWork,
     RequeuedState, NoAdm, SelectorType, CalmRows, Calm, Archived, TypeOK
<1>25. CASE UnquarantineChunk
  BY <1>25, EntryAssumption DEF UnquarantineChunk, DeleteAllWork, NoAdm,
     SelectorType, CalmRows, Calm, Archived, TypeOK
<1>26. CASE Crash
  BY <1>26, EntryAssumption DEF Crash, NoAdm, NoUnread, Idle, NoArc,
     SelectorType, CalmRows, Calm, Archived, TypeOK
<1>27. ASSUME NEW C \in SUBSET Contents, RecoverChunk(C)
       PROVE  CalmRows'
  BY <1>27 DEF RecoverChunk, RecoveredState, Orphans, Live, QuietInRecovery,
     Running, NoAdm, NoUnread, Idle, NoArc, CalmRows, Calm, Archived, TypeOK
<1>28. CASE UNCHANGED vars
  BY <1>28 DEF vars, CalmRows, Calm, Archived, TypeOK
<1> QED
  BY <1>1, <1>2, <1>3, <1>4, <1>5, <1>6, <1>7, <1>8, <1>9, <1>10, <1>11,
     <1>12, <1>13, <1>14, <1>15, <1>16, <1>17, <1>18, <1>19, <1>20, <1>21,
     <1>22, <1>23, <1>24, <1>25, <1>26, <1>27, <1>28 DEF Next, IngestNext,
     FetchNext, ArchiveNext, ConvertNext, AdminNext


(* A blob is linked to a row that has none, so the bytes handed on before  *)
(* stay those of their rows.                                               *)
LEMMA BytesOfRowStep ==
    ASSUME TypeOK, QuietInRecovery, AbsentIsFree, Unpublished, PageOnce,
           CalmRows, BytesOfRow, [Next]_vars
    PROVE  BytesOfRow'
<1> USE DEF remote, rows, work, db, ingest, fetch, conv, admin
<1>1. CASE Publish
  <2>1. SUFFICES ASSUME rev' = 1 PROVE BytesOfRow'
    BY DEF BytesOfRow, Calm
  <2>2. \A x \in Wheels : state[x] = "ABSENT"
    BY <1>1, <2>1 DEF Publish, Unpublished, TypeOK
  <2>3. arc' = NoArc /\ Len(fed') = 0 /\ batch' = {}
    BY <1>1, <2>2, NobodyHolds DEF Publish
  <2> QED
    BY <2>3 DEF BytesOfRow, NoArc
<1>2. CASE FetchPage
  BY <1>2 DEF FetchPage, BytesOfRow, Calm, TypeOK
<1>3. CASE FetchPageGone
  BY <1>3 DEF FetchPageGone, BytesOfRow, Calm, TypeOK
<1>4. CASE ReadRows
  BY <1>4 DEF ReadRows, PlanFor, NewWheel, DiffCommon, BytesOfRow, Calm,
     TypeOK
<1>5. CASE ApplyPlan
  <2>1. SUFFICES ASSUME rev' = 1 PROVE BytesOfRow'
    BY DEF BytesOfRow, Calm
  <2>2. \A x \in Wheels : state[x] = "ABSENT"
    BY <1>5, <2>1 DEF ApplyPlan, PageOnce, TypeOK
  <2>3. arc' = NoArc /\ Len(fed') = 0 /\ batch' = {}
    BY <1>5, <2>2, NobodyHolds DEF ApplyPlan
  <2> QED
    BY <2>3 DEF BytesOfRow, NoArc
<1>6. CASE ApplyGone
  BY <1>6 DEF ApplyGone, Vanishing, PageOnce, BytesOfRow, Calm, TypeOK
<1>7. ASSUME NEW S \in SUBSET Wheels, ClaimFetch(S)
       PROVE  BytesOfRow'
  BY <1>7 DEF ClaimFetch, Claimable, QueueState, BytesOfRow, Calm, TypeOK
<1>8. CASE LoadFetch
  BY <1>8 DEF LoadFetch, BytesOfRow, Calm, TypeOK
<1>9. ASSUME NEW w \in Wheels, NEW c \in Contents, FetchOk(w, c)
       PROVE  BytesOfRow'
  BY <1>9 DEF FetchOk, BytesOfRow, Calm, TypeOK
<1>10. ASSUME NEW w \in Wheels, FetchRetry(w)
       PROVE  BytesOfRow'
  BY <1>10 DEF FetchRetry, ReleaseFetch, RetryOp, BytesOfRow, Calm, TypeOK
<1>11. ASSUME NEW w \in Wheels, FetchRateLimited(w)
       PROVE  BytesOfRow'
  BY <1>11 DEF FetchRateLimited, ReleaseFetch, BytesOfRow, Calm, TypeOK
<1>12. ASSUME NEW w \in Wheels, ArchiveAdd(w)
       PROVE  BytesOfRow'
  BY <1>12 DEF ArchiveAdd, NoArc, BytesOfRow, Calm, TypeOK
<1>13. CASE Seal
  BY <1>13 DEF Seal, BytesOfRow, Calm, TypeOK
<1>14. CASE ArchiveOk
  <2>1. SUFFICES ASSUME Calm PROVE BytesOfRow'
    BY <1>14 DEF ArchiveOk, BytesOfRow, Calm
  <2>2. arc.w \in Wheels /\ arc.c \in Contents /\ arc # NoArc
    BY <1>14 DEF ArchiveOk, TypeOK, NoArc
  <2>3. blob[arc.w] = None
    BY <1>14, <2>1, <2>2 DEF ArchiveOk, CalmRows
  <2>4. blob' = [blob EXCEPT ![arc.w] = arc.c]
    BY <1>14 DEF ArchiveOk, FetchOkOp
  <2>5. \A x \in Wheels : blob[x] # None => blob'[x] = blob[x]
    BY <2>2, <2>3, <2>4 DEF TypeOK
  <2>6. fed' = fed /\ batch' = batch /\ arc'.w = arc.w /\ arc'.c = arc.c
    BY <1>14, <2>2 DEF ArchiveOk, TypeOK
  <2>7. \A k \in 1..Len(fed) : fed[k][1] \in Wheels /\ fed[k][2] # None
    BY PipelineAssumption DEF TypeOK
  <2>8. \A f \in batch : f[2] \in Wheels /\ f[3] # None
    BY PipelineAssumption DEF TypeOK, Futures
  <2>9. arc'.c = blob'[arc'.w]
    BY <2>2, <2>4, <2>6 DEF TypeOK
  <2>10. \A k \in 1..Len(fed') : fed'[k][2] = blob'[fed'[k][1]]
    BY <2>1, <2>5, <2>6, <2>7 DEF BytesOfRow
  <2>11. \A f \in batch' : f[3] = blob'[f[2]]
    BY <2>1, <2>5, <2>6, <2>8 DEF BytesOfRow
  <2> QED
    BY <2>9, <2>10, <2>11 DEF BytesOfRow
<1>15. CASE Feed
  <2>1. fed \in Seq(Wheels \X Contents) /\ fed' = Append(fed, <<arc.w, arc.c>>)
    BY <1>15 DEF Feed, TypeOK
  <2>2. ASSUME Calm, NEW k \in 1..Len(fed')
        PROVE  fed'[k][2] = blob[fed'[k][1]]
    <3>1. CASE k \in 1..Len(fed)
      BY <2>1, <2>2, <3>1 DEF BytesOfRow
    <3>2. CASE k = Len(fed) + 1
      BY <1>15, <2>1, <2>2, <3>2 DEF Feed, BytesOfRow
    <3> QED
      BY <2>1, <3>1, <3>2
  <2>3. arc'.at # "committed"
    BY <1>15 DEF Feed, NoArc
  <2> QED
    BY <1>15, <2>2, <2>3 DEF Feed, BytesOfRow, Calm
<1>16. CASE DrainFed
  <2>1. fed \in Seq(Wheels \X Contents) /\ DrainCount \in 1..Len(fed)
    BY <1>16, PipelineAssumption DEF DrainFed, DrainCount, TypeOK
  <2>2. ASSUME Calm, NEW k \in 1..Len(fed')
        PROVE  fed'[k][2] = blob[fed'[k][1]]
    <3>1. fed' = SubSeq(fed, DrainCount + 1, Len(fed)) /\ Len(fed) \in Nat
      BY <1>16, <2>1 DEF DrainFed
    <3>2. fed'[k] = fed[k + DrainCount] /\ k + DrainCount \in 1..Len(fed)
      BY <2>1, <3>1
    <3>3. fed[k + DrainCount][2] = blob[fed[k + DrainCount][1]]
      BY <2>2, <3>2 DEF BytesOfRow
    <3> QED
      BY <3>2, <3>3
  <2>3. ASSUME Calm, NEW f \in batch'
        PROVE  f[3] = blob[f[2]]
    <3>1. PICK k \in 1..DrainCount : f = <<k, fed[k][1], fed[k][2]>>
      BY <1>16 DEF DrainFed
    <3>2. fed[k][2] = blob[fed[k][1]]
      BY <2>1, <2>3, <3>1 DEF BytesOfRow
    <3> QED
      BY <3>1, <3>2
  <2> QED
    BY <1>16, <2>2, <2>3 DEF DrainFed, BytesOfRow, Calm
<1>17. ASSUME NEW S \in SUBSET Wheels, NEW bad \in SUBSET Contents, BulkClaim(S, bad)
       PROVE  BytesOfRow'
  BY <1>17 DEF BulkClaim, Claimable, QueueState, ReadBlob, BytesOfRow, Calm,
     TypeOK
<1>18. ASSUME NEW w \in Wheels, BulkRetry(w)
       PROVE  BytesOfRow'
  BY <1>18 DEF BulkRetry, RetryOp, BytesOfRow, Calm, TypeOK
<1>19. ASSUME NEW w \in Wheels, BulkSkipCorrupt(w)
       PROVE  BytesOfRow'
  BY <1>19 DEF BulkSkipCorrupt, SkipOp, DeleteWork, BytesOfRow, Calm, TypeOK
<1>20. ASSUME NEW f \in batch, ConvertOk(f)
       PROVE  BytesOfRow'
  BY <1>20 DEF ConvertOk, Complete, ConvertOkOp, DeleteWork, Futures,
     BytesOfRow, Calm, TypeOK
<1>21. ASSUME NEW f \in batch, ConvertRetry(f)
       PROVE  BytesOfRow'
  BY <1>21 DEF ConvertRetry, Complete, RetryOp, Futures, BytesOfRow, Calm,
     TypeOK
<1>22. ASSUME NEW f \in batch, NEW kind \in {"permanent", "versioned"}, ConvertSkip(f, kind)
       PROVE  BytesOfRow'
  BY <1>22 DEF ConvertSkip, Complete, SkipOp, DeleteWork, Futures,
     BytesOfRow, Calm, TypeOK
<1>23. ASSUME NEW sel \in Selectors, NEW S \in SUBSET Wheels, SelectChunk(sel, S)
       PROVE  BytesOfRow'
  BY <1>23 DEF SelectChunk, Matching, Live, BytesOfRow, Calm, TypeOK
<1>24. CASE ReprocessChunk
  BY <1>24 DEF ReprocessChunk, DeleteAllWork, RequeuedState, NoAdm,
     BytesOfRow, Calm, TypeOK
<1>25. CASE UnquarantineChunk
  BY <1>25 DEF UnquarantineChunk, DeleteAllWork, NoAdm, BytesOfRow, Calm,
     TypeOK
<1>26. CASE Crash
  BY <1>26 DEF Crash, NoArc, BytesOfRow, Calm, TypeOK
<1>27. ASSUME NEW C \in SUBSET Contents, RecoverChunk(C)
       PROVE  BytesOfRow'
  BY <1>27 DEF RecoverChunk, RecoveredState, Orphans, Live, QuietInRecovery,
     Running, NoArc, BytesOfRow, Calm, TypeOK
<1>28. CASE UNCHANGED vars
  BY <1>28 DEF vars, BytesOfRow, Calm, TypeOK
<1> QED
  BY <1>1, <1>2, <1>3, <1>4, <1>5, <1>6, <1>7, <1>8, <1>9, <1>10, <1>11,
     <1>12, <1>13, <1>14, <1>15, <1>16, <1>17, <1>18, <1>19, <1>20, <1>21,
     <1>22, <1>23, <1>24, <1>25, <1>26, <1>27, <1>28 DEF Next, IngestNext,
     FetchNext, ArchiveNext, ConvertNext, AdminNext


(* A conversion is of the bytes the row names, and the row keeps them.     *)
LEMMA ReadyStep ==
    ASSUME TypeOK, AbsentIsFree, Unpublished, PageOnce, CalmRows, BytesOfRow,
           ReadyIsCurrent, [Next]_vars
    PROVE  ReadyIsCurrent'
<1> USE DEF remote, rows, work, db, ingest, fetch, conv, admin
<1>1. CASE Publish
  BY <1>1 DEF Publish, Unpublished, ReadyIsCurrent, Calm, TypeOK
<1>2. CASE FetchPage
  BY <1>2 DEF FetchPage, ReadyIsCurrent, Calm, TypeOK
<1>3. CASE FetchPageGone
  BY <1>3 DEF FetchPageGone, ReadyIsCurrent, Calm, TypeOK
<1>4. CASE ReadRows
  BY <1>4 DEF ReadRows, PlanFor, NewWheel, DiffCommon, Unpublished,
     ReadyIsCurrent, Calm, TypeOK
<1>5. CASE ApplyPlan
  BY <1>5 DEF ApplyPlan, PlannedState, InitialState, Unpublished,
     PlannedBlob, ClearsBlob, NewWheel, PageOnce, ReadyIsCurrent, Calm,
     TypeOK
<1>6. CASE ApplyGone
  BY <1>6 DEF ApplyGone, Vanishing, Unpublished, PageOnce, ReadyIsCurrent,
     Calm, TypeOK
<1>7. ASSUME NEW S \in SUBSET Wheels, ClaimFetch(S)
       PROVE  ReadyIsCurrent'
  BY <1>7 DEF ClaimFetch, Claimable, QueueState, ReadyIsCurrent, Calm,
     TypeOK
<1>8. CASE LoadFetch
  BY <1>8 DEF LoadFetch, ReadyIsCurrent, Calm, TypeOK
<1>9. ASSUME NEW w \in Wheels, NEW c \in Contents, FetchOk(w, c)
       PROVE  ReadyIsCurrent'
  BY <1>9 DEF FetchOk, ReadyIsCurrent, Calm, TypeOK
<1>10. ASSUME NEW w \in Wheels, FetchRetry(w)
       PROVE  ReadyIsCurrent'
  BY <1>10 DEF FetchRetry, ReleaseFetch, RetryOp, ReadyIsCurrent, Calm,
     TypeOK
<1>11. ASSUME NEW w \in Wheels, FetchRateLimited(w)
       PROVE  ReadyIsCurrent'
  BY <1>11 DEF FetchRateLimited, ReleaseFetch, ReadyIsCurrent, Calm, TypeOK
<1>12. ASSUME NEW w \in Wheels, ArchiveAdd(w)
       PROVE  ReadyIsCurrent'
  BY <1>12 DEF ArchiveAdd, NoArc, ReadyIsCurrent, Calm, TypeOK
<1>13. CASE Seal
  BY <1>13 DEF Seal, ReadyIsCurrent, Calm, TypeOK
<1>14. CASE ArchiveOk
  BY <1>14 DEF ArchiveOk, FetchOkOp, DeleteWork, ReleaseFetch, NoArc,
     Unpublished, ReadyIsCurrent, Calm, TypeOK
<1>15. CASE Feed
  BY <1>15 DEF Feed, ReadyIsCurrent, Calm, TypeOK
<1>16. CASE DrainFed
  BY <1>16 DEF DrainFed, ReadyIsCurrent, Calm, TypeOK
<1>17. ASSUME NEW S \in SUBSET Wheels, NEW bad \in SUBSET Contents, BulkClaim(S, bad)
       PROVE  ReadyIsCurrent'
  BY <1>17 DEF BulkClaim, Claimable, QueueState, ReadBlob, ReadyIsCurrent,
     Calm, TypeOK
<1>18. ASSUME NEW w \in Wheels, BulkRetry(w)
       PROVE  ReadyIsCurrent'
  BY <1>18 DEF BulkRetry, RetryOp, ReadyIsCurrent, Calm, TypeOK
<1>19. ASSUME NEW w \in Wheels, BulkSkipCorrupt(w)
       PROVE  ReadyIsCurrent'
  BY <1>19 DEF BulkSkipCorrupt, SkipOp, DeleteWork, ReadyIsCurrent, Calm,
     TypeOK
<1>20. ASSUME NEW f \in batch, ConvertOk(f)
       PROVE  ReadyIsCurrent'
  <2>1. SUFFICES ASSUME rev <= 1, Selectors \subseteq Archived PROVE ReadyIsCurrent'
    BY <1>20 DEF ConvertOk, Complete, ReadyIsCurrent
  <2>2. f[2] \in Wheels /\ f[3] \in Contents
    BY <1>20 DEF TypeOK, Futures
  <2>3. rev # 0
    BY NobodyHolds DEF Unpublished
  <2>4. f[3] = blob[f[2]] /\ f[3] # None
    BY <2>1, <2>2, <2>3, PipelineAssumption DEF BytesOfRow, Calm, TypeOK
  <2> QED
    BY <1>20, <2>1, <2>2, <2>4
    DEF ConvertOk, Complete, ConvertOkOp, ReadyIsCurrent, TypeOK
<1>21. ASSUME NEW f \in batch, ConvertRetry(f)
       PROVE  ReadyIsCurrent'
  BY <1>21 DEF ConvertRetry, Complete, RetryOp, Futures, ReadyIsCurrent,
     Calm, TypeOK
<1>22. ASSUME NEW f \in batch, NEW kind \in {"permanent", "versioned"}, ConvertSkip(f, kind)
       PROVE  ReadyIsCurrent'
  BY <1>22 DEF ConvertSkip, Complete, SkipOp, DeleteWork, Futures,
     ReadyIsCurrent, Calm, TypeOK
<1>23. ASSUME NEW sel \in Selectors, NEW S \in SUBSET Wheels, SelectChunk(sel, S)
       PROVE  ReadyIsCurrent'
  BY <1>23 DEF SelectChunk, Matching, Live, ReadyIsCurrent, Calm, TypeOK
<1>24. CASE ReprocessChunk
  BY <1>24 DEF ReprocessChunk, DeleteAllWork, RequeuedState, NoAdm,
     ReadyIsCurrent, Calm, TypeOK
<1>25. CASE UnquarantineChunk
  BY <1>25 DEF UnquarantineChunk, DeleteAllWork, NoAdm, ReadyIsCurrent,
     Calm, TypeOK
<1>26. CASE Crash
  BY <1>26 DEF Crash, ReadyIsCurrent, Calm, TypeOK
<1>27. ASSUME NEW C \in SUBSET Contents, RecoverChunk(C)
       PROVE  ReadyIsCurrent'
  BY <1>27 DEF RecoverChunk, RecoveredState, Orphans, Live, ReadyIsCurrent,
     Calm, TypeOK
<1>28. CASE UNCHANGED vars
  BY <1>28 DEF vars, ReadyIsCurrent, Calm, TypeOK
<1> QED
  BY <1>1, <1>2, <1>3, <1>4, <1>5, <1>6, <1>7, <1>8, <1>9, <1>10, <1>11,
     <1>12, <1>13, <1>14, <1>15, <1>16, <1>17, <1>18, <1>19, <1>20, <1>21,
     <1>22, <1>23, <1>24, <1>25, <1>26, <1>27, <1>28 DEF Next, IngestNext,
     FetchNext, ArchiveNext, ConvertNext, AdminNext


(* What holds until the page changes, in every behaviour.                  *)
THEOREM OnceInvariant == Spec => []OnceInv
<1>1. Init => OnceInv
  BY PipelineAssumption DEF Init, OnceInv, Unpublished, PageOnce, RowOfPage, NoRot, Calm,
     CalmRows, BytesOfRow, ReadyIsCurrent
<1>2. FsckInv /\ OnceInv /\ [Next]_vars => OnceInv'
  <2> SUFFICES ASSUME FsckInv, OnceInv, [Next]_vars PROVE OnceInv'
    OBVIOUS
  <2>1. TypeOK /\ TombstoneDated /\ QuietInRecovery /\ AbsentIsFree
    BY DEF FsckInv, PipelineInv
  <2>2. Unpublished' /\ PageOnce'
    BY <2>1, UnpublishedStep, PageOnceStep DEF OnceInv
  <2>3. RowOfPage' /\ NoRot'
    BY <2>1, RowOfPageStep, NoRotStep DEF OnceInv
  <2>4. CalmRows' /\ BytesOfRow'
    BY <2>1, CalmRowsStep, BytesOfRowStep DEF OnceInv
  <2>5. ReadyIsCurrent'
    BY <2>1, ReadyStep DEF OnceInv
  <2> QED
    BY <2>2, <2>3, <2>4, <2>5 DEF OnceInv
<1> QED
  BY <1>1, <1>2, FsckInvariant, PTL DEF Spec

(* Until the page changes, and with reprocess kept to archived wheels, a   *)
(* READY wheel's repodata was converted from the bytes its blob_sha256     *)
(* names (_convert_ok_op of dispatcher.py writes it without looking at the *)
(* row), however claims, conversions, linked imports, reprocess, crashes   *)
(* and recovery interleave.                                                *)
THEOREM ReadyFromPage == Spec => []ReadyIsCurrent
<1>1. OnceInv => ReadyIsCurrent
  BY DEF OnceInv
<1> QED
  BY <1>1, OnceInvariant, PTL

(* Until the page changes, and with neither corrupt blobs nor a reprocess  *)
(* of wheels that are not archived, fsck (fsck.py) reports nothing but its *)
(* noisy rules.                                                            *)
THEOREM FsckCalm == Spec => []CalmFsck
<1>1. FsckInv /\ OnceInv => CalmFsck
  <2> SUFFICES ASSUME FsckInv, OnceInv, rev <= 1, ~Corruption, Selectors \subseteq Archived
               PROVE  Violated \subseteq Noisy
    BY DEF CalmFsck
  <2>1. rev = 0 \/ rev = 1
    BY DEF FsckInv, PipelineInv, TypeOK
  <2>2. \A x \in Wheels :
           /\ ~deleted[x] /\ skip[x] # "unversioned"
           /\ state[x] = "ABSENT" => blob[x] = None
           /\ state[x] = "NEED_METADATA" => blob[x] = None
           /\ state[x] = "NEED_CONVERT" => blob[x] # None
    BY <2>1 DEF OnceInv, Unpublished, RowOfPage, NoRot, CalmRows, Calm, Archived
  <2>3. ReadyWithoutRepodata = {}
    BY <2>1 DEF ReadyWithoutRepodata, In, OnceInv, ReadyIsCurrent
  <2>4. \A x \in Wheels : ~Dangling(x)
    BY <2>2 DEF Dangling, FsckInv, PipelineInv, HeldBlobResolves, TombstoneDated, Live
  <2>5. NeedConvertWithoutBlob = {} /\ BlobUnresolved = {}
    BY <2>2, <2>4 DEF NeedConvertWithoutBlob, BlobUnresolved, In
  <2>6. NeedMetadataWithBlob = {}
    BY <2>2 DEF NeedMetadataWithBlob, In
  <2>7. NoMetadataWithHash = {}
    <3> SUFFICES ASSUME NEW x \in Wheels, state[x] = "NO_METADATA" PROVE meta[x] = None
      BY DEF NoMetadataWithHash, In
    <3>1. rev = 1 /\ page[x] # None /\ meta[x] = page[x].sha /\ ~page[x].has_metadata
      BY <2>1 DEF OnceInv, Unpublished, RowOfPage
    <3>2. page[x] \in Entries
      BY <3>1 DEF OnceInv, PageOnce
    <3> QED
      BY <3>1, <3>2, EntryAssumption
  <2>8. SkippedWithoutSkipsRow = {} /\ QuarantinedWithoutWork = {}
    BY DEF SkippedWithoutSkipsRow, QuarantinedWithoutWork, In, FsckInv, PipelineInv,
       SkippedHasRow, QuarantinedHasWork
  <2>9. DeletedWithoutDeletedAt = {} /\ DeletedAtWithoutDeleted = {}
    BY <2>2 DEF DeletedWithoutDeletedAt, DeletedAtWithoutDeleted, In, FsckInv, PipelineInv,
       TombstoneDated
  <2>10. SkipWithoutVersion = {}
    BY <2>2 DEF SkipWithoutVersion
  <2> QED
    BY <2>3, <2>5, <2>6, <2>7, <2>8, <2>9, <2>10 DEF Violated, Report, Informational, Noisy
<1> QED
  BY <1>1, FsckInvariant, OnceInvariant, PTL
=============================================================================
