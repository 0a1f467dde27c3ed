------------------------------- MODULE Handoff -------------------------------
(***************************************************************************)
(* From the network to the archive: the fetch stage                        *)
(* (daemon/stages/fetch.py) and its loop (daemon/stage_loop.py), the       *)
(* byte-budgeted queue (fetch.py, ByteBudgetedQueue), the archive thread,  *)
(* the disk guard and the shutdown sequence (daemon/service.py).           *)
(*                                                                         *)
(* A wheel is a number, in the order claim returns them.  Its bytes are    *)
(* only a size.  What the segment holds and what a row looks like is the   *)
(* business of modules Archive and Pipeline; a wheel is "need", "done"     *)
(* (NEED_CONVERT committed) or "quarantined" here.  Of the convert stage   *)
(* only the bounded queue is left that the archive thread feeds.           *)
(*                                                                         *)
(* The queue has one producer, the fetch thread, and one consumer, the     *)
(* archive thread: a notify always reaches the one thread that waits, so   *)
(* waiting on a condition is a guard.                                      *)
(***************************************************************************)
EXTENDS Integers, Sequences, FiniteSets, FiniteSetsExt, Breaker

CONSTANTS
    Items,       \* wheels in NEED_METADATA at the start: 1..N
    Size,        \* bytes of each one's METADATA
    Budget,      \* budget_bytes
    Limit,       \* the fetch stage's claim limit
    FedMax,      \* queue_maxsize of the convert stage
    Faults,      \* what may go wrong: subset of FaultKinds
    MaxFaults,   \* bound: how often; one of the hard ones counts twice
    MaxStarts    \* bound: how many processes after the first

FaultKinds ==
    { "retry",    \* a download fails
      "skip",     \* no sidecar, or one with another hash (FetchSkip)
      "limited",  \* a download is throttled
      "io",       \* an append fails
      "db",       \* a read or a write of the database fails
      "space",    \* the volume fills up
      "pause" }   \* an operator pauses the stage

\* the ones after which a wheel may be stranded
HardFaults == {"retry", "io", "db", "space"}

ASSUME HandoffAssumption ==
    /\ Items \subseteq Nat \ {0} /\ IsFiniteSet(Items)
    /\ Size \in [Items -> Nat \ {0}]
    /\ Budget \in Nat \ {0} /\ Limit \in Nat \ {0} /\ FedMax \in Nat \ {0}
    /\ Faults \subseteq FaultKinds
    /\ MaxFaults \in Nat /\ MaxStarts \in Nat

VARIABLES
    \* sqlite and the segments
    st,           \* each wheel's state
    cooling,      \* wheels whose next_attempt_at is in the future
    open,         \* wheels in the open segment
    sealed,       \* wheels in sealed segments
    \* the fetch stage
    fpc,          \* "idle", "claim", "batch", "put", "check", "exited"
    held,         \* the loop's _paused flag
    cursor,       \* claim's keyset cursor; 0: from the start
    inflight,     \* the dispatcher's _in_flight[FETCH]
    leaked,       \* items in it that nobody will release (a ghost)
    batch,        \* items whose future is pending
    fetched,      \* the item being put on the queue; 0: none
    saw,          \* saw_ok, saw_transient_failure
    b,            \* the files.pythonhosted.org breaker
    \* the queue
    q, bytes, closed,
    \* the archive thread
    apc,          \* "poll", "add", "apply", "feed", "release", "exited", "crashed"
    cur,          \* the item it popped; 0: none
    fed,          \* how many items the convert stage's queue holds
    \* the disk guard
    space,        \* free space: "low" below the floor, "mid", "high" above 1.2 x
    paused,       \* _paused
    \* shutdown
    spc,          \* "run", "joinFetch", "joinArchive", "stopped"
    late,         \* the grace period is over
    dropped,      \* downloads a closed queue refused
    faults, starts

diskVars    == <<st, cooling, open, sealed>>
fetchVars   == <<fpc, held, cursor, inflight, leaked, batch, fetched, saw, b>>
queueVars   == <<q, bytes, closed>>
archiveVars == <<apc, cur, fed>>
guardVars   == <<space, paused>>
stopVars    == <<spc, late, dropped>>
vars == <<diskVars, fetchVars, queueVars, archiveVars, guardVars, stopVars, faults, starts>>

SawNothing == [ok |-> FALSE, failed |-> FALSE]

\* shutdown_event.is_set()
ShuttingDown == spc # "run"

\* writer.submit_and_wait works until writer.stop
WriterUp == spc # "stopped"

Init ==
    /\ st = [i \in Items |-> "need"] /\ cooling = {} /\ open = {} /\ sealed = {}
    /\ fpc = "idle" /\ held = FALSE /\ cursor = 0 /\ inflight = {} /\ leaked = {}
    /\ batch = {}
    /\ fetched = 0 /\ saw = SawNothing /\ b = NewBreaker
    /\ q = <<>> /\ bytes = 0 /\ closed = FALSE
    /\ apc = "poll" /\ cur = 0 /\ fed = 0
    /\ space = "high" /\ paused = FALSE
    /\ spc = "run" /\ late = FALSE /\ dropped = {}
    /\ faults = [hard |-> 0, soft |-> 0] /\ starts = 0

\* one more fault, of a kind that may happen
Fault(k) ==
    /\ k \in Faults
    /\ 2 * faults.hard + faults.soft + (IF k \in HardFaults THEN 2 ELSE 1) <= MaxFaults
    /\ faults' = IF k \in HardFaults THEN [faults EXCEPT !.hard = @ + 1]
                 ELSE [faults EXCEPT !.soft = @ + 1]

-----------------------------------------------------------------------------
(* The fetch stage *)

\* run_forever and run_once: the shutdown event and the pause flag;
\* iterate: the disk guard, then the breaker
FetchStart ==
    /\ fpc = "idle" /\ ~ShuttingDown /\ ~held
    /\ ~paused
    /\ Allowed(b)
    /\ b' = AfterAllow(b)
    /\ fpc' = "claim"
    /\ UNCHANGED <<diskVars, held, cursor, inflight, leaked, batch, fetched, saw, queueVars,
                   archiveVars, guardVars, stopVars, faults, starts>>

\* claim: what is due, behind the cursor and not in flight, the first Limit of it
Claim ==
    LET due == {i \in Items : st[i] = "need" /\ i \notin cooling \cup inflight /\ i > cursor}
    IN  {i \in due : Cardinality({j \in due : j <= i}) <= Limit}

\* a short page starts over
NextCursor(S) == IF Cardinality(S) < Limit THEN 0 ELSE Max(S)

FetchClaim ==
    /\ fpc = "claim" /\ Claim # {}
    /\ cursor' = NextCursor(Claim)
    /\ inflight' = inflight \cup Claim
    /\ batch' = Claim
    /\ saw' = SawNothing
    /\ fpc' = "batch"
    /\ UNCHANGED <<diskVars, held, leaked, fetched, b, queueVars, archiveVars, guardVars, stopVars,
                   faults, starts>>

\* _load_rows raises: StageLoop goes on, and the batch stays in flight
FetchLoadRaises ==
    /\ fpc = "claim" /\ Claim # {}
    /\ Fault("db")
    /\ cursor' = NextCursor(Claim)
    /\ inflight' = inflight \cup Claim
    /\ leaked' = leaked \cup Claim
    /\ fpc' = "idle"
    /\ UNCHANGED <<diskVars, held, batch, fetched, saw, b, queueVars, archiveVars, guardVars,
                   stopVars, starts>>

\* Wrong variant: the cursor is not reset.
FetchClaimEmptyKeepsCursor ==
    /\ fpc = "claim" /\ Claim = {}
    /\ fpc' = "idle"
    /\ UNCHANGED <<diskVars, held, cursor, inflight, leaked, batch, fetched, saw, b, queueVars,
                   archiveVars, guardVars, stopVars, faults, starts>>

\* no items: the iteration ends and the breaker is not told
FetchClaimEmpty ==
    /\ fpc = "claim" /\ Claim = {}
    /\ cursor' = 0
    /\ fpc' = "idle"
    /\ UNCHANGED <<diskVars, held, inflight, leaked, batch, fetched, saw, b, queueVars, archiveVars,
                   guardVars, stopVars, faults, starts>>

\* The archive thread releases an item while _claim_query walks the set
\* ("Set changed size during iteration"); StageLoop logs it and goes on.
FetchClaimRaises ==
    /\ fpc = "claim" /\ apc = "apply"
    /\ fpc' = "idle"
    /\ UNCHANGED <<diskVars, held, cursor, inflight, leaked, batch, fetched, saw, b, queueVars,
                   archiveVars, guardVars, stopVars, faults, starts>>

FetchOk(i) ==
    /\ fpc = "batch" /\ i \in batch
    /\ batch' = batch \ {i}
    /\ fetched' = i
    /\ saw' = [saw EXCEPT !.ok = TRUE]
    /\ fpc' = "put"
    /\ UNCHANGED <<diskVars, held, cursor, inflight, leaked, b, queueVars, archiveVars, guardVars,
                   stopVars, faults, starts>>

\* Wrong variant: the item stays in flight.
FetchOtherKeepsClaim(i, kind, last) ==
    /\ fpc = "batch" /\ i \in batch
    /\ Fault(kind)
    /\ WriterUp
    /\ last => kind # "limited"
    /\ st' = IF last THEN [st EXCEPT ![i] = "quarantined"] ELSE st
    /\ cooling' = IF kind = "limited" THEN cooling ELSE cooling \cup {i}
    /\ saw' = [saw EXCEPT !.failed = @ \/ kind = "retry"]
    /\ batch' = batch \ {i}
    /\ fpc' = "check"
    /\ UNCHANGED <<open, sealed, held, cursor, inflight, leaked, fetched, b, queueVars,
                   archiveVars, guardVars, stopVars, starts>>

\* Every other outcome is applied at once, and the item released.  A skip is
\* applied as a retry (adapt_fetch_outcome) but does not count as a failure of
\* the host; last: the attempts are used up, and the retry quarantines.
FetchOther(i, kind, last) ==
    /\ fpc = "batch" /\ i \in batch
    /\ Fault(kind)
    /\ WriterUp
    /\ last => kind # "limited"
    /\ st' = IF last THEN [st EXCEPT ![i] = "quarantined"] ELSE st
    /\ cooling' = IF kind = "limited" THEN cooling ELSE cooling \cup {i}
    /\ saw' = [saw EXCEPT !.failed = @ \/ kind = "retry"]
    /\ batch' = batch \ {i}
    /\ inflight' = inflight \ {i}
    /\ fpc' = "check"
    /\ UNCHANGED <<open, sealed, held, cursor, leaked, fetched, b, queueVars, archiveVars, guardVars,
                   stopVars, starts>>

\* apply_outcome raises: it has released its item, and nobody the others
FetchApplyRaises(i) ==
    /\ fpc = "batch" /\ i \in batch
    /\ IF WriterUp THEN Fault("db") ELSE UNCHANGED faults
    /\ inflight' = inflight \ {i}
    /\ leaked' = leaked \cup (batch \ {i})
    /\ batch' = {}
    /\ fpc' = "idle"
    /\ UNCHANGED <<diskVars, held, cursor, fetched, saw, b, queueVars, archiveVars, guardVars,
                   stopVars, starts>>

\* Wrong variant: only the item alone is compared with the budget.
HasRoomAlone(i) == Size[i] <= Budget \/ bytes = 0

\* put does not have to wait
HasRoom(i) == bytes = 0 \/ bytes + Size[i] <= Budget

Put ==
    /\ fpc = "put" /\ ~closed
    /\ HasRoom(fetched)
    /\ q' = Append(q, fetched)
    /\ bytes' = bytes + Size[fetched]
    /\ fetched' = 0
    /\ fpc' = "check"
    /\ UNCHANGED <<diskVars, held, cursor, inflight, leaked, batch, saw, b, closed, archiveVars,
                   guardVars, stopVars, faults, starts>>

\* QueueClosed leaves iterate: this item and the rest of the batch are dropped
PutRefused ==
    /\ fpc = "put" /\ closed
    /\ dropped' = dropped \cup {fetched}
    /\ leaked' = leaked \cup batch \cup {fetched}
    /\ fetched' = 0 /\ batch' = {}
    /\ fpc' = "idle"
    /\ UNCHANGED <<diskVars, held, cursor, inflight, saw, b, queueVars, archiveVars, guardVars,
                   spc, late, faults, starts>>

\* the next future
FetchNext ==
    /\ fpc = "check" /\ ~ShuttingDown /\ batch # {}
    /\ fpc' = "batch"
    /\ UNCHANGED <<diskVars, held, cursor, inflight, leaked, batch, fetched, saw, b, queueVars,
                   archiveVars, guardVars, stopVars, faults, starts>>

\* the batch is through, or shutdown abandons the rest of it; then the breaker
FetchFinish ==
    /\ fpc = "check"
    /\ ShuttingDown \/ batch = {}
    /\ inflight' = inflight \ batch
    /\ batch' = {}
    /\ b' = IF saw.failed THEN RecordFailure(b)
            ELSE IF saw.ok THEN RecordSuccess(b)
            ELSE b
    /\ fpc' = "idle"
    /\ UNCHANGED <<diskVars, held, cursor, leaked, fetched, saw, queueVars, archiveVars, guardVars,
                   stopVars, faults, starts>>

FetchExit ==
    /\ fpc = "idle" /\ ShuttingDown
    /\ fpc' = "exited"
    /\ UNCHANGED <<diskVars, held, cursor, inflight, leaked, batch, fetched, saw, b, queueVars,
                   archiveVars, guardVars, stopVars, faults, starts>>

\* pause_stage / drain, and resume_stage
PauseStage ==
    /\ ~held /\ ~ShuttingDown
    /\ Fault("pause")
    /\ held' = TRUE
    /\ UNCHANGED <<diskVars, fpc, cursor, inflight, leaked, batch, fetched, saw, b, queueVars,
                   archiveVars, guardVars, stopVars, starts>>

ResumeStage ==
    /\ held /\ ~ShuttingDown
    /\ held' = FALSE
    /\ UNCHANGED <<diskVars, fpc, cursor, inflight, leaked, batch, fetched, saw, b, queueVars,
                   archiveVars, guardVars, stopVars, faults, starts>>

-----------------------------------------------------------------------------
(* The archive thread *)

\* _archive_thread_step: not paused, and something is queued
ArchiveGet ==
    /\ apc = "poll" /\ ~paused /\ q # <<>>
    /\ cur' = Head(q)
    /\ q' = Tail(q)
    /\ apc' = "add"
    /\ UNCHANGED <<fed, diskVars, fetchVars, bytes, closed, guardVars, stopVars, faults, starts>>

\* _archive_thread_step returns False
ArchiveExit ==
    /\ apc = "poll"
    /\ IF paused THEN ShuttingDown ELSE q = <<>> /\ closed
    /\ apc' = "exited"
    /\ UNCHANGED <<diskVars, fetchVars, queueVars, cur, fed, guardVars, stopVars, faults, starts>>

\* store.add, and _maybe_seal, which seals nothing once shutdown has begun
ArchiveAdd(seal) ==
    /\ apc = "add" /\ ~paused
    /\ seal => ~ShuttingDown
    /\ open' = IF seal THEN {} ELSE open \cup {cur}
    /\ sealed' = IF seal THEN sealed \cup open \cup {cur} ELSE sealed
    /\ apc' = "apply"
    /\ UNCHANGED <<st, cooling, fetchVars, queueVars, cur, fed, guardVars, stopVars, faults, starts>>

\* process_one ends with an exception: its finally releases the bytes, the
\* thread logs it and dies
ArchiveDies ==
    /\ bytes' = bytes - Size[cur]
    /\ cur' = 0
    /\ apc' = "crashed"
    /\ UNCHANGED <<diskVars, fpc, held, cursor, batch, fetched, saw, b, q, closed, fed,
                   guardVars, stopVars, starts>>

\* before apply_outcome the item is still in flight
ArchiveLeaks ==
    /\ leaked' = leaked \cup {cur}
    /\ UNCHANGED inflight

\* DiskGuardPausedError: the guard paused after the thread had looked
ArchiveRefused ==
    /\ apc = "add" /\ paused
    /\ ArchiveDies /\ ArchiveLeaks
    /\ UNCHANGED faults

\* an OSError, counted by the local_disk breaker on its way out
ArchiveFails ==
    /\ apc = "add" /\ ~paused
    /\ Fault("io")
    /\ ArchiveDies /\ ArchiveLeaks

\* apply_outcome commits the Ok and takes the item out of flight
ArchiveApply ==
    /\ apc = "apply" /\ WriterUp
    /\ st' = [st EXCEPT ![cur] = "done"]
    /\ cooling' = cooling \ {cur}
    /\ inflight' = inflight \ {cur}
    /\ apc' = "feed"
    /\ UNCHANGED <<open, sealed, fpc, held, cursor, leaked, batch, fetched, saw, b, queueVars,
                   cur, fed, guardVars, stopVars, faults, starts>>

\* it raises, and takes the item out of flight all the same
ArchiveApplyRaises ==
    /\ apc = "apply"
    /\ IF WriterUp THEN Fault("db") ELSE UNCHANGED faults
    /\ inflight' = inflight \ {cur}
    /\ ArchiveDies
    /\ UNCHANGED leaked

\* on_archived: a put that waits for room, its bytes still charged
ArchiveFeed ==
    /\ apc = "feed" /\ fed < FedMax
    /\ fed' = fed + 1
    /\ apc' = "release"
    /\ UNCHANGED <<diskVars, fetchVars, queueVars, cur, guardVars, stopVars, faults, starts>>

\* the finally of process_one
ArchiveRelease ==
    /\ apc = "release"
    /\ bytes' = bytes - Size[cur]
    /\ cur' = 0
    /\ apc' = "poll"
    /\ UNCHANGED <<diskVars, fetchVars, q, closed, fed, guardVars, stopVars, faults, starts>>

\* _drain_fed_queue.  After the shutdown event the convert loop may be in its
\* last iteration, or be gone.
ConvertTakes(n) ==
    /\ WriterUp
    /\ n <= fed
    /\ fed' = fed - n
    /\ UNCHANGED <<diskVars, fetchVars, queueVars, apc, cur, guardVars, stopVars, faults, starts>>

-----------------------------------------------------------------------------
(* The disk guard *)

\* other users of the volume, and the operator who makes room
SpaceGoes(s) ==
    /\ s # space
    /\ IF s = "high" \/ space = "low" THEN UNCHANGED faults ELSE Fault("space")
    /\ space' = s
    /\ UNCHANGED <<diskVars, fetchVars, queueVars, archiveVars, paused, stopVars, starts>>

\* what check() makes of the free space
Checked == IF paused THEN space # "high" ELSE space = "low"

\* the disk_guard stage's timer
GuardCheck ==
    /\ ~ShuttingDown
    /\ paused' = Checked
    /\ UNCHANGED <<diskVars, fetchVars, queueVars, archiveVars, space, stopVars, faults, starts>>

-----------------------------------------------------------------------------
(* Time, and the end of the process *)

CoolDown(i) ==
    /\ i \in cooling
    /\ cooling' = cooling \ {i}
    /\ UNCHANGED <<st, open, sealed, fetchVars, queueVars, archiveVars, guardVars, stopVars,
                   faults, starts>>

BreakerDue ==
    /\ b.state = "open" /\ ~b.due
    /\ b' = Recovered(b)
    /\ UNCHANGED <<diskVars, fpc, held, cursor, inflight, leaked, batch, fetched, saw, queueVars,
                   archiveVars, guardVars, stopVars, faults, starts>>

\* SIGTERM, or the control socket's shutdown
Shutdown ==
    /\ spc = "run"
    /\ starts < MaxStarts
    /\ spc' = "joinFetch"
    /\ UNCHANGED <<diskVars, fetchVars, queueVars, archiveVars, guardVars, late, dropped,
                   faults, starts>>

\* SHUTDOWN_GRACE_SECONDS are over
GraceOver ==
    /\ spc \in {"joinFetch", "joinArchive"} /\ ~late
    /\ late' = TRUE
    /\ UNCHANGED <<diskVars, fetchVars, queueVars, archiveVars, guardVars, spc, dropped,
                   faults, starts>>

\* Wrong variant: closes the queue first.
JoinFetchLater ==
    /\ spc = "joinFetch"
    /\ closed' = TRUE
    /\ spc' = "joinArchive"
    /\ UNCHANGED <<diskVars, fetchVars, q, bytes, archiveVars, guardVars, late, dropped,
                   faults, starts>>

\* Wrong variant: joins without a timeout.
JoinFetchForever ==
    /\ spc = "joinFetch"
    /\ fpc = "exited"
    /\ closed' = TRUE
    /\ spc' = "joinArchive"
    /\ UNCHANGED <<diskVars, fetchVars, q, bytes, archiveVars, guardVars, late, dropped,
                   faults, starts>>

\* the fetch thread is done, or time is up: close the queue
JoinFetch ==
    /\ spc = "joinFetch"
    /\ fpc = "exited" \/ late
    /\ closed' = TRUE
    /\ spc' = "joinArchive"
    /\ UNCHANGED <<diskVars, fetchVars, q, bytes, archiveVars, guardVars, late, dropped,
                   faults, starts>>

\* the archive thread is done, or time is up: writer.stop(drain=True)
JoinArchive ==
    /\ spc = "joinArchive"
    /\ apc \in {"exited", "crashed"} \/ late
    /\ spc' = "stopped"
    /\ UNCHANGED <<diskVars, fetchVars, queueVars, archiveVars, guardVars, late, dropped,
                   faults, starts>>

\* _recover_archive: the open segment is truncated and its wheels fetched again
StateAfterStart(i) == IF i \in open /\ i \notin sealed /\ st[i] = "done" THEN "need" ELSE st[i]

\* A new process, after an orderly shutdown or a kill ("second signal").
Start ==
    /\ starts < MaxStarts
    /\ starts' = starts + 1
    /\ st' = [i \in Items |-> StateAfterStart(i)]
    /\ open' = {}
    /\ fpc' = "idle" /\ held' = FALSE /\ cursor' = 0 /\ inflight' = {} /\ leaked' = {}
    /\ batch' = {}
    /\ fetched' = 0 /\ saw' = SawNothing /\ b' = NewBreaker
    /\ q' = <<>> /\ bytes' = 0 /\ closed' = FALSE
    /\ apc' = "poll" /\ cur' = 0 /\ fed' = 0
    /\ paused' = FALSE
    /\ spc' = "run" /\ late' = FALSE /\ dropped' = {}
    /\ UNCHANGED <<cooling, sealed, space, faults>>

FetchNextStep ==
    \/ FetchStart \/ FetchClaim \/ FetchClaimEmpty \/ Put \/ PutRefused
    \/ FetchNext \/ FetchFinish \/ FetchExit
    \/ \E i \in Items : FetchOk(i)

ArchiveNextStep ==
    \/ ArchiveGet \/ ArchiveExit \/ ArchiveRefused
    \/ ArchiveApply \/ ArchiveFeed \/ ArchiveRelease
    \/ \E seal \in BOOLEAN : ArchiveAdd(seal)

ShutdownNextStep == GraceOver \/ JoinFetch \/ JoinArchive

Next ==
    \/ FetchNextStep \/ FetchClaimRaises \/ FetchLoadRaises
    \/ \E i \in Items : FetchApplyRaises(i)
    \/ \E i \in Items, kind \in {"retry", "skip", "limited"}, last \in BOOLEAN :
          FetchOther(i, kind, last)
    \/ PauseStage \/ ResumeStage
    \/ ArchiveNextStep \/ ArchiveFails \/ ArchiveApplyRaises
    \/ \E n \in 1..FedMax : ConvertTakes(n)
    \/ GuardCheck
    \/ \E s \in {"low", "mid", "high"} : SpaceGoes(s)
    \/ \E i \in Items : CoolDown(i)
    \/ BreakerDue
    \/ Shutdown \/ ShutdownNextStep
    \/ Start

Spec == Init /\ [][Next]_vars

(* Every thread keeps running; downloads end; the operator makes room and
   resumes what was paused; a process that has stopped is started again. *)
Fairness ==
    /\ WF_vars(FetchNextStep)
    /\ WF_vars(ArchiveNextStep)
    /\ WF_vars(~ShuttingDown /\ \E n \in 1..FedMax : ConvertTakes(n))
    /\ WF_vars(ShutdownNextStep)
    /\ WF_vars(GuardCheck)
    /\ WF_vars(ResumeStage)
    /\ WF_vars(BreakerDue)
    /\ WF_vars(SpaceGoes("high"))
    /\ \A i \in Items : WF_vars(CoolDown(i))
    /\ WF_vars(spc = "stopped" /\ Start)

FairSpec == Spec /\ Fairness

-----------------------------------------------------------------------------
(* Properties *)

\* what the queue's budget is charged with
Charged == {q[k] : k \in 1..Len(q)} \cup ({cur} \ {0})

\* what the archive thread holds no claim on any more
Applied == IF apc \in {"feed", "release"} THEN {cur} ELSE {}

\* what some thread, or the queue, has in its hands and has yet to apply
InHand == batch \cup ({fetched} \ {0}) \cup (Charged \ Applied)

(* The variables keep their types; the queue holds no item twice. *)
TypeOK ==
    /\ st \in [Items -> {"need", "done", "quarantined"}]
    /\ cooling \subseteq Items /\ open \subseteq Items /\ sealed \subseteq Items
    /\ fpc \in {"idle", "claim", "batch", "put", "check", "exited"}
    /\ held \in BOOLEAN /\ cursor \in Items \cup {0}
    /\ inflight \subseteq Items /\ leaked \subseteq Items
    /\ batch \subseteq Items /\ fetched \in Items \cup {0}
    /\ saw \in [ok : BOOLEAN, failed : BOOLEAN]
    /\ b \in BreakerType
    /\ q \in Seq(Items) /\ Len(q) = Cardinality({q[k] : k \in 1..Len(q)})
    /\ bytes \in Nat /\ closed \in BOOLEAN
    /\ apc \in {"poll", "add", "apply", "feed", "release", "exited", "crashed"}
    /\ cur \in Items \cup {0} /\ fed \in 0..FedMax
    /\ space \in {"low", "mid", "high"} /\ paused \in BOOLEAN
    /\ spc \in {"run", "joinFetch", "joinArchive", "stopped"} /\ late \in BOOLEAN
    /\ dropped \subseteq Items
    /\ faults \in [hard : 0..MaxFaults, soft : 0..MaxFaults] /\ starts \in 0..MaxStarts

(* The types; the budget is charged with exactly the items that are queued or being
   archived, and is exceeded only by an item that is alone: "one maximum-size
   response can never deadlock a producer" (ByteBudgetedQueue). *)
BudgetHeld ==
    /\ TypeOK
    /\ bytes = MapThenSumSet(LAMBDA i : Size[i], Charged)
    /\ bytes > Budget => Cardinality(Charged) = 1

(* In-flight bookkeeping is exact: what the dispatcher thinks is in flight
   is in somebody's hands, and what is in hand cannot be claimed a second
   time.  The items that stay in flight for ever are those of an exception
   between claim and apply_outcome: in _load_rows, in the outcome of another
   item of the batch, in a put on a closed queue, in an append. *)
ClaimsExact ==
    /\ inflight = InHand \cup leaked
    /\ InHand \cap leaked = {}

(* No item is at two places of the way from the network to the archive. *)
OnePlace ==
    /\ batch \cap ({fetched} \cup Charged) = {}
    /\ fetched \notin Charged
    /\ \A k \in 1..Len(q) : q[k] # cur

(* A wheel that went on to NEED_CONVERT has its METADATA in a segment, across
   kills, restarts and shutdowns that leave the segment open. *)
DoneIsArchived == \A i \in Items : st[i] = "done" => i \in open \cup sealed

(* What is in flight, where it is, and that nothing done is lost. *)
HandoffInv == ClaimsExact /\ OnePlace /\ DoneIsArchived

(* A closed queue refuses a download only when the grace period ran out
   ("its thread must be joined ... before the queue closes underneath an
   in-flight put", service.py). *)
DropsOnlyWhenLate == dropped # {} => late

(* Shutdown completes, whatever the threads are waiting for. *)
ShutdownCompletes == (spc = "joinFetch") ~> (spc = "stopped" \/ spc = "run")

(* In the end every wheel is archived or quarantined: skips, throttling,
   pauses, shutdowns and kills delay it, the claim cursor comes back to what is
   due again, and a full queue empties, the convert stage's as well.  (Not after
   a failed download, append or database access or a full volume: see
   TrialResolves, the archive thread does not survive an exception, and what an
   exception leaves in flight waits for the next process.) *)
EveryWheelLeaves ==
    \/ <>(faults.hard > 0)
    \/ <>[](\A i \in Items : st[i] # "need")

(* "half-open (after recovery_timeout, allows one trial) -> closed or open
   again" (specs/10). *)
TrialResolves == (b.state = "half_open") ~> (b.state # "half_open")
=============================================================================
