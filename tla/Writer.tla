------------------------------- MODULE Writer -------------------------------
(***************************************************************************)
(* The sqlite writer thread (src/reroll_sync/writer.py).                   *)
(*                                                                         *)
(* Callers hand write ops to one background thread over a bounded queue    *)
(* and wait for the answer (submit_and_wait).  The thread collects ops     *)
(* into a batch, applies the batch in one transaction with a savepoint     *)
(* per op, does its upkeep (checkpoint, vacuum) between batches and only   *)
(* then answers.  stop() refuses new ops and lets the thread either drain  *)
(* or discard what is queued.  A failing COMMIT ends the thread.           *)
(*                                                                         *)
(* The lifecycle lock is a variable of its own only for the callers:       *)
(* submit() holds it across a put that may block, stop() and               *)
(* _fail_fatally() hold it for one assignment, here one step.              *)
(***************************************************************************)
EXTENDS Integers, Sequences

CONSTANTS
    Clients,     \* the threads that call submit_and_wait
    MaxOps,      \* bound: how many ops each of them submits
    BatchSize,   \* batch_size
    QueueMax,    \* queue_maxsize
    Faults,      \* which failures may happen: subset of FaultKinds
    MaxCrashes,  \* bound: how often the process dies and restarts
    None         \* "nobody holds the lock"

FaultKinds ==
    { "op",       \* one op's apply raises
      "commit",   \* BEGIN, a savepoint or COMMIT raises
      "pragma" }  \* a checkpoint, vacuum or freelist pragma raises

ASSUME WriterAssumption ==
    /\ None \notin Clients
    /\ MaxOps \in Nat \ {0}
    /\ BatchSize \in Nat \ {0}
    /\ QueueMax \in Nat \ {0}
    /\ Faults \subseteq FaultKinds
    /\ MaxCrashes \in Nat

VARIABLES
    \* the callers
    pc,        \* where each caller is: "idle", "acquire", "put", "wait"
    opno,      \* the number of the op it is at
    lock,      \* the caller that holds _lifecycle_lock, or None
    reply,     \* WriteOp._outcome, with the caller's own refusals
    \* stop()
    spc,       \* "idle", "set", "join", "done"
    stopped,   \* _stopped
    drain,     \* _drain_on_stop
    stopReq,   \* _stop_requested
    \* the writer thread
    wpc,       \* where the thread is in _run
    queue,     \* _queue
    batch,     \* the ops of the current batch
    outcomes,  \* the outcome of each op applied so far
    txn,       \* what the open transaction has applied
    flushed,   \* the committed batch whose callers still wait
    sawStop,   \* _run's local stop_requested
    seq,       \* _change_seq
    \* the database, and the crashes so far
    log,
    crashes

callerVars == <<pc, opno, lock>>
stopVars   == <<spc, stopped, drain, stopReq>>
threadVars == <<wpc, batch, outcomes, txn, flushed, sawStop, seq>>
vars == <<callerVars, reply, stopVars, threadVars, queue, log, crashes>>

Op == Clients \X (1..MaxOps)

Cur(c) == <<c, opno[c]>>

In(o, s) == \E i \in 1..Len(s) : s[i] = o

Seqs(l) == {l[i].seq : i \in 1..Len(l)}

\* Wrong variant: counts the rows instead of taking the maximum.
MaxSeqCounts(l) == Len(l)

\* SELECT COALESCE(MAX(change_seq), 0) FROM wheels
MaxSeq(l) ==
    IF l = <<>> THEN 0
    ELSE CHOOSE m \in Seqs(l) : \A s \in Seqs(l) : s <= m

-----------------------------------------------------------------------------
\* A process that has just started on an empty database: __init__ and start().
Init ==
    /\ pc = [c \in Clients |-> "idle"]
    /\ lock = None
    /\ spc = "idle" /\ stopped = FALSE /\ drain = TRUE /\ stopReq = FALSE
    /\ wpc = "get"
    /\ queue = <<>> /\ batch = <<>> /\ outcomes = <<>>
    /\ txn = <<>> /\ flushed = <<>> /\ sawStop = FALSE
    /\ opno = [c \in Clients |-> 0]
    /\ reply = [o \in Op |-> "none"]
    /\ log = <<>>
    /\ seq = 0
    /\ crashes = 0

\* size_reached or drain_flush: the batch is flushed whatever the clock says
MustFlush ==
    /\ batch # <<>>
    /\ \/ Len(batch) >= BatchSize
       \/ stopReq /\ drain /\ queue = <<>>

-----------------------------------------------------------------------------
(* Wrong variants of the actions below.  Nothing uses them: each is the    *)
(* action with one plausible mistake, and a property must notice it.       *)

\* stop() that forgets the event
StopSetForgets ==
    /\ spc = "set"
    /\ spc' = "join"
    /\ UNCHANGED <<callerVars, reply, stopped, drain, stopReq, threadVars, queue, log, crashes>>

\* a failing op that "returns" a change_seq it never drew
ApplyOpFailsGivesBack ==
    /\ "op" \in Faults
    /\ wpc = "apply"
    /\ Len(outcomes) < Len(batch)
    /\ seq' = seq - 1
    /\ outcomes' = Append(outcomes, "error")
    /\ UNCHANGED <<callerVars, reply, stopVars, wpc, batch, txn, flushed, sawStop,
                   queue, log, crashes>>

\* a batch waits for batch_size: batch_deadline is never looked at
FlushWithoutDeadline ==
    /\ wpc = "decide"
    /\ MustFlush
    /\ sawStop' = stopReq
    /\ wpc' = "apply"
    /\ UNCHANGED <<callerVars, reply, stopVars, batch, outcomes, txn, flushed,
                   seq, queue, log, crashes>>

\* an op is tried again in its savepoint, on top of what its first try wrote
ApplyOpTwice ==
    /\ wpc = "apply"
    /\ Len(outcomes) < Len(batch)
    /\ seq' = seq + 2
    /\ txn' = txn \o [i \in 1..2 |-> [op |-> batch[Len(outcomes) + 1], seq |-> seq + i]]
    /\ outcomes' = Append(outcomes, "ok")
    /\ UNCHANGED <<callerVars, reply, stopVars, wpc, batch, flushed, sawStop,
                   queue, log, crashes>>

\* a failed commit whose earlier ops were already committed one by one
CommitFailsHalfway ==
    /\ "commit" \in Faults
    /\ wpc = "apply"
    /\ log' = log \o txn
    /\ txn' = <<>>
    /\ outcomes' = <<>>
    /\ wpc' = "fatal"
    /\ UNCHANGED <<callerVars, reply, stopVars, batch, flushed, sawStop, seq,
                   queue, crashes>>

\* _fail_fatally that does not mark the writer stopped
FatalMarkForgets ==
    /\ wpc = "fatal"
    /\ lock = None
    /\ wpc' = "fatalResolve"
    /\ UNCHANGED <<callerVars, reply, stopVars, batch, outcomes, txn, flushed,
                   sawStop, seq, queue, log, crashes>>

-----------------------------------------------------------------------------
(* The callers: submit_and_wait *)

Call(c) ==
    /\ pc[c] = "idle"
    /\ opno[c] < MaxOps
    /\ opno' = [opno EXCEPT ![c] = @ + 1]
    /\ pc' = [pc EXCEPT ![c] = "acquire"]
    /\ UNCHANGED <<lock, reply, stopVars, threadVars, queue, log, crashes>>

\* submit: WriterStoppedError
Refuse(c) ==
    /\ pc[c] = "acquire"
    /\ lock = None
    /\ stopped
    /\ pc' = [pc EXCEPT ![c] = "idle"]
    /\ reply' = [reply EXCEPT ![Cur(c)] = "rejected"]
    /\ UNCHANGED <<opno, lock, stopVars, threadVars, queue, log, crashes>>

\* submit: the lock is taken and kept while put may block
Acquire(c) ==
    /\ pc[c] = "acquire"
    /\ lock = None
    /\ ~stopped
    /\ lock' = c
    /\ pc' = [pc EXCEPT ![c] = "put"]
    /\ UNCHANGED <<opno, reply, stopVars, threadVars, queue, log, crashes>>

Put(c) ==
    /\ pc[c] = "put"
    /\ Len(queue) < QueueMax
    /\ queue' = Append(queue, Cur(c))
    /\ lock' = None
    /\ pc' = [pc EXCEPT ![c] = "wait"]
    /\ UNCHANGED <<opno, reply, stopVars, threadVars, log, crashes>>

\* result_event.wait() returns
Return(c) ==
    /\ pc[c] = "wait"
    /\ reply[Cur(c)] # "none"
    /\ pc' = [pc EXCEPT ![c] = "idle"]
    /\ UNCHANGED <<opno, lock, reply, stopVars, threadVars, queue, log, crashes>>

-----------------------------------------------------------------------------
(* stop(drain) *)

StopBegin(d) ==
    /\ spc = "idle"
    /\ lock = None
    /\ IF stopped
       THEN spc' = "done" /\ UNCHANGED <<stopped, drain>>
       ELSE spc' = "set" /\ stopped' = TRUE /\ drain' = d
    /\ UNCHANGED <<callerVars, reply, stopReq, threadVars, queue, log, crashes>>

StopSet ==
    /\ spc = "set"
    /\ stopReq' = TRUE
    /\ spc' = "join"
    /\ UNCHANGED <<callerVars, reply, stopped, drain, threadVars, queue, log, crashes>>

StopJoin ==
    /\ spc = "join"
    /\ wpc \in {"closed", "dead"}
    /\ spc' = "done"
    /\ UNCHANGED <<callerVars, reply, stopped, drain, stopReq, threadVars, queue, log, crashes>>

-----------------------------------------------------------------------------
(* The writer thread: one iteration of _run is
     get -> decide -> (apply ->) upkeep -> resolve -> check *)

\* _queue.get: an op, or Empty after the poll interval
Get ==
    /\ wpc = "get"
    /\ IF queue = <<>>
       THEN UNCHANGED <<queue, batch>>
       ELSE queue' = Tail(queue) /\ batch' = Append(batch, Head(queue))
    /\ wpc' = "decide"
    /\ UNCHANGED <<callerVars, reply, stopVars, outcomes, txn, flushed, sawStop,
                   seq, log, crashes>>

\* The interval may have elapsed for any batch that is not empty.
Flush ==
    /\ wpc = "decide"
    /\ batch # <<>>
    /\ sawStop' = stopReq
    /\ wpc' = "apply"
    /\ UNCHANGED <<callerVars, reply, stopVars, batch, outcomes, txn, flushed,
                   seq, queue, log, crashes>>

NoFlush ==
    /\ wpc = "decide"
    /\ ~MustFlush
    /\ sawStop' = stopReq
    /\ wpc' = "upkeep"
    /\ UNCHANGED <<callerVars, reply, stopVars, batch, outcomes, txn, flushed,
                   seq, queue, log, crashes>>

\* _apply_op inside its savepoint; the op draws its change_seq from next_seq
ApplyOp ==
    /\ wpc = "apply"
    /\ Len(outcomes) < Len(batch)
    /\ seq' = seq + 1
    /\ txn' = Append(txn, [op |-> batch[Len(outcomes) + 1], seq |-> seq + 1])
    /\ outcomes' = Append(outcomes, "ok")
    /\ UNCHANGED <<callerVars, reply, stopVars, wpc, batch, flushed, sawStop,
                   queue, log, crashes>>

\* apply raised, before or after it drew a change_seq: ROLLBACK TO savepoint
ApplyOpFails ==
    /\ "op" \in Faults
    /\ wpc = "apply"
    /\ Len(outcomes) < Len(batch)
    /\ seq' \in {seq, seq + 1}
    /\ outcomes' = Append(outcomes, "error")
    /\ UNCHANGED <<callerVars, reply, stopVars, wpc, batch, txn, flushed, sawStop,
                   queue, log, crashes>>

CommitBatch ==
    /\ wpc = "apply"
    /\ Len(outcomes) = Len(batch)
    /\ log' = log \o txn
    /\ txn' = <<>>
    /\ flushed' = batch
    /\ batch' = <<>>
    /\ wpc' = "upkeep"
    /\ UNCHANGED <<callerVars, reply, stopVars, outcomes, sawStop, seq, queue, crashes>>

\* _commit_batch raised: the transaction is gone once the connection closes
CommitFails ==
    /\ "commit" \in Faults
    /\ wpc = "apply"
    /\ txn' = <<>>
    /\ outcomes' = <<>>
    /\ wpc' = "fatal"
    /\ UNCHANGED <<callerVars, reply, stopVars, batch, flushed, sawStop, seq,
                   queue, log, crashes>>

\* _refresh_freelist_count, _run_checkpoint, _run_vacuum
Upkeep ==
    /\ wpc = "upkeep"
    /\ wpc' = "resolve"
    /\ UNCHANGED <<callerVars, reply, stopVars, batch, outcomes, txn, flushed, sawStop,
                   seq, queue, log, crashes>>

\* ... none of which is inside a try: the thread dies with the exception
UpkeepFails ==
    /\ "pragma" \in Faults
    /\ wpc = "upkeep"
    /\ batch = <<>>
    /\ wpc' = "dead"
    /\ UNCHANGED <<callerVars, reply, stopVars, batch, outcomes, txn, flushed, sawStop,
                   seq, queue, log, crashes>>

\* _resolve(flushed, outcomes)
Resolve ==
    /\ wpc = "resolve"
    /\ reply' = [o \in Op |->
                    IF In(o, flushed)
                    THEN outcomes[CHOOSE i \in 1..Len(flushed) : flushed[i] = o]
                    ELSE reply[o]]
    /\ flushed' = <<>>
    /\ outcomes' = <<>>
    /\ wpc' = "check"
    /\ UNCHANGED <<callerVars, stopVars, batch, txn, sawStop, seq, queue, log, crashes>>

\* stop was requested and everything accepted before it has been committed
DrainComplete == sawStop /\ queue = <<>> /\ batch = <<>>

\* The end of the iteration: loop on, or leave once the drain is complete.
CheckStop ==
    /\ wpc = "check"
    /\ ~(sawStop /\ ~drain)
    /\ wpc' = IF DrainComplete THEN "closing" ELSE "get"
    /\ UNCHANGED <<callerVars, reply, stopVars, batch, outcomes, txn, flushed, sawStop,
                   seq, queue, log, crashes>>

\* _discard_pending(batch), for drain=False
DiscardPending ==
    /\ wpc = "check"
    /\ sawStop /\ ~drain
    /\ reply' = [o \in Op |-> IF In(o, batch) \/ In(o, queue)
                              THEN "discarded" ELSE reply[o]]
    /\ batch' = <<>>
    /\ queue' = <<>>
    /\ wpc' = "closing"
    /\ UNCHANGED <<callerVars, stopVars, outcomes, txn, flushed, sawStop, seq, log, crashes>>

\* the final checkpoint and _conn.close(); if they raise the thread ends all the same
Close ==
    /\ wpc = "closing"
    /\ wpc' = "closed"
    /\ UNCHANGED <<callerVars, reply, stopVars, batch, outcomes, txn, flushed, sawStop,
                   seq, queue, log, crashes>>

\* _fail_fatally, up to the release of the lock
FatalMark ==
    /\ wpc = "fatal"
    /\ lock = None
    /\ stopped' = TRUE
    /\ wpc' = "fatalResolve"
    /\ UNCHANGED <<callerVars, reply, spc, drain, stopReq, batch, outcomes, txn, flushed,
                   sawStop, seq, queue, log, crashes>>

\* the rest of it: answer the batch with the exception, discard the queue
FatalResolve ==
    /\ wpc = "fatalResolve"
    /\ stopReq' = TRUE
    /\ reply' = [o \in Op |-> IF In(o, batch) THEN "error"
                              ELSE IF In(o, queue) THEN "discarded"
                              ELSE reply[o]]
    /\ batch' = <<>>
    /\ queue' = <<>>
    /\ wpc' = "closed"
    /\ UNCHANGED <<callerVars, spc, stopped, drain, outcomes, txn, flushed, sawStop,
                   seq, log, crashes>>

-----------------------------------------------------------------------------
\* The process dies and a new one starts on the same database.
Restart ==
    /\ crashes < MaxCrashes
    /\ crashes' = crashes + 1
    /\ seq' = MaxSeq(log)
    /\ pc' = [c \in Clients |-> "idle"]
    /\ lock' = None
    /\ spc' = "idle" /\ stopped' = FALSE /\ drain' = TRUE /\ stopReq' = FALSE
    /\ wpc' = "get"
    /\ queue' = <<>> /\ batch' = <<>> /\ outcomes' = <<>>
    /\ txn' = <<>> /\ flushed' = <<>> /\ sawStop' = FALSE
    /\ UNCHANGED <<opno, reply, log>>

\* Every caller is done and stop() has returned: nothing is left to do.
Finished ==
    /\ spc = "done"
    /\ \A c \in Clients : pc[c] = "idle" /\ opno[c] = MaxOps
    /\ wpc \in {"closed", "dead"}
    /\ UNCHANGED vars

CallerNext(c) == Call(c) \/ Refuse(c) \/ Acquire(c) \/ Put(c) \/ Return(c)

StopNext == (\E d \in BOOLEAN : StopBegin(d)) \/ StopSet \/ StopJoin

ThreadNext ==
    \/ Get \/ Flush \/ NoFlush
    \/ ApplyOp \/ ApplyOpFails \/ CommitBatch \/ CommitFails
    \/ Upkeep \/ UpkeepFails \/ Resolve \/ CheckStop \/ DiscardPending \/ Close
    \/ FatalMark \/ FatalResolve

Next ==
    \/ \E c \in Clients : CallerNext(c)
    \/ StopNext
    \/ ThreadNext
    \/ Restart
    \/ Finished

Spec == Init /\ [][Next]_vars

(***************************************************************************)
(* Fairness.  The thread and every caller inside submit_and_wait keep      *)
(* running, and so does a stop() once it has begun; nobody has to call.    *)
(* Flush is strongly fair: batch_deadline is fixed when the first op of a  *)
(* batch arrives and the monotonic clock passes it, however many more      *)
(* times the loop finds the batch below batch_size.                        *)
(***************************************************************************)
Fairness ==
    /\ WF_vars(ThreadNext)
    /\ SF_vars(Flush)
    /\ WF_vars(StopSet \/ StopJoin)
    /\ \A c \in Clients : WF_vars(Refuse(c) \/ Acquire(c) \/ Put(c) \/ Return(c))

FairSpec == Spec /\ Fairness

-----------------------------------------------------------------------------
(* Properties *)

ThreadPlaces ==
    {"get", "decide", "apply", "upkeep", "resolve", "check", "closing", "closed",
     "dead", "fatal", "fatalResolve"}

Answers == {"none", "ok", "error", "discarded", "rejected"}

Entry == [op : Op, seq : Nat \ {0}]

(* The variables keep their types. *)
TypeOK ==
    /\ pc \in [Clients -> {"idle", "acquire", "put", "wait"}]
    /\ opno \in [Clients -> 0..MaxOps]
    /\ lock \in Clients \cup {None}
    /\ reply \in [Op -> Answers]
    /\ spc \in {"idle", "set", "join", "done"}
    /\ stopped \in BOOLEAN /\ drain \in BOOLEAN /\ stopReq \in BOOLEAN
    /\ sawStop \in BOOLEAN
    /\ wpc \in ThreadPlaces
    /\ queue \in Seq(Op) /\ batch \in Seq(Op) /\ flushed \in Seq(Op)
    /\ outcomes \in Seq({"ok", "error"})
    /\ txn \in Seq(Entry) /\ log \in Seq(Entry)
    /\ seq \in Nat
    /\ crashes \in 0..MaxCrashes

(* submit_and_wait tells the truth: a caller that got its value back has its
   op in the database, and a caller that got an exception (its own op's, the
   fatal commit error, or WriterStoppedError) has left nothing behind -- across
   batches, savepoint rollbacks, stop, fatal errors and restarts. *)
RepliesAreTrue ==
    \A o \in Op :
        /\ reply[o] = "ok" => \E i \in 1..Len(log) : log[i].op = o
        /\ reply[o] \in {"error", "discarded", "rejected"} =>
               \A i \in 1..Len(log) : log[i].op # o

(* change_seq orders the committed ops strictly: no value is handed out twice
   to writes that survive, though rolled-back ops and transactions draw values
   too and a restarted process starts again from MAX(change_seq). *)
ChangeSeqStrict ==
    \A i, j \in 1..Len(log) : i < j => log[i].seq < log[j].seq

(* Once the thread has left _run in an orderly way (drained, discarded, or
   failed fatally) no caller is still waiting for an answer, none can be about
   to enqueue an op that nobody will take, and the queue is empty. *)
NobodyLeftBehind ==
    wpc = "closed" =>
        /\ queue = <<>> /\ batch = <<>>
        /\ \A c \in Clients : /\ pc[c] # "put"
                              /\ pc[c] = "wait" => reply[Cur(c)] # "none"

(* What keeps ChangeSeqStrict: next_seq stays above everything written, in
   the database and in the open transaction, and the open transaction lies
   above the database. *)
SeqCovers ==
    /\ \A i \in 1..Len(log) : log[i].seq <= seq
    /\ \A i \in 1..Len(txn) : txn[i].seq <= seq

TxnAboveLog ==
    /\ \A i \in 1..Len(log), j \in 1..Len(txn) : log[i].seq < txn[j].seq
    /\ \A i, j \in 1..Len(txn) : i < j => txn[i].seq < txn[j].seq

(* A batch and its outcomes line up until _resolve has used them. *)
Aligned ==
    flushed # <<>> => /\ wpc \in {"upkeep", "resolve", "dead"}
                      /\ Len(outcomes) = Len(flushed)

(* Whoever is inside put holds the lock, and the lock keeps stop() and
   _fail_fatally from marking the writer stopped meanwhile. *)
PutUnderLock ==
    /\ \A c \in Clients : pc[c] = "put" => lock = c
    /\ lock # None => ~stopped

(* stop has been marked before anyone acts on it, and the thread leaves
   with nothing in its hands. *)
StopOrder ==
    /\ spc = "set" \/ stopReq \/ sawStop => stopped
    /\ wpc = "fatalResolve" => stopped
    /\ wpc \in {"closing", "closed"} => stopped /\ queue = <<>> /\ batch = <<>>

(* An unanswered caller's op is somewhere the thread still looks. *)
WaiterIsHeld ==
    \A c \in Clients :
        pc[c] = "wait" /\ reply[Cur(c)] = "none" =>
            In(Cur(c), queue) \/ In(Cur(c), batch) \/ In(Cur(c), flushed)

CallerNumbered == \A c \in Clients : pc[c] # "idle" => opno[c] # 0

(* The inductive invariant. *)
WriterInv ==
    /\ TypeOK
    /\ ChangeSeqStrict
    /\ SeqCovers
    /\ TxnAboveLog
    /\ Aligned
    /\ PutUnderLock
    /\ StopOrder
    /\ WaiterIsHeld
    /\ CallerNumbered

(* The writer implements its abstract specification. *)
Abstract == INSTANCE WriterLog
ImplementsLog == Abstract!Spec

(* A submit_and_wait returns or raises in the end, while the process
   lives (a restart ends the call with its process) and so does the thread
   (an exception of its upkeep kills it without a word to its callers). *)
CallReturns(c) == (pc[c] # "idle") ~> (pc[c] = "idle" \/ wpc = "dead")

(* ... whoever calls it. *)
EveryCallReturns == \A c \in Clients : CallReturns(c)

(* The one way in which it does not: the thread waits in _fail_fatally for
   the lock of a caller that waits in put for room in the queue. *)
Jammed == wpc = "fatal" /\ lock # None /\ Len(queue) = QueueMax

CallReturnsOrJams(c) == (pc[c] # "idle") ~> (pc[c] = "idle" \/ wpc = "dead" \/ Jammed)

(* stop() returns once it has begun. *)
StopReturns == (spc \in {"set", "join"}) ~> (spc \in {"done", "idle"})
=============================================================================
