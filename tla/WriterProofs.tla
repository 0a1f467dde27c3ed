---------------------------- MODULE WriterProofs ----------------------------
(***************************************************************************)
(* Proofs about the writer thread, for any set of callers, any number of   *)
(* ops, any batch and queue size and any number of restarts.               *)
(*                                                                         *)
(* WriterInv is inductive.  One lemma per group of its conjuncts shows     *)
(* that a step keeps the group, action by action.  On top of it, ReplyInv  *)
(* is inductive and gives RepliesAreTrue and the refinement of WriterLog.  *)
(***************************************************************************)
EXTENDS Writer, SequenceTheorems, TLAPS

(* The change_seq a process starts from is above every committed one. *)
LEMMA MaxSeqCovers ==
    ASSUME log \in Seq(Entry), ChangeSeqStrict
    PROVE  /\ MaxSeq(log) \in Nat
           /\ \A i \in 1..Len(log) : log[i].seq <= MaxSeq(log)
<1>1. CASE log = <<>>
  BY <1>1 DEF MaxSeq
<1>2. CASE log # <<>>
  <2>1. Len(log) \in Nat \ {0} /\ \A i \in 1..Len(log) : log[i] \in Entry
    BY <1>2
  <2>2. \A i \in 1..Len(log) : log[i].seq \in Nat
    BY <2>1 DEF Entry
  <2>3. log[Len(log)].seq \in Seqs(log)
    BY <2>1 DEF Seqs
  <2>4. \A i \in 1..Len(log) : log[i].seq <= log[Len(log)].seq
    BY <2>1, <2>2 DEF ChangeSeqStrict
  <2>5. \A s \in Seqs(log) : s <= log[Len(log)].seq
    BY <2>4 DEF Seqs
  <2>6. PICK m \in Seqs(log) : m = MaxSeq(log) /\ \A s \in Seqs(log) : s <= m
    BY <1>2, <2>3, <2>5 DEF MaxSeq
  <2>7. m \in Nat
    BY <2>2 DEF Seqs
  <2> QED
    BY <2>6, <2>7 DEF Seqs
<1> QED
  BY <1>1, <1>2

(* The entries of a sequence of entries are numbered. *)
LEMMA EntrySeqs ==
    ASSUME NEW s \in Seq(Entry)
    PROVE  Len(s) \in Nat /\ \A i \in 1..Len(s) : s[i].seq \in Nat
<1>1. \A i \in 1..Len(s) : s[i] \in Entry
  OBVIOUS
<1> QED
  BY <1>1 DEF Entry

NoRepeat(s) == \A i, j \in 1..Len(s) : s[i] = s[j] => i = j

(* Membership in a sequence of ops, for the ways the thread builds one. *)
LEMMA InEmpty == NoRepeat(<<>>) /\ \A o : ~In(o, <<>>)
BY DEF NoRepeat, In

LEMMA InAppend ==
    ASSUME NEW s \in Seq(Op), NEW e \in Op
    PROVE  /\ \A o : In(o, Append(s, e)) <=> In(o, s) \/ o = e
           /\ NoRepeat(s) /\ ~In(e, s) => NoRepeat(Append(s, e))
<1>1. /\ Len(Append(s, e)) = Len(s) + 1 /\ Len(s) \in Nat
      /\ \A i \in 1..Len(s) : Append(s, e)[i] = s[i]
      /\ Append(s, e)[Len(s) + 1] = e
  OBVIOUS
<1>2. \A i \in 1..(Len(s) + 1) : i \in 1..Len(s) \/ i = Len(s) + 1
  BY <1>1
<1>3. \A o : In(o, Append(s, e)) <=> In(o, s) \/ o = e
  BY <1>1, <1>2 DEF In
<1>4. ASSUME NoRepeat(s), ~In(e, s) PROVE NoRepeat(Append(s, e))
  BY <1>1, <1>2, <1>4 DEF In, NoRepeat
<1> QED
  BY <1>3, <1>4

LEMMA InTail ==
    ASSUME NEW s \in Seq(Op), s # <<>>
    PROVE  /\ Head(s) \in Op /\ Tail(s) \in Seq(Op)
           /\ \A o : In(o, s) <=> o = Head(s) \/ In(o, Tail(s))
           /\ NoRepeat(s) => NoRepeat(Tail(s)) /\ ~In(Head(s), Tail(s))
<1>1. /\ Len(s) \in Nat \ {0} /\ Head(s) = s[1] /\ s[1] \in Op
      /\ Tail(s) \in Seq(Op) /\ Len(Tail(s)) = Len(s) - 1
      /\ \A i \in 1..(Len(s) - 1) : Tail(s)[i] = s[i + 1]
  BY HeadTailProperties
<1>2. \A i \in 1..(Len(s) - 1) : i + 1 \in 1..Len(s) /\ i + 1 # 1
  BY <1>1
<1>3. \A i \in 1..Len(s) : i = 1 \/ (i - 1 \in 1..(Len(s) - 1) /\ Tail(s)[i - 1] = s[i])
  BY <1>1
<1>4. 1 \in 1..Len(s)
  BY <1>1
<1>5. \A o : In(o, Tail(s)) => In(o, s)
  BY <1>1, <1>2 DEF In
<1>6. \A o : In(o, s) => o = Head(s) \/ In(o, Tail(s))
  BY <1>1, <1>3 DEF In
<1>7. In(Head(s), s)
  BY <1>1, <1>4 DEF In
<1>8. ASSUME NoRepeat(s) PROVE NoRepeat(Tail(s)) /\ ~In(Head(s), Tail(s))
  <2>1. NoRepeat(Tail(s))
    <3> SUFFICES ASSUME NEW i \in 1..Len(Tail(s)), NEW j \in 1..Len(Tail(s)),
                        Tail(s)[i] = Tail(s)[j]
                 PROVE  i = j
      BY DEF NoRepeat
    <3>1. s[i + 1] = s[j + 1] /\ i + 1 \in 1..Len(s) /\ j + 1 \in 1..Len(s)
      BY <1>1, <1>2
    <3>2. i + 1 = j + 1
      BY <1>8, <3>1 DEF NoRepeat
    <3> QED
      BY <1>1, <3>2
  <2>2. ~In(Head(s), Tail(s))
    BY <1>1, <1>2, <1>4, <1>8 DEF In, NoRepeat
  <2> QED
    BY <2>1, <2>2
<1> QED
  BY <1>1, <1>5, <1>6, <1>7, <1>8

(* The answer _resolve gives to an op of the batch is one of its outcomes. *)
LEMMA ResolveAnswers ==
    ASSUME TypeOK, Aligned, wpc = "resolve", NEW o \in Op, In(o, flushed)
    PROVE  outcomes[CHOOSE i \in 1..Len(flushed) : flushed[i] = o] \in {"ok", "error"}
<1>1. PICK i \in 1..Len(flushed) : flushed[i] = o
  BY DEF In
<1>2. flushed # <<>> /\ Len(flushed) \in Nat
  BY <1>1 DEF TypeOK
<1>3. Len(outcomes) = Len(flushed)
  BY <1>2 DEF Aligned
<1> DEFINE k == CHOOSE j \in 1..Len(flushed) : flushed[j] = o
<1>4. k \in 1..Len(outcomes)
  BY <1>1, <1>3
<1> HIDE DEF k
<1>5. outcomes[k] \in {"ok", "error"}
  BY <1>4 DEF TypeOK
<1> QED
  BY <1>5 DEF k

(* Types: every step keeps them. *)
LEMMA TypeStep ==
    ASSUME TypeOK, Aligned, ChangeSeqStrict, CallerNumbered, [Next]_vars
    PROVE  TypeOK'
<1> USE DEF callerVars, stopVars, threadVars
<1>1. ASSUME NEW c \in Clients, Call(c)
      PROVE  TypeOK'
  BY <1>1, WriterAssumption DEF Call, TypeOK
<1>2. ASSUME NEW c \in Clients, Refuse(c)
      PROVE  TypeOK'
  BY <1>2 DEF Refuse, TypeOK, Answers
<1>3. ASSUME NEW c \in Clients, Acquire(c)
      PROVE  TypeOK'
  BY <1>3 DEF Acquire, TypeOK
<1>4. ASSUME NEW c \in Clients, Put(c)
      PROVE  TypeOK'
  <2>1. Cur(c) \in Op
    BY <1>4 DEF Put, TypeOK, CallerNumbered, Op, Cur
  <2>2. queue' \in Seq(Op)
    BY <1>4, <2>1 DEF Put, TypeOK
  <2> QED
    BY <1>4, <2>2, WriterAssumption DEF Put, TypeOK
<1>5. ASSUME NEW c \in Clients, Return(c)
      PROVE  TypeOK'
  BY <1>5 DEF Return, TypeOK
<1>6. ASSUME NEW d \in BOOLEAN, StopBegin(d)
      PROVE  TypeOK'
  BY <1>6 DEF StopBegin, TypeOK
<1>7. CASE StopSet
  BY <1>7 DEF StopSet, TypeOK
<1>8. CASE StopJoin
  BY <1>8 DEF StopJoin, TypeOK
<1>9. CASE Get
  <2>1. CASE queue = <<>>
    BY <1>9, <2>1 DEF Get, TypeOK, ThreadPlaces
  <2>2. CASE queue # <<>>
    <3>1. Head(queue) \in Op /\ Tail(queue) \in Seq(Op)
      BY <2>2, InTail DEF TypeOK
    <3>2. queue' = Tail(queue) /\ batch' = Append(batch, Head(queue))
      BY <1>9, <2>2 DEF Get
    <3>3. queue' \in Seq(Op) /\ batch' \in Seq(Op)
      BY <3>1, <3>2, AppendProperties DEF TypeOK
    <3> QED
      BY <1>9, <3>3 DEF Get, TypeOK, ThreadPlaces
  <2> QED
    BY <2>1, <2>2
<1>10. CASE Flush
  BY <1>10 DEF Flush, TypeOK, ThreadPlaces
<1>11. CASE NoFlush
  BY <1>11 DEF NoFlush, TypeOK, ThreadPlaces
<1>12. CASE ApplyOp
  <2>1. batch[Len(outcomes) + 1] \in Op
    BY <1>12 DEF ApplyOp, TypeOK
  <2>2. seq + 1 \in Nat \ {0}
    BY DEF TypeOK
  <2>3. [op |-> batch[Len(outcomes) + 1], seq |-> seq + 1] \in Entry
    BY <2>1, <2>2 DEF Entry
  <2>4. txn' \in Seq(Entry)
    BY <1>12, <2>3 DEF ApplyOp, TypeOK
  <2>5. outcomes' \in Seq({"ok", "error"}) /\ seq' \in Nat
    BY <1>12 DEF ApplyOp, TypeOK
  <2> QED
    BY <1>12, <2>4, <2>5 DEF ApplyOp, TypeOK
<1>13. CASE ApplyOpFails
  <2>1. outcomes' \in Seq({"ok", "error"})
    BY <1>13 DEF ApplyOpFails, TypeOK
  <2>2. seq' \in Nat
    BY <1>13 DEF ApplyOpFails, TypeOK
  <2> QED
    BY <1>13, <2>1, <2>2 DEF ApplyOpFails, TypeOK
<1>14. CASE CommitBatch
  BY <1>14 DEF CommitBatch, TypeOK, ThreadPlaces
<1>15. CASE CommitFails
  BY <1>15 DEF CommitFails, TypeOK, ThreadPlaces
<1>16. CASE Upkeep
  BY <1>16 DEF Upkeep, TypeOK, ThreadPlaces
<1>17. CASE UpkeepFails
  BY <1>17 DEF UpkeepFails, TypeOK, ThreadPlaces
<1>18. CASE Resolve
  <2> DEFINE r(o) == outcomes[CHOOSE i \in 1..Len(flushed) : flushed[i] = o]
  <2>1. \A o \in Op : In(o, flushed) => r(o) \in Answers
    BY <1>18, ResolveAnswers DEF Resolve, Answers
  <2>2. reply' = [o \in Op |-> IF In(o, flushed) THEN r(o) ELSE reply[o]]
    BY <1>18 DEF Resolve
  <2> HIDE DEF r
  <2>3. reply' \in [Op -> Answers]
    BY <2>1, <2>2 DEF TypeOK
  <2>4. /\ flushed' \in Seq(Op) /\ outcomes' \in Seq({"ok", "error"})
        /\ wpc' \in ThreadPlaces
        /\ UNCHANGED <<pc, opno, lock, spc, stopped, drain, stopReq, batch, txn,
                       sawStop, seq, queue, log, crashes>>
    BY <1>18 DEF Resolve, ThreadPlaces
  <2> QED
    BY <2>3, <2>4 DEF TypeOK
<1>19. CASE CheckStop
  BY <1>19 DEF CheckStop, TypeOK, ThreadPlaces
<1>20. CASE DiscardPending
  BY <1>20 DEF DiscardPending, TypeOK, Answers, ThreadPlaces
<1>21. CASE Close
  BY <1>21 DEF Close, TypeOK, ThreadPlaces
<1>22. CASE FatalMark
  BY <1>22 DEF FatalMark, TypeOK, ThreadPlaces
<1>23. CASE FatalResolve
  BY <1>23 DEF FatalResolve, TypeOK, Answers, ThreadPlaces
<1>24. CASE Restart
  <2>1. seq' \in Nat
    BY <1>24, MaxSeqCovers DEF Restart, TypeOK
  <2>2. /\ queue' \in Seq(Op) /\ batch' \in Seq(Op) /\ flushed' \in Seq(Op)
        /\ outcomes' \in Seq({"ok", "error"})
        /\ txn' \in Seq(Entry) /\ log' \in Seq(Entry)
    BY <1>24 DEF Restart, TypeOK
  <2>3. pc' \in [Clients -> {"idle", "acquire", "put", "wait"}]
    BY <1>24 DEF Restart
  <2>4. crashes' \in 0..MaxCrashes
    BY <1>24, WriterAssumption DEF Restart, TypeOK
  <2> QED
    BY <1>24, <2>1, <2>2, <2>3, <2>4 DEF Restart, TypeOK, ThreadPlaces
<1>25. CASE Finished
  BY <1>25 DEF Finished, vars, TypeOK
<1>26. CASE UNCHANGED vars
  BY <1>26 DEF TypeOK, vars
<1> QED
  BY <1>1, <1>2, <1>3, <1>4, <1>5, <1>6, <1>7, <1>8, <1>9, <1>10, <1>11,
     <1>12, <1>13, <1>14, <1>15, <1>16, <1>17, <1>18, <1>19, <1>20, <1>21,
     <1>22, <1>23, <1>24, <1>25, <1>26 DEF Next, CallerNext, StopNext,
     ThreadNext

(* What is known of change_seq, as one formula. *)
SeqInv == ChangeSeqStrict /\ SeqCovers /\ TxnAboveLog

(* change_seq: what has been written stays ordered and below next_seq. *)
LEMMA SeqStep ==
    ASSUME TypeOK, SeqInv, [Next]_vars
    PROVE  SeqInv'
<1> USE DEF callerVars, stopVars, threadVars
<1>1. ASSUME NEW c \in Clients, Call(c)
      PROVE  SeqInv'
  BY <1>1 DEF Call, SeqInv, TypeOK, ChangeSeqStrict, SeqCovers, TxnAboveLog
<1>2. ASSUME NEW c \in Clients, Refuse(c)
      PROVE  SeqInv'
  BY <1>2 DEF Refuse, SeqInv, TypeOK, ChangeSeqStrict, SeqCovers, TxnAboveLog
<1>3. ASSUME NEW c \in Clients, Acquire(c)
      PROVE  SeqInv'
  BY <1>3 DEF Acquire, SeqInv, TypeOK, ChangeSeqStrict, SeqCovers, TxnAboveLog
<1>4. ASSUME NEW c \in Clients, Put(c)
      PROVE  SeqInv'
  BY <1>4 DEF Put, SeqInv, TypeOK, ChangeSeqStrict, SeqCovers, TxnAboveLog
<1>5. ASSUME NEW c \in Clients, Return(c)
      PROVE  SeqInv'
  BY <1>5 DEF Return, SeqInv, TypeOK, ChangeSeqStrict, SeqCovers, TxnAboveLog
<1>6. ASSUME NEW d \in BOOLEAN, StopBegin(d)
      PROVE  SeqInv'
  BY <1>6 DEF StopBegin, SeqInv, TypeOK, ChangeSeqStrict, SeqCovers,
     TxnAboveLog
<1>7. CASE StopSet
  BY <1>7 DEF StopSet, SeqInv, TypeOK, ChangeSeqStrict, SeqCovers, TxnAboveLog
<1>8. CASE StopJoin
  BY <1>8 DEF StopJoin, SeqInv, TypeOK, ChangeSeqStrict, SeqCovers,
     TxnAboveLog
<1>9. CASE Get
  BY <1>9 DEF Get, SeqInv, TypeOK, ChangeSeqStrict, SeqCovers, TxnAboveLog
<1>10. CASE Flush
  BY <1>10 DEF Flush, SeqInv, TypeOK, ChangeSeqStrict, SeqCovers, TxnAboveLog
<1>11. CASE NoFlush
  BY <1>11 DEF NoFlush, SeqInv, TypeOK, ChangeSeqStrict, SeqCovers,
     TxnAboveLog
<1>12. CASE ApplyOp
  <2> DEFINE n == Len(txn)
  <2>1. /\ n \in Nat /\ seq \in Nat
        /\ \A i \in 1..n : txn[i].seq \in Nat
        /\ \A i \in 1..Len(log) : log[i].seq \in Nat
    BY EntrySeqs DEF TypeOK
  <2>2. /\ Len(txn') = n + 1
        /\ \A i \in 1..n : txn'[i] = txn[i]
        /\ txn'[n + 1].seq = seq + 1
    BY <1>12 DEF ApplyOp, TypeOK
  <2>3. log' = log /\ seq' = seq + 1
    BY <1>12 DEF ApplyOp
  <2> HIDE DEF n
  <2>4. \A i \in 1..(n + 1) : i \in 1..n \/ i = n + 1
    BY <2>1
  <2>5. SeqCovers'
    BY <2>1, <2>2, <2>3, <2>4 DEF SeqInv, SeqCovers, n
  <2>6. TxnAboveLog'
    <3>1. \A i \in 1..Len(log), j \in 1..(n + 1) : log[i].seq < txn'[j].seq
      BY <2>1, <2>2, <2>4 DEF SeqInv, SeqCovers, TxnAboveLog, n
    <3>2. ASSUME NEW i \in 1..(n + 1), NEW j \in 1..(n + 1), i < j
          PROVE  txn'[i].seq < txn'[j].seq
      <4>1. i \in 1..n
        BY <2>1, <3>2
      <4>2. CASE j \in 1..n
        BY <2>2, <3>2, <4>1, <4>2 DEF SeqInv, TxnAboveLog, n
      <4>3. CASE j = n + 1
        BY <2>1, <2>2, <4>1, <4>3 DEF SeqInv, SeqCovers, n
      <4> QED
        BY <2>4, <4>2, <4>3
    <3> QED
      BY <2>2, <2>3, <3>1, <3>2 DEF TxnAboveLog
  <2> QED
    BY <2>3, <2>5, <2>6 DEF SeqInv, ChangeSeqStrict
<1>13. CASE ApplyOpFails
  <2>1. /\ seq \in Nat /\ seq' \in {seq, seq + 1} /\ log' = log /\ txn' = txn
        /\ \A i \in 1..Len(txn) : txn[i].seq \in Nat
        /\ \A i \in 1..Len(log) : log[i].seq \in Nat
    BY <1>13, EntrySeqs DEF ApplyOpFails, TypeOK
  <2> QED
    BY <2>1 DEF SeqInv, ChangeSeqStrict, SeqCovers, TxnAboveLog
<1>14. CASE CommitBatch
  <2> DEFINE n == Len(log)
             k == Len(txn)
  <2>1. /\ n \in Nat /\ k \in Nat /\ seq \in Nat
        /\ \A i \in 1..k : txn[i].seq \in Nat
        /\ \A i \in 1..n : log[i].seq \in Nat
    BY EntrySeqs DEF TypeOK
  <2>2. /\ Len(log') = n + k
        /\ \A i \in 1..n : log'[i] = log[i]
        /\ \A i \in (n + 1)..(n + k) : log'[i] = txn[i - n]
    BY <1>14, ConcatProperties DEF CommitBatch, TypeOK
  <2>3. txn' = <<>> /\ seq' = seq
    BY <1>14 DEF CommitBatch
  <2>4. Len(txn') = 0
    BY <2>3
  <2> HIDE DEF n, k
  <2>5. \A i \in 1..(n + k) :
            \/ i \in 1..n
            \/ i \in (n + 1)..(n + k) /\ i - n \in 1..k
    BY <2>1
  <2>6. SeqCovers'
    BY <2>1, <2>2, <2>3, <2>4, <2>5 DEF SeqInv, SeqCovers, n, k
  <2>7. ChangeSeqStrict'
    <3> SUFFICES ASSUME NEW i \in 1..(n + k), NEW j \in 1..(n + k), i < j
                 PROVE  log'[i].seq < log'[j].seq
      BY <2>2 DEF ChangeSeqStrict
    <3>1. CASE i \in 1..n /\ j \in 1..n
      BY <3>1, <2>2 DEF SeqInv, ChangeSeqStrict, n
    <3>2. CASE i \in 1..n /\ j \in (n + 1)..(n + k) /\ j - n \in 1..k
      BY <3>2, <2>2 DEF SeqInv, TxnAboveLog, n, k
    <3>3. CASE i \in (n + 1)..(n + k) /\ j \in 1..n
      BY <3>3, <2>1
    <3>4. CASE /\ i \in (n + 1)..(n + k) /\ i - n \in 1..k
               /\ j \in (n + 1)..(n + k) /\ j - n \in 1..k
      <4>1. i - n < j - n
        BY <2>1
      <4> QED
        BY <3>4, <4>1, <2>2 DEF SeqInv, TxnAboveLog, k
    <3> QED
      BY <2>5, <3>1, <3>2, <3>3, <3>4
  <2>8. TxnAboveLog'
    BY <2>4 DEF TxnAboveLog
  <2> QED
    BY <2>6, <2>7, <2>8 DEF SeqInv
<1>15. CASE CommitFails
  BY <1>15 DEF CommitFails, SeqInv, TypeOK, ChangeSeqStrict, SeqCovers,
     TxnAboveLog
<1>16. CASE Upkeep
  BY <1>16 DEF Upkeep, SeqInv, TypeOK, ChangeSeqStrict, SeqCovers, TxnAboveLog
<1>17. CASE UpkeepFails
  BY <1>17 DEF UpkeepFails, SeqInv, TypeOK, ChangeSeqStrict, SeqCovers,
     TxnAboveLog
<1>18. CASE Resolve
  BY <1>18 DEF Resolve, SeqInv, TypeOK, ChangeSeqStrict, SeqCovers,
     TxnAboveLog
<1>19. CASE CheckStop
  BY <1>19 DEF CheckStop, SeqInv, TypeOK, ChangeSeqStrict, SeqCovers,
     TxnAboveLog
<1>20. CASE DiscardPending
  BY <1>20 DEF DiscardPending, SeqInv, TypeOK, ChangeSeqStrict, SeqCovers,
     TxnAboveLog
<1>21. CASE Close
  BY <1>21 DEF Close, SeqInv, TypeOK, ChangeSeqStrict, SeqCovers, TxnAboveLog
<1>22. CASE FatalMark
  BY <1>22 DEF FatalMark, SeqInv, TypeOK, ChangeSeqStrict, SeqCovers,
     TxnAboveLog
<1>23. CASE FatalResolve
  BY <1>23 DEF FatalResolve, SeqInv, TypeOK, ChangeSeqStrict, SeqCovers,
     TxnAboveLog
<1>24. CASE Restart
  <2>1. log' = log /\ txn' = <<>> /\ seq' = MaxSeq(log)
    BY <1>24 DEF Restart
  <2>2. Len(txn') = 0
    BY <2>1
  <2>3. \A i \in 1..Len(log) : log[i].seq <= MaxSeq(log)
    BY MaxSeqCovers DEF TypeOK, SeqInv
  <2> QED
    BY <2>1, <2>2, <2>3 DEF SeqInv, ChangeSeqStrict, SeqCovers, TxnAboveLog
<1>25. CASE Finished
  BY <1>25 DEF Finished, vars, SeqInv, TypeOK, ChangeSeqStrict, SeqCovers,
     TxnAboveLog
<1>26. CASE UNCHANGED vars
  BY <1>26 DEF SeqInv, TypeOK, ChangeSeqStrict, SeqCovers, TxnAboveLog, vars
<1> QED
  BY <1>1, <1>2, <1>3, <1>4, <1>5, <1>6, <1>7, <1>8, <1>9, <1>10, <1>11,
     <1>12, <1>13, <1>14, <1>15, <1>16, <1>17, <1>18, <1>19, <1>20, <1>21,
     <1>22, <1>23, <1>24, <1>25, <1>26 DEF Next, CallerNext, StopNext,
     ThreadNext

(* Batch and outcomes stay aligned. *)
LEMMA AlignedStep ==
    ASSUME TypeOK, Aligned, [Next]_vars
    PROVE  Aligned'
<1> USE DEF callerVars, stopVars, threadVars
<1>1. ASSUME NEW c \in Clients, Call(c)
      PROVE  Aligned'
  BY <1>1 DEF Call, TypeOK, Aligned
<1>2. ASSUME NEW c \in Clients, Refuse(c)
      PROVE  Aligned'
  BY <1>2 DEF Refuse, TypeOK, Aligned
<1>3. ASSUME NEW c \in Clients, Acquire(c)
      PROVE  Aligned'
  BY <1>3 DEF Acquire, TypeOK, Aligned
<1>4. ASSUME NEW c \in Clients, Put(c)
      PROVE  Aligned'
  BY <1>4 DEF Put, TypeOK, Aligned
<1>5. ASSUME NEW c \in Clients, Return(c)
      PROVE  Aligned'
  BY <1>5 DEF Return, TypeOK, Aligned
<1>6. ASSUME NEW d \in BOOLEAN, StopBegin(d)
      PROVE  Aligned'
  BY <1>6 DEF StopBegin, TypeOK, Aligned
<1>7. CASE StopSet
  BY <1>7 DEF StopSet, TypeOK, Aligned
<1>8. CASE StopJoin
  BY <1>8 DEF StopJoin, TypeOK, Aligned
<1>9. CASE Get
  BY <1>9 DEF Get, TypeOK, Aligned
<1>10. CASE Flush
  BY <1>10 DEF Flush, TypeOK, Aligned
<1>11. CASE NoFlush
  BY <1>11 DEF NoFlush, TypeOK, Aligned
<1>12. CASE ApplyOp
  BY <1>12 DEF ApplyOp, TypeOK, Aligned
<1>13. CASE ApplyOpFails
  BY <1>13 DEF ApplyOpFails, TypeOK, Aligned
<1>14. CASE CommitBatch
  BY <1>14 DEF CommitBatch, TypeOK, Aligned
<1>15. CASE CommitFails
  BY <1>15 DEF CommitFails, TypeOK, Aligned
<1>16. CASE Upkeep
  BY <1>16 DEF Upkeep, TypeOK, Aligned
<1>17. CASE UpkeepFails
  BY <1>17 DEF UpkeepFails, TypeOK, Aligned
<1>18. CASE Resolve
  BY <1>18 DEF Resolve, TypeOK, Aligned
<1>19. CASE CheckStop
  BY <1>19 DEF CheckStop, TypeOK, Aligned
<1>20. CASE DiscardPending
  BY <1>20 DEF DiscardPending, TypeOK, Aligned
<1>21. CASE Close
  BY <1>21 DEF Close, TypeOK, Aligned
<1>22. CASE FatalMark
  BY <1>22 DEF FatalMark, TypeOK, Aligned
<1>23. CASE FatalResolve
  BY <1>23 DEF FatalResolve, TypeOK, Aligned
<1>24. CASE Restart
  BY <1>24 DEF Restart, TypeOK, Aligned
<1>25. CASE Finished
  BY <1>25 DEF Finished, vars, TypeOK, Aligned
<1>26. CASE UNCHANGED vars
  BY <1>26 DEF TypeOK, Aligned, vars
<1> QED
  BY <1>1, <1>2, <1>3, <1>4, <1>5, <1>6, <1>7, <1>8, <1>9, <1>10, <1>11,
     <1>12, <1>13, <1>14, <1>15, <1>16, <1>17, <1>18, <1>19, <1>20, <1>21,
     <1>22, <1>23, <1>24, <1>25, <1>26 DEF Next, CallerNext, StopNext,
     ThreadNext

(* The lock protects the put. *)
LEMMA LockStep ==
    ASSUME TypeOK, PutUnderLock, [Next]_vars
    PROVE  PutUnderLock'
<1> USE DEF callerVars, stopVars, threadVars
<1>1. ASSUME NEW c \in Clients, Call(c)
      PROVE  PutUnderLock'
  BY <1>1, WriterAssumption DEF Call, TypeOK, PutUnderLock
<1>2. ASSUME NEW c \in Clients, Refuse(c)
      PROVE  PutUnderLock'
  BY <1>2, WriterAssumption DEF Refuse, TypeOK, PutUnderLock
<1>3. ASSUME NEW c \in Clients, Acquire(c)
      PROVE  PutUnderLock'
  BY <1>3, WriterAssumption DEF Acquire, TypeOK, PutUnderLock
<1>4. ASSUME NEW c \in Clients, Put(c)
      PROVE  PutUnderLock'
  BY <1>4, WriterAssumption DEF Put, TypeOK, PutUnderLock
<1>5. ASSUME NEW c \in Clients, Return(c)
      PROVE  PutUnderLock'
  BY <1>5, WriterAssumption DEF Return, TypeOK, PutUnderLock
<1>6. ASSUME NEW d \in BOOLEAN, StopBegin(d)
      PROVE  PutUnderLock'
  BY <1>6, WriterAssumption DEF StopBegin, TypeOK, PutUnderLock
<1>7. CASE StopSet
  BY <1>7, WriterAssumption DEF StopSet, TypeOK, PutUnderLock
<1>8. CASE StopJoin
  BY <1>8, WriterAssumption DEF StopJoin, TypeOK, PutUnderLock
<1>9. CASE Get
  BY <1>9, WriterAssumption DEF Get, TypeOK, PutUnderLock
<1>10. CASE Flush
  BY <1>10, WriterAssumption DEF Flush, TypeOK, PutUnderLock
<1>11. CASE NoFlush
  BY <1>11, WriterAssumption DEF NoFlush, TypeOK, PutUnderLock
<1>12. CASE ApplyOp
  BY <1>12, WriterAssumption DEF ApplyOp, TypeOK, PutUnderLock
<1>13. CASE ApplyOpFails
  BY <1>13, WriterAssumption DEF ApplyOpFails, TypeOK, PutUnderLock
<1>14. CASE CommitBatch
  BY <1>14, WriterAssumption DEF CommitBatch, TypeOK, PutUnderLock
<1>15. CASE CommitFails
  BY <1>15, WriterAssumption DEF CommitFails, TypeOK, PutUnderLock
<1>16. CASE Upkeep
  BY <1>16, WriterAssumption DEF Upkeep, TypeOK, PutUnderLock
<1>17. CASE UpkeepFails
  BY <1>17, WriterAssumption DEF UpkeepFails, TypeOK, PutUnderLock
<1>18. CASE Resolve
  BY <1>18, WriterAssumption DEF Resolve, TypeOK, PutUnderLock
<1>19. CASE CheckStop
  BY <1>19, WriterAssumption DEF CheckStop, TypeOK, PutUnderLock
<1>20. CASE DiscardPending
  BY <1>20, WriterAssumption DEF DiscardPending, TypeOK, PutUnderLock
<1>21. CASE Close
  BY <1>21, WriterAssumption DEF Close, TypeOK, PutUnderLock
<1>22. CASE FatalMark
  BY <1>22, WriterAssumption DEF FatalMark, TypeOK, PutUnderLock
<1>23. CASE FatalResolve
  BY <1>23, WriterAssumption DEF FatalResolve, TypeOK, PutUnderLock
<1>24. CASE Restart
  BY <1>24, WriterAssumption DEF Restart, TypeOK, PutUnderLock
<1>25. CASE Finished
  BY <1>25, WriterAssumption DEF Finished, vars, TypeOK, PutUnderLock
<1>26. CASE UNCHANGED vars
  BY <1>26 DEF TypeOK, PutUnderLock, vars
<1> QED
  BY <1>1, <1>2, <1>3, <1>4, <1>5, <1>6, <1>7, <1>8, <1>9, <1>10, <1>11,
     <1>12, <1>13, <1>14, <1>15, <1>16, <1>17, <1>18, <1>19, <1>20, <1>21,
     <1>22, <1>23, <1>24, <1>25, <1>26 DEF Next, CallerNext, StopNext,
     ThreadNext

(* Stop is marked before anyone acts on it. *)
LEMMA StopOrderStep ==
    ASSUME TypeOK, PutUnderLock, StopOrder, [Next]_vars
    PROVE  StopOrder'
<1> USE DEF callerVars, stopVars, threadVars
<1>1. ASSUME NEW c \in Clients, Call(c)
      PROVE  StopOrder'
  BY <1>1, WriterAssumption DEF Call, TypeOK, PutUnderLock, StopOrder
<1>2. ASSUME NEW c \in Clients, Refuse(c)
      PROVE  StopOrder'
  BY <1>2, WriterAssumption DEF Refuse, TypeOK, PutUnderLock, StopOrder
<1>3. ASSUME NEW c \in Clients, Acquire(c)
      PROVE  StopOrder'
  BY <1>3, WriterAssumption DEF Acquire, TypeOK, PutUnderLock, StopOrder
<1>4. ASSUME NEW c \in Clients, Put(c)
      PROVE  StopOrder'
  BY <1>4, WriterAssumption DEF Put, TypeOK, PutUnderLock, StopOrder
<1>5. ASSUME NEW c \in Clients, Return(c)
      PROVE  StopOrder'
  BY <1>5, WriterAssumption DEF Return, TypeOK, PutUnderLock, StopOrder
<1>6. ASSUME NEW d \in BOOLEAN, StopBegin(d)
      PROVE  StopOrder'
  BY <1>6, WriterAssumption DEF StopBegin, TypeOK, PutUnderLock, StopOrder
<1>7. CASE StopSet
  BY <1>7, WriterAssumption DEF StopSet, TypeOK, PutUnderLock, StopOrder
<1>8. CASE StopJoin
  BY <1>8, WriterAssumption DEF StopJoin, TypeOK, PutUnderLock, StopOrder
<1>9. CASE Get
  BY <1>9, WriterAssumption DEF Get, TypeOK, PutUnderLock, StopOrder
<1>10. CASE Flush
  BY <1>10, WriterAssumption DEF Flush, TypeOK, PutUnderLock, StopOrder
<1>11. CASE NoFlush
  BY <1>11, WriterAssumption DEF NoFlush, TypeOK, PutUnderLock, StopOrder
<1>12. CASE ApplyOp
  BY <1>12, WriterAssumption DEF ApplyOp, TypeOK, PutUnderLock, StopOrder
<1>13. CASE ApplyOpFails
  BY <1>13, WriterAssumption DEF ApplyOpFails, TypeOK, PutUnderLock, StopOrder
<1>14. CASE CommitBatch
  BY <1>14, WriterAssumption DEF CommitBatch, TypeOK, PutUnderLock, StopOrder
<1>15. CASE CommitFails
  BY <1>15, WriterAssumption DEF CommitFails, TypeOK, PutUnderLock, StopOrder
<1>16. CASE Upkeep
  BY <1>16, WriterAssumption DEF Upkeep, TypeOK, PutUnderLock, StopOrder
<1>17. CASE UpkeepFails
  BY <1>17, WriterAssumption DEF UpkeepFails, TypeOK, PutUnderLock, StopOrder
<1>18. CASE Resolve
  BY <1>18, WriterAssumption DEF Resolve, TypeOK, PutUnderLock, StopOrder
<1>19. CASE CheckStop
  BY <1>19, WriterAssumption DEF CheckStop, DrainComplete, TypeOK,
     PutUnderLock, StopOrder
<1>20. CASE DiscardPending
  BY <1>20, WriterAssumption DEF DiscardPending, TypeOK, PutUnderLock,
     StopOrder
<1>21. CASE Close
  BY <1>21, WriterAssumption DEF Close, TypeOK, PutUnderLock, StopOrder
<1>22. CASE FatalMark
  BY <1>22, WriterAssumption DEF FatalMark, TypeOK, PutUnderLock, StopOrder
<1>23. CASE FatalResolve
  BY <1>23, WriterAssumption DEF FatalResolve, TypeOK, PutUnderLock, StopOrder
<1>24. CASE Restart
  BY <1>24, WriterAssumption DEF Restart, TypeOK, PutUnderLock, StopOrder
<1>25. CASE Finished
  BY <1>25, WriterAssumption DEF Finished, vars, TypeOK, PutUnderLock,
     StopOrder
<1>26. CASE UNCHANGED vars
  BY <1>26 DEF TypeOK, PutUnderLock, StopOrder, vars
<1> QED
  BY <1>1, <1>2, <1>3, <1>4, <1>5, <1>6, <1>7, <1>8, <1>9, <1>10, <1>11,
     <1>12, <1>13, <1>14, <1>15, <1>16, <1>17, <1>18, <1>19, <1>20, <1>21,
     <1>22, <1>23, <1>24, <1>25, <1>26 DEF Next, CallerNext, StopNext,
     ThreadNext

(* A caller that is in a call has numbered its op. *)
LEMMA NumberedStep ==
    ASSUME TypeOK, CallerNumbered, [Next]_vars
    PROVE  CallerNumbered'
<1> USE DEF callerVars, stopVars, threadVars
<1>1. ASSUME NEW c \in Clients, Call(c)
      PROVE  CallerNumbered'
  BY <1>1 DEF Call, TypeOK, CallerNumbered
<1>2. ASSUME NEW c \in Clients, Refuse(c)
      PROVE  CallerNumbered'
  BY <1>2 DEF Refuse, TypeOK, CallerNumbered
<1>3. ASSUME NEW c \in Clients, Acquire(c)
      PROVE  CallerNumbered'
  BY <1>3 DEF Acquire, TypeOK, CallerNumbered
<1>4. ASSUME NEW c \in Clients, Put(c)
      PROVE  CallerNumbered'
  BY <1>4 DEF Put, TypeOK, CallerNumbered
<1>5. ASSUME NEW c \in Clients, Return(c)
      PROVE  CallerNumbered'
  BY <1>5 DEF Return, TypeOK, CallerNumbered
<1>6. ASSUME NEW d \in BOOLEAN, StopBegin(d)
      PROVE  CallerNumbered'
  BY <1>6 DEF StopBegin, TypeOK, CallerNumbered
<1>7. CASE StopSet
  BY <1>7 DEF StopSet, TypeOK, CallerNumbered
<1>8. CASE StopJoin
  BY <1>8 DEF StopJoin, TypeOK, CallerNumbered
<1>9. CASE Get
  BY <1>9 DEF Get, TypeOK, CallerNumbered
<1>10. CASE Flush
  BY <1>10 DEF Flush, TypeOK, CallerNumbered
<1>11. CASE NoFlush
  BY <1>11 DEF NoFlush, TypeOK, CallerNumbered
<1>12. CASE ApplyOp
  BY <1>12 DEF ApplyOp, TypeOK, CallerNumbered
<1>13. CASE ApplyOpFails
  BY <1>13 DEF ApplyOpFails, TypeOK, CallerNumbered
<1>14. CASE CommitBatch
  BY <1>14 DEF CommitBatch, TypeOK, CallerNumbered
<1>15. CASE CommitFails
  BY <1>15 DEF CommitFails, TypeOK, CallerNumbered
<1>16. CASE Upkeep
  BY <1>16 DEF Upkeep, TypeOK, CallerNumbered
<1>17. CASE UpkeepFails
  BY <1>17 DEF UpkeepFails, TypeOK, CallerNumbered
<1>18. CASE Resolve
  BY <1>18 DEF Resolve, TypeOK, CallerNumbered
<1>19. CASE CheckStop
  BY <1>19 DEF CheckStop, TypeOK, CallerNumbered
<1>20. CASE DiscardPending
  BY <1>20 DEF DiscardPending, TypeOK, CallerNumbered
<1>21. CASE Close
  BY <1>21 DEF Close, TypeOK, CallerNumbered
<1>22. CASE FatalMark
  BY <1>22 DEF FatalMark, TypeOK, CallerNumbered
<1>23. CASE FatalResolve
  BY <1>23 DEF FatalResolve, TypeOK, CallerNumbered
<1>24. CASE Restart
  BY <1>24 DEF Restart, TypeOK, CallerNumbered
<1>25. CASE Finished
  BY <1>25 DEF Finished, vars, TypeOK, CallerNumbered
<1>26. CASE UNCHANGED vars
  BY <1>26 DEF TypeOK, CallerNumbered, vars
<1> QED
  BY <1>1, <1>2, <1>3, <1>4, <1>5, <1>6, <1>7, <1>8, <1>9, <1>10, <1>11,
     <1>12, <1>13, <1>14, <1>15, <1>16, <1>17, <1>18, <1>19, <1>20, <1>21,
     <1>22, <1>23, <1>24, <1>25, <1>26 DEF Next, CallerNext, StopNext,
     ThreadNext

(* Nobody takes an op away without answering it. *)
LEMMA WaiterStep ==
    ASSUME TypeOK, Aligned, CallerNumbered, WaiterIsHeld, [Next]_vars
    PROVE  WaiterIsHeld'
<1> USE DEF callerVars, stopVars, threadVars
<1>1. ASSUME NEW c \in Clients, Call(c)
      PROVE  WaiterIsHeld'
  BY <1>1 DEF Call, TypeOK, WaiterIsHeld, Cur
<1>2. ASSUME NEW c \in Clients, Refuse(c)
      PROVE  WaiterIsHeld'
  <2> SUFFICES ASSUME NEW a \in Clients, pc'[a] = "wait", reply'[Cur(a)'] = "none"
               PROVE  In(Cur(a), queue) \/ In(Cur(a), batch) \/ In(Cur(a), flushed)
    BY <1>2 DEF Refuse, WaiterIsHeld, Cur
  <2>1. a # c /\ pc[a] = "wait"
    BY <1>2 DEF Refuse, TypeOK
  <2>2. Cur(a) # Cur(c) /\ Cur(a) \in Op /\ Cur(a)' = Cur(a)
    BY <1>2, <2>1 DEF Refuse, TypeOK, CallerNumbered, Op, Cur
  <2>3. reply[Cur(a)] = "none"
    BY <1>2, <2>2 DEF Refuse, TypeOK
  <2> QED
    BY <2>1, <2>3 DEF WaiterIsHeld
<1>3. ASSUME NEW c \in Clients, Acquire(c)
      PROVE  WaiterIsHeld'
  BY <1>3 DEF Acquire, TypeOK, WaiterIsHeld, Cur
<1>4. ASSUME NEW c \in Clients, Put(c)
      PROVE  WaiterIsHeld'
  <2> SUFFICES ASSUME NEW a \in Clients, pc'[a] = "wait", reply'[Cur(a)'] = "none"
               PROVE  In(Cur(a), queue') \/ In(Cur(a), batch) \/ In(Cur(a), flushed)
    BY <1>4 DEF Put, WaiterIsHeld, Cur
  <2>1. Cur(c) \in Op
    BY <1>4 DEF Put, TypeOK, CallerNumbered, Op, Cur
  <2>2. In(Cur(c), queue') /\ \A o : In(o, queue) => In(o, queue')
    BY <1>4, <2>1, InAppend DEF Put, TypeOK
  <2>3. CASE a = c
    BY <2>2, <2>3
  <2>4. CASE a # c
    <3>1. pc[a] = "wait" /\ reply[Cur(a)] = "none"
      BY <1>4, <2>4 DEF Put, TypeOK, Cur
    <3> QED
      BY <2>2, <3>1 DEF WaiterIsHeld
  <2> QED
    BY <2>3, <2>4
<1>5. ASSUME NEW c \in Clients, Return(c)
      PROVE  WaiterIsHeld'
  BY <1>5 DEF Return, TypeOK, WaiterIsHeld, Cur
<1>6. ASSUME NEW d \in BOOLEAN, StopBegin(d)
      PROVE  WaiterIsHeld'
  BY <1>6 DEF StopBegin, TypeOK, WaiterIsHeld, Cur
<1>7. CASE StopSet
  BY <1>7 DEF StopSet, TypeOK, WaiterIsHeld, Cur
<1>8. CASE StopJoin
  BY <1>8 DEF StopJoin, TypeOK, WaiterIsHeld, Cur
<1>9. CASE Get
  <2>1. CASE queue = <<>>
    BY <1>9, <2>1 DEF Get, WaiterIsHeld, Cur
  <2>2. CASE queue # <<>>
    <3>0. queue' = Tail(queue) /\ batch' = Append(batch, Head(queue))
      BY <1>9, <2>2 DEF Get
    <3>1. Head(queue) \in Op /\ \A o : In(o, queue) => o = Head(queue) \/ In(o, queue')
      BY <2>2, <3>0, InTail DEF TypeOK
    <3>2. In(Head(queue), batch') /\ \A o : In(o, batch) => In(o, batch')
      BY <3>0, <3>1, InAppend DEF TypeOK
    <3>3. \A c \in Clients : pc'[c] = "wait" /\ reply'[Cur(c)'] = "none" =>
              In(Cur(c), queue') \/ In(Cur(c), batch') \/ In(Cur(c), flushed)
      BY <1>9, <3>1, <3>2 DEF Get, WaiterIsHeld, Cur
    <3> QED
      BY <1>9, <3>3 DEF Get, WaiterIsHeld, Cur
  <2> QED
    BY <2>1, <2>2
<1>10. CASE Flush
  BY <1>10 DEF Flush, TypeOK, WaiterIsHeld, Cur
<1>11. CASE NoFlush
  BY <1>11 DEF NoFlush, TypeOK, WaiterIsHeld, Cur
<1>12. CASE ApplyOp
  BY <1>12 DEF ApplyOp, TypeOK, WaiterIsHeld, Cur
<1>13. CASE ApplyOpFails
  BY <1>13 DEF ApplyOpFails, TypeOK, WaiterIsHeld, Cur
<1>14. CASE CommitBatch
  <2>1. flushed = <<>>
    BY <1>14 DEF CommitBatch, Aligned
  <2>2. \A o : ~In(o, flushed)
    BY <2>1 DEF In
  <2> QED
    BY <1>14, <2>2 DEF CommitBatch, WaiterIsHeld, Cur
<1>15. CASE CommitFails
  BY <1>15 DEF CommitFails, TypeOK, WaiterIsHeld, Cur
<1>16. CASE Upkeep
  BY <1>16 DEF Upkeep, TypeOK, WaiterIsHeld, Cur
<1>17. CASE UpkeepFails
  BY <1>17 DEF UpkeepFails, TypeOK, WaiterIsHeld, Cur
<1>18. CASE Resolve
  <2> SUFFICES ASSUME NEW a \in Clients, pc'[a] = "wait", reply'[Cur(a)'] = "none"
               PROVE  In(Cur(a), queue) \/ In(Cur(a), batch)
    BY <1>18 DEF Resolve, WaiterIsHeld, Cur
  <2>1. pc[a] = "wait" /\ Cur(a)' = Cur(a)
    BY <1>18 DEF Resolve, Cur
  <2>2. Cur(a) \in Op
    BY <2>1 DEF TypeOK, CallerNumbered, Op, Cur
  <2>3. ASSUME In(Cur(a), flushed) PROVE FALSE
    <3> DEFINE r == outcomes[CHOOSE i \in 1..Len(flushed) : flushed[i] = Cur(a)]
    <3>1. reply'[Cur(a)] = r
      BY <1>18, <2>2, <2>3 DEF Resolve
    <3>2. r \in {"ok", "error"}
      BY <1>18, <2>2, <2>3, ResolveAnswers DEF Resolve
    <3> QED
      BY <2>1, <3>1, <3>2
  <2>4. reply[Cur(a)] = "none"
    BY <1>18, <2>1, <2>2, <2>3 DEF Resolve
  <2> QED
    BY <2>1, <2>3, <2>4 DEF WaiterIsHeld
<1>19. CASE CheckStop
  BY <1>19 DEF CheckStop, TypeOK, WaiterIsHeld, Cur
<1>20. CASE DiscardPending
  <2>1. ASSUME NEW a \in Clients, pc'[a] = "wait", reply'[Cur(a)'] = "none"
        PROVE  In(Cur(a), flushed)
    <3>1. pc[a] = "wait" /\ Cur(a)' = Cur(a)
      BY <1>20, <2>1 DEF DiscardPending, Cur
    <3>2. Cur(a) \in Op
      BY <3>1 DEF TypeOK, CallerNumbered, Op, Cur
    <3>3. ~In(Cur(a), batch) /\ ~In(Cur(a), queue) /\ reply[Cur(a)] = "none"
      BY <1>20, <2>1, <3>1, <3>2 DEF DiscardPending
    <3> QED
      BY <3>1, <3>3 DEF WaiterIsHeld
  <2> QED
    BY <1>20, <2>1 DEF DiscardPending, WaiterIsHeld, Cur
<1>21. CASE Close
  BY <1>21 DEF Close, TypeOK, WaiterIsHeld, Cur
<1>22. CASE FatalMark
  BY <1>22 DEF FatalMark, TypeOK, WaiterIsHeld, Cur
<1>23. CASE FatalResolve
  <2>1. ASSUME NEW a \in Clients, pc'[a] = "wait", reply'[Cur(a)'] = "none"
        PROVE  In(Cur(a), flushed)
    <3>1. pc[a] = "wait" /\ Cur(a)' = Cur(a)
      BY <1>23, <2>1 DEF FatalResolve, Cur
    <3>2. Cur(a) \in Op
      BY <3>1 DEF TypeOK, CallerNumbered, Op, Cur
    <3>3. ~In(Cur(a), batch) /\ ~In(Cur(a), queue) /\ reply[Cur(a)] = "none"
      BY <1>23, <2>1, <3>1, <3>2 DEF FatalResolve
    <3> QED
      BY <3>1, <3>3 DEF WaiterIsHeld
  <2> QED
    BY <1>23, <2>1 DEF FatalResolve, WaiterIsHeld, Cur
<1>24. CASE Restart
  BY <1>24 DEF Restart, TypeOK, WaiterIsHeld, Cur
<1>25. CASE Finished
  BY <1>25 DEF Finished, vars, TypeOK, WaiterIsHeld, Cur
<1>26. CASE UNCHANGED vars
  BY <1>26 DEF TypeOK, WaiterIsHeld, Cur, vars
<1> QED
  BY <1>1, <1>2, <1>3, <1>4, <1>5, <1>6, <1>7, <1>8, <1>9, <1>10, <1>11,
     <1>12, <1>13, <1>14, <1>15, <1>16, <1>17, <1>18, <1>19, <1>20, <1>21,
     <1>22, <1>23, <1>24, <1>25, <1>26 DEF Next, CallerNext, StopNext,
     ThreadNext

(* The invariant holds when the process starts on an empty database. *)
LEMMA InitInv == Init => WriterInv
<1> SUFFICES ASSUME Init PROVE WriterInv
  OBVIOUS
<1>1. TypeOK
  <2>1. /\ pc \in [Clients -> {"idle", "acquire", "put", "wait"}]
        /\ opno \in [Clients -> 0..MaxOps]
        /\ reply \in [Op -> Answers]
    BY WriterAssumption DEF Init, Answers
  <2>2. /\ queue \in Seq(Op) /\ batch \in Seq(Op) /\ flushed \in Seq(Op)
        /\ outcomes \in Seq({"ok", "error"})
        /\ txn \in Seq(Entry) /\ log \in Seq(Entry)
    BY DEF Init
  <2>3. seq \in Nat /\ crashes \in 0..MaxCrashes
    BY WriterAssumption DEF Init
  <2> QED
    BY <2>1, <2>2, <2>3 DEF Init, TypeOK, ThreadPlaces
<1>2. ChangeSeqStrict /\ SeqCovers /\ TxnAboveLog
  BY DEF Init, ChangeSeqStrict, SeqCovers, TxnAboveLog
<1>3. Aligned /\ PutUnderLock /\ StopOrder /\ WaiterIsHeld /\ CallerNumbered
  BY DEF Init, Aligned, PutUnderLock, StopOrder, WaiterIsHeld, CallerNumbered
<1> QED
  BY <1>1, <1>2, <1>3 DEF WriterInv

(* Every step of the writer, its callers and stop() keeps the invariant. *)
LEMMA StepInv == WriterInv /\ [Next]_vars => WriterInv'
<1> SUFFICES ASSUME WriterInv, [Next]_vars PROVE WriterInv'
  OBVIOUS
<1>1. TypeOK'
  BY TypeStep DEF WriterInv
<1>2. SeqInv'
  BY SeqStep DEF WriterInv, SeqInv
<1>3. Aligned' /\ PutUnderLock' /\ StopOrder' /\ CallerNumbered'
  BY AlignedStep, LockStep, StopOrderStep, NumberedStep DEF WriterInv
<1>4. WaiterIsHeld'
  BY WaiterStep DEF WriterInv
<1> QED
  BY <1>1, <1>2, <1>3, <1>4 DEF WriterInv, SeqInv

(* The inductive invariant of the writer thread holds in every behaviour,
   with failing ops, commits and pragmas, stops and restarts. *)
THEOREM WriterInvariant == Spec => []WriterInv
<1> QED
  BY InitInv, StepInv, PTL DEF Spec

(* The variables of the writer keep their types. *)
THEOREM WriterTypes == Spec => []TypeOK
<1>1. WriterInv => TypeOK
  BY DEF WriterInv
<1> QED
  BY <1>1, WriterInvariant, PTL

(* change_seq is strictly increasing over the committed ops: next_seq never
   repeats a surviving value, whatever was rolled back or lost in a crash. *)
THEOREM WriterChangeSeq == Spec => []ChangeSeqStrict
<1>1. WriterInv => ChangeSeqStrict
  BY DEF WriterInv
<1> QED
  BY <1>1, WriterInvariant, PTL

(* A thread that has left _run in an orderly way leaves no submit_and_wait
   caller without an answer and no op in the queue. *)
THEOREM WriterNobodyLeftBehind == Spec => []NobodyLeftBehind
<1>1. WriterInv => NobodyLeftBehind
  <2> SUFFICES ASSUME WriterInv, wpc = "closed" PROVE NobodyLeftBehind
    BY DEF NobodyLeftBehind
  <2>1. stopped /\ queue = <<>> /\ batch = <<>> /\ flushed = <<>>
    BY DEF WriterInv, StopOrder, Aligned
  <2>2. lock = None
    BY <2>1 DEF WriterInv, PutUnderLock
  <2>3. \A c \in Clients : pc[c] # "put"
    BY <2>2, WriterAssumption DEF WriterInv, PutUnderLock
  <2>4. \A c \in Clients : pc[c] = "wait" => reply[Cur(c)] # "none"
    BY <2>1 DEF WriterInv, WaiterIsHeld, In
  <2> QED
    BY <2>1, <2>3, <2>4 DEF NobodyLeftBehind
<1> QED
  BY <1>1, WriterInvariant, PTL
-----------------------------------------------------------------------------
(* What makes the answers true.  An op is in one place at a time, its caller  *)
(* waits for it there, and what the database holds of it is what the outcome  *)
(* on its way to the caller says.                                             *)

\* the op is in the database; the open transaction has applied it
Logged(o) == \E i \in 1..Len(log) : log[i].op = o
InTxn(o)  == \E i \in 1..Len(txn) : txn[i].op = o

(* Wherever the thread keeps an op, that op's caller waits, unanswered. *)
HeldWaits ==
    \A o \in Op : In(o, queue) \/ In(o, batch) \/ In(o, flushed) =>
        pc[o[1]] = "wait" /\ o = Cur(o[1]) /\ reply[o] = "none"

(* The thread keeps an op in one place, once. *)
OnePlace ==
    /\ NoRepeat(queue) /\ NoRepeat(batch) /\ NoRepeat(flushed)
    /\ \A o \in Op : /\ ~(In(o, queue) /\ In(o, batch))
                     /\ ~(In(o, queue) /\ In(o, flushed))
                     /\ ~(In(o, batch) /\ In(o, flushed))

(* An op that has not been applied is neither answered nor in the database:
   one not submitted yet, one its caller has in its hands, one the thread has
   not committed. *)
NotYetWritten ==
    \A o \in Op :
        /\ opno[o[1]] < o[2] => reply[o] = "none" /\ ~Logged(o)
        /\ pc[o[1]] \in {"acquire", "put"} /\ o = Cur(o[1]) =>
               reply[o] = "none" /\ ~Logged(o)
        /\ In(o, queue) \/ In(o, batch) => ~Logged(o)

(* The outcomes collected so far say which ops of the batch the open
   transaction holds, each once. *)
OutcomesOfTxn ==
    /\ txn # <<>> => wpc = "apply"
    /\ wpc = "apply" => Len(outcomes) <= Len(batch)
    /\ wpc = "apply" =>
           \A k \in 1..Len(outcomes) : outcomes[k] = "ok" <=> InTxn(batch[k])
    /\ wpc = "apply" =>
           \A i \in 1..Len(txn) : \E k \in 1..Len(outcomes) : batch[k] = txn[i].op
    /\ \A i, j \in 1..Len(txn) : txn[i].op = txn[j].op => i = j

(* The outcomes of the committed batch say which of its ops are in the
   database, and no outcome is left over from an earlier batch. *)
OutcomesOfFlushed ==
    /\ \A k \in 1..Len(flushed) : outcomes[k] = "ok" <=> Logged(flushed[k])
    /\ wpc # "apply" /\ flushed = <<>> => outcomes = <<>>

LogOnce == \A i, j \in 1..Len(log) : log[i].op = log[j].op => i = j

(* The inductive invariant behind RepliesAreTrue. *)
ReplyInv ==
    /\ HeldWaits
    /\ OnePlace
    /\ NotYetWritten
    /\ OutcomesOfTxn
    /\ OutcomesOfFlushed
    /\ LogOnce
    /\ RepliesAreTrue

(* A caller inside submit_and_wait has an op, its own. *)
LEMMA CurIsOp ==
    ASSUME TypeOK, CallerNumbered, NEW c \in Clients, pc[c] # "idle"
    PROVE  Cur(c) \in Op /\ Cur(c)[1] = c
BY DEF TypeOK, CallerNumbered, Op, Cur

(* An op is a caller of Clients and a number. *)
LEMMA OpParts ==
    ASSUME NEW o \in Op
    PROVE  o[1] \in Clients /\ o[2] \in 1..MaxOps /\ o = <<o[1], o[2]>>
BY DEF Op

(* What a batch commits is what its transaction has applied. *)
LEMMA CommitLogs ==
    ASSUME TypeOK, CommitBatch
    PROVE  /\ \A o : Logged(o)' <=> Logged(o) \/ InTxn(o)
           /\ Len(log') = Len(log) + Len(txn)
           /\ \A i \in 1..Len(log) : log'[i] = log[i]
           /\ \A i \in (Len(log) + 1)..(Len(log) + Len(txn)) :
                  i - Len(log) \in 1..Len(txn) /\ log'[i] = txn[i - Len(log)]
<1> DEFINE n == Len(log)
           k == Len(txn)
<1>1. n \in Nat /\ k \in Nat
  BY DEF TypeOK
<1>2. /\ Len(log') = n + k
      /\ \A i \in 1..n : log'[i] = log[i]
      /\ \A i \in (n + 1)..(n + k) : log'[i] = txn[i - n]
  BY ConcatProperties DEF CommitBatch, TypeOK
<1> HIDE DEF n, k
<1>3. /\ \A i \in (n + 1)..(n + k) : i - n \in 1..k
      /\ \A i \in 1..(n + k) : i \in 1..n \/ i \in (n + 1)..(n + k)
      /\ \A i \in 1..n : i \in 1..(n + k)
      /\ \A i \in 1..k : i + n \in (n + 1)..(n + k) /\ i + n \in 1..(n + k) /\ (i + n) - n = i
  BY <1>1
<1>4. \A o : Logged(o)' => Logged(o) \/ InTxn(o)
  BY <1>2, <1>3 DEF Logged, InTxn, n, k
<1>5. \A o : Logged(o) => Logged(o)'
  BY <1>2, <1>3 DEF Logged, n, k
<1>6. ASSUME NEW o, InTxn(o) PROVE Logged(o)'
  <2>1. PICK i \in 1..k : txn[i].op = o
    BY <1>6 DEF InTxn, k
  <2>2. log'[i + n].op = o /\ i + n \in 1..Len(log')
    BY <1>2, <1>3, <2>1
  <2> QED
    BY <2>2 DEF Logged
<1> QED
  BY <1>2, <1>3, <1>4, <1>5, <1>6 DEF n, k

(* Wherever an op goes, its caller keeps waiting for it until the answer. *)
LEMMA HeldStep ==
    ASSUME TypeOK, CallerNumbered, Aligned, HeldWaits, OnePlace, NotYetWritten,
           [Next]_vars
    PROVE  HeldWaits'
<1> USE DEF callerVars, stopVars, threadVars
<1>1. ASSUME UNCHANGED <<pc, opno, reply, queue, batch, flushed>>
      PROVE  HeldWaits'
  BY <1>1 DEF HeldWaits, Cur, In
<1>2. ASSUME NEW c \in Clients, Call(c) PROVE HeldWaits'
  <2> SUFFICES ASSUME NEW o \in Op, In(o, queue) \/ In(o, batch) \/ In(o, flushed)
               PROVE  pc'[o[1]] = "wait" /\ o = Cur(o[1])' /\ reply[o] = "none"
    BY <1>2 DEF Call, HeldWaits, In
  <2>1. pc[o[1]] = "wait" /\ o = Cur(o[1]) /\ reply[o] = "none"
    BY DEF HeldWaits
  <2>2. o[1] # c /\ o[1] \in Clients
    BY <1>2, <2>1, OpParts DEF Call
  <2> QED
    BY <1>2, <2>1, <2>2 DEF Call, TypeOK, Cur
<1>3. ASSUME NEW c \in Clients, Refuse(c) PROVE HeldWaits'
  <2> SUFFICES ASSUME NEW o \in Op, In(o, queue) \/ In(o, batch) \/ In(o, flushed)
               PROVE  pc'[o[1]] = "wait" /\ o = Cur(o[1])' /\ reply'[o] = "none"
    BY <1>3 DEF Refuse, HeldWaits, In
  <2>1. pc[o[1]] = "wait" /\ o = Cur(o[1]) /\ reply[o] = "none"
    BY DEF HeldWaits
  <2>2. o[1] # c /\ o[1] \in Clients
    BY <1>3, <2>1, OpParts DEF Refuse
  <2>3. o # Cur(c)
    BY <1>3, <2>2, CurIsOp DEF Refuse
  <2> QED
    BY <1>3, <2>1, <2>2, <2>3 DEF Refuse, TypeOK, Cur
<1>4. ASSUME NEW c \in Clients, Acquire(c) PROVE HeldWaits'
  <2> SUFFICES ASSUME NEW o \in Op, In(o, queue) \/ In(o, batch) \/ In(o, flushed)
               PROVE  pc'[o[1]] = "wait" /\ o = Cur(o[1])' /\ reply[o] = "none"
    BY <1>4 DEF Acquire, HeldWaits, In
  <2>1. pc[o[1]] = "wait" /\ o = Cur(o[1]) /\ reply[o] = "none"
    BY DEF HeldWaits
  <2>2. o[1] # c /\ o[1] \in Clients
    BY <1>4, <2>1, OpParts DEF Acquire
  <2> QED
    BY <1>4, <2>1, <2>2 DEF Acquire, TypeOK, Cur
<1>5. ASSUME NEW c \in Clients, Put(c) PROVE HeldWaits'
  <2>1. Cur(c) \in Op /\ Cur(c)[1] = c
    BY <1>5, CurIsOp DEF Put
  <2>2. \A o : In(o, queue') <=> In(o, queue) \/ o = Cur(c)
    BY <1>5, <2>1, InAppend DEF Put, TypeOK
  <2>3. pc'[c] = "wait" /\ Cur(c)' = Cur(c) /\ reply'[Cur(c)] = "none"
    BY <1>5, <2>1 DEF Put, TypeOK, Cur, NotYetWritten
  <2>4. ASSUME NEW o \in Op, In(o, queue) \/ In(o, batch) \/ In(o, flushed)
        PROVE  pc'[o[1]] = "wait" /\ o = Cur(o[1])' /\ reply'[o] = "none"
    <3>1. pc[o[1]] = "wait" /\ o = Cur(o[1]) /\ reply[o] = "none" /\ o[1] \in Clients
      BY <2>4, OpParts DEF HeldWaits
    <3> QED
      BY <1>5, <3>1 DEF Put, TypeOK, Cur
  <2>5. batch' = batch /\ flushed' = flushed
    BY <1>5 DEF Put
  <2> QED
    BY <2>1, <2>2, <2>3, <2>4, <2>5 DEF HeldWaits
<1>6. ASSUME NEW c \in Clients, Return(c) PROVE HeldWaits'
  <2> SUFFICES ASSUME NEW o \in Op, In(o, queue) \/ In(o, batch) \/ In(o, flushed)
               PROVE  pc'[o[1]] = "wait" /\ o = Cur(o[1])' /\ reply[o] = "none"
    BY <1>6 DEF Return, HeldWaits, In
  <2>1. pc[o[1]] = "wait" /\ o = Cur(o[1]) /\ reply[o] = "none" /\ o[1] \in Clients
    BY OpParts DEF HeldWaits
  <2>2. o[1] # c
    BY <1>6, <2>1 DEF Return
  <2> QED
    BY <1>6, <2>1, <2>2 DEF Return, TypeOK, Cur
<1>7. CASE Get
  <2>1. CASE queue = <<>>
    BY <1>1, <1>7, <2>1 DEF Get
  <2>2. CASE queue # <<>>
    <3>1. /\ queue' = Tail(queue) /\ batch' = Append(batch, Head(queue))
          /\ UNCHANGED <<pc, opno, reply, flushed>>
      BY <1>7, <2>2 DEF Get
    <3>2. /\ Head(queue) \in Op
          /\ \A o : In(o, queue) <=> o = Head(queue) \/ In(o, queue')
      BY <2>2, <3>1, InTail DEF TypeOK
    <3>3. \A o : In(o, batch') <=> In(o, batch) \/ o = Head(queue)
      BY <3>1, <3>2, InAppend DEF TypeOK
    <3> QED
      BY <3>1, <3>2, <3>3 DEF HeldWaits, Cur
  <2> QED
    BY <2>1, <2>2
<1>8. CASE CommitBatch
  <2>1. batch' = <<>> /\ flushed' = batch /\ UNCHANGED <<pc, opno, reply, queue>>
    BY <1>8 DEF CommitBatch
  <2>2. \A o : ~In(o, batch')
    BY <2>1, InEmpty
  <2> QED
    BY <2>1, <2>2 DEF HeldWaits, Cur, In
<1>9. CASE Resolve
  <2>1. flushed' = <<>> /\ UNCHANGED <<pc, opno, queue, batch>>
    BY <1>9 DEF Resolve
  <2>2. \A o : ~In(o, flushed')
    BY <2>1, InEmpty
  <2>3. \A o \in Op : In(o, queue) \/ In(o, batch) => reply'[o] = reply[o]
    BY <1>9 DEF Resolve, OnePlace
  <2> QED
    BY <2>1, <2>2, <2>3 DEF HeldWaits, Cur, In
<1>10. CASE DiscardPending \/ FatalResolve
  <2>1. /\ batch' = <<>> /\ queue' = <<>> /\ UNCHANGED <<pc, opno, flushed>>
        /\ flushed = <<>>
    BY <1>10 DEF DiscardPending, FatalResolve, Aligned
  <2> QED
    BY <2>1, InEmpty DEF HeldWaits
<1>11. CASE Restart
  <2>1. batch' = <<>> /\ queue' = <<>> /\ flushed' = <<>>
    BY <1>11 DEF Restart
  <2> QED
    BY <2>1, InEmpty DEF HeldWaits
<1>12. CASE StopNext \/ Flush \/ NoFlush \/ ApplyOp \/ ApplyOpFails \/ CommitFails
  BY <1>1, <1>12 DEF StopNext, StopBegin, StopSet, StopJoin, Flush, NoFlush, ApplyOp,
     ApplyOpFails, CommitFails
<1>13. CASE Upkeep \/ UpkeepFails \/ CheckStop \/ Close \/ FatalMark
  BY <1>1, <1>13 DEF Upkeep, UpkeepFails, CheckStop, Close, FatalMark
<1>14. CASE Finished \/ UNCHANGED vars
  BY <1>1, <1>14 DEF Finished, vars
<1> QED
  BY <1>2, <1>3, <1>4, <1>5, <1>6, <1>7, <1>8, <1>9, <1>10, <1>11, <1>12, <1>13,
     <1>14 DEF Next, CallerNext, ThreadNext

(* No step puts an op in a second place. *)
LEMMA PlaceStep ==
    ASSUME TypeOK, CallerNumbered, Aligned, HeldWaits, OnePlace, [Next]_vars
    PROVE  OnePlace'
<1> USE DEF callerVars, stopVars, threadVars
<1>1. ASSUME UNCHANGED <<queue, batch, flushed>>
      PROVE  OnePlace'
  BY <1>1 DEF OnePlace
<1>2. ASSUME NEW c \in Clients, Put(c) PROVE OnePlace'
  <2>1. Cur(c) \in Op /\ Cur(c)[1] = c /\ pc[c] = "put"
    BY <1>2, CurIsOp DEF Put
  <2>2. ~In(Cur(c), queue) /\ ~In(Cur(c), batch) /\ ~In(Cur(c), flushed)
    BY <2>1 DEF HeldWaits
  <2>3. queue' = Append(queue, Cur(c)) /\ batch' = batch /\ flushed' = flushed
    BY <1>2 DEF Put
  <2>4. /\ \A o : In(o, queue') <=> In(o, queue) \/ o = Cur(c)
        /\ NoRepeat(queue')
    BY <2>1, <2>2, <2>3, InAppend DEF TypeOK, OnePlace
  <2> QED
    BY <2>2, <2>3, <2>4 DEF OnePlace
<1>3. CASE Get
  <2>1. CASE queue = <<>>
    BY <1>1, <1>3, <2>1 DEF Get
  <2>2. CASE queue # <<>>
    <3>1. /\ queue' = Tail(queue) /\ batch' = Append(batch, Head(queue))
          /\ flushed' = flushed
      BY <1>3, <2>2 DEF Get
    <3>2. /\ Head(queue) \in Op
          /\ \A o : In(o, queue) <=> o = Head(queue) \/ In(o, queue')
          /\ NoRepeat(queue') /\ ~In(Head(queue), queue')
      BY <2>2, <3>1, InTail DEF TypeOK, OnePlace
    <3>3. ~In(Head(queue), batch) /\ ~In(Head(queue), flushed)
      BY <3>2 DEF OnePlace
    <3>4. /\ \A o : In(o, batch') <=> In(o, batch) \/ o = Head(queue)
          /\ NoRepeat(batch')
      BY <3>1, <3>2, <3>3, InAppend DEF TypeOK, OnePlace
    <3> QED
      BY <3>1, <3>2, <3>3, <3>4 DEF OnePlace
  <2> QED
    BY <2>1, <2>2
<1>4. CASE CommitBatch
  <2>1. batch' = <<>> /\ flushed' = batch /\ queue' = queue
    BY <1>4 DEF CommitBatch
  <2> QED
    BY <2>1, InEmpty DEF OnePlace
<1>5. CASE Resolve
  <2>1. flushed' = <<>> /\ UNCHANGED <<queue, batch>>
    BY <1>5 DEF Resolve
  <2> QED
    BY <2>1, InEmpty DEF OnePlace
<1>6. CASE DiscardPending \/ FatalResolve
  <2>1. batch' = <<>> /\ queue' = <<>> /\ flushed' = flushed
    BY <1>6 DEF DiscardPending, FatalResolve
  <2> QED
    BY <2>1, InEmpty DEF OnePlace
<1>7. CASE Restart
  <2>1. batch' = <<>> /\ queue' = <<>> /\ flushed' = <<>>
    BY <1>7 DEF Restart
  <2> QED
    BY <2>1, InEmpty DEF OnePlace
<1>8. ASSUME NEW c \in Clients, Call(c) \/ Refuse(c) \/ Acquire(c) \/ Return(c)
      PROVE  OnePlace'
  BY <1>1, <1>8 DEF Call, Refuse, Acquire, Return
<1>9. CASE StopNext \/ Flush \/ NoFlush \/ ApplyOp \/ ApplyOpFails \/ CommitFails
  BY <1>1, <1>9 DEF StopNext, StopBegin, StopSet, StopJoin, Flush, NoFlush, ApplyOp,
     ApplyOpFails, CommitFails
<1>10. CASE Upkeep \/ UpkeepFails \/ CheckStop \/ Close \/ FatalMark
  BY <1>1, <1>10 DEF Upkeep, UpkeepFails, CheckStop, Close, FatalMark
<1>11. CASE Finished \/ UNCHANGED vars
  BY <1>1, <1>11 DEF Finished, vars
<1> QED
  BY <1>2, <1>3, <1>4, <1>5, <1>6, <1>7, <1>8, <1>9, <1>10, <1>11
     DEF Next, CallerNext, ThreadNext

(* Nothing is answered or written before the thread has applied it. *)
LEMMA NotYetStep ==
    ASSUME TypeOK, CallerNumbered, Aligned, HeldWaits, OnePlace, NotYetWritten,
           OutcomesOfTxn, [Next]_vars
    PROVE  NotYetWritten'
<1> USE DEF callerVars, stopVars, threadVars
<1>1. ASSUME UNCHANGED <<pc, opno, reply, log, queue, batch>>
      PROVE  NotYetWritten'
  BY <1>1 DEF NotYetWritten, Cur, Logged, In
<1>2. ASSUME NEW c \in Clients, Call(c) PROVE NotYetWritten'
  <2> SUFFICES ASSUME NEW o \in Op
               PROVE  /\ opno'[o[1]] < o[2] => reply[o] = "none" /\ ~Logged(o)
                      /\ pc'[o[1]] \in {"acquire", "put"} /\ o = Cur(o[1])' =>
                             reply[o] = "none" /\ ~Logged(o)
                      /\ In(o, queue) \/ In(o, batch) => ~Logged(o)
    BY <1>2 DEF Call, NotYetWritten, Logged, In
  <2>1. /\ o[1] \in Clients /\ o[2] \in Nat /\ o = <<o[1], o[2]>>
        /\ opno[o[1]] \in Nat /\ opno[c] \in Nat
    BY OpParts, WriterAssumption DEF TypeOK
  <2>2. CASE o[1] = c
    <3>1. opno'[c] = opno[c] + 1 /\ Cur(c)' = <<c, opno[c] + 1>>
      BY <1>2 DEF Call, TypeOK, Cur
    <3>2. opno'[c] < o[2] => opno[c] < o[2]
      BY <2>1, <3>1
    <3>3. o = Cur(c)' => opno[c] < o[2]
      BY <2>1, <3>1
    <3> QED
      BY <2>2, <3>2, <3>3 DEF NotYetWritten
  <2>3. CASE o[1] # c
    <3>1. opno'[o[1]] = opno[o[1]] /\ pc'[o[1]] = pc[o[1]] /\ Cur(o[1])' = Cur(o[1])
      BY <1>2, <2>1, <2>3 DEF Call, TypeOK, Cur
    <3> QED
      BY <3>1 DEF NotYetWritten
  <2> QED
    BY <2>2, <2>3
<1>3. ASSUME NEW c \in Clients, Refuse(c) PROVE NotYetWritten'
  <2> SUFFICES ASSUME NEW o \in Op
               PROVE  /\ opno[o[1]] < o[2] => reply'[o] = "none" /\ ~Logged(o)
                      /\ pc'[o[1]] \in {"acquire", "put"} /\ o = Cur(o[1]) =>
                             reply'[o] = "none" /\ ~Logged(o)
                      /\ In(o, queue) \/ In(o, batch) => ~Logged(o)
    BY <1>3 DEF Refuse, NotYetWritten, Logged, In, Cur
  <2>1. /\ o[1] \in Clients /\ o[2] \in Nat /\ o = <<o[1], o[2]>>
        /\ opno[o[1]] \in Nat /\ Cur(c) \in Op /\ Cur(c)[1] = c
    BY <1>3, OpParts, CurIsOp, WriterAssumption DEF TypeOK, Refuse
  <2>2. CASE o = Cur(c)
    <3>1. ~(opno[o[1]] < o[2]) /\ pc'[o[1]] = "idle"
      BY <1>3, <2>1, <2>2 DEF Refuse, TypeOK, Cur
    <3> QED
      BY <3>1 DEF NotYetWritten
  <2>3. CASE o # Cur(c)
    <3>1. reply'[o] = reply[o]
      BY <1>3, <2>3 DEF Refuse, TypeOK
    <3>2. pc'[o[1]] \in {"acquire", "put"} => pc[o[1]] \in {"acquire", "put"}
      BY <1>3, <2>1 DEF Refuse, TypeOK
    <3> QED
      BY <3>1, <3>2 DEF NotYetWritten
  <2> QED
    BY <2>2, <2>3
<1>4. ASSUME NEW c \in Clients, Acquire(c) \/ Return(c) PROVE NotYetWritten'
  <2>1. \A a \in Clients : pc'[a] \in {"acquire", "put"} => pc[a] \in {"acquire", "put"}
    BY <1>4 DEF Acquire, Return, TypeOK
  <2>2. UNCHANGED <<opno, reply, log, queue, batch>>
    BY <1>4 DEF Acquire, Return
  <2> QED
    BY <2>1, <2>2, OpParts DEF NotYetWritten, Cur, Logged, In
<1>5. ASSUME NEW c \in Clients, Put(c) PROVE NotYetWritten'
  <2>1. Cur(c) \in Op /\ Cur(c)[1] = c
    BY <1>5, CurIsOp DEF Put
  <2>2. \A o : In(o, queue') <=> In(o, queue) \/ o = Cur(c)
    BY <1>5, <2>1, InAppend DEF Put, TypeOK
  <2>3. ~Logged(Cur(c))
    BY <1>5, <2>1 DEF Put, NotYetWritten
  <2>4. \A a \in Clients : pc'[a] \in {"acquire", "put"} => pc[a] \in {"acquire", "put"}
    BY <1>5 DEF Put, TypeOK
  <2>5. UNCHANGED <<opno, reply, log, batch>>
    BY <1>5 DEF Put
  <2> QED
    BY <2>2, <2>3, <2>4, <2>5, OpParts DEF NotYetWritten, Cur, Logged
<1>6. CASE Get
  <2>1. CASE queue = <<>>
    BY <1>1, <1>6, <2>1 DEF Get
  <2>2. CASE queue # <<>>
    <3>1. /\ queue' = Tail(queue) /\ batch' = Append(batch, Head(queue))
          /\ UNCHANGED <<pc, opno, reply, log>>
      BY <1>6, <2>2 DEF Get
    <3>2. /\ Head(queue) \in Op
          /\ \A o : In(o, queue) <=> o = Head(queue) \/ In(o, queue')
      BY <2>2, <3>1, InTail DEF TypeOK
    <3>3. \A o : In(o, batch') <=> In(o, batch) \/ o = Head(queue)
      BY <3>1, <3>2, InAppend DEF TypeOK
    <3> QED
      BY <3>1, <3>2, <3>3 DEF NotYetWritten, Cur, Logged
  <2> QED
    BY <2>1, <2>2
<1>7. CASE CommitBatch
  <2>1. batch' = <<>> /\ UNCHANGED <<pc, opno, reply, queue>> /\ wpc = "apply"
    BY <1>7 DEF CommitBatch
  <2>2. \A o \in Op : InTxn(o) => In(o, batch)
    <3> SUFFICES ASSUME NEW o \in Op, NEW i \in 1..Len(txn), txn[i].op = o
                 PROVE  In(o, batch)
      BY DEF InTxn
    <3>1. PICK k \in 1..Len(outcomes) : batch[k] = o
      BY <2>1 DEF OutcomesOfTxn
    <3>2. k \in 1..Len(batch)
      BY <2>1 DEF OutcomesOfTxn, TypeOK
    <3> QED
      BY <3>1, <3>2 DEF In
  <2>3. ASSUME NEW o \in Op, InTxn(o)
        PROVE  /\ ~(opno[o[1]] < o[2]) /\ ~(pc[o[1]] \in {"acquire", "put"})
               /\ ~In(o, queue)
    <3>1. In(o, batch) /\ pc[o[1]] = "wait" /\ o = Cur(o[1]) /\ ~In(o, queue)
      BY <2>2, <2>3 DEF HeldWaits, OnePlace
    <3>2. o[2] = opno[o[1]] /\ opno[o[1]] \in Nat
      BY <3>1, OpParts DEF Cur, TypeOK
    <3> QED
      BY <3>1, <3>2
  <2>4. \A o : Logged(o)' <=> Logged(o) \/ InTxn(o)
    BY <1>7, CommitLogs
  <2> QED
    BY <2>1, <2>3, <2>4, InEmpty DEF NotYetWritten, Cur
<1>8. CASE Resolve \/ DiscardPending \/ FatalResolve
  <2>1. /\ UNCHANGED <<pc, opno, log>>
        /\ \A o : In(o, queue') => In(o, queue)
        /\ \A o : In(o, batch') => In(o, batch)
    BY <1>8, InEmpty DEF Resolve, DiscardPending, FatalResolve
  <2>2. \A o \in Op : reply'[o] # reply[o] =>
            In(o, queue) \/ In(o, batch) \/ In(o, flushed)
    BY <1>8 DEF Resolve, DiscardPending, FatalResolve
  <2>3. ASSUME NEW o \in Op, reply'[o] # reply[o]
        PROVE  ~(opno[o[1]] < o[2]) /\ ~(pc[o[1]] \in {"acquire", "put"})
    <3>1. pc[o[1]] = "wait" /\ o = Cur(o[1])
      BY <2>2, <2>3 DEF HeldWaits
    <3>2. o[2] = opno[o[1]] /\ opno[o[1]] \in Nat
      BY <3>1, OpParts DEF Cur, TypeOK
    <3> QED
      BY <3>1, <3>2
  <2> QED
    BY <2>1, <2>3 DEF NotYetWritten, Cur, Logged
<1>9. CASE Restart
  <2>1. /\ batch' = <<>> /\ queue' = <<>> /\ UNCHANGED <<opno, reply, log>>
        /\ \A c \in Clients : pc'[c] = "idle"
    BY <1>9 DEF Restart
  <2> QED
    BY <2>1, InEmpty, OpParts DEF NotYetWritten, Logged
<1>10. CASE StopNext \/ Flush \/ NoFlush \/ ApplyOp \/ ApplyOpFails \/ CommitFails
  BY <1>1, <1>10 DEF StopNext, StopBegin, StopSet, StopJoin, Flush, NoFlush, ApplyOp,
     ApplyOpFails, CommitFails
<1>11. CASE Upkeep \/ UpkeepFails \/ CheckStop \/ Close \/ FatalMark
  BY <1>1, <1>11 DEF Upkeep, UpkeepFails, CheckStop, Close, FatalMark
<1>12. CASE Finished \/ UNCHANGED vars
  BY <1>1, <1>12 DEF Finished, vars
<1> QED
  BY <1>2, <1>3, <1>4, <1>5, <1>6, <1>7, <1>8, <1>9, <1>10, <1>11, <1>12
     DEF Next, CallerNext, ThreadNext

(* The outcomes keep telling what the open transaction holds: an op that
   fails is rolled back to its savepoint and leaves nothing in it. *)
LEMMA TxnStep ==
    ASSUME TypeOK, Aligned, OnePlace, OutcomesOfTxn, OutcomesOfFlushed, [Next]_vars
    PROVE  OutcomesOfTxn'
<1> USE DEF callerVars, stopVars, threadVars
<1>1. ASSUME UNCHANGED <<wpc, txn, outcomes, batch>>
      PROVE  OutcomesOfTxn'
  BY <1>1 DEF OutcomesOfTxn, InTxn
<1>2. ASSUME txn' = <<>>, wpc' # "apply"
      PROVE  OutcomesOfTxn'
  <2>1. Len(txn') = 0
    BY <1>2
  <2> QED
    BY <1>2, <2>1 DEF OutcomesOfTxn
<1>3. CASE Get \/ NoFlush \/ Upkeep \/ UpkeepFails \/ Resolve \/ CheckStop
  <2>1. txn = <<>>
    BY <1>3 DEF Get, NoFlush, Upkeep, UpkeepFails, Resolve, CheckStop, OutcomesOfTxn
  <2> QED
    BY <1>2, <1>3, <2>1 DEF Get, NoFlush, Upkeep, UpkeepFails, Resolve, CheckStop
<1>4. CASE DiscardPending \/ Close \/ FatalMark \/ FatalResolve
  <2>1. txn = <<>>
    BY <1>4 DEF DiscardPending, Close, FatalMark, FatalResolve, OutcomesOfTxn
  <2> QED
    BY <1>2, <1>4, <2>1 DEF DiscardPending, Close, FatalMark, FatalResolve
<1>5. CASE CommitBatch \/ CommitFails \/ Restart
  BY <1>2, <1>5 DEF CommitBatch, CommitFails, Restart
<1>6. CASE Flush
  <2>1. txn = <<>> /\ flushed = <<>> /\ UNCHANGED <<txn, outcomes, batch>>
    BY <1>6 DEF Flush, OutcomesOfTxn, Aligned
  <2>2. outcomes = <<>>
    BY <1>6, <2>1 DEF Flush, OutcomesOfFlushed
  <2>3. Len(txn') = 0 /\ Len(outcomes') = 0 /\ Len(batch') \in Nat
    BY <2>1, <2>2 DEF TypeOK
  <2> QED
    BY <1>6, <2>1, <2>3 DEF Flush, OutcomesOfTxn
<1>7. CASE ApplyOp
  <2> DEFINE n == Len(txn)
             m == Len(outcomes)
  <2>1. n \in Nat /\ m \in Nat /\ Len(batch) \in Nat /\ m < Len(batch) /\ wpc = "apply"
    BY <1>7 DEF ApplyOp, TypeOK
  <2>2. /\ Len(txn') = n + 1
        /\ \A i \in 1..n : txn'[i] = txn[i]
        /\ txn'[n + 1].op = batch[m + 1]
    BY <1>7 DEF ApplyOp, TypeOK
  <2>3. /\ Len(outcomes') = m + 1
        /\ \A i \in 1..m : outcomes'[i] = outcomes[i]
        /\ outcomes'[m + 1] = "ok"
    BY <1>7 DEF ApplyOp, TypeOK
  <2>4. batch' = batch /\ wpc' = "apply"
    BY <1>7 DEF ApplyOp
  <2>5. \A i \in 1..n : \E k \in 1..m : batch[k] = txn[i].op
    BY <2>1 DEF OutcomesOfTxn
  <2>6. \A k \in 1..m : batch[k] # batch[m + 1]
    BY <2>1 DEF OnePlace, NoRepeat
  <2> HIDE DEF n, m
  <2>7. /\ \A i \in 1..(n + 1) : i \in 1..n \/ i = n + 1
        /\ \A i \in 1..(m + 1) : i \in 1..m \/ i = m + 1
        /\ \A i \in 1..n : i \in 1..(n + 1) /\ i # n + 1
        /\ \A i \in 1..m : i \in 1..(m + 1) /\ i # m + 1
        /\ n + 1 \in 1..(n + 1) /\ m + 1 \in 1..(m + 1) /\ m + 1 <= Len(batch)
    BY <2>1
  <2>8. \A i \in 1..(n + 1) : \E k \in 1..(m + 1) : batch[k] = txn'[i].op
    BY <2>2, <2>5, <2>7
  <2>9. \A i, j \in 1..(n + 1) : txn'[i].op = txn'[j].op => i = j
    <3>1. \A i \in 1..n : txn[i].op # batch[m + 1]
      BY <2>5, <2>6
    <3>2. \A i, j \in 1..n : txn[i].op = txn[j].op => i = j
      BY DEF OutcomesOfTxn, n
    <3> QED
      BY <2>2, <2>7, <3>1, <3>2
  <2>10. \A k \in 1..(m + 1) : outcomes'[k] = "ok" <=> \E i \in 1..(n + 1) : txn'[i].op = batch[k]
    <3>1. \A k \in 1..m : outcomes[k] = "ok" <=> \E i \in 1..n : txn[i].op = batch[k]
      BY <2>1 DEF OutcomesOfTxn, InTxn, m, n
    <3>2. \A k \in 1..m : (\E i \in 1..n : txn[i].op = batch[k])
                            <=> \E i \in 1..(n + 1) : txn'[i].op = batch[k]
      BY <2>2, <2>6, <2>7
    <3> QED
      BY <2>2, <2>3, <2>7, <3>1, <3>2
  <2> QED
    BY <2>2, <2>3, <2>4, <2>7, <2>8, <2>9, <2>10 DEF OutcomesOfTxn, InTxn
<1>8. CASE ApplyOpFails
  <2> DEFINE m == Len(outcomes)
  <2>1. m \in Nat /\ Len(batch) \in Nat /\ m < Len(batch) /\ wpc = "apply"
    BY <1>8 DEF ApplyOpFails, TypeOK
  <2>2. /\ Len(outcomes') = m + 1
        /\ \A i \in 1..m : outcomes'[i] = outcomes[i]
        /\ outcomes'[m + 1] = "error"
    BY <1>8 DEF ApplyOpFails, TypeOK
  <2>3. txn' = txn /\ batch' = batch /\ wpc' = "apply"
    BY <1>8 DEF ApplyOpFails
  <2>4. \A k \in 1..m : batch[k] # batch[m + 1]
    BY <2>1 DEF OnePlace, NoRepeat
  <2> HIDE DEF m
  <2>5. /\ \A i \in 1..(m + 1) : i \in 1..m \/ i = m + 1
        /\ \A i \in 1..m : i \in 1..(m + 1)
        /\ m + 1 <= Len(batch)
    BY <2>1
  <2>6. ~InTxn(batch[m + 1])
    BY <2>1, <2>4 DEF OutcomesOfTxn, InTxn, m
  <2>7. \A k \in 1..(m + 1) : outcomes'[k] = "ok" <=> InTxn(batch[k])
    BY <2>1, <2>2, <2>5, <2>6 DEF OutcomesOfTxn, m
  <2>8. \A i \in 1..Len(txn) : \E k \in 1..(m + 1) : batch[k] = txn[i].op
    BY <2>1, <2>5 DEF OutcomesOfTxn, m
  <2> QED
    BY <2>2, <2>3, <2>5, <2>7, <2>8 DEF OutcomesOfTxn, InTxn
<1>9. ASSUME NEW c \in Clients, CallerNext(c)
      PROVE  OutcomesOfTxn'
  BY <1>1, <1>9 DEF CallerNext, Call, Refuse, Acquire, Put, Return
<1>10. CASE StopNext
  BY <1>1, <1>10 DEF StopNext, StopBegin, StopSet, StopJoin
<1>11. CASE Finished \/ UNCHANGED vars
  BY <1>1, <1>11 DEF Finished, vars
<1> QED
  BY <1>3, <1>4, <1>5, <1>6, <1>7, <1>8, <1>9, <1>10, <1>11 DEF Next, ThreadNext

(* The outcomes of the committed batch keep telling what the database holds,
   through the upkeep between the commit and _resolve. *)
LEMMA FlushedStep ==
    ASSUME TypeOK, Aligned, OnePlace, NotYetWritten, OutcomesOfTxn, OutcomesOfFlushed,
           [Next]_vars
    PROVE  OutcomesOfFlushed'
<1> USE DEF callerVars, stopVars, threadVars
<1>1. ASSUME UNCHANGED <<flushed, outcomes, log>>, wpc' = "apply" \/ wpc # "apply"
      PROVE  OutcomesOfFlushed'
  BY <1>1 DEF OutcomesOfFlushed, Logged
<1>2. ASSUME flushed' = <<>>, wpc' = "apply" \/ outcomes' = <<>>
      PROVE  OutcomesOfFlushed'
  <2>1. Len(flushed') = 0
    BY <1>2
  <2> QED
    BY <1>2, <2>1 DEF OutcomesOfFlushed
<1>3. CASE Get \/ Flush \/ NoFlush \/ Upkeep \/ UpkeepFails \/ CheckStop
  BY <1>1, <1>3 DEF Get, Flush, NoFlush, Upkeep, UpkeepFails, CheckStop
<1>4. CASE DiscardPending \/ Close \/ FatalMark \/ FatalResolve
  BY <1>1, <1>4 DEF DiscardPending, Close, FatalMark, FatalResolve
<1>5. CASE Resolve \/ Restart
  BY <1>2, <1>5 DEF Resolve, Restart
<1>6. CASE ApplyOp \/ ApplyOpFails
  <2>1. flushed = <<>>
    BY <1>6 DEF ApplyOp, ApplyOpFails, Aligned
  <2> QED
    BY <1>2, <1>6, <2>1 DEF ApplyOp, ApplyOpFails
<1>7. CASE CommitFails
  <2>1. flushed = <<>>
    BY <1>7 DEF CommitFails, Aligned
  <2> QED
    BY <1>2, <1>7, <2>1 DEF CommitFails
<1>8. CASE CommitBatch
  <2>1. /\ flushed' = batch /\ outcomes' = outcomes /\ wpc = "apply"
        /\ Len(outcomes) = Len(batch)
    BY <1>8 DEF CommitBatch
  <2>2. \A o : Logged(o)' <=> Logged(o) \/ InTxn(o)
    BY <1>8, CommitLogs
  <2>3. \A k \in 1..Len(batch) : batch[k] \in Op /\ In(batch[k], batch)
    BY DEF TypeOK, In
  <2>4. \A k \in 1..Len(batch) : ~Logged(batch[k])
    BY <2>3 DEF NotYetWritten
  <2>5. \A k \in 1..Len(batch) : outcomes[k] = "ok" <=> InTxn(batch[k])
    BY <2>1 DEF OutcomesOfTxn
  <2>6. batch = <<>> => outcomes = <<>>
    BY <2>1 DEF TypeOK
  <2>7. \A k \in 1..Len(batch) : outcomes[k] = "ok" <=> \E i \in 1..Len(log') : log'[i].op = batch[k]
    <3>1. \A o : (\E i \in 1..Len(log') : log'[i].op = o) <=> Logged(o) \/ InTxn(o)
      BY <2>2 DEF Logged
    <3> QED
      BY <2>4, <2>5, <3>1
  <2> QED
    BY <2>1, <2>6, <2>7 DEF OutcomesOfFlushed, Logged
<1>9. ASSUME NEW c \in Clients, CallerNext(c)
      PROVE  OutcomesOfFlushed'
  BY <1>1, <1>9 DEF CallerNext, Call, Refuse, Acquire, Put, Return
<1>10. CASE StopNext
  BY <1>1, <1>10 DEF StopNext, StopBegin, StopSet, StopJoin
<1>11. CASE Finished \/ UNCHANGED vars
  BY <1>1, <1>11 DEF Finished, vars
<1> QED
  BY <1>3, <1>4, <1>5, <1>6, <1>7, <1>8, <1>9, <1>10, <1>11 DEF Next, ThreadNext

(* An op of the open transaction is an op of the batch. *)
LEMMA TxnIsOfBatch ==
    ASSUME TypeOK, OutcomesOfTxn, wpc = "apply", NEW i \in 1..Len(txn)
    PROVE  txn[i].op \in Op /\ In(txn[i].op, batch)
<1>1. PICK k \in 1..Len(outcomes) : batch[k] = txn[i].op
  BY DEF OutcomesOfTxn
<1>2. k \in 1..Len(batch)
  BY DEF OutcomesOfTxn, TypeOK
<1> QED
  BY <1>1, <1>2 DEF In, TypeOK

(* Only a commit writes the database. *)
LEMMA OnlyCommitWrites ==
    ASSUME [Next]_vars
    PROVE  CommitBatch \/ log' = log
<1> USE DEF callerVars, stopVars, threadVars
<1>1. ASSUME NEW c \in Clients, CallerNext(c) PROVE log' = log
  BY <1>1 DEF CallerNext, Call, Refuse, Acquire, Put, Return
<1>2. ASSUME StopNext PROVE log' = log
  BY <1>2 DEF StopNext, StopBegin, StopSet, StopJoin
<1>3. ASSUME ThreadNext PROVE CommitBatch \/ log' = log
  BY <1>3 DEF ThreadNext, Get, Flush, NoFlush, ApplyOp, ApplyOpFails, CommitFails, Upkeep,
     UpkeepFails, Resolve, CheckStop, DiscardPending, Close, FatalMark, FatalResolve
<1>4. ASSUME Restart \/ Finished \/ UNCHANGED vars PROVE log' = log
  BY <1>4 DEF Restart, Finished, vars
<1> QED
  BY <1>1, <1>2, <1>3, <1>4 DEF Next

(* No op is committed twice. *)
LEMMA OnceStep ==
    ASSUME TypeOK, NotYetWritten, OutcomesOfTxn, LogOnce, [Next]_vars
    PROVE  LogOnce'
<1>1. CASE log' = log
  BY <1>1 DEF LogOnce
<1>2. CASE CommitBatch
  <2> DEFINE n == Len(log)
             k == Len(txn)
  <2>1. /\ Len(log') = n + k
        /\ \A i \in 1..n : log'[i] = log[i]
        /\ \A i \in (n + 1)..(n + k) : i - n \in 1..k /\ log'[i] = txn[i - n]
    BY <1>2, CommitLogs
  <2>2. \A i \in 1..k : txn[i].op \in Op /\ ~Logged(txn[i].op)
    BY <1>2, TxnIsOfBatch DEF CommitBatch, NotYetWritten
  <2>3. \A i \in 1..n, j \in 1..k : log[i].op # txn[j].op
    BY <2>2 DEF Logged
  <2>4. \A i, j \in 1..k : txn[i].op = txn[j].op => i = j
    BY DEF OutcomesOfTxn
  <2>5. \A i, j \in 1..n : log[i].op = log[j].op => i = j
    BY DEF LogOnce
  <2>6. n \in Nat /\ k \in Nat
    BY DEF TypeOK
  <2> HIDE DEF n, k
  <2>7. \A i \in 1..(n + k) : i \in 1..n \/ i \in (n + 1)..(n + k)
    BY <2>6
  <2>8. \A i, j \in (n + 1)..(n + k) : i - n = j - n => i = j
    BY <2>6
  <2> QED
    BY <2>1, <2>3, <2>4, <2>5, <2>7, <2>8 DEF LogOnce
<1> QED
  BY <1>1, <1>2, OnlyCommitWrites

(* Some unanswered ops are answered, truthfully, and nothing is written. *)
TruthfulAnswers ==
    /\ log' = log
    /\ \A o \in Op : reply'[o] # reply[o] =>
           /\ reply[o] = "none"
           /\ reply'[o] \in {"ok", "error", "discarded", "rejected"}
           /\ reply'[o] = "ok" <=> Logged(o)

(* What _resolve answers an op of the committed batch is true. *)
LEMMA ResolveIsTrue ==
    ASSUME TypeOK, Aligned, OutcomesOfFlushed, wpc = "resolve", NEW o \in Op, In(o, flushed)
    PROVE  outcomes[CHOOSE i \in 1..Len(flushed) : flushed[i] = o] = "ok" <=> Logged(o)
<1> DEFINE k == CHOOSE j \in 1..Len(flushed) : flushed[j] = o
<1>1. k \in 1..Len(flushed) /\ flushed[k] = o
  BY DEF In
<1> HIDE DEF k
<1>2. outcomes[k] = "ok" <=> Logged(o)
  BY <1>1 DEF OutcomesOfFlushed
<1> QED
  BY <1>2 DEF k

(* Every step but a commit only answers, and truthfully. *)
LEMMA AnswersStep ==
    ASSUME TypeOK, CallerNumbered, Aligned, HeldWaits, NotYetWritten, OutcomesOfFlushed,
           [Next]_vars
    PROVE  CommitBatch \/ TruthfulAnswers
<1> USE DEF callerVars, stopVars, threadVars
<1>1. ASSUME UNCHANGED <<log, reply>>
      PROVE  TruthfulAnswers
  BY <1>1 DEF TruthfulAnswers
<1>2. ASSUME NEW c \in Clients, Refuse(c)
      PROVE  TruthfulAnswers
  <2>1. Cur(c) \in Op /\ reply[Cur(c)] = "none" /\ ~Logged(Cur(c))
    BY <1>2, CurIsOp DEF Refuse, NotYetWritten
  <2>2. \A o \in Op : reply'[o] = IF o = Cur(c) THEN "rejected" ELSE reply[o]
    BY <1>2, <2>1 DEF Refuse, TypeOK
  <2> QED
    BY <1>2, <2>1, <2>2 DEF Refuse, TruthfulAnswers
<1>3. CASE Resolve
  <2> SUFFICES ASSUME NEW o \in Op, reply'[o] # reply[o]
               PROVE  /\ reply[o] = "none"
                      /\ reply'[o] \in {"ok", "error"}
                      /\ reply'[o] = "ok" <=> Logged(o)
    BY <1>3 DEF Resolve, TruthfulAnswers
  <2> DEFINE r == outcomes[CHOOSE i \in 1..Len(flushed) : flushed[i] = o]
  <2>1. In(o, flushed) /\ reply'[o] = r
    BY <1>3 DEF Resolve
  <2>2. r \in {"ok", "error"}
    BY <1>3, <2>1, ResolveAnswers DEF Resolve
  <2>3. r = "ok" <=> Logged(o)
    BY <1>3, <2>1, ResolveIsTrue DEF Resolve
  <2> QED
    BY <2>1, <2>2, <2>3 DEF HeldWaits
<1>4. CASE DiscardPending \/ FatalResolve
  <2> SUFFICES ASSUME NEW o \in Op, reply'[o] # reply[o]
               PROVE  /\ reply[o] = "none"
                      /\ reply'[o] \in {"error", "discarded"}
                      /\ ~Logged(o)
    BY <1>4 DEF DiscardPending, FatalResolve, TruthfulAnswers
  <2>1. (In(o, queue) \/ In(o, batch)) /\ reply'[o] \in {"error", "discarded"}
    BY <1>4 DEF DiscardPending, FatalResolve
  <2> QED
    BY <2>1 DEF HeldWaits, NotYetWritten
<1>5. ASSUME NEW c \in Clients, Call(c) \/ Acquire(c) \/ Put(c) \/ Return(c)
      PROVE  TruthfulAnswers
  BY <1>1, <1>5 DEF Call, Acquire, Put, Return
<1>6. CASE StopNext \/ Get \/ Flush \/ NoFlush \/ ApplyOp \/ ApplyOpFails \/ CommitFails
  BY <1>1, <1>6 DEF StopNext, StopBegin, StopSet, StopJoin, Get, Flush, NoFlush, ApplyOp,
     ApplyOpFails, CommitFails
<1>7. CASE Upkeep \/ UpkeepFails \/ CheckStop \/ Close \/ FatalMark \/ Restart
  BY <1>1, <1>7 DEF Upkeep, UpkeepFails, CheckStop, Close, FatalMark, Restart
<1>8. CASE Finished \/ UNCHANGED vars
  BY <1>1, <1>8 DEF Finished, vars
<1> QED
  BY <1>2, <1>3, <1>4, <1>5, <1>6, <1>7, <1>8 DEF Next, CallerNext, ThreadNext

(* The ops a commit writes have not been answered. *)
LEMMA CommitsUnanswered ==
    ASSUME TypeOK, HeldWaits, OutcomesOfTxn, CommitBatch, NEW i \in 1..Len(txn)
    PROVE  txn[i].op \in Op /\ reply[txn[i].op] = "none"
BY TxnIsOfBatch DEF CommitBatch, HeldWaits

(* Answers that are true stay true. *)
LEMMA RepliesStep ==
    ASSUME TypeOK, CallerNumbered, Aligned, HeldWaits, NotYetWritten, OutcomesOfTxn,
           OutcomesOfFlushed, RepliesAreTrue, [Next]_vars
    PROVE  RepliesAreTrue'
<1>1. \A o \in Op : /\ reply[o] = "ok" => Logged(o)
                    /\ reply[o] \in {"error", "discarded", "rejected"} => ~Logged(o)
  BY DEF RepliesAreTrue, Logged
<1> SUFFICES ASSUME NEW o \in Op
             PROVE  /\ reply'[o] = "ok" => Logged(o)'
                    /\ reply'[o] \in {"error", "discarded", "rejected"} => ~Logged(o)'
  BY DEF RepliesAreTrue, Logged
<1>2. CASE TruthfulAnswers
  <2>1. Logged(o)' <=> Logged(o)
    BY <1>2 DEF TruthfulAnswers, Logged
  <2> QED
    BY <1>1, <1>2, <2>1 DEF TruthfulAnswers
<1>3. CASE CommitBatch
  <2>1. reply' = reply
    BY <1>3 DEF CommitBatch
  <2>2. Logged(o)' <=> Logged(o) \/ InTxn(o)
    BY <1>3, CommitLogs
  <2>3. InTxn(o) => reply[o] = "none"
    BY <1>3, CommitsUnanswered DEF InTxn
  <2> QED
    BY <1>1, <2>1, <2>2, <2>3
<1> QED
  BY <1>2, <1>3, AnswersStep

LEMMA ReplyInit == Init => ReplyInv
<1> SUFFICES ASSUME Init PROVE ReplyInv
  OBVIOUS
<1>1. /\ queue = <<>> /\ batch = <<>> /\ flushed = <<>> /\ outcomes = <<>>
      /\ Len(flushed) = 0 /\ Len(txn) = 0 /\ Len(log) = 0
      /\ txn = <<>> /\ wpc = "get"
  BY DEF Init
<1>2. \A o : ~Logged(o)
  BY <1>1 DEF Logged
<1>3. \A o \in Op : reply[o] = "none"
  BY DEF Init
<1>4. HeldWaits /\ OnePlace
  BY <1>1, InEmpty DEF HeldWaits, OnePlace
<1>5. NotYetWritten
  BY <1>1, <1>2, <1>3, InEmpty DEF NotYetWritten
<1>6. OutcomesOfTxn /\ OutcomesOfFlushed /\ LogOnce
  BY <1>1 DEF OutcomesOfTxn, OutcomesOfFlushed, LogOnce
<1>7. RepliesAreTrue
  BY <1>3 DEF RepliesAreTrue
<1> QED
  BY <1>4, <1>5, <1>6, <1>7 DEF ReplyInv

LEMMA ReplyStep == WriterInv /\ ReplyInv /\ [Next]_vars => ReplyInv'
<1> SUFFICES ASSUME WriterInv, ReplyInv, [Next]_vars PROVE ReplyInv'
  OBVIOUS
<1> USE DEF WriterInv, ReplyInv
<1>1. HeldWaits' /\ OnePlace'
  BY HeldStep, PlaceStep
<1>2. NotYetWritten'
  BY NotYetStep
<1>3. OutcomesOfTxn' /\ OutcomesOfFlushed'
  BY TxnStep, FlushedStep
<1>4. LogOnce' /\ RepliesAreTrue'
  BY OnceStep, RepliesStep
<1> QED
  BY <1>1, <1>2, <1>3, <1>4

(* An op is in one place at a time, and the outcomes on their way to the
   callers match the transaction and the database, in every behaviour. *)
THEOREM WriterReplyInvariant == Spec => []ReplyInv
<1> QED
  BY WriterInvariant, ReplyInit, ReplyStep, PTL DEF Spec

(* submit_and_wait tells the truth: an op answered with its value is in the
   database and an op answered with an exception is not, across batches,
   savepoint rollbacks, stop(), fatal errors and restarts. *)
THEOREM WriterRepliesAreTrue == Spec => []RepliesAreTrue
<1>1. ReplyInv => RepliesAreTrue
  BY DEF ReplyInv
<1> QED
  BY <1>1, WriterReplyInvariant, PTL

(* A commit of the thread is a Commit of the abstract log. *)
LEMMA CommitIsCommit ==
    ASSUME WriterInv, WriterInv', ReplyInv, ReplyInv', CommitBatch
    PROVE  Abstract!Commit
<1> DEFINE n == Len(log)
           k == Len(txn)
<1>1. /\ Len(log') = n + k /\ n \in Nat /\ k \in Nat
      /\ \A i \in 1..n : log'[i] = log[i]
      /\ \A i \in (n + 1)..(n + k) : i - n \in 1..k /\ log'[i] = txn[i - n]
      /\ log \in Seq(Entry) /\ log' \in Seq(Entry) /\ reply' = reply
  BY CommitLogs DEF WriterInv, TypeOK, CommitBatch
<1>2. \A i \in 1..k : txn[i].op \in Op /\ reply[txn[i].op] = "none"
  BY CommitsUnanswered DEF WriterInv, ReplyInv
<1>3. SubSeq(log', 1, n) = log
  <2>1. n \in 1..Len(log') \/ n = 0
    BY <1>1
  <2>2. \A i \in 1..n : log'[i] \in Entry
    BY <1>1
  <2>3. /\ SubSeq(log', 1, n) \in Seq(Entry) /\ Len(SubSeq(log', 1, n)) = n
        /\ \A i \in 1..n : SubSeq(log', 1, n)[i] = log'[i]
    BY <1>1, <2>2, SubSeqProperties
  <2> QED
    BY <1>1, <2>3, SeqEqual
<1>4. ASSUME NEW i \in (n + 1)..Len(log')
      PROVE  /\ log'[i].op \in Op
             /\ reply[log'[i].op] = "none"
             /\ \A j \in 1..(i - 1) : /\ log'[j].op # log'[i].op
                                      /\ log'[j].seq < log'[i].seq
  <2>1. log'[i].op \in Op /\ reply[log'[i].op] = "none"
    BY <1>1, <1>2, <1>4
  <2>2. \A j \in 1..(i - 1) : j \in 1..Len(log') /\ i \in 1..Len(log') /\ j < i /\ j # i
    BY <1>1, <1>4
  <2>3. LogOnce' /\ ChangeSeqStrict'
    BY DEF WriterInv, ReplyInv
  <2> QED
    BY <2>1, <2>2, <2>3 DEF LogOnce, ChangeSeqStrict
<1>5. Len(log') >= n
  BY <1>1
<1> QED
  BY <1>1, <1>3, <1>4, <1>5 DEF Abstract!Commit

(* Every step of the writer is a step of the abstract log, or changes neither
   the database nor an answer. *)
LEMMA LogSimulation ==
    WriterInv /\ WriterInv' /\ ReplyInv /\ ReplyInv' /\ [Next]_vars
        => [Abstract!Next]_(Abstract!vars)
<1> SUFFICES ASSUME WriterInv, WriterInv', ReplyInv, ReplyInv', [Next]_vars
             PROVE  Abstract!Next
  OBVIOUS
<1>1. CASE CommitBatch
  BY <1>1, CommitIsCommit DEF Abstract!Next
<1>2. CASE TruthfulAnswers
  <2>1. Abstract!Tell
    BY <1>2 DEF TruthfulAnswers, Abstract!Tell, Abstract!Answer, Abstract!Logged, Logged
  <2> QED
    BY <2>1 DEF Abstract!Next
<1> QED
  BY <1>1, <1>2, AnswersStep DEF WriterInv, ReplyInv

(* The writer thread, with its queue, batches, savepoints, upkeep, stop() and
   restarts, implements the log of answered ops that it promises its callers. *)
THEOREM WriterImplementsLog == Spec => ImplementsLog
<1>1. Init => Abstract!Init
  BY DEF Init, Abstract!Init
<1> QED
  BY <1>1, LogSimulation, WriterInvariant, WriterReplyInvariant, PTL
     DEF Spec, ImplementsLog, Abstract!Spec
=============================================================================
