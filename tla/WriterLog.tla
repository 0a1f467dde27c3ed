----------------------------- MODULE WriterLog -----------------------------
(***************************************************************************)
(* What the sqlite writer promises its callers, without threads, locks,    *)
(* queues or batches.                                                      *)
(*                                                                         *)
(* A write op is an id.  The database is an append-only log of the ops     *)
(* that took effect, each stamped with the change_seq it drew.  A caller   *)
(* is answered at most once; "ok" means the op is in the log, any other    *)
(* answer means that it is not and never will be.                          *)
(***************************************************************************)
EXTENDS Integers, Sequences

CONSTANT Op     \* the write ops the callers may submit

VARIABLES log,      \* the committed ops, in commit order: [op, seq]
          reply     \* the answer each op got, "none" until it is answered

vars == <<log, reply>>

Answer == {"ok", "error", "discarded", "rejected"}

Logged(o) == \E i \in 1..Len(log) : log[i].op = o

Init ==
    /\ log = <<>>
    /\ reply = [o \in Op |-> "none"]

(***************************************************************************)
(* One transaction: a run of unanswered ops, none of them logged before,   *)
(* each with a change_seq above every earlier one.                         *)
(***************************************************************************)
Commit ==
    /\ reply' = reply
    /\ Len(log') >= Len(log)
    /\ SubSeq(log', 1, Len(log)) = log
    /\ \A i \in Len(log)+1..Len(log') :
          /\ log'[i].op \in Op
          /\ reply[log'[i].op] = "none"
          /\ \A j \in 1..i-1 :
                /\ log'[j].op # log'[i].op
                /\ log'[j].seq < log'[i].seq

(***************************************************************************)
(* Some unanswered ops are answered, truthfully.                           *)
(***************************************************************************)
Tell ==
    /\ log' = log
    /\ \A o \in Op : reply'[o] # reply[o] =>
          /\ reply[o] = "none"
          /\ reply'[o] \in Answer
          /\ (reply'[o] = "ok") <=> Logged(o)

Next == Commit \/ Tell

Spec == Init /\ [][Next]_vars
=============================================================================
