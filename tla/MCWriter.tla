------------------------------ MODULE MCWriter ------------------------------
(***************************************************************************)
(* Instances of the writer for TLC: the constants are in the .cfg files.   *)
(* No symmetry: every run checks a temporal property.                      *)
(***************************************************************************)
EXTENDS Writer

(* The submit_and_wait of one caller returns or raises in the end, unless
   the writer jams: a full queue behind a failing commit is the only thing
   that strands the callers of a thread that lives (the run on the full
   queue shows that it does).  The callers are interchangeable (all run the
   same code and none is named in Init or Next), so one of them stands for
   all, with a third of the temporal branches. *)
OneCallReturns == CallReturnsOrJams(CHOOSE c \in Clients : TRUE)
=============================================================================
