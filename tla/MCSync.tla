------------------------------- MODULE MCSync -------------------------------
(* Instances of Sync for TLC: the constants are in the .cfg files. *)
EXTENDS Sync
=============================================================================
