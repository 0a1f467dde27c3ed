------------------------------- MODULE MCScan -------------------------------
(* A small instance of Scan for TLC: pages of two over three keys.         *)
EXTENDS Scan
=============================================================================
