----------------------------- MODULE MCHandoff -----------------------------
(* Sizes for the instances: 3 is larger than the budget of 2. *)
EXTENDS Handoff

Sizes12 == <<1, 2>>
Sizes131 == <<1, 3, 1>>
=============================================================================
