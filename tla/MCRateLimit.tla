---------------------------- MODULE MCRateLimit ----------------------------
(* Two domains: one token of the first takes two ticks, of the second one. *)
EXTENDS RateLimit, TLC

CONSTANTS index, files, t1, t2

Rates == index :> 1 @@ files :> 2
Symmetry == Permutations({t1, t2})

Bursts == index :> 2 @@ files :> 4
=============================================================================
