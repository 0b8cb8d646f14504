------------------------------ MODULE MCBCache ------------------------------
(* Small instances of module BCache.                                       *)
EXTENDS BCache, TLC

CONSTANTS c1, v1, v2

Symmetry == Permutations({v1, v2})

=============================================================================
