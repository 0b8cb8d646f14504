------------------------------- MODULE MCFat --------------------------------
(* Small instances of module Fat.                                          *)
EXTENDS Fat

CONSTANTS f1, f2

\* Once sect_clust has been counted down from 0, every property holds by its
\* precondition, and goes on to: the states behind are not visited.
Followed == ~past.wrapped

=============================================================================
