------------------------------- MODULE MCTask -------------------------------
(* Small instances of module Task: idle, init and a few user processes.    *)
EXTENDS Task

CONSTANTS u1, u2, u3, u4

UserSymmetry == Permutations({u1, u2, u3, u4})

=============================================================================
