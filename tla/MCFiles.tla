------------------------------ MODULE MCFiles -------------------------------
(* Small instances of module Files.                                        *)
EXTENDS Files, TLC

CONSTANTS p1, p2, f1

\* The processes may change places: only Init knows which of them was first.
Processes == Permutations({p1, p2})

Flags(m, s) == [mode |-> m, and |-> s]

SomeFlags == {Flags("RW", {}), Flags("RW", {"CREATE"}), Flags("READ", {"CREATE", "EXIST"})}

=============================================================================
