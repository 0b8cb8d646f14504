------------------------------ MODULE MCStdin -------------------------------
(* Small instances of module Stdin.                                        *)
EXTENDS Stdin

CONSTANTS r1, r2

=============================================================================
