-------------------------------- MODULE MCSem -------------------------------
(* Small instances of module Sem: kernel threads k and processes p.        *)
EXTENDS Sem

CONSTANTS k1, k2, p1, p2

=============================================================================
