------------------------------- MODULE MCPMM --------------------------------
(* Small instances of module PMM.                                          *)
EXTENDS PMM
=============================================================================
