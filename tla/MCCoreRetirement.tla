------------------------- MODULE MCCoreRetirement -------------------------
(* Small instances of CoreRetirement for TLC.                              *)
EXTENDS CoreRetirement
=============================================================================
