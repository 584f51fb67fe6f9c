--------------------------- MODULE MCAlpRollback ---------------------------
(***************************************************************************)
(* Instances of AlpRollback for TLC.                                       *)
(***************************************************************************)
EXTENDS AlpRollback
=============================================================================
