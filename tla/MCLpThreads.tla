---------------------------- MODULE MCLpThreads ----------------------------
(***************************************************************************)
(* Instances of LpThreads for TLC.                                         *)
(***************************************************************************)
EXTENDS LpThreads
=============================================================================
