---------------------------- MODULE MCAutoResume -----------------------------
(***************************************************************************)
(* Instances of AutoResume for TLC.                                        *)
(***************************************************************************)
EXTENDS AutoResume

CONSTANTS d1, d2
=============================================================================
