--------------------------- MODULE MCConfigApply ----------------------------
(***************************************************************************)
(* Instances of ConfigApply for TLC.                                       *)
(***************************************************************************)
EXTENDS ConfigApply, TLC

CONSTANTS c1, c2, c3

\* The promises are interchangeable.
Symmetry == Permutations(Call)
=============================================================================
