--------------------------- MODULE MCSessionRevert ---------------------------
(* A conversation and one child, carried out by two hosts. *)
EXTENDS SessionRevert, TLC

CONSTANTS r, c, h1, h2

Symmetry == Permutations({h1, h2})
=============================================================================
