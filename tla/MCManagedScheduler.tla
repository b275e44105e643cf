------------------------ MODULE MCManagedScheduler --------------------------
(***************************************************************************)
(* Instances of ManagedScheduler for TLC: two task identities, two slots   *)
(* for executor calls in flight.                                           *)
(***************************************************************************)
EXTENDS ManagedSchedulerInvariant, TLC

CONSTANTS t1, t2, r1, r2

\* The slots are interchangeable: no definition singles one out.
Symmetry == Permutations(Run)
=============================================================================
