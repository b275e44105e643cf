-------------------------- MODULE MCBoundedReadPool --------------------------
(* Readers of three keys over one slot and one place in the queue. *)
EXTENDS BoundedReadPool
=============================================================================
