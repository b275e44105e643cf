--------------------------- MODULE TaskLifecycle ----------------------------
(***************************************************************************)
(* What the managed task ledger promises a reader of the file: each task   *)
(* identity appears once, moves along the status graph one committed       *)
(* status at a time, and keeps its outcome for ever, whatever crashes,     *)
(* late answers and retries happen in the process that writes it.          *)
(***************************************************************************)
EXTENDS TaskStatus

CONSTANT Task

VARIABLE status      \* the status the ledger file records for each task

Init == status = [t \in Task |-> Absent]

\* One commit changes the status of one task, along the graph.
Commit(t) ==
  \E s \in AllowedTransitions[status[t]] : status' = [status EXCEPT ![t] = s]

Next == \E t \in Task : Commit(t)

Spec == Init /\ [][Next]_status
=============================================================================
