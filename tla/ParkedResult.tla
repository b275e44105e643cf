---------------------------- MODULE ParkedResult -----------------------------
(***************************************************************************)
(* What the disposition of a result promises, whoever disposes of it: a    *)
(* result is disposed of once, with a task that is created in the same     *)
(* step or has not finished, and only a result on which automatic resume   *)
(* is switched on resumes itself.                                          *)
(***************************************************************************)
EXTENDS Naturals

CONSTANTS Task  \* tasks, in the order in which they were created

VARIABLES
  result,  \* "none" (no task), "pending" (not settled), "open", "resumed", "retried", "dropped"
  armed,   \* open results on which automatic resume is switched on
  child    \* the follow-up a result was disposed of with, 0 for none

vars == <<result, armed, child>>

Init == /\ result \in [Task -> {"none", "pending"}]
        /\ armed = {}
        /\ child = [t \in Task |-> 0]

Create(t) == /\ result[t] = "none"
             /\ result' = [result EXCEPT ![t] = "pending"]
             /\ UNCHANGED child

\* A task settles and leaves a result.
Settle(t) == /\ result[t] = "pending"
             /\ result' = [result EXCEPT ![t] = "open"]
             /\ UNCHANGED child

\* The result is disposed of with a follow-up: a task created for it, or one that
\* is doing the same work.
Follow(t, how) ==
  \E u \in Task : /\ result[t] = "open" /\ result[u] \in {"none", "pending"}
                  /\ result' = [result EXCEPT ![t] = how, ![u] = "pending"]
                  /\ child' = [child EXCEPT ![t] = u]

Drop(t) == /\ result[t] = "open"
           /\ result' = [result EXCEPT ![t] = "dropped"]
           /\ UNCHANGED child

\* Automatic resume is switched on and off for open results only.
Next == /\ \/ \E t \in Task : Create(t) \/ Settle(t) \/ Follow(t, "retried") \/ Drop(t)
           \/ \E t \in armed : Follow(t, "resumed")
           \/ UNCHANGED <<result, child>>
        /\ \A t \in armed' : result'[t] = "open"

Spec == Init /\ [][Next]_vars
==============================================================================
