----------------------------- MODULE TaskStatus -----------------------------
(***************************************************************************)
(* The managed task statuses and the status graph every ledger commit is   *)
(* checked against (orchestration-runtime/transitions.js).                 *)
(***************************************************************************)

\* A task identity the ledger does not hold.
Absent == "absent"

ActiveStatus   == {"starting", "running"}
TerminalStatus == {"completed", "failed", "aborted", "interrupted"}
TaskStatuses   == {Absent, "queued"} \cup ActiveStatus \cup TerminalStatus

\* The statuses a status may move to, besides itself.  The row of Absent is
\* the insertion of a new record, which is always created queued.
AllowedTransitions ==
  [s \in TaskStatuses |->
     CASE s = Absent     -> {"queued"}
       [] s = "queued"   -> {"starting", "aborted"}
       [] s = "starting" -> {"running", "failed", "aborted", "interrupted"}
       [] s = "running"  -> {"completed", "failed", "aborted", "interrupted"}
       [] OTHER          -> {}]

CanTransition(from, to) == from = to \/ to \in AllowedTransitions[from]

IsTerminal(s) == s \in TerminalStatus
=============================================================================
