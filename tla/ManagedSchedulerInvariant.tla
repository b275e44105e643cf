---------------------- MODULE ManagedSchedulerInvariant ---------------------
(***************************************************************************)
(* The inductive invariant of ManagedScheduler, in named parts.  It holds  *)
(* when a save that fails leaves the file alone (LateSaveError = FALSE).   *)
(*                                                                         *)
(* The live map and the file differ by one record at most (LedgerAgrees),  *)
(* and that record is a legal change of a task that has not ended          *)
(* (SaveIsLegal): for an admission because the pump only walks over queued *)
(* tasks (PumpWalks), for a settlement because every answer on its way is  *)
(* an outcome (HasAnswer).  A dead process adds nothing (Quiet).           *)
(***************************************************************************)
EXTENDS ManagedScheduler

\* A pending save changes a task that has not ended, along the status graph.
SaveIsLegal ==
  Saving => LET old == lock.prev.status
                new == tasks[lock.id].status
            IN /\ ~IsTerminal(old) /\ CanTransition(old, new)
               /\ lock.op \in {"settle", "withdraw"} <=> IsTerminal(new)

\* The pump walks over tasks that are queued in the file.
PumpWalks ==
  /\ lock.op \notin {"pump", "hold", "start"} => pump.todo = {}
  /\ \A t \in pump.todo : disk[t].status = "queued"

\* An answer that is about to be recorded is an outcome.
HasAnswer ==
  /\ \A r \in Run : runs[r].pc = "settling" => runs[r].res # "none"
  /\ \A t \in Task : /\ cancel[t].pc = "settle" => cancel[t].term # "none"
                     /\ cancel[t].pc = "replay" => cancel[t].deferred # "none"
                     /\ rec[t].pc = "finish" => rec[t].res # "none"

\* An executor call whose own save is pending waits for it.
RunWaits ==
  Saving /\ lock.by = "run" =>
    lock.run \in Run /\ runs[lock.run].pc = IF lock.op = "settle" THEN "saving" ELSE "executing"

\* A dead process does nothing.
Quiet ==
  ~Alive => /\ Free
            /\ \A r \in Run : runs[r].pc = "idle"
            /\ \A t \in Task : cancel[t].pc = "none" /\ fired[t] = 0 /\ rec[t].pc = "none"

\* The induction: no step of pump, executor, cancellation, reconciliation,
\* failed save or crash puts a record into the live map that the file may not
\* hold next (commitTaskUpdateLocked, finishTask, pump, initialize).
IInv == /\ TypeOK /\ LedgerAgrees /\ SaveIsLegal /\ PumpWalks /\ HasAnswer /\ RunWaits /\ Quiet

\* With IInv: a waiter waits for a task whose outcome is not in the file, and
\* has been told the outcome that is (waitForTask, notifyTaskWaiters).
WaitersFollow ==
  /\ \A t \in waiter.waiting : ~IsTerminal(disk[t].status)
  /\ \A t \in Task : waiter.notified[t] # "none" =>
       IsTerminal(disk[t].status) /\ disk[t].status = waiter.notified[t]
-----------------------------------------------------------------------------
(* Who may change a record: the settlement owner and the pump's walk *)

\* What the locked sections change: a record is new when it is submitted and
\* gets a lease when it is admitted, and nothing else touches its place in the
\* queue, its lease or, but for a renewal, its deadline.
Changes(op, old, new) ==
  /\ op = "submit" <=> old.status = Absent
  /\ new.status # Absent
  /\ op = "start" <=> old.status = "queued" /\ new.status = "starting"
  /\ op = "hold" => new.status = "queued"
  /\ op # "submit" => new.seq = old.seq
  /\ op \notin {"submit", "start"} => new.lease = old.lease
  /\ op \notin {"submit", "renew"} => new.due = old.due

\* A pending save changes what its locked section is about.
SaveChanges == Saving => Changes(lock.op, lock.prev, tasks[lock.id])

\* The owner of a settlement holds the task under the lease and the deadline
\* it claimed it with: no admission, renewal or submission is being saved for
\* it, and no walk of the pump is going to admit it.
OwnerHolds ==
  \A t \in Task : Owned(t) =>
    /\ Known(t) /\ cancel[t].lease = tasks[t].lease
    /\ cancel[t].kind = "timeout" => cancel[t].due = tasks[t].due
    /\ Saving /\ lock.id = t => lock.op \notin {"submit", "start", "renew"}
    /\ t \notin pump.todo

\* An owner whose own save is pending waits for it.
OwnerWaits ==
  /\ lock.op = "withdraw" => lock.by = "owner"
  /\ Saving /\ lock.by = "owner" =>
       cancel[lock.id].pc = IF lock.op = "withdraw" THEN "withdraw" ELSE "settle"

\* So does a reconciliation.
RecWaits ==
  Saving /\ lock.by = "recover" =>
    rec[lock.id].pc = IF lock.op = "accept" THEN "accept" ELSE "finish"

PumpWalking == lock.op \in {"pump", "hold", "start"}

\* While the pump walks, every queued task is ahead of it, has an owner or is
\* gated.
WalkIsComplete ==
  /\ lock.op \in {"hold", "start"} => lock.id \in pump.todo
  /\ lock.op = "hold" => lock.id \in Gated
  /\ PumpWalking =>
       \A u \in Task : tasks[u].status = "queued" => u \in pump.todo \/ Owned(u) \/ u \in Gated

\* A dead process knows no task.
Forgotten == ~Alive => \A t \in Task : ~Known(t)

\* With IInv: what a cancellation and the pump rely on between their locked
\* sections (cancellationOwners, pump).
OInv == SaveChanges /\ OwnerHolds /\ OwnerWaits /\ RecWaits /\ WalkIsComplete /\ Forgotten

-----------------------------------------------------------------------------
(* Who may start an executor.  All of it holds as long as no initialisation *)
(* fails half way: one that does leaves timers and executor calls behind    *)
(* which the next one does not know of.                                     *)

\* initialize rejects because a reconciliation could not be saved.
InitialisationFails == boot.phase = "recovering" /\ boot'.phase = "loaded"

Unstarted(t) == disk[t].status \in {Absent, "queued"}
HasRun(t) == \E r \in Run : runs[r].pc # "idle" /\ runs[r].id = t
Live(r, t) == runs[r].pc # "idle" /\ runs[r].id = t /\ ~runs[r].stale

\* Nothing that could start an executor is under way for t.
Untouched(t) == ~HasRun(t) /\ rec[t].pc = "none" /\ timers.retry[t] = 0

\* At most one chain of events can: an executor call that counts, a
\* reconciliation or a retry timer.
OneDriver(t) ==
  /\ \A q, r \in Run : Live(q, t) /\ Live(r, t) => q = r
  /\ (\E r \in Run : Live(r, t)) => rec[t].pc = "none" /\ timers.retry[t] = 0
  /\ rec[t].pc # "none" => timers.retry[t] = 0

\* An executor call of t lost its registration to the starting lease, or to
\* the end of a call that had.
Displaced(t) ==
  \E r \in Run : runs[r].pc # "idle" /\ runs[r].id = t /\ (runs[r].stale \/ active[t] # r)

\* Before it is up, the scheduler only reconciles.
StartsClean ==
  /\ ~Up => /\ pumpDue = {} /\ ~timers.admission /\ pump.admitted = {}
            /\ lock.op \notin {"pump", "submit", "hold", "start"}
            /\ \A t \in Task : /\ cancel[t].pc \in {"none", "claim"} /\ timers.start[t] = 0
                               /\ OneDriver(t) /\ ~Displaced(t)
  /\ boot.phase \in {"down", "loaded"} => Free /\ \A t \in Task : Untouched(t)
  /\ \A t \in Task : /\ rec[t].booting => boot.phase = "recovering"
                     /\ Listed(t) => boot.phase = "recovering"

\* Nothing is under way for a task that the file does not hold as admitted,
\* and the executor calls of any other run under the lease in the file.
Dormant(t) == Untouched(t) /\ timers.start[t] = 0 /\ t \notin pump.admitted /\ ~Listed(t)
DriversAreDurable ==
  \A t \in Task :
    /\ Unstarted(t) => Dormant(t)
    /\ \A r \in Run : runs[r].pc # "idle" /\ runs[r].id = t => runs[r].lease = disk[t].lease

\* A call is displaced once, by the only starting lease its task ever has;
\* until then its registration keeps every other launch away, and from then
\* on one chain of events is left.
Chain(t) ==
  /\ Displaced(t) => /\ timers.start[t] = 0 /\ t \notin pump.admitted /\ ~Listed(t)
                     /\ OneDriver(t)
  /\ timers.start[t] # 0 => OneDriver(t)
  /\ Listed(t) \/ (t \in pump.admitted /\ timers.start[t] # 0) => Untouched(t)
OneChain == \A t \in Task : Chain(t)

\* The pump only keeps admissions while it walks.
AdmitsWhileWalking == ~PumpWalking => pump.admitted = {}

\* A slot without an executor call has no task.
FreeSlots == \A r \in Run : runs[r].pc = "idle" => runs[r].id = NoTask

XInv == StartsClean /\ DriversAreDurable /\ OneChain /\ AdmitsWhileWalking /\ FreeSlots

-----------------------------------------------------------------------------
(* Who still has to come back to a task.  It holds as long as nothing the   *)
(* code gives up on happens.                                                *)

\* What the scheduler does not come back from.  It gives up when a walk of the
\* pump that no submission called, the second settlement of an answer, the
\* settlement of a cancellation or a reconciliation cannot be saved, when an
\* initialisation fails half way, and when a handoff is not confirmed.
Abandons ==
  \/ InitialisationFails
  \/ SaveFails /\ \/ PumpSaveFailed /\ pump.by # "submit"
                  \/ RunSaveFailed /\ runs[lock.run].last
                  \/ CancelSaveFailed /\ lock.op = "settle"
                  \/ RecSaveFailed
  \/ \E t \in Task : HandoffRefused(t, FALSE) /\ AbortOutcome(t, FALSE)

\* An active task has an executor call, an owner, a reconciliation or a timer
\* that leads to one; before the scheduler is up it may still be listed.
Attended(t) == HasRun(t) \/ Owned(t) \/ rec[t].pc # "none" \/ timers.start[t] # 0 \/ timers.retry[t] # 0
Admitting(t) == lock.op = "start" /\ lock.id = t
ActiveAttended ==
  boot.phase \in {"recovering", "up"} =>
    \A t \in Task : Active(t) /\ ~Admitting(t) => Attended(t) \/ Listed(t)

\* A queued task has an owner, or a walk of the pump ahead of it: one that is
\* due, the one in progress, or the one the retry timer calls.
Submitting(t) == lock.op = "submit" /\ lock.id = t
Awaited(t) ==
  \/ Owned(t) \/ pumpDue # {}
  \/ IF PumpWalking THEN t \in pump.todo \/ pump.held ELSE timers.admission
QueueSeen ==
  /\ Up => \A t \in Task : tasks[t].status = "queued" /\ ~Submitting(t) => Awaited(t)
  /\ PumpWalking /\ pump.held => timers.admission \/ pumpDue # {}

\* An active task has a lease; whoever comes back to one does so under the
\* lease in the file, and a starting lease is armed for an admission that is
\* not accepted there.
LeasesAgree ==
  \A t \in Task :
    /\ disk[t].status \in ActiveStatus => disk[t].lease # 0
    /\ timers.start[t] # 0 => timers.start[t] = disk[t].lease /\ disk[t].status = "starting"
    /\ timers.retry[t] # 0 => timers.retry[t] = disk[t].lease
    /\ rec[t].pc # "none" => rec[t].lease = disk[t].lease
    /\ Listed(t) => boot.list[t].lease = disk[t].lease

\* A registration is that of an executor call of its task.
RegisteredRuns ==
  \A t \in Task : Registered(t) => runs[active[t]].pc # "idle" /\ runs[active[t]].id = t

\* An owner that will settle nothing, or has settled, owns a task that is not
\* active in the file; an answer was deferred for one that has been admitted.
OwnerIsDone(t) == \/ cancel[t].pc \in {"withdraw", "release"}
                  \/ cancel[t].pc = "aborting" /\ cancel[t].term = "none"
OwnersDone ==
  \A t \in Task :
    /\ cancel[t].pc = "claim" => cancel[t].term # "none"
    /\ OwnerIsDone(t) => disk[t].status \notin ActiveStatus
    /\ cancel[t].deferred # "none" => ~Unstarted(t)

\* What a pending save has changed, and for whom.
SaveOrigins ==
  Saving =>
    /\ lock.op \in {"child", "accept", "renew"} => lock.by \in {"run", "recover"}
    /\ lock.by = "run" => runs[lock.run].id = lock.id
    /\ lock.op = "start" => tasks[lock.id].lease # 0
    /\ lock.op \in {"hold", "child", "renew"} => tasks[lock.id].status = lock.prev.status
    /\ lock.op = "withdraw" => lock.prev.status = "queued"
    /\ lock.op = "settle" => lock.prev.status \in ActiveStatus

NInv == ActiveAttended /\ QueueSeen /\ LeasesAgree /\ RegisteredRuns /\ OwnersDone /\ SaveOrigins
=============================================================================
