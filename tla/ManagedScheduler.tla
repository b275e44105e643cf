-------------------------- MODULE ManagedScheduler --------------------------
(***************************************************************************)
(* The managed sub-agent scheduler (orchestration-runtime/scheduler.js):   *)
(* one process that owns a ledger file of tasks, serialises every mutation *)
(* behind one promise-chain mutex, and drives each task through an         *)
(* executor, cancellations, deadlines, the starting lease, reconciliation  *)
(* and restart.                                                            *)
(*                                                                         *)
(* A locked section without an await is one atomic action.  A section that *)
(* commits is two: the first changes the live map and takes the lock, the  *)
(* second is the answer of persistence.save (durable, failed, or lost in a *)
(* crash).  Everything outside the lock interleaves with it.               *)
(*                                                                         *)
(* A definition whose comment says "Fault" is not the code's: it is a      *)
(* plausible mistake in the definition that follows it, and no action uses *)
(* it.  The README pairs each with the property that would notice.         *)
(***************************************************************************)
EXTENDS Naturals, FiniteSets, TaskStatus

CONSTANTS
  Task,          \* task identities
  Run, NoRun,    \* slots for executor promises in flight, and none of them
  NoTask,
  Gated,         \* tasks submitted with task prerequisites
  Timed,         \* tasks submitted with a deadline
  Waited,        \* tasks some caller waits for with waitForTask
  LateSaveError, \* may a save fail after it has replaced the file?
  MaxLease, MaxDue, MaxCrash, MaxSaveError, MaxCall   \* bounds

ASSUME SlotAssumption == NoRun \notin Run /\ NoTask \notin Task
ASSUME FiniteAssumption == IsFiniteSet(Task)
ASSUME ClassAssumption ==
  /\ Gated \subseteq Task /\ Timed \subseteq Task /\ Waited \subseteq Task
  /\ LateSaveError \in BOOLEAN
ASSUME BoundAssumption ==
  /\ MaxLease \in Nat /\ MaxDue \in Nat /\ MaxCrash \in Nat
  /\ MaxSaveError \in Nat /\ MaxCall \in Nat

VARIABLES
  disk,     \* the ledger file: task identity -> record
  tasks,    \* the live map, ahead of the file while a save is pending
  lock,     \* the locked section awaiting its save, if any
  pump,     \* the pump walk that holds the lock
  pumpDue,  \* pump calls waiting for the lock, by their caller
  runs,     \* executor promises in flight
  active,   \* activeLaunches: the promise registered for each task
  cancel,   \* cancellationPromises and cancellationOwners
  timers,   \* armed timers: deadline, starting lease, retry, admission
  fired,    \* deadline handlers waiting for their first locked read
  rec,      \* recoverTask calls in flight
  boot,     \* the process: down, loaded, recovering or up
  minted,   \* lease tokens issued
  spent,    \* crashes, failed saves and callers' calls so far
  waiter    \* waitForTask callers, and what they have been told

core  == <<disk, tasks, lock>>
queue == <<pump, pumpDue>>
exec  == <<runs, active>>
vars  == <<core, queue, exec, cancel, timers, fired, rec, boot, minted, spent, waiter>>

-----------------------------------------------------------------------------
(* Records *)

Results == {"none"} \cup TerminalStatus

TaskRec == [status : TaskStatuses, seq : Nat, lease : Nat, due : Nat,
            child : BOOLEAN, held : BOOLEAN, result : Results]

\* No record.  lease 0 is the null lease token, due 0 the null deadline; a
\* deadline is counted by its renewals.
AbsentTask == [status |-> Absent, seq |-> 0, lease |-> 0, due |-> 0,
               child |-> FALSE, held |-> FALSE, result |-> "none"]

SaveOps == {"submit", "hold", "start", "child", "accept", "renew", "settle", "withdraw"}
Unlocked == [op |-> "free", id |-> NoTask, prev |-> AbsentTask, by |-> "host", run |-> NoRun]
PumpHolds == [Unlocked EXCEPT !.op = "pump"]
IdlePump == [todo |-> {}, admitted |-> {}, held |-> FALSE, by |-> "other"]

IdleRun == [pc |-> "idle", id |-> NoTask, lease |-> 0, kind |-> "launch",
            res |-> "none", last |-> FALSE, stale |-> FALSE]

NoCancel == [pc |-> "none", kind |-> "manual", due |-> 0, term |-> "none", lease |-> 0,
             child |-> FALSE, deferred |-> "none", committed |-> FALSE]

NoRec == [pc |-> "none", lease |-> 0, was |-> Absent, child |-> FALSE,
          res |-> "none", booting |-> FALSE]

AtPhase(phase) == [phase |-> phase, list |-> [t \in Task |-> AbsentTask]]

NoTimers == [deadline |-> [t \in Task |-> 0], start |-> [t \in Task |-> 0],
             retry |-> [t \in Task |-> 0], admission |-> FALSE]

-----------------------------------------------------------------------------
(* State formulae *)

Free == lock.op = "free"
Saving == lock.op \in SaveOps
Up == boot.phase = "up"
Alive == boot.phase # "down"

Known(t) == tasks[t].status # Absent
Ended(t) == IsTerminal(tasks[t].status)
Active(t) == tasks[t].status \in ActiveStatus

\* A cancellation that has registered itself as the settlement owner.
Owned(t) == cancel[t].pc \in {"withdraw", "aborting", "settle", "release"}

\* Fault: a cancellation in flight is not looked up.
NeverCancelling(t) == FALSE
\* A cancellation of the task is in flight (cancellationPromises.has).
Cancelling(t) == cancel[t].pc # "none"

\* Fault: an ended task counts as open.
OnlyKnown(t) == Known(t)
\* A task whose outcome is still open.
Open(t) == Known(t) /\ ~Ended(t)

\* finishTask's early returns: a stale lease, a task already settled.
Settleable(t, l) == Open(t) /\ tasks[t].lease = l

\* Fault: an ended task is settled again.
SettlesTwice(t, l) == Known(t) /\ tasks[t].lease = l
\* finishTask commits: the status graph refuses to settle a queued task.
Settles(t, l) == Settleable(t, l) /\ tasks[t].status # "queued"

\* Fault: an answer does not wait for the settlement owner.
NeverDefers(t, l) == FALSE
\* finishTask defers an answer under the lease of the settlement owner.
Defers(t, l) == Owned(t) /\ cancel[t].lease = l

\* Fault: a completion before acceptance is taken as it is.
OutcomeAsAnswered(t, res) == res
\* Fault: a settlement writes a status that is no outcome.
OutcomeUnchecked(t, res) == IF tasks[t].status = "starting" THEN "accepted" ELSE res
\* A completion before provider acceptance is recorded as interrupted.
Outcome(t, res) ==
  IF tasks[t].status = "starting" /\ res = "completed" THEN "interrupted" ELSE res

Settled(t, res) == [tasks[t] EXCEPT !.status = Outcome(t, res), !.result = Outcome(t, res),
                                    !.held = FALSE]

\* Fault: the deferred answer is forgotten.
DropsDeferred(t) == FALSE
\* An uncommitted cancellation has an answer to give back.
Replays(t) == ~cancel[t].committed /\ cancel[t].deferred # "none"

\* A deadline cancellation still owns the deadline it was called for.
SameDeadline(t) == cancel[t].kind = "timeout" => tasks[t].due = cancel[t].due

\* Fault: activation arms no deadline.
NotRearmed == timers.deadline
\* The deadlines that activation arms.
Deadlines == [t \in Task |-> IF Ended(t) THEN 0 ELSE tasks[t].due]

NextSeq == 1 + Cardinality({t \in Task : Known(t)})

\* Fault: the pump takes any queued task.
InTodo(t) == t \in pump.todo
\* The head of the pump's walk: the least sequence first.
IsNext(t) == t \in pump.todo /\ \A u \in pump.todo : tasks[t].seq <= tasks[u].seq

-----------------------------------------------------------------------------
(* Building blocks of the actions *)

\* The first half of a commit: the new record is in the live map and the
\* locked section awaits persistence.save.
BeginSave(op, t, next, by, r) ==
  /\ tasks' = [tasks EXCEPT ![t] = next]
  /\ lock' = [op |-> op, id |-> t, prev |-> tasks[t], by |-> by, run |-> r]
  /\ UNCHANGED disk

\* Fault: the save answers before the file is replaced.
CommitUnsynced(op) == lock.op = op /\ disk' \in {disk, tasks} /\ UNCHANGED tasks
\* The save is durable.
Commit(op) == lock.op = op /\ disk' = tasks /\ UNCHANGED tasks

\* The promise of run r settles.  Its registration is dropped by task
\* identity, whichever promise is registered by then.
EndRun(r) ==
  /\ runs' = [runs EXCEPT ![r] = IdleRun]
  /\ active' = [active EXCEPT ![runs[r].id] = NoRun]

\* Fault: a launch is not looked up.
NeverRegistered(t) == FALSE
\* activeLaunches.has
Registered(t) == active[t] # NoRun

\* launchTask or observeRecoveredTask for each of ts, under its current
\* lease: at most one registered promise per task.  A gated launch verifies
\* its prerequisites first; any other launch is dropped at once when a
\* cancellation owns the task.
StartRuns(ts, kind) ==
  LET gated(t) == kind = "launch" /\ t \in Gated
      go == {t \in ts : ~Registered(t) /\ (kind = "launch" /\ ~gated(t) => ~Owned(t))}
  IN \E slot \in [go -> {r \in Run : runs[r].pc = "idle"}] :
       /\ \A t, u \in go : slot[t] = slot[u] => t = u
       /\ active' = [t \in Task |-> IF t \in go THEN slot[t] ELSE active[t]]
       /\ runs' = [r \in Run |->
            IF \E t \in go : slot[t] = r
            THEN LET t == CHOOSE u \in go : slot[u] = r
                 IN [IdleRun EXCEPT !.pc = IF gated(t) THEN "checking" ELSE "executing",
                                    !.id = t, !.lease = tasks[t].lease, !.kind = kind]
            ELSE runs[r]]

\* commitTerminalTaskLocked clears the timers of a settled task.
TimersCleared(t) == [timers EXCEPT !.deadline[t] = 0, !.start[t] = 0, !.retry[t] = 0]

\* It wakes the registered waiters with the committed record.
NotifyWaiters(t) ==
  waiter' = IF t \in waiter.waiting
            THEN [waiter EXCEPT !.waiting = @ \ {t}, !.notified[t] = tasks[t].status]
            ELSE waiter

-----------------------------------------------------------------------------
(* Submission *)

\* submit: a task is recorded queued, with the next sequence.  A follow-up
\* inherits the child session of the attempt it continues.
Submit(t, followUp) ==
  /\ Up /\ Free /\ ~Known(t)
  /\ BeginSave("submit", t,
       [AbsentTask EXCEPT !.status = "queued", !.seq = NextSeq, !.child = followUp,
                          !.due = IF t \in Timed THEN 1 ELSE 0], "host", NoRun)
  /\ UNCHANGED <<queue, exec, cancel, timers, fired, rec, boot, minted, spent, waiter>>

\* launchCommittedTask arms the deadline and calls pump.
SubmitSaved ==
  /\ Commit("submit")
  /\ lock' = Unlocked
  /\ timers' = [timers EXCEPT !.deadline[lock.id] = tasks[lock.id].due]
  /\ pumpDue' = pumpDue \cup {"submit"}
  /\ UNCHANGED <<pump, exec, cancel, fired, rec, boot, minted, spent, waiter>>

\* A submission that names a task the ledger holds, by its idempotency key or
\* as a duplicate, returns it: the deadline is armed again and the pump called.
Resubmit(t) ==
  /\ Up /\ Free /\ Known(t) /\ spent.call < MaxCall
  /\ spent' = [spent EXCEPT !.call = @ + 1]
  /\ timers' = [timers EXCEPT !.deadline[t] = IF Ended(t) THEN 0 ELSE tasks[t].due]
  /\ pumpDue' = pumpDue \cup {"submit"}
  /\ UNCHANGED <<core, pump, exec, cancel, fired, rec, boot, minted, waiter>>

-----------------------------------------------------------------------------
(* The pump *)

\* A waiting pump call gets the lock and lists the queue.
PumpBegin(c) ==
  /\ Alive /\ Free /\ c \in pumpDue
  /\ pumpDue' = pumpDue \ {c}
  /\ lock' = PumpHolds
  /\ pump' = [IdlePump EXCEPT !.by = c,
                !.todo = {t \in Task : tasks[t].status = "queued" /\ ~Owned(t)}]
  /\ UNCHANGED <<disk, tasks, exec, cancel, timers, fired, rec, boot, minted, spent, waiter>>

\* The head's prerequisites are not verified: the hold is recorded, unless
\* the same hold already is, and the retry timer is armed.
PumpHold(t) ==
  /\ lock.op = "pump" /\ IsNext(t) /\ t \in Gated
  /\ \/ /\ BeginSave("hold", t, [tasks[t] EXCEPT !.held = TRUE], "host", NoRun)
        /\ UNCHANGED <<pump, timers>>
     \/ /\ tasks[t].held
        /\ pump' = [pump EXCEPT !.todo = @ \ {t}, !.held = TRUE]
        /\ timers' = [timers EXCEPT !.admission = TRUE]
        /\ UNCHANGED core
  /\ UNCHANGED <<pumpDue, exec, cancel, fired, rec, boot, minted, spent, waiter>>

HoldSaved ==
  /\ Commit("hold")
  /\ lock' = PumpHolds
  /\ pump' = [pump EXCEPT !.todo = @ \ {lock.id}, !.held = TRUE]
  /\ timers' = [timers EXCEPT !.admission = TRUE]
  /\ UNCHANGED <<pumpDue, exec, cancel, fired, rec, boot, minted, spent, waiter>>

\* The head is admitted under a fresh lease.
PumpStart(t) ==
  /\ lock.op = "pump" /\ IsNext(t) /\ minted < MaxLease
  /\ minted' = minted + 1
  /\ BeginSave("start", t,
       [tasks[t] EXCEPT !.status = "starting", !.lease = minted + 1, !.held = FALSE], "host", NoRun)
  /\ UNCHANGED <<queue, exec, cancel, timers, fired, rec, boot, spent, waiter>>

StartSaved ==
  /\ Commit("start")
  /\ lock' = PumpHolds
  /\ pump' = [pump EXCEPT !.todo = @ \ {lock.id}, !.admitted = @ \cup {lock.id}]
  /\ timers' = [timers EXCEPT !.start[lock.id] = tasks[lock.id].lease]
  /\ UNCHANGED <<pumpDue, exec, cancel, fired, rec, boot, minted, spent, waiter>>

\* Fault: the admission being saved is launched too.
LaunchUnsaved ==
  StartRuns({t \in pump.admitted \cup (Task \cap {lock.id}) : tasks[t].status = "starting"}, "launch")
\* The pump's finally block: an admission whose lease is still the starting
\* one and that no cancellation owns is launched.  It runs in the turn that
\* ends the walk, before the next locked section.
LaunchAdmitted ==
  StartRuns({t \in pump.admitted : tasks[t].status = "starting" /\ ~Owned(t)}, "launch")

PumpEnd ==
  /\ lock.op = "pump" /\ pump.todo = {}
  /\ lock' = Unlocked
  /\ pump' = IdlePump
  /\ LaunchAdmitted
  /\ timers' = IF pump.held THEN timers ELSE [timers EXCEPT !.admission = FALSE]
  /\ UNCHANGED <<disk, tasks, pumpDue, cancel, fired, rec, boot, minted, spent, waiter>>

\* A failed save ends the walk.  Only the submission that called the pump
\* arms the retry timer; every other caller logs the failure.
PumpSaveFailed ==
  /\ lock.op \in {"hold", "start"}
  /\ pump' = IdlePump
  /\ LaunchAdmitted
  /\ timers' = IF pump.by = "submit" THEN [timers EXCEPT !.admission = TRUE] ELSE timers
  /\ UNCHANGED <<pumpDue, cancel, fired, rec, boot, waiter>>

AdmissionRetry ==
  /\ Alive /\ timers.admission
  /\ timers' = [timers EXCEPT !.admission = FALSE]
  /\ pumpDue' = pumpDue \cup {"other"}
  /\ UNCHANGED <<core, pump, exec, cancel, fired, rec, boot, minted, spent, waiter>>

-----------------------------------------------------------------------------
(* Executor promises *)

\* A gated launch has verified its prerequisites: stale evidence fails the
\* task, a stale lease or a cancellation drops the launch.
RunCheck(r) ==
  LET t == runs[r].id IN
  /\ runs[r].pc = "checking"
  /\ \/ /\ runs' = [runs EXCEPT ![r].pc = "settling", ![r].res = "failed", ![r].last = TRUE]
        /\ UNCHANGED active
     \/ /\ Settleable(t, runs[r].lease) /\ ~Owned(t)
        /\ runs' = [runs EXCEPT ![r].pc = "executing"]
        /\ UNCHANGED active
     \/ /\ ~Settleable(t, runs[r].lease) \/ Owned(t)
        /\ EndRun(r)
  /\ UNCHANGED <<core, queue, cancel, timers, fired, rec, boot, minted, spent, waiter>>

\* control.setChildSessionId under the current lease.
RunChild(r) ==
  LET t == runs[r].id IN
  /\ runs[r].pc = "executing" /\ Free
  /\ Settleable(t, runs[r].lease) /\ ~tasks[t].child
  /\ BeginSave("child", t, [tasks[t] EXCEPT !.child = TRUE], "run", r)
  /\ UNCHANGED <<queue, exec, cancel, timers, fired, rec, boot, minted, spent, waiter>>

ChildSaved ==
  /\ Commit("child")
  /\ lock' = Unlocked
  /\ UNCHANGED <<queue, exec, cancel, timers, fired, rec, boot, minted, spent, waiter>>

\* control.markAccepted: provider acceptance under the current lease.
RunAccept(r) ==
  LET t == runs[r].id IN
  /\ runs[r].pc = "executing" /\ Free
  /\ tasks[t].status = "starting" /\ tasks[t].lease = runs[r].lease
  /\ BeginSave("accept", t, [tasks[t] EXCEPT !.status = "running"], "run", r)
  /\ UNCHANGED <<queue, exec, cancel, timers, fired, rec, boot, minted, spent, waiter>>

AcceptSaved ==
  /\ Commit("accept")
  /\ lock' = Unlocked
  /\ timers' = [timers EXCEPT !.start[lock.id] = 0]
  /\ rec' = IF lock.by # "recover" THEN rec
            ELSE [rec EXCEPT ![lock.id].pc = IF rec[lock.id].res = "none" THEN "observe" ELSE "finish"]
  /\ UNCHANGED <<queue, exec, cancel, fired, boot, minted, spent, waiter>>

\* control.recordProgress: observed progress renews the deadline of a running
\* task, unless a cancellation has been called.
RunProgress(r) ==
  LET t == runs[r].id IN
  /\ runs[r].pc = "executing" /\ Free
  /\ tasks[t].status = "running" /\ tasks[t].lease = runs[r].lease
  /\ tasks[t].due \in 1..(MaxDue - 1) /\ ~Cancelling(t)
  /\ BeginSave("renew", t, [tasks[t] EXCEPT !.due = @ + 1], "run", r)
  /\ UNCHANGED <<queue, exec, cancel, timers, fired, rec, boot, minted, spent, waiter>>

RenewSaved ==
  /\ Commit("renew")
  /\ lock' = Unlocked
  /\ timers' = [timers EXCEPT !.deadline[lock.id] = tasks[lock.id].due]
  /\ UNCHANGED <<queue, exec, cancel, fired, rec, boot, minted, spent, waiter>>

\* The executor answers or throws.  A throw is settled by the catch block,
\* and so is a failure to settle an answer, once.
ThrowStatus(kind) == IF kind = "launch" THEN "failed" ELSE "interrupted"

RunReturn(r) ==
  /\ runs[r].pc = "executing"
  /\ lock.by = "run" => lock.run # r
  /\ \/ \E res \in {"completed", "failed"} :
          runs' = [runs EXCEPT ![r].pc = "settling", ![r].res = res]
     \/ runs' = [runs EXCEPT ![r].pc = "settling", ![r].res = ThrowStatus(runs[r].kind),
                             ![r].last = TRUE]
  /\ UNCHANGED <<core, queue, active, cancel, timers, fired, rec, boot, minted, spent, waiter>>

\* finishTask for an executor answer: deferred while a cancellation owns the
\* settlement, committed otherwise, ignored when stale.  A commit the graph
\* refuses throws, and so does the catch block's.
RunSettle(r) ==
  LET t == runs[r].id
      l == runs[r].lease
      deferred == Settleable(t, l) /\ Defers(t, l)
  IN
  /\ runs[r].pc = "settling" /\ Free
  /\ \/ /\ deferred
        /\ cancel' = [cancel EXCEPT ![t].deferred = IF @ = "none" THEN runs[r].res ELSE @]
        /\ EndRun(r)
        /\ UNCHANGED core
     \/ /\ ~deferred /\ Settles(t, l)
        /\ BeginSave("settle", t, Settled(t, runs[r].res), "run", r)
        /\ runs' = [runs EXCEPT ![r].pc = "saving"]
        /\ UNCHANGED <<active, cancel>>
     \/ /\ ~deferred /\ ~Settles(t, l)
        /\ EndRun(r)
        /\ UNCHANGED <<core, cancel>>
  /\ UNCHANGED <<queue, timers, fired, rec, boot, minted, spent, waiter>>

-----------------------------------------------------------------------------
(* Settlement *)

\* A terminal commit is durable: timers go, waiters wake, the caller moves
\* on, and the pump is called unless the scheduler is still recovering.
SettleSaved ==
  LET t == lock.id IN
  /\ Commit("settle")
  /\ lock' = Unlocked
  /\ timers' = TimersCleared(t)
  /\ NotifyWaiters(t)
  /\ pumpDue' = IF boot.phase = "recovering" THEN pumpDue ELSE pumpDue \cup {"other"}
  /\ IF lock.by = "run" THEN EndRun(lock.run) ELSE UNCHANGED exec
  /\ cancel' = CASE lock.by = "owner"  -> [cancel EXCEPT ![t].committed = TRUE, ![t].pc = "release"]
                 [] lock.by = "replay" -> [cancel EXCEPT ![t] = NoCancel]
                 [] OTHER              -> cancel
  /\ rec' = IF lock.by = "recover" THEN [rec EXCEPT ![t] = NoRec] ELSE rec
  /\ UNCHANGED <<pump, fired, boot, minted, spent>>

WithdrawSaved ==
  /\ Commit("withdraw")
  /\ lock' = Unlocked
  /\ timers' = TimersCleared(lock.id)
  /\ NotifyWaiters(lock.id)
  /\ cancel' = [cancel EXCEPT ![lock.id].pc = "release"]
  /\ UNCHANGED <<queue, exec, fired, rec, boot, minted, spent>>

-----------------------------------------------------------------------------
(* Cancellation *)

\* cancelSingleTask or cancelTaskForAgentHandoff is called.  A call for a
\* task whose cancellation is in flight joins that one.
CancelCall(t, kind) ==
  /\ Up /\ Known(t) /\ ~Cancelling(t) /\ spent.call < MaxCall
  /\ cancel' = [cancel EXCEPT ![t] = [NoCancel EXCEPT !.pc = "claim", !.kind = kind,
                                                      !.term = "aborted"]]
  /\ spent' = [spent EXCEPT !.call = @ + 1]
  /\ UNCHANGED <<core, queue, exec, timers, fired, rec, boot, minted, waiter>>

\* The deadline timer fires.
DeadlineFires(t) ==
  /\ Alive /\ timers.deadline[t] # 0 /\ fired[t] = 0
  /\ fired' = [fired EXCEPT ![t] = timers.deadline[t]]
  /\ timers' = [timers EXCEPT !.deadline[t] = 0]
  /\ UNCHANGED <<core, queue, exec, cancel, rec, boot, minted, spent, waiter>>

\* handleTaskTimeout reads the task under the lock and then calls
\* cancelSingleTask, whose terminal status it has chosen from that read.
DeadlineRead(t) ==
  /\ fired[t] # 0 /\ Free
  /\ fired' = [fired EXCEPT ![t] = 0]
  /\ cancel' = IF ~Open(t) \/ tasks[t].due # fired[t] \/ Cancelling(t)
               THEN cancel
               ELSE [cancel EXCEPT ![t] =
                      [NoCancel EXCEPT !.pc = "claim", !.kind = "timeout", !.due = fired[t],
                         !.term = IF tasks[t].status = "queued" THEN "aborted" ELSE "failed"]]
  /\ UNCHANGED <<core, queue, exec, timers, rec, boot, minted, spent, waiter>>

\* A handoff also claims an interrupted task whose promise is still
\* registered; there is nothing left to settle for it.
HandoffRemains(t) ==
  cancel[t].kind = "handoff" /\ tasks[t].status = "interrupted" /\ Registered(t)

\* The first locked section, once the scheduler is initialised: a live task
\* gets a settlement owner.
Claim(t) ==
  LET owner == [cancel[t] EXCEPT !.lease = tasks[t].lease, !.child = tasks[t].child]
  IN
  /\ Up /\ cancel[t].pc = "claim" /\ Free
  /\ cancel' = [cancel EXCEPT ![t] =
       CASE Open(t) /\ SameDeadline(t) ->
              [owner EXCEPT !.pc = IF tasks[t].status = "queued" THEN "withdraw" ELSE "aborting"]
         [] HandoffRemains(t) -> [owner EXCEPT !.pc = "aborting", !.term = "none"]
         [] OTHER -> NoCancel]
  /\ UNCHANGED <<core, queue, exec, timers, fired, rec, boot, minted, spent, waiter>>

\* A queued task is aborted without the executor.
Withdraw(t) ==
  /\ cancel[t].pc = "withdraw" /\ Free
  /\ IF tasks[t].status = "queued" /\ tasks[t].lease = cancel[t].lease
     THEN /\ BeginSave("withdraw", t,
               [tasks[t] EXCEPT !.status = "aborted", !.result = "aborted", !.held = FALSE],
               "owner", NoRun)
          /\ UNCHANGED cancel
     ELSE /\ cancel' = [cancel EXCEPT ![t].pc = "release"]
          /\ UNCHANGED core
  /\ UNCHANGED <<queue, exec, timers, fired, rec, boot, minted, spent, waiter>>

\* An unconfirmed abort rejects a handoff, which settles nothing.
HandoffRefused(t, confirmed) == cancel[t].kind = "handoff" /\ ~confirmed

\* The executor's abort answers, or its bound expires.  Without a child
\* session nothing can be confirmed.
AbortOutcome(t, confirmed) ==
  /\ cancel[t].pc = "aborting"
  /\ confirmed => cancel[t].child
  /\ cancel' = [cancel EXCEPT
       ![t].pc = IF cancel[t].term = "none" \/ HandoffRefused(t, confirmed)
                 THEN "release" ELSE "settle",
       ![t].term = IF confirmed THEN cancel[t].term ELSE "interrupted"]
  /\ UNCHANGED <<core, queue, exec, timers, fired, rec, boot, minted, spent, waiter>>

\* finishTask with the owner.
CancelSettle(t) ==
  /\ cancel[t].pc = "settle" /\ Free
  /\ IF Settles(t, cancel[t].lease)
     THEN /\ BeginSave("settle", t, Settled(t, cancel[t].term), "owner", NoRun)
          /\ UNCHANGED cancel
     ELSE /\ cancel' = [cancel EXCEPT ![t].pc = "release"]
          /\ UNCHANGED core
  /\ UNCHANGED <<queue, exec, timers, fired, rec, boot, minted, spent, waiter>>

\* releaseCancellationOwner: an uncommitted cancellation replays the deferred
\* answer, or returns a queued task to the pump.
Release(t) ==
  /\ cancel[t].pc = "release" /\ Free
  /\ cancel' = [cancel EXCEPT ![t] = IF Replays(t) THEN [@ EXCEPT !.pc = "replay"] ELSE NoCancel]
  /\ pumpDue' = IF ~Replays(t) /\ tasks[t].status = "queued" THEN pumpDue \cup {"other"} ELSE pumpDue
  /\ UNCHANGED <<core, pump, exec, timers, fired, rec, boot, minted, spent, waiter>>

Replay(t) ==
  /\ cancel[t].pc = "replay" /\ Free
  /\ IF Settles(t, cancel[t].lease)
     THEN /\ BeginSave("settle", t, Settled(t, cancel[t].deferred), "replay", NoRun)
          /\ UNCHANGED cancel
     ELSE /\ cancel' = [cancel EXCEPT ![t] = NoCancel]
          /\ UNCHANGED core
  /\ UNCHANGED <<queue, exec, timers, fired, rec, boot, minted, spent, waiter>>

-----------------------------------------------------------------------------
(* Reconciliation *)

\* recoverTask is called with a snapshot of the task.
Recovering(snapshot, booting) ==
  [NoRec EXCEPT !.pc = "reconciling", !.lease = snapshot.lease, !.was = snapshot.status,
                !.child = snapshot.child, !.booting = booting]

\* handleStartingLease: acceptance took longer than the lease allows.  The
\* launch loses its registration and reconciliation takes over.  A pump walk
\* yields to a timer only in a save or while it verifies prerequisites.
StartLeaseFires(t) ==
  /\ Alive /\ timers.start[t] # 0 /\ rec[t].pc = "none"
  /\ lock.op = "pump" => \E u \in Gated : IsNext(u)
  /\ timers' = [timers EXCEPT !.start[t] = 0]
  /\ IF tasks[t].status = "starting" /\ tasks[t].lease = timers.start[t]
     THEN /\ active' = [active EXCEPT ![t] = NoRun]
          /\ runs' = [r \in Run |-> IF runs[r].id = t THEN [runs[r] EXCEPT !.stale = TRUE] ELSE runs[r]]
          /\ rec' = [rec EXCEPT ![t] = Recovering(tasks[t], FALSE)]
     ELSE UNCHANGED <<exec, rec>>
  /\ UNCHANGED <<core, queue, cancel, fired, boot, minted, spent, waiter>>

\* The reconciliation retry timer fires.
RetryFires(t) ==
  /\ Alive /\ timers.retry[t] # 0 /\ rec[t].pc = "none"
  /\ timers' = [timers EXCEPT !.retry[t] = 0]
  /\ rec' = IF Active(t) /\ tasks[t].lease = timers.retry[t]
            THEN [rec EXCEPT ![t] = Recovering(tasks[t], FALSE)] ELSE rec
  /\ UNCHANGED <<core, queue, exec, cancel, fired, boot, minted, spent, waiter>>

\* executor.reconcile answers.  Without a child session it cannot prove
\* anything; otherwise the child is done, lost, live or not readable now.
ReconcileTerminal(t) ==
  /\ rec[t].pc = "reconciling"
  /\ \E res \in IF rec[t].child THEN {"completed", "failed", "interrupted"} ELSE {"interrupted"} :
       rec' = [rec EXCEPT ![t].res = res,
                 ![t].pc = IF rec[t].was = "starting" /\ res = "completed" THEN "accept" ELSE "finish"]
  /\ UNCHANGED <<core, queue, exec, cancel, timers, fired, boot, minted, spent, waiter>>

ReconcileLive(t) ==
  /\ rec[t].pc = "reconciling" /\ rec[t].child
  /\ rec' = [rec EXCEPT ![t].pc = IF rec[t].was = "starting" THEN "accept" ELSE "observe"]
  /\ UNCHANGED <<core, queue, exec, cancel, timers, fired, boot, minted, spent, waiter>>

ReconcileRelaunch(t) ==
  /\ rec[t].pc = "reconciling" /\ rec[t].child
  /\ rec' = [rec EXCEPT ![t] = NoRec]
  /\ IF Open(t) THEN StartRuns({t}, "launch") ELSE UNCHANGED exec
  /\ UNCHANGED <<core, queue, cancel, timers, fired, boot, minted, spent, waiter>>

ReconcileTransient(t) ==
  /\ rec[t].pc = "reconciling" /\ rec[t].child
  /\ rec' = [rec EXCEPT ![t] = NoRec]
  /\ timers' = IF Active(t) /\ tasks[t].lease = rec[t].lease /\ timers.retry[t] = 0
               THEN [timers EXCEPT !.retry[t] = tasks[t].lease] ELSE timers
  /\ UNCHANGED <<core, queue, exec, cancel, fired, boot, minted, spent, waiter>>

\* markAccepted on behalf of the reconciliation.
RecAccept(t) ==
  /\ rec[t].pc = "accept" /\ Free
  /\ IF tasks[t].status = "starting" /\ tasks[t].lease = rec[t].lease
     THEN /\ BeginSave("accept", t, [tasks[t] EXCEPT !.status = "running"], "recover", NoRun)
          /\ UNCHANGED rec
     ELSE /\ rec' = [rec EXCEPT ![t].pc = IF rec[t].res = "none" THEN "observe" ELSE "finish"]
          /\ UNCHANGED core
  /\ UNCHANGED <<queue, exec, cancel, timers, fired, boot, minted, spent, waiter>>

\* The live child gets an observer.
RecObserve(t) ==
  /\ rec[t].pc = "observe"
  /\ rec' = [rec EXCEPT ![t] = NoRec]
  /\ IF Open(t) THEN StartRuns({t}, "observe") ELSE UNCHANGED exec
  /\ UNCHANGED <<core, queue, cancel, timers, fired, boot, minted, spent, waiter>>

\* finishTask for a reconciled outcome.
RecFinish(t) ==
  /\ rec[t].pc = "finish" /\ Free
  /\ IF Settles(t, rec[t].lease) /\ ~Defers(t, rec[t].lease)
     THEN /\ BeginSave("settle", t, Settled(t, rec[t].res), "recover", NoRun)
          /\ UNCHANGED <<rec, cancel>>
     ELSE /\ rec' = [rec EXCEPT ![t] = NoRec]
          /\ cancel' = IF Settleable(t, rec[t].lease) /\ Defers(t, rec[t].lease) /\ cancel[t].deferred = "none"
                       THEN [cancel EXCEPT ![t].deferred = rec[t].res] ELSE cancel
          /\ UNCHANGED core
  /\ UNCHANGED <<queue, exec, timers, fired, boot, minted, spent, waiter>>

-----------------------------------------------------------------------------
(* Restart *)

Restarted ==
  /\ lock' = Unlocked /\ pump' = IdlePump /\ pumpDue' = {}
  /\ runs' = [r \in Run |-> IdleRun] /\ active' = [t \in Task |-> NoRun]
  /\ cancel' = [t \in Task |-> NoCancel] /\ timers' = NoTimers
  /\ fired' = [t \in Task |-> 0] /\ rec' = [t \in Task |-> NoRec]
  /\ waiter' = [waiter EXCEPT !.waiting = {}]

\* The process dies; a pending save may or may not have replaced the file.
Crash ==
  /\ boot.phase # "down" /\ spent.crash < MaxCrash
  /\ spent' = [spent EXCEPT !.crash = @ + 1]
  /\ boot' = AtPhase("down")
  /\ disk' \in {disk, tasks}
  /\ tasks' = [t \in Task |-> AbsentTask]
  /\ Restarted
  /\ UNCHANGED minted

\* initialize loads the file.
Load ==
  /\ boot.phase = "down"
  /\ tasks' = disk
  /\ boot' = AtPhase("loaded")
  /\ UNCHANGED <<disk, lock, queue, exec, cancel, timers, fired, rec, minted, spent, waiter>>

\* It then rewrites the file in a locked section, lists the active tasks in
\* the turn that ends it, and reconciles those records one by one, in queue
\* order.  A call after a failed initialisation starts over from here.
BeginRecovery ==
  /\ boot.phase = "loaded" /\ Free
  /\ boot' = [phase |-> "recovering", list |-> [t \in Task |-> IF Active(t) THEN tasks[t] ELSE AbsentTask]]
  /\ UNCHANGED <<core, queue, exec, cancel, timers, fired, rec, minted, spent, waiter>>

BootIdle == \A t \in Task : ~rec[t].booting
Listed(t) == boot.list[t].status # Absent

RecoverNext(t) ==
  /\ boot.phase = "recovering" /\ BootIdle /\ rec[t].pc = "none"
  /\ Listed(t) /\ \A u \in Task : Listed(u) => boot.list[t].seq <= boot.list[u].seq
  /\ boot' = [boot EXCEPT !.list[t] = AbsentTask]
  /\ rec' = [rec EXCEPT ![t] = Recovering(boot.list[t], TRUE)]
  /\ UNCHANGED <<core, queue, exec, cancel, timers, fired, minted, spent, waiter>>

\* Recovery is over: deadlines and starting leases are armed, the queue pumps.
Activate ==
  /\ boot.phase = "recovering" /\ BootIdle /\ \A t \in Task : ~Listed(t)
  /\ boot' = [boot EXCEPT !.phase = "up"]
  /\ timers' = [timers EXCEPT
       !.deadline = Deadlines,
       !.start = [t \in Task |-> IF tasks[t].status = "starting" THEN tasks[t].lease ELSE 0]]
  /\ pumpDue' = pumpDue \cup {"other"}
  /\ UNCHANGED <<core, pump, exec, cancel, fired, rec, minted, spent, waiter>>

-----------------------------------------------------------------------------
(* Failed saves *)

\* Fault: the record is not rolled back.
NotRolledBack == tasks
\* What the live map holds once the locked section has undone its change.
RolledBack == [tasks EXCEPT ![lock.id] = lock.prev]

\* The locked section rolls its record back and rejects.  A save that fails
\* after the rename (permissions, directory sync, ownership check) leaves the
\* new file behind.
SaveFails ==
  /\ Saving /\ spent.save < MaxSaveError
  /\ spent' = [spent EXCEPT !.save = @ + 1]
  /\ tasks' = RolledBack
  /\ lock' = Unlocked
  /\ disk' \in IF LateSaveError THEN {disk, tasks} ELSE {disk}
  /\ UNCHANGED minted

\* A refused submission and a refused checkpoint only reject their caller.
CallSaveFailed ==
  /\ lock.op \in {"submit", "child", "renew"} \/ (lock.op = "accept" /\ lock.by = "run")
  /\ UNCHANGED <<queue, exec, cancel, timers, fired, rec, boot, waiter>>

\* launchTask and observeRecoveredTask settle once more from their catch block.
RunSaveFailed ==
  LET r == lock.run IN
  /\ lock.op = "settle" /\ lock.by = "run"
  /\ IF runs[r].last
     THEN EndRun(r)
     ELSE /\ runs' = [runs EXCEPT ![r].pc = "settling", ![r].last = TRUE,
                                  ![r].res = ThrowStatus(runs[r].kind)]
          /\ UNCHANGED active
  /\ UNCHANGED <<queue, cancel, timers, fired, rec, boot, waiter>>

\* A cancellation releases its ownership.
CancelSaveFailed ==
  /\ lock.op \in {"settle", "withdraw"} /\ lock.by \in {"owner", "replay"}
  /\ cancel' = [cancel EXCEPT ![lock.id] =
                  IF lock.by = "replay" THEN NoCancel ELSE [@ EXCEPT !.pc = "release"]]
  /\ UNCHANGED <<queue, exec, timers, fired, rec, boot, waiter>>

\* A failed reconciliation is logged, or fails the initialisation it is part
\* of and the cancellations that wait for it.
RecSaveFailed ==
  /\ lock.op \in {"accept", "settle"} /\ lock.by = "recover"
  /\ rec' = [rec EXCEPT ![lock.id] = NoRec]
  /\ IF rec[lock.id].booting
     THEN /\ boot' = AtPhase("loaded")
          /\ cancel' = [t \in Task |-> IF cancel[t].pc = "claim" THEN NoCancel ELSE cancel[t]]
     ELSE UNCHANGED <<boot, cancel>>
  /\ UNCHANGED <<queue, exec, timers, fired, waiter>>

SaveError ==
  /\ SaveFails
  /\ PumpSaveFailed \/ CallSaveFailed \/ RunSaveFailed \/ CancelSaveFailed \/ RecSaveFailed

-----------------------------------------------------------------------------
(* Waiting for a task *)

\* Fault: a waiter registers without looking.
NeverOver(t) == FALSE
WaitOver(t) == Ended(t)

\* waitForTask answers from the live map when the task has ended there, and
\* registers a waiter otherwise.
WaitForTask(t) ==
  /\ Up /\ t \in Waited /\ Known(t) /\ t \notin waiter.waiting
  /\ waiter.fast[t] = "none" /\ waiter.notified[t] = "none"
  /\ waiter' = IF WaitOver(t) THEN [waiter EXCEPT !.fast[t] = tasks[t].status]
                              ELSE [waiter EXCEPT !.waiting = @ \cup {t}]
  /\ UNCHANGED <<core, queue, exec, cancel, timers, fired, rec, boot, minted, spent>>

-----------------------------------------------------------------------------
Init ==
  /\ disk = [t \in Task |-> AbsentTask]
  /\ tasks = disk
  /\ lock = Unlocked /\ pump = IdlePump /\ pumpDue = {}
  /\ runs = [r \in Run |-> IdleRun] /\ active = [t \in Task |-> NoRun]
  /\ cancel = [t \in Task |-> NoCancel] /\ timers = NoTimers /\ fired = [t \in Task |-> 0]
  /\ rec = [t \in Task |-> NoRec]
  /\ boot = AtPhase("down")
  /\ minted = 0
  /\ spent = [crash |-> 0, save |-> 0, call |-> 0]
  /\ waiter = [waiting |-> {}, fast |-> [t \in Task |-> "none"], notified |-> [t \in Task |-> "none"]]

Saved == \/ SubmitSaved \/ HoldSaved \/ StartSaved \/ ChildSaved \/ AcceptSaved
         \/ RenewSaved \/ SettleSaved \/ WithdrawSaved

RunNext(r) == \/ RunCheck(r) \/ RunChild(r) \/ RunAccept(r) \/ RunProgress(r)
              \/ RunReturn(r) \/ RunSettle(r)

CancelNext(t) == \/ \E k \in {"manual", "handoff"} : CancelCall(t, k)
                 \/ DeadlineFires(t) \/ DeadlineRead(t) \/ Claim(t) \/ Withdraw(t)
                 \/ \E ok \in BOOLEAN : AbortOutcome(t, ok)
                 \/ CancelSettle(t) \/ Release(t) \/ Replay(t)

RecNext(t) == \/ StartLeaseFires(t) \/ RetryFires(t) \/ ReconcileTerminal(t)
              \/ ReconcileLive(t) \/ ReconcileRelaunch(t) \/ ReconcileTransient(t)
              \/ RecAccept(t) \/ RecObserve(t) \/ RecFinish(t) \/ RecoverNext(t)

PumpNext == \/ \E c \in pumpDue : PumpBegin(c)
            \/ \E t \in Task : PumpHold(t) \/ PumpStart(t)
            \/ PumpEnd \/ AdmissionRetry

Next == \/ \E t \in Task : (\E followUp \in BOOLEAN : Submit(t, followUp)) \/ Resubmit(t) \/ CancelNext(t) \/ RecNext(t) \/ WaitForTask(t)
        \/ \E r \in Run : RunNext(r)
        \/ PumpNext \/ Saved \/ SaveError
        \/ Crash \/ Load \/ BeginRecovery \/ Activate

Spec == Init /\ [][Next]_vars

-----------------------------------------------------------------------------
(* Fairness: the file system answers a save, aborts and reconciliation     *)
(* reads answer or time out, timers fire, the start-up proceeds, and a     *)
(* section queued on the mutex gets its turn, since the promise chain is   *)
(* first in, first out.  Callers, executors and faults owe nothing.        *)

PumpTurn == \E c \in pumpDue : PumpBegin(c)
PumpWalk == PumpEnd \/ \E t \in Task : PumpHold(t) \/ PumpStart(t)

\* The promise of a cancellation, and the one of a reconciliation.
CancelStep(t) == \/ DeadlineRead(t) \/ Claim(t) \/ Withdraw(t) \/ CancelSettle(t)
                 \/ (\E ok \in BOOLEAN : AbortOutcome(t, ok)) \/ Release(t) \/ Replay(t)
RecStep(t) == \/ ReconcileTerminal(t) \/ ReconcileLive(t) \/ ReconcileRelaunch(t)
              \/ ReconcileTransient(t) \/ RecAccept(t) \/ RecObserve(t) \/ RecFinish(t)

Fairness ==
  /\ WF_vars(Saved) /\ WF_vars(PumpWalk) /\ WF_vars(PumpTurn)
  /\ WF_vars(Load) /\ WF_vars(BeginRecovery) /\ WF_vars(Activate)
  /\ \A t \in Task : /\ WF_vars(DeadlineFires(t)) /\ WF_vars(CancelStep(t))
                     /\ WF_vars(RecStep(t)) /\ SF_vars(RecoverNext(t))
  /\ \A r \in Run : WF_vars(RunSettle(r))

FairSpec == Spec /\ Fairness

-----------------------------------------------------------------------------
(* Properties *)

RunRec == [pc : {"idle", "checking", "executing", "settling", "saving"}, id : Task \cup {NoTask},
           lease : Nat, kind : {"launch", "observe"}, res : Results, last : BOOLEAN, stale : BOOLEAN]

CancelRec == [pc : {"none", "claim", "withdraw", "aborting", "settle", "release", "replay"},
              kind : {"manual", "handoff", "timeout"}, due : Nat, term : Results, lease : Nat,
              child : BOOLEAN, deferred : Results, committed : BOOLEAN]

RecRec == [pc : {"none", "reconciling", "accept", "finish", "observe"}, lease : Nat,
           was : TaskStatuses, child : BOOLEAN, res : Results, booting : BOOLEAN]

LockRec == [op : SaveOps \cup {"free", "pump"}, id : Task \cup {NoTask}, prev : TaskRec,
            by : {"host", "run", "owner", "replay", "recover"}, run : Run \cup {NoRun}]

PumpRec == [todo : SUBSET Task, admitted : SUBSET Task, held : BOOLEAN, by : {"submit", "other"}]

TimerRec == [deadline : [Task -> Nat], start : [Task -> Nat], retry : [Task -> Nat],
             admission : BOOLEAN]

BootRec == [phase : {"down", "loaded", "recovering", "up"}, list : [Task -> TaskRec]]

SpentRec == [crash : Nat, save : Nat, call : Nat]

WaiterRec == [waiting : SUBSET Task, fast : [Task -> Results], notified : [Task -> Results]]

\* Every variable has its type; a save names its task and a promise in flight
\* the task it runs.
TypeOK ==
  /\ disk \in [Task -> TaskRec] /\ tasks \in [Task -> TaskRec]
  /\ lock \in LockRec /\ (Saving => lock.id \in Task)
  /\ pump \in PumpRec /\ pumpDue \subseteq {"submit", "other"}
  /\ runs \in [Run -> RunRec] /\ \A r \in Run : runs[r].pc # "idle" => runs[r].id \in Task
  /\ active \in [Task -> Run \cup {NoRun}]
  /\ cancel \in [Task -> CancelRec]
  /\ timers \in TimerRec /\ fired \in [Task -> Nat]
  /\ rec \in [Task -> RecRec]
  /\ boot \in BootRec /\ minted \in Nat /\ spent \in SpentRec
  /\ waiter \in WaiterRec

\* Between two locked sections the live map is what the file holds, and while
\* a save is pending they differ by that section's record alone: no failed
\* save, retry or restart makes the scheduler act on a record it never wrote
\* (commitTaskUpdateLocked and its rollback).
LedgerAgrees ==
  boot.phase # "down" =>
    disk = IF Saving THEN [tasks EXCEPT ![lock.id] = lock.prev] ELSE tasks

\* The file moves along the status graph, one task and one committed status at
\* a time, across crashes, failed saves and races (assertManagedTaskTransition).
Lifecycle == INSTANCE TaskLifecycle WITH status <- [t \in Task |-> disk[t].status]
ImplementsLifecycle == Lifecycle!Spec

\* No executor runs for an admission the file does not hold: a crash right
\* after the launch finds the starting lease to reconcile (pump, launchTask).
ExecutionIsDurable ==
  \A r \in Run : runs[r].pc # "idle" =>
     disk[runs[r].id].lease = runs[r].lease /\ disk[runs[r].id].status \notin {Absent, "queued"}

\* One task never has two executor calls in flight, unless the starting lease
\* displaced one of them (activeLaunches).
OneLiveExecution ==
  \A q, r \in Run : q # r /\ runs[q].pc # "idle" /\ runs[q].id = runs[r].id =>
     runs[q].stale \/ runs[r].stale

\* An executor is only called for a task that is active in the file, under
\* its current lease: never for one whose outcome is already recorded, however
\* late the pump, a reconciliation or a retry gets to it.
StartsUnderLiveLease ==
  [][\A r \in Run : runs[r].pc = "idle" /\ runs'[r].pc # "idle" =>
       LET d == disk'[runs'[r].id] IN d.status \in ActiveStatus /\ d.lease = runs'[r].lease]_vars

\* While a cancellation owns a task's settlement, nobody else records its
\* outcome (cancellationOwners).
OwnerSettles ==
  [][\A t \in Task : Owned(t) /\ ~Ended(t) /\ Ended(t)' =>
       lock'.op = "withdraw" \/ (lock'.op = "settle" /\ lock'.by = "owner")]_vars

\* A deadline that settles a task is the deadline the task has: it was not
\* renewed between the timer and the settlement (handleTaskTimeout).
DeadlineIsCurrent ==
  \A t \in Task : Owned(t) /\ cancel[t].kind = "timeout" => cancel[t].due = tasks[t].due

\* A recorded outcome is never written again, whatever answers arrive later
\* ("Terminal tasks are immutable").
OutcomeIsFinal ==
  [][\A t \in Task : IsTerminal(disk[t].status) => disk'[t] = disk[t]]_disk

\* Admission is first come, first served: a queued task is only overtaken
\* while a cancellation owns it or its prerequisites hold it back (pump).
StartsInOrder ==
  [][\A t, u \in Task :
       tasks[t].status = "queued" /\ tasks'[t].status = "starting"
       /\ tasks[u].status = "queued" /\ tasks[u].seq < tasks[t].seq
       => Owned(u) \/ u \in Gated]_vars

\* Somebody is still responsible for task t.
Pending(t) ==
  \/ \E r \in Run : runs[r].pc # "idle" /\ runs[r].id = t
  \/ cancel[t].pc # "none" \/ fired[t] # 0 \/ rec[t].pc # "none"
  \/ timers.deadline[t] # 0 \/ timers.start[t] # 0 \/ timers.retry[t] # 0

\* No unfinished task is forgotten: an active one has an executor call, a
\* cancellation, a reconciliation or a timer that will get back to it, and a
\* queued one has a pump call or the admission retry ahead of it.
NoneStranded ==
  Up /\ Free => \A t \in Task :
    /\ Active(t) => Pending(t)
    /\ tasks[t].status = "queued" => Pending(t) \/ pumpDue # {} \/ timers.admission

\* A waiter is not left behind by a settlement that is already in the file
\* (waitForTask registers in the same turn as its terminal check).
NoLostWakeup ==
  \A t \in waiter.waiting : ~(IsTerminal(disk[t].status) /\ ~Saving)

\* A waiter is told the outcome the file keeps, also after a crash
\* (notifyTaskWaiters runs after the save).
NotifiedOutcomeIsDurable ==
  \A t \in Task : waiter.notified[t] # "none" => disk[t].status = waiter.notified[t]

\* A task with a deadline ends, whatever its executor does and whenever the
\* process restarts (scheduleTaskDeadline, initialize).
TimedSettles ==
  \A t \in Timed : disk[t].status # Absent ~> IsTerminal(disk[t].status)

\* An executor answer given under the live lease settles its task, also when a
\* cancellation holds it back and then fails (cancellationOwners.deferred).
AnswerSettles ==
  \A t \in Task :
    (\E r \in Run : runs[r].pc = "settling" /\ runs[r].id = t /\ ~runs[r].stale)
      ~> IsTerminal(disk[t].status)

-----------------------------------------------------------------------------
(* What the documentation says and the code does not do *)

\* "Waiters remain withheld until durable task and envelope publication
\* succeeds": what waitForTask returned is what the file ends up with.
ReturnedOutcomeIsDurable ==
  \A t \in Task : waiter.fast[t] # "none" /\ ~Saving => disk[t].status = waiter.fast[t]
=============================================================================
