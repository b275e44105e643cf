----------------------- MODULE ManagedSchedulerPromises ---------------------
(***************************************************************************)
(* What the scheduler promises between its locked sections, for any set of *)
(* tasks, any number of executor calls and any bounds: the owner of a      *)
(* settlement and the deadline it was called for, first come first served, *)
(* one executor call that counts, for an admission in the file, and        *)
(* somebody who comes back to every task that has not ended.               *)
(*                                                                         *)
(* The steps are first put into a few kinds (OwnerMoves), by what they do  *)
(* to the live map, the lock, the walk of the pump and the owners; the     *)
(* invariant is then kept kind by kind.                                    *)
(***************************************************************************)
EXTENDS ManagedSchedulerProofs

-----------------------------------------------------------------------------
(* What a step does to the settlement owners *)

\* A step that claims nothing makes no owner, leaves every owner what it has
\* claimed, takes none away while the pump walks and moves none whose save is
\* pending.
OwnersKeep ==
  \A t \in Task :
    /\ Owned(t)' => /\ Owned(t) /\ cancel'[t].lease = cancel[t].lease
                    /\ cancel'[t].kind = cancel[t].kind /\ cancel'[t].due = cancel[t].due
    /\ PumpWalking /\ Owned(t) => Owned(t)'
    /\ lock.op # "free" /\ lock' = lock /\ cancel[t].pc \in {"withdraw", "settle"} =>
         cancel'[t].pc = cancel[t].pc

\* Every step but a claim and a crash is of that kind.
LEMMA OwnersKept ==
  ASSUME IInv, OInv, Next
  PROVE  OwnersKeep \/ Crash \/ \E t \in Task : Claim(t)
<1> USE DEF Owned
<1>0. TypeOK
  BY DEF IInv
<1>1. ASSUME cancel' = cancel
      PROVE  OwnersKeep
  BY <1>1 DEF OwnersKeep
<1>2. ASSUME NEW t \in Task, NEW new, cancel' = [cancel EXCEPT ![t] = new],
             ~Owned(t), new.pc \in {"none", "claim", "replay"}
      PROVE  OwnersKeep
  BY <1>0, <1>2 DEF OwnersKeep, TypeOK
<1>3. ASSUME NEW t \in Task, NEW res, cancel' = [cancel EXCEPT ![t].deferred = res]
      PROVE  OwnersKeep
  BY <1>0, <1>3 DEF OwnersKeep, TypeOK, CancelRec
<1>4. ASSUME NEW t \in Task, NEW new, cancel' = [cancel EXCEPT ![t] = new], Owned(t),
             new.pc \in {"none", "replay"}, lock.op = "free" \/ (lock' # lock /\ ~PumpWalking)
      PROVE  OwnersKeep
  BY <1>0, <1>4 DEF OwnersKeep, TypeOK, PumpWalking
<1>5. ASSUME NEW t \in Task, NEW new \in CancelRec, cancel' = [cancel EXCEPT ![t] = new], Owned(t),
             new.pc \in {"settle", "release"}, lock.op = "free" \/ lock' # lock \/ cancel[t].pc = "aborting",
             new.lease = cancel[t].lease, new.kind = cancel[t].kind, new.due = cancel[t].due
      PROVE  OwnersKeep
  BY <1>0, <1>5 DEF OwnersKeep, TypeOK
<1>6. ASSUME NEW t \in Task
      PROVE  cancel[t] \in CancelRec
  BY <1>0 DEF TypeOK
<1>7. ASSUME NEW t \in Task
      PROVE  /\ [cancel[t] EXCEPT !.pc = "release"] \in CancelRec
             /\ [cancel[t] EXCEPT !.committed = TRUE, !.pc = "release"] \in CancelRec
  <2>1. cancel[t] \in CancelRec
    BY <1>6
  <2>2. [cancel[t] EXCEPT !.pc = "release"] \in CancelRec
    BY <2>1 DEF CancelRec
  <2>3. [cancel[t] EXCEPT !.committed = TRUE, !.pc = "release"] \in CancelRec
    BY <2>1 DEF CancelRec
  <2> QED BY <2>2, <2>3
<1>8. NoCancel \in CancelRec /\ NoCancel.pc = "none"
  BY ConstantsTyped DEF NoCancel
<1>9. ASSUME NEW t \in Task, CancelNext(t), ~Claim(t)
      PROVE  OwnersKeep
  <2>1. ASSUME NEW k, CancelCall(t, k)
        PROVE  OwnersKeep
    <3>1. PICK new : new = [NoCancel EXCEPT !.pc = "claim", !.kind = k, !.term = "aborted"]
      OBVIOUS
    <3>2. new.pc = "claim" /\ cancel' = [cancel EXCEPT ![t] = new] /\ ~Owned(t)
      BY <2>1, <3>1 DEF CancelCall, Cancelling, NoCancel
    <3> QED BY <1>2, <3>2
  <2>2. CASE DeadlineFires(t)
    BY <1>1, <2>2 DEF DeadlineFires
  <2>3. CASE DeadlineRead(t)
    <3>1. PICK new : new = [NoCancel EXCEPT !.pc = "claim", !.kind = "timeout", !.due = fired[t],
                              !.term = IF tasks[t].status = "queued" THEN "aborted" ELSE "failed"]
      OBVIOUS
    <3>2. new.pc = "claim"
      BY <3>1 DEF NoCancel
    <3>3. cancel' = cancel \/ (cancel' = [cancel EXCEPT ![t] = new] /\ ~Owned(t))
      BY <2>3, <3>1 DEF DeadlineRead, Cancelling
    <3>4. CASE cancel' = cancel
      BY <1>1, <3>4
    <3>5. CASE cancel' = [cancel EXCEPT ![t] = new] /\ ~Owned(t)
      BY <1>2, <3>2, <3>5
    <3> QED BY <3>3, <3>4, <3>5
  <2>4. CASE Withdraw(t)
    <3>1. CASE cancel' = [cancel EXCEPT ![t].pc = "release"]
      <4>1. cancel' = [cancel EXCEPT ![t] = [cancel[t] EXCEPT !.pc = "release"]]
        BY <3>1
      <4>2. Owned(t) /\ lock.op = "free"
        BY <2>4 DEF Withdraw, Free
      <4> QED BY <1>5, <1>6, <1>7, <4>1, <4>2 DEF CancelRec
    <3>2. cancel' = cancel \/ cancel' = [cancel EXCEPT ![t].pc = "release"]
      BY <2>4 DEF Withdraw
    <3> QED BY <1>1, <3>1, <3>2
  <2>5. ASSUME NEW ok \in BOOLEAN, AbortOutcome(t, ok)
        PROVE  OwnersKeep
    <3>1. PICK new : new = [cancel[t] EXCEPT
                              !.pc = IF cancel[t].term = "none" \/ HandoffRefused(t, ok)
                                     THEN "release" ELSE "settle",
                              !.term = IF ok THEN cancel[t].term ELSE "interrupted"]
      OBVIOUS
    <3>2. cancel' = [cancel EXCEPT ![t] = new] /\ cancel[t].pc = "aborting"
      BY <2>5, <3>1 DEF AbortOutcome
    <3>3. "interrupted" \in Results
      BY DEF Results, TerminalStatus
    <3>4. /\ new \in CancelRec /\ new.pc \in {"settle", "release"}
          /\ new.lease = cancel[t].lease /\ new.kind = cancel[t].kind /\ new.due = cancel[t].due
      BY <1>6, <3>1, <3>3 DEF CancelRec
    <3> QED BY <1>5, <3>2, <3>4
  <2>6. CASE CancelSettle(t)
    <3>1. CASE cancel' = [cancel EXCEPT ![t].pc = "release"]
      <4>1. cancel' = [cancel EXCEPT ![t] = [cancel[t] EXCEPT !.pc = "release"]]
        BY <3>1
      <4>2. Owned(t) /\ lock.op = "free"
        BY <2>6 DEF CancelSettle, Free
      <4> QED BY <1>5, <1>6, <1>7, <4>1, <4>2 DEF CancelRec
    <3>2. cancel' = cancel \/ cancel' = [cancel EXCEPT ![t].pc = "release"]
      BY <2>6 DEF CancelSettle
    <3> QED BY <1>1, <3>1, <3>2
  <2>7. CASE Release(t)
    <3>1. Owned(t) /\ lock.op = "free"
      BY <2>7 DEF Release, Free
    <3>2. CASE Replays(t)
      <4>1. PICK new : new = [cancel[t] EXCEPT !.pc = "replay"]
        OBVIOUS
      <4>2. new.pc = "replay" /\ cancel' = [cancel EXCEPT ![t] = new]
        BY <1>6, <2>7, <3>2, <4>1 DEF Release, CancelRec
      <4> QED BY <1>4, <3>1, <4>2
    <3>3. CASE ~Replays(t)
      <4>1. cancel' = [cancel EXCEPT ![t] = NoCancel]
        BY <2>7, <3>3 DEF Release
      <4> QED BY <1>4, <1>8, <3>1, <4>1
    <3> QED BY <3>2, <3>3
  <2>8. CASE Replay(t)
    <3>1. ~Owned(t)
      BY <2>8 DEF Replay
    <3>2. cancel' = cancel \/ cancel' = [cancel EXCEPT ![t] = NoCancel]
      BY <2>8 DEF Replay
    <3>3. CASE cancel' = [cancel EXCEPT ![t] = NoCancel]
      BY <1>2, <1>8, <3>1, <3>3
    <3> QED BY <1>1, <3>2, <3>3
  <2> QED BY <1>9, <2>1, <2>2, <2>3, <2>4, <2>5, <2>6, <2>7, <2>8 DEF CancelNext
<1>10. ASSUME NEW t \in Task, RecNext(t)
       PROVE  OwnersKeep
  <2>1. CASE RecFinish(t)
    BY <1>1, <1>3, <2>1 DEF RecFinish
  <2> QED BY <1>1, <1>10, <2>1 DEF RecNext, StartLeaseFires, RetryFires, ReconcileTerminal, ReconcileLive,
          ReconcileRelaunch, ReconcileTransient, RecAccept, RecObserve, RecoverNext
<1>11. ASSUME NEW r \in Run, RunNext(r)
       PROVE  OwnersKeep
  <2>1. CASE RunSettle(r)
    <3>1. CASE cancel' = cancel
      BY <1>1, <3>1
    <3>2. CASE cancel' # cancel
      <4>1. runs[r].id \in Task
        BY <1>0, <2>1 DEF RunSettle, TypeOK
      <4>2. PICK res : cancel' = [cancel EXCEPT ![runs[r].id].deferred = res]
        <5>1. cancel' = [cancel EXCEPT ![runs[r].id].deferred = IF cancel[runs[r].id].deferred = "none"
                                                                THEN runs[r].res
                                                                ELSE cancel[runs[r].id].deferred]
          BY <2>1, <3>2 DEF RunSettle
        <5> QED BY <5>1
      <4> QED BY <1>3, <4>1, <4>2
    <3> QED BY <3>1, <3>2
  <2> QED BY <1>1, <1>11, <2>1 DEF RunNext, RunCheck, RunChild, RunAccept, RunProgress, RunReturn
<1>12. CASE Saved
  <2>1. lock.op # "free" /\ (SettleSaved \/ WithdrawSaved => lock' # lock /\ ~PumpWalking)
    BY <1>12 DEF Saved, Commit, SubmitSaved, HoldSaved, StartSaved, ChildSaved, AcceptSaved, RenewSaved,
       SettleSaved, WithdrawSaved, Unlocked, PumpWalking
  <2>2. lock.op \in {"settle", "withdraw"} => lock.id \in Task
    BY <1>0 DEF TypeOK, Saving, SaveOps
  <2>3. CASE SettleSaved
    <3>1. lock.op = "settle" /\ lock.id \in Task
      BY <2>2, <2>3 DEF SettleSaved, Commit
    <3>2. CASE lock.by = "owner"
      <4>1. cancel[lock.id].pc = "settle"
        BY <3>1, <3>2 DEF OInv, OwnerWaits, Saving, SaveOps
      <4>2. cancel' = [cancel EXCEPT ![lock.id] = [cancel[lock.id] EXCEPT !.committed = TRUE, !.pc = "release"]]
        BY <2>3, <3>2, <1>6, <3>1, <1>0 DEF SettleSaved, TypeOK, CancelRec
      <4> QED BY <1>5, <1>6, <1>7, <2>1, <2>3, <3>1, <4>1, <4>2 DEF CancelRec
    <3>3. CASE lock.by = "replay"
      <4>1. cancel' = [cancel EXCEPT ![lock.id] = NoCancel]
        BY <2>3, <3>3 DEF SettleSaved
      <4>2. CASE Owned(lock.id)
        BY <1>4, <1>8, <2>1, <2>3, <3>1, <4>1, <4>2
      <4>3. CASE ~Owned(lock.id)
        BY <1>2, <1>8, <3>1, <4>1, <4>3
      <4> QED BY <4>2, <4>3
    <3>4. CASE lock.by \notin {"owner", "replay"}
      BY <1>1, <2>3, <3>4 DEF SettleSaved
    <3> QED BY <3>2, <3>3, <3>4
  <2>4. CASE WithdrawSaved
    <3>1. lock.op = "withdraw" /\ lock.id \in Task
      BY <2>2, <2>4 DEF WithdrawSaved, Commit
    <3>2. cancel[lock.id].pc = "withdraw"
      BY <3>1 DEF OInv, OwnerWaits, Saving, SaveOps
    <3>3. cancel' = [cancel EXCEPT ![lock.id] = [cancel[lock.id] EXCEPT !.pc = "release"]]
      BY <2>4 DEF WithdrawSaved
    <3> QED BY <1>5, <1>6, <1>7, <2>1, <2>4, <3>1, <3>2, <3>3 DEF CancelRec
  <2> QED BY <1>1, <1>12, <2>3, <2>4
          DEF Saved, SubmitSaved, HoldSaved, StartSaved, ChildSaved, AcceptSaved, RenewSaved
<1>13. CASE SaveError
  <2>1. Saving /\ lock.id \in Task /\ lock' # lock
    BY <1>0, <1>13 DEF TypeOK, SaveError, SaveFails, Saving, SaveOps, Unlocked
  <2>2. CASE CancelSaveFailed
    <3>1. ~PumpWalking
      BY <2>2 DEF CancelSaveFailed, PumpWalking
    <3>2. CASE lock.by = "replay"
      <4>1. cancel' = [cancel EXCEPT ![lock.id] = NoCancel]
        BY <2>2, <3>2 DEF CancelSaveFailed
      <4>2. CASE Owned(lock.id)
        BY <1>4, <1>8, <2>1, <3>1, <4>1, <4>2
      <4>3. CASE ~Owned(lock.id)
        BY <1>2, <1>8, <2>1, <4>1, <4>3
      <4> QED BY <4>2, <4>3
    <3>3. CASE lock.by = "owner"
      <4>1. Owned(lock.id)
        BY <2>1, <3>3 DEF OInv, OwnerWaits
      <4>2. cancel' = [cancel EXCEPT ![lock.id] = [cancel[lock.id] EXCEPT !.pc = "release"]]
        BY <2>2, <3>3 DEF CancelSaveFailed
      <4> QED BY <1>5, <1>6, <1>7, <2>1, <4>1, <4>2 DEF CancelRec
    <3> QED BY <2>2, <3>2, <3>3 DEF CancelSaveFailed
  <2>3. CASE RecSaveFailed
    <3>1. ~PumpWalking
      BY <2>3 DEF RecSaveFailed, PumpWalking
    <3>2. CASE cancel' = [t \in Task |-> IF cancel[t].pc = "claim" THEN NoCancel ELSE cancel[t]]
      BY <1>8, <2>1, <3>1, <3>2 DEF OwnersKeep
    <3> QED BY <1>1, <2>3, <3>2 DEF RecSaveFailed
  <2> QED BY <1>1, <1>13, <2>2, <2>3 DEF SaveError, PumpSaveFailed, CallSaveFailed, RunSaveFailed
<1>14. CASE PumpNext
  BY <1>1, <1>14 DEF PumpNext, PumpBegin, PumpHold, PumpStart, PumpEnd, AdmissionRetry
<1>15. CASE Load \/ BeginRecovery \/ Activate
  BY <1>1, <1>15 DEF Load, BeginRecovery, Activate
<1>16. ASSUME NEW t \in Task, Resubmit(t) \/ WaitForTask(t) \/ \E followUp \in BOOLEAN : Submit(t, followUp)
       PROVE  OwnersKeep
  BY <1>1, <1>16 DEF Resubmit, WaitForTask, Submit
<1> QED BY <1>9, <1>10, <1>11, <1>12, <1>13, <1>14, <1>15, <1>16 DEF Next

-----------------------------------------------------------------------------
(* What a step does to the live map, the lock and the walk of the pump *)

\* The records that the locked sections write change what Changes says.
LEMMA UpdatesChange ==
  ASSUME NEW task \in TaskRec, task.status # Absent
  PROVE  /\ Changes("child", task, [task EXCEPT !.child = TRUE])
         /\ task.status = "queued" => Changes("hold", task, [task EXCEPT !.held = TRUE])
         /\ \A lease : task.status = "queued" =>
              Changes("start", task, [task EXCEPT !.status = "starting", !.lease = lease, !.held = FALSE])
         /\ task.status = "starting" => Changes("accept", task, [task EXCEPT !.status = "running"])
         /\ Changes("renew", task, [task EXCEPT !.due = @ + 1])
         /\ Changes("withdraw", task, [task EXCEPT !.status = "aborted", !.result = "aborted", !.held = FALSE])
<1> USE DEF TaskRec, Changes, Absent
<1>1. Changes("child", task, [task EXCEPT !.child = TRUE])
  OBVIOUS
<1>2. task.status = "queued" => Changes("hold", task, [task EXCEPT !.held = TRUE])
  OBVIOUS
<1>3. \A lease : task.status = "queued" =>
        Changes("start", task, [task EXCEPT !.status = "starting", !.lease = lease, !.held = FALSE])
  OBVIOUS
<1>4. task.status = "starting" => Changes("accept", task, [task EXCEPT !.status = "running"])
  OBVIOUS
<1>5. Changes("renew", task, [task EXCEPT !.due = @ + 1])
  OBVIOUS
<1>6. Changes("withdraw", task, [task EXCEPT !.status = "aborted", !.result = "aborted", !.held = FALSE])
  OBVIOUS
<1> QED BY <1>1, <1>2, <1>3, <1>4, <1>5, <1>6

\* So does a settlement (finishTask).
LEMMA SettlementChanges ==
  ASSUME TypeOK, NEW t \in Task, NEW res \in TerminalStatus, Known(t)
  PROVE  Changes("settle", tasks[t], Settled(t, res))
<1>1. PICK out : out = Outcome(t, res)
  OBVIOUS
<1>2. out \notin {"queued", "starting", Absent}
  BY <1>1, SettledTyped DEF TerminalStatus, Absent
<1>3. tasks[t] \in TaskRec
  BY DEF TypeOK
<1>4. Settled(t, res) = [tasks[t] EXCEPT !.status = out, !.result = out, !.held = FALSE]
  BY <1>1 DEF Settled
<1> QED BY <1>2, <1>3, <1>4 DEF Changes, TaskRec, Known

\* A locked section begins to save a record of t: under the walk of the pump
\* an admission or a hold of its head, otherwise something else, and never a
\* renewal or another's settlement of a task that has an owner.
Begins(op, t, by) ==
  /\ ~Saving /\ pump' = pump
  /\ \E next, r : BeginSave(op, t, next, by, r) /\ Changes(op, tasks[t], next)
  /\ op \in {"hold", "start"} <=> PumpWalking
  /\ op \in {"hold", "start"} => IsNext(t)
  /\ op = "hold" => t \in Gated
  /\ op = "renew" \/ (op = "settle" /\ by # "owner") => ~Owned(t)
  /\ op = "withdraw" => by = "owner"
  /\ by = "owner" => cancel'[t].pc = IF op = "withdraw" THEN "withdraw" ELSE "settle"

\* The save is durable, and only the pump keeps the lock.
Ends ==
  /\ Saving /\ tasks' = tasks
  /\ IF lock.op \in {"hold", "start"}
     THEN lock' = PumpHolds /\ pump'.todo = pump.todo \ {lock.id}
     ELSE lock' = Unlocked /\ pump' = pump

\* The kinds of step.
OwnerMoves ==
  \/ OwnersKeep /\ UNCHANGED <<tasks, lock, pump>>
  \/ (\E t \in Task : Claim(t)) /\ UNCHANGED <<tasks, lock, pump>>
  \/ OwnersKeep /\ \E op \in SaveOps, t \in Task :
       \E by \in {"host", "run", "owner", "replay", "recover"} : Begins(op, t, by)
  \/ OwnersKeep /\ Ends
  \/ OwnersKeep /\ SaveFails /\ pump' = IF PumpWalking THEN IdlePump ELSE pump
  \/ OwnersKeep /\ \E c \in pumpDue : PumpBegin(c)
  \/ OwnersKeep /\ lock.op = "pump" /\ UNCHANGED <<tasks, lock>>
     /\ \E t \in Gated : pump'.todo = pump.todo \ {t}
  \/ OwnersKeep /\ tasks' = tasks /\ lock' = Unlocked /\ pump' = IdlePump
  \/ Crash \/ Load

\* A settlement somebody else than the owner saves is of a task without one.
LEMMA OthersDefer ==
  ASSUME OInv, NEW t \in Task, NEW l, Settles(t, l), ~Defers(t, l)
  PROVE  ~Owned(t)
BY DEF OInv, OwnerHolds, Settles, Settleable, Defers

\* Every step is of one of these kinds.
LEMMA OwnerSteps ==
  ASSUME IInv, OInv, Next
  PROVE  OwnerMoves
<1>0. TypeOK
  BY DEF IInv
<1>a. ASSUME NEW t \in Task, Known(t)
      PROVE  tasks[t] \in TaskRec /\ tasks[t].status # Absent
  BY <1>0, <1>a DEF TypeOK, Known
<1>1. CASE Crash \/ Load
  BY <1>1 DEF OwnerMoves
<1>2. ASSUME NEW t \in Task, Claim(t)
      PROVE  OwnerMoves
  BY <1>2 DEF OwnerMoves, Claim, core, queue
<1>3. CASE OwnersKeep
  <2> USE <1>3
  <2>1. ASSUME UNCHANGED <<tasks, lock, pump>>
        PROVE  OwnerMoves
    BY <2>1 DEF OwnerMoves
  <2>2. ASSUME NEW op \in SaveOps, NEW t \in Task,
               NEW by \in {"host", "run", "owner", "replay", "recover"}, Begins(op, t, by)
        PROVE  OwnerMoves
    BY <2>2 DEF OwnerMoves
  <2>3. ASSUME NEW t \in Task, NEW followUp \in BOOLEAN, Submit(t, followUp)
        PROVE  OwnerMoves
    <3>1. PICK next : next = [AbsentTask EXCEPT !.status = "queued", !.seq = NextSeq, !.child = followUp,
                                                !.due = IF t \in Timed THEN 1 ELSE 0]
      OBVIOUS
    <3>2. next.status = "queued" /\ next.lease = 0
      BY <3>1 DEF AbsentTask
    <3>3. tasks[t].status = Absent
      BY <2>3 DEF Submit, Known
    <3>4. Changes("submit", tasks[t], next)
      BY <3>2, <3>3 DEF Changes, Absent
    <3>5. BeginSave("submit", t, next, "host", NoRun) /\ Free /\ pump' = pump
      BY <2>3, <3>1 DEF Submit, queue
    <3>6. Begins("submit", t, "host")
      BY <3>4, <3>5 DEF Begins, Free, Saving, SaveOps, PumpWalking
    <3> QED BY <2>2, <3>6 DEF SaveOps
  <2>4. ASSUME NEW t \in Task, PumpHold(t)
        PROVE  OwnerMoves
    <3>1. lock.op = "pump" /\ IsNext(t) /\ t \in Gated
      BY <2>4 DEF PumpHold
    <3>2. tasks[t].status = "queued"
      BY <3>1, <1>0 DEF IInv, IsNext, PumpWalks, LedgerAgrees, Saving, SaveOps, Quiet, Free, Alive
    <3>3. CASE BeginSave("hold", t, [tasks[t] EXCEPT !.held = TRUE], "host", NoRun) /\ UNCHANGED pump
      <4>1. Changes("hold", tasks[t], [tasks[t] EXCEPT !.held = TRUE])
        BY <1>a, <3>2, UpdatesChange DEF Known, Absent
      <4>2. Begins("hold", t, "host")
        BY <3>1, <3>3, <4>1 DEF Begins, Saving, SaveOps, PumpWalking
      <4> QED BY <2>2, <4>2 DEF SaveOps
    <3>4. CASE pump' = [pump EXCEPT !.todo = @ \ {t}, !.held = TRUE] /\ UNCHANGED core
      <4>1. pump'.todo = pump.todo \ {t}
        BY <1>0, <3>4 DEF TypeOK, PumpRec
      <4> QED BY <3>1, <3>4, <4>1 DEF OwnerMoves, core
    <3> QED BY <2>4, <3>3, <3>4 DEF PumpHold
  <2>5. ASSUME NEW t \in Task, PumpStart(t)
        PROVE  OwnerMoves
    <3>1. lock.op = "pump" /\ IsNext(t)
      BY <2>5 DEF PumpStart
    <3>2. tasks[t].status = "queued"
      BY <3>1, <1>0 DEF IInv, IsNext, PumpWalks, LedgerAgrees, Saving, SaveOps, Quiet, Free, Alive
    <3>3. PICK next : next = [tasks[t] EXCEPT !.status = "starting", !.lease = minted + 1, !.held = FALSE]
      OBVIOUS
    <3>4. Changes("start", tasks[t], next)
      BY <1>a, <3>2, <3>3, UpdatesChange DEF Known, Absent
    <3>5. BeginSave("start", t, next, "host", NoRun) /\ pump' = pump
      BY <2>5, <3>3 DEF PumpStart, queue
    <3>6. Begins("start", t, "host")
      BY <3>1, <3>4, <3>5 DEF Begins, Saving, SaveOps, PumpWalking
    <3> QED BY <2>2, <3>6 DEF SaveOps
  <2>6. CASE PumpNext
    <3>1. ASSUME NEW c \in pumpDue, PumpBegin(c)
          PROVE  OwnerMoves
      BY <3>1 DEF OwnerMoves
    <3>2. CASE PumpEnd
      BY <3>2 DEF PumpEnd, OwnerMoves
    <3>3. CASE AdmissionRetry
      BY <2>1, <3>3 DEF AdmissionRetry, core
    <3> QED BY <2>4, <2>5, <2>6, <3>1, <3>2, <3>3 DEF PumpNext
  <2>7. ASSUME NEW r \in Run, RunChild(r) \/ RunAccept(r) \/ RunProgress(r)
        PROVE  OwnerMoves
    <3> DEFINE t == runs[r].id
    <3>1. t \in Task /\ Known(t) /\ Free /\ pump' = pump
      BY <1>0, <2>7 DEF TypeOK, RunChild, RunAccept, RunProgress, Settleable, Open, Known, Absent, queue
    <3>2. tasks[t] \in TaskRec /\ tasks[t].status # Absent
      BY <1>a, <3>1
    <3>3. CASE RunChild(r)
      <4>1. Changes("child", tasks[t], [tasks[t] EXCEPT !.child = TRUE])
        BY <3>2, UpdatesChange
      <4>2. BeginSave("child", t, [tasks[t] EXCEPT !.child = TRUE], "run", r)
        BY <3>3 DEF RunChild
      <4>3. Begins("child", t, "run")
        BY <3>1, <4>1, <4>2 DEF Begins, Free, Saving, SaveOps, PumpWalking
      <4> QED BY <2>2, <3>1, <4>3 DEF SaveOps
    <3>4. CASE RunAccept(r)
      <4>1. Changes("accept", tasks[t], [tasks[t] EXCEPT !.status = "running"])
        BY <3>2, <3>4, UpdatesChange DEF RunAccept
      <4>2. BeginSave("accept", t, [tasks[t] EXCEPT !.status = "running"], "run", r)
        BY <3>4 DEF RunAccept
      <4>3. Begins("accept", t, "run")
        BY <3>1, <4>1, <4>2 DEF Begins, Free, Saving, SaveOps, PumpWalking
      <4> QED BY <2>2, <3>1, <4>3 DEF SaveOps
    <3>5. CASE RunProgress(r)
      <4>1. Changes("renew", tasks[t], [tasks[t] EXCEPT !.due = @ + 1])
        BY <3>2, UpdatesChange
      <4>2. BeginSave("renew", t, [tasks[t] EXCEPT !.due = @ + 1], "run", r) /\ ~Owned(t)
        BY <3>5 DEF RunProgress, Cancelling, Owned
      <4>3. Begins("renew", t, "run")
        BY <3>1, <4>1, <4>2 DEF Begins, Free, Saving, SaveOps, PumpWalking
      <4> QED BY <2>2, <3>1, <4>3 DEF SaveOps
    <3> QED BY <2>7, <3>3, <3>4, <3>5
  <2>8. ASSUME NEW t \in Task, NEW res \in TerminalStatus, NEW r, NEW l, Settles(t, l), Free, pump' = pump,
               NEW by \in {"run", "owner", "replay", "recover"},
               BeginSave("settle", t, Settled(t, res), by, r),
               by = "owner" \/ ~Owned(t), by = "owner" => cancel'[t].pc = "settle"
        PROVE  OwnerMoves
    <3>1. Changes("settle", tasks[t], Settled(t, res))
      BY <1>0, <2>8, SettlementChanges DEF Settles, Settleable, Open
    <3>2. Begins("settle", t, by)
      BY <2>8, <3>1 DEF Begins, Free, Saving, SaveOps, PumpWalking
    <3> QED BY <2>2, <3>2 DEF SaveOps
  <2>9. ASSUME NEW r \in Run, RunSettle(r)
        PROVE  OwnerMoves
    <3> DEFINE t == runs[r].id
    <3>1. t \in Task /\ runs[r].res \in TerminalStatus /\ Free /\ pump' = pump
      BY <1>0, <2>9 DEF IInv, TypeOK, RunSettle, RunRec, HasAnswer, Results, queue
    <3>2. CASE UNCHANGED core
      BY <2>1, <3>1, <3>2 DEF core
    <3>3. CASE /\ Settles(t, runs[r].lease) /\ ~(Settleable(t, runs[r].lease) /\ Defers(t, runs[r].lease))
               /\ BeginSave("settle", t, Settled(t, runs[r].res), "run", r)
      <4>1. ~Owned(t)
        BY <3>1, <3>3, OthersDefer DEF Settles
      <4> QED BY <2>8, <3>1, <3>3, <4>1
    <3> QED BY <2>9, <3>2, <3>3 DEF RunSettle
  <2>10. ASSUME NEW r \in Run, RunNext(r)
         PROVE  OwnerMoves
    BY <2>1, <2>7, <2>9, <2>10 DEF RunNext, RunCheck, RunReturn, core, queue
  <2>11. ASSUME NEW t \in Task, Withdraw(t)
         PROVE  OwnerMoves
    <3>1. CASE UNCHANGED core
      BY <2>1, <2>11, <3>1 DEF Withdraw, core, queue
    <3>2. CASE /\ tasks[t].status = "queued" /\ UNCHANGED cancel
               /\ BeginSave("withdraw", t,
                    [tasks[t] EXCEPT !.status = "aborted", !.result = "aborted", !.held = FALSE],
                    "owner", NoRun)
      <4>1. Changes("withdraw", tasks[t],
                    [tasks[t] EXCEPT !.status = "aborted", !.result = "aborted", !.held = FALSE])
        BY <1>a, <3>2, UpdatesChange DEF Known, Absent
      <4>2. cancel'[t].pc = "withdraw" /\ Free /\ pump' = pump
        BY <2>11, <3>2 DEF Withdraw, queue
      <4>3. Begins("withdraw", t, "owner")
        BY <3>2, <4>1, <4>2 DEF Begins, Free, Saving, SaveOps, PumpWalking
      <4> QED BY <2>2, <4>3 DEF SaveOps
    <3> QED BY <2>11, <3>1, <3>2 DEF Withdraw
  <2>12. ASSUME NEW t \in Task, CancelSettle(t)
         PROVE  OwnerMoves
    <3>1. cancel[t].term \in TerminalStatus /\ Free /\ pump' = pump /\ cancel[t].pc = "settle"
      BY <1>0, <2>12 DEF IInv, TypeOK, CancelSettle, CancelRec, HasAnswer, Results, queue
    <3>2. CASE UNCHANGED core
      BY <2>1, <3>1, <3>2 DEF core
    <3>3. CASE /\ Settles(t, cancel[t].lease) /\ UNCHANGED cancel
               /\ BeginSave("settle", t, Settled(t, cancel[t].term), "owner", NoRun)
      BY <2>8, <3>1, <3>3
    <3> QED BY <2>12, <3>2, <3>3 DEF CancelSettle
  <2>13. ASSUME NEW t \in Task, Replay(t)
         PROVE  OwnerMoves
    <3>1. /\ cancel[t].deferred \in TerminalStatus /\ Free /\ pump' = pump /\ ~Owned(t)
      BY <1>0, <2>13 DEF IInv, TypeOK, Replay, CancelRec, HasAnswer, Results, queue, Owned
    <3>2. CASE UNCHANGED core
      BY <2>1, <3>1, <3>2 DEF core
    <3>3. CASE /\ Settles(t, cancel[t].lease)
               /\ BeginSave("settle", t, Settled(t, cancel[t].deferred), "replay", NoRun)
      BY <2>8, <3>1, <3>3
    <3> QED BY <2>13, <3>2, <3>3 DEF Replay
  <2>14. ASSUME NEW t \in Task, CancelNext(t)
         PROVE  OwnerMoves
    BY <1>2, <2>1, <2>11, <2>12, <2>13, <2>14
    DEF CancelNext, CancelCall, DeadlineFires, DeadlineRead, AbortOutcome, Release, core, queue
  <2>15. ASSUME NEW t \in Task, RecAccept(t)
         PROVE  OwnerMoves
    <3>1. CASE UNCHANGED core
      BY <2>1, <2>15, <3>1 DEF RecAccept, core, queue
    <3>2. CASE /\ tasks[t].status = "starting"
               /\ BeginSave("accept", t, [tasks[t] EXCEPT !.status = "running"], "recover", NoRun)
      <4>1. Changes("accept", tasks[t], [tasks[t] EXCEPT !.status = "running"])
        BY <1>a, <3>2, UpdatesChange DEF Known, Absent
      <4>2. Begins("accept", t, "recover")
        BY <2>15, <3>2, <4>1 DEF RecAccept, queue, Begins, Free, Saving, SaveOps, PumpWalking
      <4> QED BY <2>2, <4>2 DEF SaveOps
    <3> QED BY <2>15, <3>1, <3>2 DEF RecAccept
  <2>16. ASSUME NEW t \in Task, RecFinish(t)
         PROVE  OwnerMoves
    <3>1. rec[t].res \in TerminalStatus /\ Free /\ pump' = pump
      BY <1>0, <2>16 DEF IInv, TypeOK, RecFinish, RecRec, HasAnswer, Results, queue
    <3>2. CASE UNCHANGED core
      BY <2>1, <3>1, <3>2 DEF core
    <3>3. CASE /\ Settles(t, rec[t].lease) /\ ~Defers(t, rec[t].lease)
               /\ BeginSave("settle", t, Settled(t, rec[t].res), "recover", NoRun)
      BY <2>8, <3>1, <3>3, OthersDefer
    <3> QED BY <2>16, <3>2, <3>3 DEF RecFinish
  <2>17. ASSUME NEW t \in Task, RecNext(t)
         PROVE  OwnerMoves
    BY <2>1, <2>15, <2>16, <2>17
    DEF RecNext, StartLeaseFires, RetryFires, ReconcileTerminal, ReconcileLive, ReconcileRelaunch,
        ReconcileTransient, RecObserve, RecoverNext, core, queue
  <2>18. CASE Saved
    <3>1. ASSUME Ends
          PROVE  OwnerMoves
      BY <3>1 DEF OwnerMoves
    <3>2. CASE HoldSaved \/ StartSaved
      BY <1>0, <3>1, <3>2 DEF Ends, HoldSaved, StartSaved, Commit, Saving, SaveOps, TypeOK, PumpRec
    <3>3. CASE ~(HoldSaved \/ StartSaved)
      BY <2>18, <3>1, <3>3 DEF Saved, Ends, SubmitSaved, ChildSaved, AcceptSaved, RenewSaved, SettleSaved,
         WithdrawSaved, Commit, Saving, SaveOps, queue
    <3> QED BY <3>2, <3>3
  <2>19. CASE SaveError
    <3>1. pump' = IF PumpWalking THEN IdlePump ELSE pump
      BY <2>19 DEF SaveError, PumpSaveFailed, CallSaveFailed, RunSaveFailed, CancelSaveFailed,
         RecSaveFailed, queue, PumpWalking
    <3> QED BY <2>19, <3>1 DEF OwnerMoves, SaveError
  <2>20. CASE BeginRecovery \/ Activate
    BY <2>1, <2>20 DEF BeginRecovery, Activate, core, queue
  <2>21. ASSUME NEW t \in Task, Resubmit(t) \/ WaitForTask(t)
         PROVE  OwnerMoves
    BY <2>1, <2>21 DEF Resubmit, WaitForTask, core, queue
  <2> QED BY <1>1, <2>3, <2>6, <2>10, <2>14, <2>17, <2>18, <2>19, <2>20, <2>21 DEF Next
<1> QED BY <1>1, <1>2, <1>3, OwnersKept

-----------------------------------------------------------------------------
(* The invariant of owners and walks *)

\* A step of every kind keeps a pending save to what its section is about.
LEMMA SaveChangesKept ==
  ASSUME IInv, OInv, OwnerMoves
  PROVE  SaveChanges'
<1>0. TypeOK /\ SaveChanges
  BY DEF IInv, OInv
<1>1. CASE UNCHANGED <<tasks, lock>>
  BY <1>0, <1>1 DEF SaveChanges, Saving
<1>2. CASE lock' \in {Unlocked, PumpHolds}
  BY <1>2 DEF SaveChanges, Saving, SaveOps, Unlocked, PumpHolds
<1>3. ASSUME NEW op \in SaveOps, NEW t \in Task, NEW by, Begins(op, t, by)
      PROVE  SaveChanges'
  <2>1. PICK next, r : BeginSave(op, t, next, by, r) /\ Changes(op, tasks[t], next)
    BY <1>3 DEF Begins
  <2>2. tasks'[t] = next /\ lock'.op = op /\ lock'.id = t /\ lock'.prev = tasks[t]
    BY <1>0, <2>1 DEF BeginSave, TypeOK
  <2> QED BY <2>1, <2>2 DEF SaveChanges
<1>4. CASE Ends \/ SaveFails \/ Crash
  BY <1>2, <1>4 DEF Ends, SaveFails, Crash, Restarted
<1>5. CASE Load
  BY <1>2, <1>5 DEF Load, IInv, Quiet, Alive, Free, SaveChanges, Saving, SaveOps
<1>6. ASSUME NEW c \in pumpDue, PumpBegin(c)
      PROVE  SaveChanges'
  BY <1>2, <1>6 DEF PumpBegin
<1> QED BY <1>1, <1>2, <1>3, <1>4, <1>5, <1>6 DEF OwnerMoves

\* An owner keeps what it claimed while its record and its place out of the
\* walk stay as they are.
LEMMA OwnerUntouched ==
  ASSUME OwnerHolds, OwnersKeep, pump'.todo \subseteq pump.todo, NEW t \in Task, Owned(t)',
         Known(t)', tasks'[t].lease = tasks[t].lease, tasks'[t].due = tasks[t].due,
         (Saving /\ lock.id = t)' => lock'.op \notin {"submit", "start", "renew"}
  PROVE  /\ Known(t)' /\ cancel'[t].lease = tasks'[t].lease
         /\ cancel'[t].kind = "timeout" => cancel'[t].due = tasks'[t].due
         /\ (Saving /\ lock.id = t)' => lock'.op \notin {"submit", "start", "renew"}
         /\ t \notin pump'.todo
BY DEF OwnerHolds, OwnersKeep

\* A step of every kind leaves the owners what they hold.
LEMMA OwnerHoldsKept ==
  ASSUME IInv, OInv, OwnerMoves
  PROVE  OwnerHolds'
<1>0. TypeOK /\ OwnerHolds /\ SaveChanges
  BY DEF IInv, OInv
<1> DEFINE Holds(t) ==
      /\ Known(t)' /\ cancel'[t].lease = tasks'[t].lease
      /\ cancel'[t].kind = "timeout" => cancel'[t].due = tasks'[t].due
      /\ (Saving /\ lock.id = t)' => lock'.op \notin {"submit", "start", "renew"}
      /\ t \notin pump'.todo
<1> SUFFICES ASSUME NEW t \in Task, Owned(t)'
             PROVE  Holds(t)
  BY DEF OwnerHolds
<1>1. ASSUME OwnersKeep
      PROVE  Owned(t) /\ Known(t)
  BY <1>0, <1>1 DEF OwnersKeep, OwnerHolds
<1>2. ASSUME OwnersKeep, tasks' = tasks, lock' = lock, pump'.todo \subseteq pump.todo
      PROVE  Holds(t)
  <2>1. Owned(t) /\ Known(t)
    BY <1>1, <1>2
  <2> QED BY <1>0, <1>2, <2>1, OwnerUntouched DEF OwnerHolds, Known, Saving
<1>3. ASSUME OwnersKeep, tasks' = tasks, lock' \in {Unlocked, PumpHolds}, pump'.todo \subseteq pump.todo
      PROVE  Holds(t)
  <2>1. Owned(t) /\ Known(t)
    BY <1>1, <1>3
  <2>2. ~Saving'
    BY <1>3 DEF Saving, SaveOps, Unlocked, PumpHolds
  <2> QED BY <1>0, <1>3, <2>1, <2>2, OwnerUntouched DEF Known
<1>4. ASSUME NEW u \in Task, Claim(u), UNCHANGED <<tasks, lock, pump>>
      PROVE  Holds(t)
  <2>1. Free /\ ~Saving' /\ Known(t)' = Known(t)
    BY <1>4 DEF Claim, Free, Saving, SaveOps, Known
  <2>2. pump.todo = {}
    BY <2>1 DEF IInv, PumpWalks, Free
  <2>3. CASE t # u
    <3>1. cancel'[t] = cancel[t]
      BY <1>0, <1>4, <2>3 DEF Claim, TypeOK
    <3> QED BY <1>0, <1>4, <2>1, <2>2, <3>1 DEF OwnerHolds, Owned
  <2>4. CASE t = u
    <3>1. PICK owner : owner = [cancel[t] EXCEPT !.lease = tasks[t].lease, !.child = tasks[t].child]
      OBVIOUS
    <3>2. owner.lease = tasks[t].lease /\ owner.kind = cancel[t].kind /\ owner.due = cancel[t].due
      BY <1>0, <3>1 DEF TypeOK, CancelRec
    <3>3. CASE Open(t) /\ SameDeadline(t)
      <4>1. cancel'[t] = [owner EXCEPT !.pc = IF tasks[t].status = "queued" THEN "withdraw" ELSE "aborting"]
        <5>1. cancel' = [cancel EXCEPT ![t] =
                CASE Open(t) /\ SameDeadline(t) ->
                       [owner EXCEPT !.pc = IF tasks[t].status = "queued" THEN "withdraw" ELSE "aborting"]
                  [] HandoffRemains(t) -> [owner EXCEPT !.pc = "aborting", !.term = "none"]
                  [] OTHER -> NoCancel]
          BY <1>4, <2>4, <3>1 DEF Claim
        <5>2. t \in DOMAIN cancel
          BY <1>0 DEF TypeOK
        <5>3. ~HandoffRemains(t)
          BY <3>3 DEF HandoffRemains, Open, Ended, IsTerminal, TerminalStatus
        <5> QED BY <3>3, <5>1, <5>2, <5>3
      <4>2. cancel'[t].lease = owner.lease /\ cancel'[t].kind = owner.kind /\ cancel'[t].due = owner.due
        BY <1>0, <3>1, <4>1 DEF TypeOK, CancelRec
      <4> QED BY <1>4, <2>1, <2>2, <3>2, <3>3, <4>2 DEF Open, SameDeadline
    <3>4. CASE ~(Open(t) /\ SameDeadline(t)) /\ HandoffRemains(t)
      <4>1. cancel'[t] = [owner EXCEPT !.pc = "aborting", !.term = "none"]
        BY <1>0, <1>4, <2>4, <3>1, <3>4 DEF Claim, TypeOK
      <4>2. cancel'[t].lease = owner.lease /\ cancel'[t].kind = owner.kind
        BY <1>0, <3>1, <4>1 DEF TypeOK, CancelRec
      <4> QED BY <1>4, <2>1, <2>2, <3>2, <3>4, <4>2 DEF HandoffRemains, Known, Absent
    <3>5. CASE ~(Open(t) /\ SameDeadline(t)) /\ ~HandoffRemains(t)
      <4>1. cancel'[t] = NoCancel
        BY <1>0, <1>4, <2>4, <3>5 DEF Claim, TypeOK
      <4> QED BY <4>1 DEF Owned, NoCancel
    <3> QED BY <3>3, <3>4, <3>5
  <2> QED BY <2>3, <2>4
<1>5. ASSUME OwnersKeep, NEW op \in SaveOps, NEW u \in Task, NEW by, Begins(op, u, by)
      PROVE  Holds(t)
  <2>1. PICK next, r : BeginSave(op, u, next, by, r) /\ Changes(op, tasks[u], next)
    BY <1>5 DEF Begins
  <2>2. tasks'[u] = next /\ lock'.op = op /\ lock'.id = u /\ (t # u => tasks'[t] = tasks[t])
    BY <1>0, <2>1 DEF BeginSave, TypeOK
  <2>3. Owned(t) /\ Known(t) /\ t \notin pump.todo /\ pump' = pump
    BY <1>0, <1>1, <1>5 DEF OwnerHolds, Begins
  <2>4. CASE t # u
    BY <1>0, <1>5, <2>2, <2>3, <2>4, OwnerUntouched DEF Known
  <2>5. CASE t = u
    <3>1. op \notin {"submit", "start", "renew"}
      BY <1>5, <2>1, <2>3, <2>5 DEF Begins, IsNext, Changes, Known
    <3>2. Known(t)' /\ next.lease = tasks[t].lease /\ next.due = tasks[t].due
      BY <2>1, <2>2, <2>5, <3>1 DEF Changes, Known
    <3> QED BY <1>0, <1>5, <2>2, <2>3, <2>5, <3>1, <3>2, OwnerUntouched
  <2> QED BY <2>4, <2>5
<1>6. CASE OwnersKeep /\ Ends
  <2>1. lock' \in {Unlocked, PumpHolds} /\ pump'.todo \subseteq pump.todo /\ tasks' = tasks
    BY <1>6 DEF Ends
  <2> QED BY <1>3, <1>6, <2>1
<1>7. CASE OwnersKeep /\ SaveFails /\ pump' = IF PumpWalking THEN IdlePump ELSE pump
  <2>1. /\ tasks' = [tasks EXCEPT ![lock.id] = lock.prev] /\ lock.id \in Task /\ ~Saving' /\ Saving
    BY <1>0, <1>7 DEF SaveFails, RolledBack, TypeOK, Saving, SaveOps, Unlocked
  <2>2. Owned(t) /\ Known(t) /\ pump'.todo \subseteq pump.todo
    BY <1>1, <1>7 DEF IdlePump
  <2>3. CASE t # lock.id
    <3>1. tasks'[t] = tasks[t]
      BY <1>0, <2>1, <2>3 DEF TypeOK
    <3> QED BY <1>0, <1>7, <2>1, <2>2, <3>1, OwnerUntouched DEF Known
  <2>4. CASE t = lock.id
    <3>1. lock.op \notin {"submit", "start", "renew"}
      BY <1>0, <2>1, <2>2, <2>4 DEF OwnerHolds
    <3>2. tasks'[t] = lock.prev
      BY <1>0, <2>1, <2>4 DEF TypeOK
    <3>3. Known(t)' /\ tasks'[t].lease = tasks[t].lease /\ tasks'[t].due = tasks[t].due
      BY <1>0, <2>1, <2>4, <3>1, <3>2 DEF SaveChanges, Changes, Known
    <3> QED BY <1>0, <1>7, <2>1, <2>2, <3>3, OwnerUntouched
  <2> QED BY <2>3, <2>4
<1>8. ASSUME OwnersKeep, NEW c \in pumpDue, PumpBegin(c)
      PROVE  Holds(t)
  <2>1. Owned(t) /\ Known(t)
    BY <1>1, <1>8
  <2>2. pump'.todo = {u \in Task : tasks[u].status = "queued" /\ ~Owned(u)}
    BY <1>8 DEF PumpBegin, IdlePump
  <2>3. tasks' = tasks /\ ~Saving' /\ cancel' = cancel
    BY <1>8 DEF PumpBegin, PumpHolds, Unlocked, Saving, SaveOps
  <2> QED BY <1>0, <2>1, <2>2, <2>3 DEF OwnerHolds, Known
<1>9. CASE OwnersKeep /\ UNCHANGED <<tasks, lock>> /\ \E u \in Gated : pump'.todo = pump.todo \ {u}
  BY <1>2, <1>9
<1>10. CASE OwnersKeep /\ tasks' = tasks /\ lock' = Unlocked /\ pump' = IdlePump
  BY <1>3, <1>10 DEF IdlePump
<1>11. CASE Crash
  BY <1>11 DEF Crash, Restarted, Owned, NoCancel
<1>12. CASE Load
  BY <1>12 DEF IInv, Quiet, Alive, Load, Owned
<1> QED BY <1>2, <1>4, <1>5, <1>6, <1>7, <1>8, <1>9, <1>10, <1>11, <1>12 DEF OwnerMoves

\* A step of every kind lets an owner wait for its own save.
LEMMA OwnerWaitsKept ==
  ASSUME IInv, OInv, OwnerMoves
  PROVE  OwnerWaits'
<1>0. TypeOK /\ OwnerWaits
  BY DEF IInv, OInv
<1>1. ASSUME lock' \in {Unlocked, PumpHolds}
      PROVE  OwnerWaits'
  BY <1>1 DEF OwnerWaits, Saving, SaveOps, Unlocked, PumpHolds
<1>2. ASSUME OwnersKeep, lock' = lock
      PROVE  OwnerWaits'
  <2>1. Saving /\ lock.by = "owner" => lock.id \in Task /\ lock.op # "free"
    BY <1>0 DEF TypeOK, Saving, SaveOps
  <2> QED BY <1>0, <1>2, <2>1 DEF OwnerWaits, OwnersKeep, Saving
<1>3. ASSUME NEW t \in Task, Claim(t), UNCHANGED lock
      PROVE  OwnerWaits'
  BY <1>3 DEF Claim, OwnerWaits, Free, Saving, SaveOps
<1>4. ASSUME NEW op \in SaveOps, NEW t \in Task, NEW by, Begins(op, t, by)
      PROVE  OwnerWaits'
  <2>1. lock'.op = op /\ lock'.id = t /\ lock'.by = by
    BY <1>4 DEF Begins, BeginSave
  <2> QED BY <1>4, <2>1 DEF OwnerWaits, Begins
<1>5. CASE Ends \/ SaveFails \/ Crash
  BY <1>1, <1>5 DEF Ends, SaveFails, Crash, Restarted
<1>6. CASE Load
  BY <1>6 DEF IInv, Quiet, Alive, Free, Load, OwnerWaits, Saving, SaveOps
<1>7. ASSUME NEW c \in pumpDue, PumpBegin(c)
      PROVE  OwnerWaits'
  BY <1>1, <1>7 DEF PumpBegin
<1> QED BY <1>1, <1>2, <1>3, <1>4, <1>5, <1>6, <1>7 DEF OwnerMoves

\* A step of every kind keeps the walk of the pump complete: nothing enters
\* the queue, and no owner lets go, while it holds the lock.
LEMMA WalkIsCompleteKept ==
  ASSUME IInv, OInv, OwnerMoves
  PROVE  WalkIsComplete'
<1>0. TypeOK /\ WalkIsComplete /\ SaveChanges
  BY DEF IInv, OInv
<1>1. ASSUME lock'.op \notin {"pump", "hold", "start"}
      PROVE  WalkIsComplete'
  BY <1>1 DEF WalkIsComplete, PumpWalking
<1>2. CASE OwnersKeep /\ UNCHANGED <<tasks, lock, pump>>
  BY <1>0, <1>2 DEF WalkIsComplete, PumpWalking, OwnersKeep
<1>3. ASSUME NEW t \in Task, Claim(t), UNCHANGED lock
      PROVE  WalkIsComplete'
  BY <1>1, <1>3 DEF Claim, Free
<1>4. ASSUME OwnersKeep, NEW op \in SaveOps, NEW t \in Task, NEW by, Begins(op, t, by)
      PROVE  WalkIsComplete'
  <2>1. PICK next, r : BeginSave(op, t, next, by, r) /\ Changes(op, tasks[t], next)
    BY <1>4 DEF Begins
  <2>2. lock'.op = op /\ lock'.id = t /\ pump' = pump /\ tasks' = [tasks EXCEPT ![t] = next]
    BY <1>4, <2>1 DEF Begins, BeginSave
  <2>3. CASE op \in {"hold", "start"}
    <3>1. PumpWalking /\ t \in pump.todo /\ (op = "hold" => t \in Gated)
      BY <1>4, <2>3 DEF Begins, IsNext
    <3>2. ASSUME NEW u \in Task, tasks'[u].status = "queued"
          PROVE  u \in pump.todo \/ Owned(u)' \/ u \in Gated
      <4>1. CASE u = t
        BY <3>1, <4>1
      <4>2. CASE u # t
        <5>1. tasks[u].status = "queued"
          BY <1>0, <2>2, <3>2, <4>2 DEF TypeOK
        <5> QED BY <1>0, <1>4, <3>1, <5>1 DEF WalkIsComplete, OwnersKeep
      <4> QED BY <4>1, <4>2
    <3> QED BY <2>2, <3>1, <3>2 DEF WalkIsComplete
  <2>4. CASE op \notin {"hold", "start"}
    BY <1>1, <2>2, <2>4 DEF SaveOps
  <2> QED BY <2>3, <2>4
<1>5. CASE OwnersKeep /\ Ends
  <2>1. CASE lock.op \in {"hold", "start"}
    <3>1. /\ lock' = PumpHolds /\ pump'.todo = pump.todo \ {lock.id} /\ tasks' = tasks
          /\ lock.op = "hold" => lock.id \in Gated
      BY <1>0, <1>5, <2>1 DEF Ends, WalkIsComplete
    <3>2. lock.op = "start" => tasks[lock.id].status = "starting"
      BY <1>0, <1>5 DEF Ends, SaveChanges, Changes
    <3>3. ASSUME NEW u \in Task, tasks'[u].status = "queued"
          PROVE  u \in pump'.todo \/ Owned(u)' \/ u \in Gated
      <4>1. u \in pump.todo \/ Owned(u) \/ u \in Gated
        BY <1>0, <2>1, <3>1, <3>3 DEF WalkIsComplete, PumpWalking
      <4>2. Owned(u) => Owned(u)'
        BY <1>5, <2>1 DEF OwnersKeep, PumpWalking
      <4>3. u # lock.id \/ u \in Gated
        BY <2>1, <3>1, <3>2, <3>3
      <4> QED BY <3>1, <4>1, <4>2, <4>3
    <3> QED BY <3>1, <3>3 DEF WalkIsComplete, PumpHolds, Unlocked
  <2>2. CASE lock.op \notin {"hold", "start"}
    BY <1>1, <1>5, <2>2 DEF Ends, Unlocked
  <2> QED BY <2>1, <2>2
<1>6. CASE SaveFails \/ lock' = Unlocked \/ Crash
  BY <1>1, <1>6 DEF SaveFails, Crash, Restarted, Unlocked
<1>7. CASE Load
  BY <1>1, <1>7 DEF IInv, Quiet, Alive, Free, Load
<1>8. ASSUME NEW c \in pumpDue, PumpBegin(c)
      PROVE  WalkIsComplete'
  <2>1. /\ lock' = PumpHolds /\ tasks' = tasks /\ cancel' = cancel
        /\ pump'.todo = {t \in Task : tasks[t].status = "queued" /\ ~Owned(t)}
    BY <1>8 DEF PumpBegin, IdlePump
  <2> QED BY <2>1 DEF WalkIsComplete, PumpHolds, Unlocked, Owned
<1>9. CASE OwnersKeep /\ lock.op = "pump" /\ UNCHANGED <<tasks, lock>>
           /\ \E t \in Gated : pump'.todo = pump.todo \ {t}
  <2>1. PICK t \in Gated : pump'.todo = pump.todo \ {t}
    BY <1>9
  <2>2. ASSUME NEW u \in Task, tasks'[u].status = "queued"
        PROVE  u \in pump'.todo \/ Owned(u)' \/ u \in Gated
    BY <1>0, <1>9, <2>1, <2>2 DEF WalkIsComplete, PumpWalking, OwnersKeep
  <2> QED BY <1>9, <2>2 DEF WalkIsComplete
<1> QED BY <1>2, <1>3, <1>4, <1>5, <1>6, <1>7, <1>8, <1>9 DEF OwnerMoves

\* Every step lets a reconciliation wait for its own save.
LEMMA RecWaitsKept ==
  ASSUME TypeOK, RecWaits, Next
  PROVE  RecWaits'
<1>1. ASSUME lock'.op \notin SaveOps \/ lock'.by # "recover"
      PROVE  RecWaits'
  BY <1>1 DEF RecWaits, Saving
<1>2. ASSUME lock' = lock,
             \A t \in Task : rec'[t].pc = rec[t].pc \/ rec[t].pc \notin {"accept", "finish"}
      PROVE  RecWaits'
  BY <1>2 DEF RecWaits, Saving, TypeOK
<1>3. ASSUME NEW t \in Task, NEW new, lock' = lock, rec' = [rec EXCEPT ![t] = new],
             rec[t].pc \notin {"accept", "finish"}
      PROVE  RecWaits'
  BY <1>2, <1>3 DEF TypeOK
<1>4. ASSUME NEW r \in Run, RunNext(r)
      PROVE  RecWaits'
  <2>1. rec' = rec /\ (lock' = lock \/ lock'.by = "run")
    BY <1>4 DEF RunNext, RunCheck, RunChild, RunAccept, RunProgress, RunReturn, RunSettle, BeginSave, core
  <2> QED BY <1>1, <1>2, <2>1
<1>5. ASSUME NEW t \in Task, CancelNext(t)
      PROVE  RecWaits'
  <2>1. CASE Withdraw(t) \/ CancelSettle(t) \/ Replay(t)
    BY <1>1, <1>2, <2>1 DEF Withdraw, CancelSettle, Replay, BeginSave, core
  <2>2. CASE ~(Withdraw(t) \/ CancelSettle(t) \/ Replay(t))
    BY <1>2, <1>5, <2>2 DEF CancelNext, CancelCall, DeadlineFires, DeadlineRead, Claim, AbortOutcome, Release, core
  <2> QED BY <2>1, <2>2
<1>6. ASSUME NEW t \in Task, RecNext(t)
      PROVE  RecWaits'
  <2>1. CASE StartLeaseFires(t) \/ RetryFires(t)
    BY <1>2, <1>3, <2>1 DEF StartLeaseFires, RetryFires, core
  <2>2. ASSUME ReconcileTerminal(t) \/ ReconcileLive(t) \/ ReconcileRelaunch(t) \/ ReconcileTransient(t)
               \/ RecObserve(t) \/ RecoverNext(t)
        PROVE  /\ lock' = lock /\ rec[t].pc \notin {"accept", "finish"}
               /\ \E new : rec' = [rec EXCEPT ![t] = new]
    BY <2>2 DEF ReconcileTerminal, ReconcileLive, ReconcileRelaunch, ReconcileTransient, RecObserve, RecoverNext, core
  <2>3. CASE RecAccept(t)
    <3>1. rec[t].pc = "accept" /\ Free
      BY <2>3 DEF RecAccept
    <3>2. CASE lock' = lock
      BY <1>1, <3>1, <3>2 DEF Free, SaveOps
    <3>3. CASE BeginSave("accept", t, [tasks[t] EXCEPT !.status = "running"], "recover", NoRun) /\ rec' = rec
      BY <3>1, <3>3 DEF BeginSave, RecWaits
    <3> QED BY <2>3, <3>2, <3>3 DEF RecAccept, core
  <2>4. CASE RecFinish(t)
    <3>1. rec[t].pc = "finish" /\ Free
      BY <2>4 DEF RecFinish
    <3>2. CASE lock' = lock
      BY <1>1, <3>1, <3>2 DEF Free, SaveOps
    <3>3. CASE BeginSave("settle", t, Settled(t, rec[t].res), "recover", NoRun) /\ rec' = rec
      BY <3>1, <3>3 DEF BeginSave, RecWaits
    <3> QED BY <2>4, <3>2, <3>3 DEF RecFinish, core
  <2> QED BY <1>3, <1>6, <2>1, <2>2, <2>3, <2>4 DEF RecNext
<1>7. CASE PumpNext
  <2>1. CASE PumpEnd \/ \E c \in pumpDue : PumpBegin(c)
    <3>1. lock' \in {Unlocked, PumpHolds}
      BY <2>1 DEF PumpEnd, PumpBegin
    <3> QED BY <1>1, <3>1 DEF Unlocked, PumpHolds, SaveOps
  <2>2. CASE AdmissionRetry
    BY <1>2, <2>2 DEF AdmissionRetry, core
  <2>3. CASE \E t \in Task : PumpHold(t) \/ PumpStart(t)
    BY <1>1, <1>2, <2>3 DEF PumpHold, PumpStart, BeginSave, core
  <2> QED BY <1>7, <2>1, <2>2, <2>3 DEF PumpNext
<1>8. CASE Saved \/ SaveError \/ Crash
  <2>1. lock' \in {Unlocked, PumpHolds}
    BY <1>8 DEF Saved, SubmitSaved, HoldSaved, StartSaved, ChildSaved, AcceptSaved, RenewSaved,
       SettleSaved, WithdrawSaved, SaveError, SaveFails, Crash, Restarted
  <2> QED BY <1>1, <2>1 DEF Unlocked, PumpHolds, SaveOps
<1>9. CASE Load \/ BeginRecovery \/ Activate
  BY <1>2, <1>9 DEF Load, BeginRecovery, Activate, core
<1>10. ASSUME NEW t \in Task, Resubmit(t) \/ WaitForTask(t) \/ \E followUp \in BOOLEAN : Submit(t, followUp)
       PROVE  RecWaits'
  <2>1. CASE Resubmit(t) \/ WaitForTask(t)
    BY <1>2, <2>1 DEF Resubmit, WaitForTask, core
  <2>2. CASE \E followUp \in BOOLEAN : Submit(t, followUp)
    BY <1>1, <2>2 DEF Submit, BeginSave
  <2> QED BY <1>10, <2>1, <2>2
<1> QED BY <1>4, <1>5, <1>6, <1>7, <1>8, <1>9, <1>10 DEF Next

\* Every step keeps the whole of it.
LEMMA OwnerStepHolds ==
  ASSUME IInv, OInv, Next
  PROVE  OInv'
<1>1. OwnerMoves
  BY OwnerSteps
<1>2. Forgotten'
  <2>1. CASE Crash
    BY <2>1 DEF Crash, Forgotten, Known, AbsentTask
  <2>2. CASE boot'.phase # "down"
    BY <2>2 DEF Forgotten, Alive
  <2> QED BY <2>1, <2>2, StaysAlive DEF IInv
<1> QED BY <1>1, <1>2, SaveChangesKept, OwnerHoldsKept, OwnerWaitsKept, RecWaitsKept, WalkIsCompleteKept
        DEF IInv, OInv

\* It holds before the first start.
LEMMA OwnerInitHolds == Init => OInv
BY DEF Init, OInv, SaveChanges, OwnerHolds, OwnerWaits, RecWaits, WalkIsComplete, PumpWalking, Forgotten,
   Known, Owned, Saving, SaveOps, Unlocked, AbsentTask, NoCancel

\* A step that changes nothing keeps it.
LEMMA OwnerStutters ==
  ASSUME OInv, UNCHANGED vars
  PROVE  OInv'
BY DEF OInv, SaveChanges, OwnerHolds, OwnerWaits, RecWaits, WalkIsComplete, PumpWalking, Forgotten, Known,
       Owned, Saving, Alive, vars, core, queue, exec

\* The invariant of owners and walks holds in every reachable state.
THEOREM OwnersInvariance ==
  ASSUME LateSaveError = FALSE
  PROVE  Spec => []OInv
<1>1. IInv /\ OInv /\ [Next]_vars => OInv'
  BY OwnerStepHolds, OwnerStutters
<1> QED BY <1>1, OwnerInitHolds, Invariance, PTL DEF Spec

\* A deadline that settles a task is the one the task has: no renewal slips in
\* between the timer and the settlement (handleTaskTimeout, recordProgress).
THEOREM DeadlinesAreCurrent ==
  ASSUME LateSaveError = FALSE
  PROVE  Spec => []DeadlineIsCurrent
<1>1. OInv => DeadlineIsCurrent
  BY DEF OInv, OwnerHolds, DeadlineIsCurrent
<1> QED BY <1>1, OwnersInvariance, PTL

\* A step that ends a task in the live map begins to save its settlement.
LEMMA OnlySettlementsEnd ==
  ASSUME IInv, IInv', OInv, OwnerMoves, NEW t \in Task, Owned(t), ~Ended(t), Ended(t)'
  PROVE  lock'.op = "withdraw" \/ (lock'.op = "settle" /\ lock'.by = "owner")
<1>0. TypeOK /\ SaveIsLegal /\ SaveIsLegal'
  BY DEF IInv
<1>1. ASSUME NEW op \in SaveOps, NEW u \in Task, NEW by, Begins(op, u, by)
      PROVE  lock'.op = "withdraw" \/ (lock'.op = "settle" /\ lock'.by = "owner")
  <2>1. PICK next, r : BeginSave(op, u, next, by, r)
    BY <1>1 DEF Begins
  <2>2. /\ tasks' = [tasks EXCEPT ![u] = next]
        /\ lock'.op = op /\ lock'.id = u /\ lock'.by = by
    BY <2>1 DEF BeginSave
  <2>3. t = u
    BY <1>0, <2>2 DEF Ended, TypeOK
  <2>4. op \in {"settle", "withdraw"}
    BY <1>0, <2>2, <2>3 DEF SaveIsLegal, Saving, Ended
  <2> QED BY <1>1, <2>2, <2>3, <2>4 DEF Begins
<1>2. CASE tasks' = tasks
  BY <1>2 DEF Ended
<1>3. CASE SaveFails
  <2>1. tasks' = [tasks EXCEPT ![lock.id] = lock.prev] /\ ~IsTerminal(lock.prev.status)
    BY <1>0, <1>3 DEF SaveFails, RolledBack, SaveIsLegal
  <2> QED BY <1>0, <2>1 DEF Ended, TypeOK
<1>4. CASE Crash
  BY <1>4 DEF Crash, Ended, IsTerminal, TerminalStatus, AbsentTask, Absent
<1>5. CASE Load
  BY <1>5 DEF Load, IInv, Quiet, Alive, Owned
<1> QED BY <1>1, <1>2, <1>3, <1>4, <1>5 DEF OwnerMoves, Ends, PumpBegin

\* While a cancellation owns the settlement of a task, nobody else records its
\* outcome (cancellationOwners, finishTask).
THEOREM OwnersSettle ==
  ASSUME LateSaveError = FALSE
  PROVE  Spec => OwnerSettles
<1>1. IInv /\ OInv /\ IInv' /\ [Next]_vars =>
        [\A t \in Task : Owned(t) /\ ~Ended(t) /\ Ended(t)' =>
           lock'.op = "withdraw" \/ (lock'.op = "settle" /\ lock'.by = "owner")]_vars
  BY OwnerSteps, OnlySettlementsEnd
<1> QED BY <1>1, Invariance, OwnersInvariance, PTL DEF Spec, OwnerSettles

\* A step that admits a task begins to save the admission of the head of the
\* walk.
LEMMA OnlyHeadsStart ==
  ASSUME IInv, OInv, OwnerMoves, NEW t \in Task,
         tasks[t].status = "queued", tasks'[t].status = "starting"
  PROVE  PumpWalking /\ IsNext(t)
<1>0. TypeOK /\ SaveIsLegal /\ SaveChanges
  BY DEF IInv, OInv
<1>1. ASSUME NEW op \in SaveOps, NEW u \in Task, NEW by, Begins(op, u, by)
      PROVE  PumpWalking /\ IsNext(t)
  <2>1. PICK next, r : BeginSave(op, u, next, by, r) /\ Changes(op, tasks[u], next)
    BY <1>1 DEF Begins
  <2>2. t = u /\ next.status = "starting"
    BY <1>0, <2>1 DEF BeginSave, TypeOK
  <2>3. op = "start"
    BY <2>1, <2>2 DEF Changes
  <2> QED BY <1>1, <2>2, <2>3 DEF Begins
<1>2. CASE tasks' = tasks
  BY <1>2
<1>3. CASE SaveFails
  <2>1. tasks' = [tasks EXCEPT ![lock.id] = lock.prev] /\ CanTransition(lock.prev.status, tasks[lock.id].status)
    BY <1>0, <1>3 DEF SaveFails, RolledBack, SaveIsLegal
  <2>2. t = lock.id /\ lock.prev.status = "starting"
    BY <1>0, <2>1 DEF TypeOK
  <2> QED BY <2>1, <2>2 DEF CanTransition, AllowedTransitions, TaskStatuses, ActiveStatus
<1>4. CASE Crash
  BY <1>4 DEF Crash, AbsentTask, Absent
<1>5. CASE Load
  BY <1>5 DEF Load, OInv, Forgotten, Alive, Known, Absent
<1> QED BY <1>1, <1>2, <1>3, <1>4, <1>5 DEF OwnerMoves, Ends, PumpBegin

\* Admission is first come, first served, whatever is cancelled, withdrawn or
\* refused by the file system in between (pump, compareManagedTaskQueueOrder).
THEOREM AdmissionIsFair ==
  ASSUME LateSaveError = FALSE
  PROVE  Spec => StartsInOrder
<1>1. ASSUME IInv, OInv, Next, NEW t \in Task, NEW u \in Task,
             tasks[t].status = "queued", tasks'[t].status = "starting",
             tasks[u].status = "queued", tasks[u].seq < tasks[t].seq
      PROVE  Owned(u) \/ u \in Gated
  <2>1. PumpWalking /\ IsNext(t)
    BY <1>1, OwnerSteps, OnlyHeadsStart
  <2>2. u \notin pump.todo
    <3>1. tasks[t].seq \in Nat /\ tasks[u].seq \in Nat
      BY <1>1 DEF IInv, TypeOK, TaskRec
    <3> QED BY <1>1, <2>1, <3>1 DEF IsNext
  <2> QED BY <1>1, <2>1, <2>2 DEF OInv, WalkIsComplete
<1>2. IInv /\ OInv /\ [Next]_vars =>
        [\A t, u \in Task :
           tasks[t].status = "queued" /\ tasks'[t].status = "starting"
           /\ tasks[u].status = "queued" /\ tasks[u].seq < tasks[t].seq
           => Owned(u) \/ u \in Gated]_vars
  BY <1>1
<1> QED BY <1>2, Invariance, OwnersInvariance, PTL DEF Spec, StartsInOrder

-----------------------------------------------------------------------------
(* What a step does to executor calls, reconciliations and timers *)

\* No call begins, ends or is displaced.
RunsKeep ==
  /\ active' = active
  /\ \A r \in Run : \/ runs'[r] = runs[r]
                    \/ /\ runs[r].pc # "idle" /\ runs'[r].pc # "idle"
                       /\ runs'[r].id = runs[r].id /\ runs'[r].lease = runs[r].lease
                       /\ runs'[r].stale = runs[r].stale

\* Nothing else that could start a call comes up.
NothingNew ==
  /\ \A t \in Task : /\ rec'[t].pc # "none" => rec[t].pc # "none"
                     /\ timers'.start[t] # 0 => timers.start[t] # 0
                     /\ timers'.retry[t] # 0 => timers.retry[t] # 0
                     /\ Listed(t)' => Listed(t)
  /\ pump'.admitted \subseteq pump.admitted

\* Calls are started for ts, all of it open: the reconciliation of each is over
\* with it, or the walk that admitted it.
Launches(ts) ==
  /\ \E kind \in {"launch", "observe"} : StartRuns(ts, kind)
  /\ \A t \in ts : Open(t)
  /\ \A t \in ts : \/ rec[t].pc # "none" /\ rec'[t].pc = "none"
                   \/ t \in pump.admitted /\ pump'.admitted = {}

\* The kinds of step.
DriverMoves ==
  \/ NothingNew /\ RunsKeep
  \/ NothingNew /\ \E r \in Run : runs[r].pc # "idle" /\ EndRun(r)
  \/ NothingNew /\ \E ts \in SUBSET Task : Launches(ts)
  \/ StartSaved \/ BeginRecovery \/ Activate \/ Crash
  \/ \E t \in Task : StartLeaseFires(t) \/ RetryFires(t) \/ ReconcileTransient(t) \/ RecoverNext(t)

\* A call that only moves on.
LEMMA RunMovesOn ==
  ASSUME TypeOK, NEW r \in Run, runs[r].pc # "idle", active' = active, NEW new \in RunRec,
         runs' = [runs EXCEPT ![r] = new], new.pc # "idle",
         new.id = runs[r].id, new.lease = runs[r].lease, new.stale = runs[r].stale
  PROVE  RunsKeep
BY DEF TypeOK, RunsKeep

\* Every step is of one of these kinds: the executor calls.
LEMMA RunDrivers ==
  ASSUME IInv, NEW r \in Run, RunNext(r)
  PROVE  DriverMoves
<1>0. TypeOK
  BY DEF IInv
<1>1. NothingNew
  BY <1>0 DEF RunNext, RunCheck, RunChild, RunAccept, RunProgress, RunReturn, RunSettle, NothingNew,
     Listed, queue
<1>2. runs[r].pc # "idle"
  BY DEF RunNext, RunCheck, RunChild, RunAccept, RunProgress, RunReturn, RunSettle
<1>3. CASE EndRun(r)
  BY <1>1, <1>2, <1>3 DEF DriverMoves
<1>4. CASE UNCHANGED <<runs, active>>
  BY <1>1, <1>4 DEF DriverMoves, RunsKeep
<1>5. ASSUME NEW pc \in {"executing", "settling", "saving"}, NEW res \in Results, NEW last \in BOOLEAN,
             active' = active,
             runs' = [runs EXCEPT ![r] = [runs[r] EXCEPT !.pc = pc, !.res = res, !.last = last]]
      PROVE  DriverMoves
  <2>1. PICK new : new = [runs[r] EXCEPT !.pc = pc, !.res = res, !.last = last]
    OBVIOUS
  <2>2. runs[r] \in RunRec
    BY <1>0 DEF TypeOK
  <2>3. /\ new \in RunRec /\ new.pc # "idle" /\ new.id = runs[r].id
        /\ new.lease = runs[r].lease /\ new.stale = runs[r].stale
    BY <1>5, <2>1, <2>2 DEF RunRec
  <2>4. RunsKeep
    BY <1>0, <1>2, <1>5, <2>1, <2>3, RunMovesOn
  <2> QED BY <1>1, <2>4 DEF DriverMoves
<1>6. ASSUME NEW pc \in {"executing", "settling", "saving"},
             active' = active, runs' = [runs EXCEPT ![r].pc = pc]
      PROVE  DriverMoves
  <2>1. runs[r] \in RunRec
    BY <1>0 DEF TypeOK
  <2>2. PICK new : new = [runs[r] EXCEPT !.pc = pc]
    OBVIOUS
  <2>3. /\ new \in RunRec /\ new.pc # "idle" /\ new.id = runs[r].id
        /\ new.lease = runs[r].lease /\ new.stale = runs[r].stale
    BY <1>6, <2>1, <2>2 DEF RunRec
  <2>4. RunsKeep
    BY <1>0, <1>2, <1>6, <2>2, <2>3, RunMovesOn
  <2> QED BY <1>1, <2>4 DEF DriverMoves
<1>7. CASE RunCheck(r)
  <2>1. ASSUME runs' = [runs EXCEPT ![r].pc = "settling", ![r].res = "failed", ![r].last = TRUE],
               active' = active
        PROVE  RunsKeep
    BY <1>0, <1>2, <2>1 DEF RunsKeep, TypeOK, RunRec
  <2> QED BY <1>1, <1>3, <1>6, <1>7, <2>1 DEF RunCheck, DriverMoves
<1>8. CASE RunReturn(r)
  <2>1. ASSUME NEW res, runs' = [runs EXCEPT ![r].pc = "settling", ![r].res = res], active' = active
        PROVE  RunsKeep
    BY <1>0, <1>2, <2>1 DEF RunsKeep, TypeOK, RunRec
  <2>2. ASSUME NEW res, active' = active,
               runs' = [runs EXCEPT ![r].pc = "settling", ![r].res = res, ![r].last = TRUE]
        PROVE  RunsKeep
    BY <1>0, <1>2, <2>2 DEF RunsKeep, TypeOK, RunRec
  <2> QED BY <1>1, <1>8, <2>1, <2>2 DEF RunReturn, DriverMoves
<1>9. CASE RunSettle(r)
  BY <1>3, <1>6, <1>9 DEF RunSettle
<1> QED BY <1>4, <1>7, <1>8, <1>9 DEF RunNext, RunChild, RunAccept, RunProgress, exec

\* What the updates of the timers leave of the starting leases and the retries.
LEMMA TimersLeave ==
  ASSUME TypeOK, NEW id \in Task, NEW x,
         timers' \in {timers, TimersCleared(id), [timers EXCEPT !.deadline[id] = x],
                     [timers EXCEPT !.admission = x], [timers EXCEPT !.start[id] = 0]}
  PROVE  \A u \in Task : /\ timers'.start[u] # 0 => timers.start[u] # 0
                         /\ timers'.retry[u] # 0 => timers.retry[u] # 0
<1>1. CASE timers' \in {timers, [timers EXCEPT !.deadline[id] = x], [timers EXCEPT !.admission = x]}
  BY <1>1 DEF TypeOK, TimerRec
<1>2. CASE timers' = [timers EXCEPT !.start[id] = 0]
  BY <1>2 DEF TypeOK, TimerRec
<1>3. CASE timers' = TimersCleared(id)
  BY <1>3 DEF TypeOK, TimerRec, TimersCleared
<1> QED BY <1>1, <1>2, <1>3

\* A launch of the admitted tasks at the end of a walk.
LEMMA WalkLaunches ==
  ASSUME TypeOK, LaunchAdmitted, pump' = IdlePump
  PROVE  \E ts \in SUBSET Task : Launches(ts)
<1>1. PICK ts : ts = {t \in pump.admitted : tasks[t].status = "starting" /\ ~Owned(t)}
  OBVIOUS
<1>2. ts \in SUBSET Task /\ ts \subseteq pump.admitted
  BY <1>1 DEF TypeOK, PumpRec
<1>3. StartRuns(ts, "launch")
  BY <1>1 DEF LaunchAdmitted
<1>4. pump'.admitted = {}
  BY DEF IdlePump
<1>5. \A t \in ts : Open(t)
  BY <1>1 DEF Open, Known, Ended, IsTerminal, TerminalStatus, Absent
<1> QED BY <1>2, <1>3, <1>4, <1>5 DEF Launches

\* The cancellations start nothing.
LEMMA CancelDrivers ==
  ASSUME TypeOK, NEW t \in Task, CancelNext(t)
  PROVE  NothingNew /\ RunsKeep
<1>1. UNCHANGED <<runs, active, rec, boot>> /\ pump' = pump
  BY DEF CancelNext, CancelCall, DeadlineFires, DeadlineRead, Claim, Withdraw, AbortOutcome,
     CancelSettle, Release, Replay, exec, queue
<1>2. timers'.start = timers.start /\ timers'.retry = timers.retry
  BY DEF CancelNext, CancelCall, DeadlineFires, DeadlineRead, Claim, Withdraw, AbortOutcome,
     CancelSettle, Release, Replay, TypeOK, TimerRec
<1> QED BY <1>1, <1>2 DEF NothingNew, RunsKeep, Listed

\* The pump launches what it has admitted.
LEMMA PumpDrivers ==
  ASSUME TypeOK, PumpNext
  PROVE  DriverMoves
<1>1. UNCHANGED <<rec, boot>> /\ timers'.start = timers.start /\ timers'.retry = timers.retry
      /\ pump'.admitted \subseteq pump.admitted
  <2>1. UNCHANGED <<rec, boot>>
    BY DEF PumpNext, PumpBegin, PumpHold, PumpStart, PumpEnd, AdmissionRetry
  <2>2. timers' \in {timers, [timers EXCEPT !.admission = TRUE], [timers EXCEPT !.admission = FALSE]}
    BY DEF PumpNext, PumpBegin, PumpHold, PumpStart, PumpEnd, AdmissionRetry
  <2>3. timers'.start = timers.start /\ timers'.retry = timers.retry
    BY <2>2 DEF TypeOK, TimerRec
  <2>4. ASSUME NEW c \in pumpDue, PumpBegin(c)
        PROVE  pump'.admitted = {}
    BY <2>4 DEF PumpBegin, IdlePump
  <2>5. ASSUME NEW t \in Task, PumpHold(t)
        PROVE  pump'.admitted = pump.admitted
    BY <2>5 DEF PumpHold, TypeOK, PumpRec
  <2>6. CASE PumpEnd
    BY <2>6 DEF PumpEnd, IdlePump
  <2>7. ASSUME AdmissionRetry \/ \E t \in Task : PumpStart(t)
        PROVE  pump' = pump
    BY <2>7 DEF PumpStart, AdmissionRetry, queue
  <2>8. pump'.admitted \subseteq pump.admitted
    BY <2>4, <2>5, <2>6, <2>7 DEF PumpNext
  <2> QED BY <2>1, <2>3, <2>8
<1>2. NothingNew
  BY <1>1 DEF NothingNew, Listed
<1>3. CASE PumpEnd
  BY <1>2, <1>3, WalkLaunches DEF PumpEnd, DriverMoves
<1>4. CASE UNCHANGED <<runs, active>>
  BY <1>2, <1>4 DEF DriverMoves, RunsKeep
<1> QED BY <1>3, <1>4 DEF PumpNext, PumpBegin, PumpHold, PumpStart, AdmissionRetry, exec

\* A reconciliation ends with a call, with its retry timer or with nothing.
LEMMA RecDrivers ==
  ASSUME TypeOK, NEW t \in Task, RecNext(t)
  PROVE  DriverMoves
<1>1. CASE StartLeaseFires(t) \/ RetryFires(t) \/ ReconcileTransient(t) \/ RecoverNext(t)
  BY <1>1 DEF DriverMoves
<1>2. ASSUME UNCHANGED <<timers, boot, pump>>, rec[t].pc # "none", rec' = [rec EXCEPT ![t] = NoRec]
      PROVE  NothingNew /\ rec'[t].pc = "none"
  BY <1>2 DEF NothingNew, NoRec, TypeOK, Listed
<1>3. ASSUME UNCHANGED <<timers, boot, pump>>, rec[t].pc # "none", rec' = rec \/ \E new : rec' = [rec EXCEPT ![t] = new]
      PROVE  NothingNew
  BY <1>3 DEF NothingNew, TypeOK, Listed
<1>4. ASSUME NEW kind \in {"launch", "observe"}, StartRuns({t}, kind), Open(t), NothingNew,
             rec[t].pc # "none", rec'[t].pc = "none"
      PROVE  DriverMoves
  <2>1. {t} \in SUBSET Task
    OBVIOUS
  <2>2. Launches({t})
    BY <1>4 DEF Launches
  <2> QED BY <1>4, <2>1, <2>2 DEF DriverMoves
<1>5. CASE ReconcileRelaunch(t) \/ RecObserve(t)
  <2>1. /\ UNCHANGED <<timers, boot, pump>> /\ rec[t].pc # "none" /\ rec' = [rec EXCEPT ![t] = NoRec]
        /\ \/ Open(t) /\ \E kind \in {"launch", "observe"} : StartRuns({t}, kind)
           \/ UNCHANGED <<runs, active>>
    BY <1>5 DEF ReconcileRelaunch, RecObserve, queue, exec
  <2>2. NothingNew /\ rec'[t].pc = "none"
    BY <1>2, <2>1
  <2>3. CASE UNCHANGED <<runs, active>>
    BY <2>2, <2>3 DEF DriverMoves, RunsKeep
  <2> QED BY <1>4, <2>1, <2>2, <2>3
<1>6. CASE ReconcileTerminal(t) \/ ReconcileLive(t) \/ RecAccept(t) \/ RecFinish(t)
  <2>1. UNCHANGED <<timers, boot, pump, runs, active>> /\ rec[t].pc # "none"
    BY <1>6 DEF ReconcileTerminal, ReconcileLive, RecAccept, RecFinish, queue, exec
  <2>2. rec' = rec \/ \E new : rec' = [rec EXCEPT ![t] = new]
    BY <1>6 DEF ReconcileTerminal, ReconcileLive, RecAccept, RecFinish
  <2> QED BY <1>3, <2>1, <2>2 DEF DriverMoves, RunsKeep
<1> QED BY <1>1, <1>5, <1>6 DEF RecNext

\* A save that succeeds starts nothing but an admission.
LEMMA SavedDrivers ==
  ASSUME IInv, OInv, Saved
  PROVE  DriverMoves
<1>0. TypeOK /\ RunWaits /\ RecWaits
  BY DEF IInv, OInv
<1>1. CASE StartSaved
  BY <1>1 DEF DriverMoves
<1>2. CASE SubmitSaved \/ HoldSaved \/ ChildSaved \/ RenewSaved \/ WithdrawSaved
  <2>1. UNCHANGED <<rec, boot, runs, active>>
    BY <1>2 DEF SubmitSaved, HoldSaved, ChildSaved, RenewSaved, WithdrawSaved, exec
  <2>2. pump'.admitted = pump.admitted
    BY <1>0, <1>2 DEF SubmitSaved, HoldSaved, ChildSaved, RenewSaved, WithdrawSaved, TypeOK, PumpRec, queue
  <2>3. lock.id \in Task
    BY <1>0, <1>2 DEF SubmitSaved, HoldSaved, ChildSaved, RenewSaved, WithdrawSaved, Commit, TypeOK,
       Saving, SaveOps
  <2>4. \A u \in Task : /\ timers'.start[u] # 0 => timers.start[u] # 0
                        /\ timers'.retry[u] # 0 => timers.retry[u] # 0
    <3>1. CASE timers' \in {timers, TimersCleared(lock.id), [timers EXCEPT !.admission = TRUE]}
      BY <1>0, <2>3, <3>1, TimersLeave
    <3>2. CASE timers' = [timers EXCEPT !.deadline[lock.id] = tasks[lock.id].due]
      BY <1>0, <2>3, <3>2, TimersLeave
    <3>3. \/ timers' = timers \/ timers' = TimersCleared(lock.id)
          \/ timers' = [timers EXCEPT !.admission = TRUE]
          \/ timers' = [timers EXCEPT !.deadline[lock.id] = tasks[lock.id].due]
      BY <1>2 DEF SubmitSaved, HoldSaved, ChildSaved, RenewSaved, WithdrawSaved
    <3> QED BY <3>1, <3>2, <3>3
  <2> QED BY <2>1, <2>2, <2>4 DEF DriverMoves, NothingNew, RunsKeep, Listed
<1>3. CASE AcceptSaved
  <2>1. UNCHANGED <<boot, runs, active, pump>> /\ lock.id \in Task
    BY <1>0, <1>3 DEF AcceptSaved, exec, queue, Commit, TypeOK, Saving, SaveOps
  <2>2. \A u \in Task : /\ timers'.start[u] # 0 => timers.start[u] # 0
                        /\ timers'.retry[u] # 0 => timers.retry[u] # 0
    BY <1>0, <1>3, <2>1, TimersLeave DEF AcceptSaved
  <2>3. \A u \in Task : rec'[u].pc # "none" => rec[u].pc # "none"
    BY <1>0, <1>3, <2>1 DEF AcceptSaved, Commit, RecWaits, TypeOK, Saving, SaveOps
  <2> QED BY <2>1, <2>2, <2>3 DEF DriverMoves, NothingNew, RunsKeep, Listed
<1>4. CASE SettleSaved
  <2>1. UNCHANGED <<boot, pump>> /\ lock.id \in Task /\ timers' = TimersCleared(lock.id)
        /\ rec' \in {rec, [rec EXCEPT ![lock.id] = NoRec]} /\ Saving
        /\ IF lock.by = "run" THEN EndRun(lock.run) ELSE UNCHANGED exec
    BY <1>0, <1>4 DEF SettleSaved, Commit, TypeOK, Saving, SaveOps
  <2>2. \A u \in Task : /\ timers'.start[u] # 0 => timers.start[u] # 0
                        /\ timers'.retry[u] # 0 => timers.retry[u] # 0
    BY <1>0, <2>1 DEF TypeOK, TimerRec, TimersCleared
  <2>3. \A u \in Task : rec'[u].pc # "none" => rec[u].pc # "none"
    BY <1>0, <2>1 DEF TypeOK, NoRec
  <2>4. NothingNew
    BY <2>1, <2>2, <2>3 DEF NothingNew, Listed
  <2>5. CASE lock.by = "run"
    <3>1. lock.run \in Run /\ runs[lock.run].pc # "idle"
      BY <1>0, <2>1, <2>5 DEF RunWaits
    <3> QED BY <2>1, <2>4, <2>5, <3>1 DEF DriverMoves
  <2>6. CASE UNCHANGED exec
    BY <2>4, <2>6 DEF DriverMoves, RunsKeep, exec
  <2> QED BY <2>1, <2>5, <2>6
<1> QED BY <1>1, <1>2, <1>3, <1>4 DEF Saved

\* Nor does a save that fails, but for the tasks the walk had admitted.
LEMMA ErrorDrivers ==
  ASSUME IInv, OInv, SaveError
  PROVE  DriverMoves
<1>0. TypeOK /\ RunWaits /\ Saving
  BY DEF IInv, SaveError, SaveFails
<1>1. CASE PumpSaveFailed
  <2>1. UNCHANGED <<rec, boot>> /\ pump' = IdlePump /\ LaunchAdmitted
        /\ timers' \in {timers, [timers EXCEPT !.admission = TRUE]}
    BY <1>1 DEF PumpSaveFailed
  <2>2. timers'.start = timers.start /\ timers'.retry = timers.retry
    BY <1>0, <2>1 DEF TypeOK, TimerRec
  <2>3. NothingNew
    BY <2>1, <2>2 DEF NothingNew, Listed, IdlePump
  <2> QED BY <1>0, <2>1, <2>3, WalkLaunches DEF DriverMoves
<1>2. CASE CallSaveFailed \/ CancelSaveFailed
  BY <1>2 DEF CallSaveFailed, CancelSaveFailed, DriverMoves, NothingNew, RunsKeep, Listed, queue, exec
<1>3. CASE RecSaveFailed
  <2>1. rec' = [rec EXCEPT ![lock.id] = NoRec] /\ boot' \in {boot, AtPhase("loaded")}
        /\ UNCHANGED <<runs, active, pump, timers>>
    BY <1>3 DEF RecSaveFailed, queue, exec
  <2>2. \A t \in Task : Listed(t)' => Listed(t)
    BY <2>1 DEF Listed, AtPhase, AbsentTask
  <2>3. \A t \in Task : rec'[t].pc # "none" => rec[t].pc # "none"
    BY <1>0, <2>1 DEF TypeOK, NoRec
  <2> QED BY <2>1, <2>2, <2>3 DEF DriverMoves, NothingNew, RunsKeep
<1>4. CASE RunSaveFailed
  <2>1. lock.run \in Run /\ runs[lock.run].pc # "idle"
    BY <1>0, <1>4 DEF RunWaits, RunSaveFailed
  <2>2. NothingNew
    BY <1>4 DEF RunSaveFailed, NothingNew, Listed, queue
  <2>3. CASE EndRun(lock.run)
    BY <2>1, <2>2, <2>3 DEF DriverMoves
  <2>4. ASSUME active' = active, runs' = [runs EXCEPT ![lock.run].pc = "settling", ![lock.run].last = TRUE,
                                  ![lock.run].res = ThrowStatus(runs[lock.run].kind)]
        PROVE  RunsKeep
    BY <1>0, <2>1, <2>4 DEF RunsKeep, TypeOK, RunRec
  <2> QED BY <1>4, <2>2, <2>3, <2>4 DEF RunSaveFailed, DriverMoves
<1> QED BY <1>1, <1>2, <1>3, <1>4 DEF SaveError

\* Every step of the scheduler.
LEMMA DriverSteps ==
  ASSUME IInv, OInv, Next
  PROVE  DriverMoves
<1>0. TypeOK
  BY DEF IInv
<1>1. ASSUME NEW t \in Task, Resubmit(t) \/ WaitForTask(t) \/ \E followUp \in BOOLEAN : Submit(t, followUp)
      PROVE  DriverMoves
  <2>1. UNCHANGED <<runs, active, pump, rec, boot>>
    BY <1>1 DEF Resubmit, WaitForTask, Submit, queue, exec
  <2>2. timers'.start = timers.start /\ timers'.retry = timers.retry
    BY <1>0, <1>1 DEF Resubmit, WaitForTask, Submit, TypeOK, TimerRec
  <2> QED BY <2>1, <2>2 DEF DriverMoves, NothingNew, RunsKeep, Listed
<1>2. CASE Load
  BY <1>2 DEF Load, DriverMoves, NothingNew, RunsKeep, Listed, AtPhase, AbsentTask, queue, exec
<1>3. CASE Crash \/ BeginRecovery \/ Activate
  BY <1>3 DEF DriverMoves
<1>4. ASSUME NEW t \in Task, CancelNext(t)
      PROVE  DriverMoves
  BY <1>0, <1>4, CancelDrivers DEF DriverMoves
<1> QED BY <1>0, <1>1, <1>2, <1>3, <1>4, RunDrivers, PumpDrivers, RecDrivers, SavedDrivers, ErrorDrivers
        DEF Next

-----------------------------------------------------------------------------
(* What a step does to the file, and what the live map says of it *)

\* A task that has left the queue does not come back to it, and leaves it for
\* an executor by being admitted.
LEMMA NoWayBack ==
  ASSUME NEW from \in TaskStatuses, NEW to \in TaskStatuses, CanTransition(from, to)
  PROVE  /\ to \in {Absent, "queued"} => from \in {Absent, "queued"}
         /\ from \in {Absent, "queued"} /\ to \in ActiveStatus => from = "queued" /\ to = "starting"
BY DEF CanTransition, AllowedTransitions, TaskStatuses, ActiveStatus, TerminalStatus, Absent

\* A task that has been admitted in the file stays so, under the same lease.
LEMMA FileMoves ==
  ASSUME IInv, OInv, Next, LateSaveError = FALSE, NEW t \in Task
  PROVE  /\ Unstarted(t)' => Unstarted(t)
         /\ ~Unstarted(t) => disk'[t].lease = disk[t].lease
<1>0. TypeOK
  BY DEF IInv
<1>1. CASE disk' = disk
  BY <1>1 DEF Unstarted
<1>2. CASE disk' # disk
  <2>1. disk' = tasks /\ Alive
    BY <1>2, DiskStep
  <2>2. Saving /\ lock.id \in Task /\ disk = [tasks EXCEPT ![lock.id] = lock.prev]
    BY <1>0, <1>2, <2>1 DEF IInv, TypeOK, LedgerAgrees, Alive
  <2>3. CASE t # lock.id
    BY <1>0, <2>1, <2>2, <2>3 DEF TypeOK, Unstarted
  <2>4. CASE t = lock.id
    <3>1. disk[t] = lock.prev /\ disk'[t] = tasks[t]
      BY <1>0, <2>1, <2>2, <2>4 DEF TypeOK
    <3>2. Changes(lock.op, disk[t], tasks[t]) /\ CanTransition(disk[t].status, tasks[t].status)
      BY <2>2, <2>4, <3>1 DEF IInv, OInv, SaveChanges, SaveIsLegal
    <3>3. Unstarted(t)' => Unstarted(t)
      BY <1>0, <3>1, <3>2, NoWayBack DEF Unstarted, TypeOK, TaskRec
    <3>4. ~Unstarted(t) => disk'[t].lease = disk[t].lease
      BY <3>1, <3>2 DEF Unstarted, Changes
    <3> QED BY <3>3, <3>4
  <2> QED BY <2>3, <2>4
<1> QED BY <1>1, <1>2

\* The live map holds such a task admitted under that lease; one that it alone
\* holds active is being admitted.
LEMMA MapFollows ==
  ASSUME IInv, OInv, Alive, NEW t \in Task
  PROVE  /\ ~Unstarted(t) => /\ tasks[t].lease = disk[t].lease
                             /\ tasks[t].status \notin {Absent, "queued"}
         /\ Active(t) /\ Unstarted(t) => Saving /\ lock.op = "start" /\ lock.id = t
<1>0. TypeOK
  BY DEF IInv
<1>1. CASE disk[t] = tasks[t]
  BY <1>0, <1>1 DEF Unstarted, Active, ActiveStatus, Absent
<1>2. CASE disk[t] # tasks[t]
  <2>1. Saving /\ lock.id = t /\ disk[t] = lock.prev
    BY <1>0, <1>2 DEF IInv, TypeOK, LedgerAgrees, Alive
  <2>2. Changes(lock.op, disk[t], tasks[t]) /\ CanTransition(disk[t].status, tasks[t].status)
    BY <2>1 DEF IInv, OInv, SaveChanges, SaveIsLegal
  <2>3. ASSUME ~Unstarted(t)
        PROVE  tasks[t].lease = disk[t].lease /\ tasks[t].status \notin {Absent, "queued"}
    BY <1>0, <2>2, <2>3, NoWayBack DEF Unstarted, Changes, TypeOK, TaskRec
  <2>4. ASSUME Active(t), Unstarted(t)
        PROVE  lock.op = "start"
    BY <1>0, <2>2, <2>4, NoWayBack DEF Unstarted, Active, Changes, TypeOK, TaskRec
  <2> QED BY <2>1, <2>3, <2>4
<1> QED BY <1>1, <1>2

\* A call that is started is the one registered for its task, which had none,
\* under the current lease; no other registration changes.
LEMMA CallsStart ==
  ASSUME TypeOK, NEW ts \in SUBSET Task, NEW kind \in {"launch", "observe"}, StartRuns(ts, kind)
  PROVE  /\ \A q \in Run : \/ runs'[q] = runs[q]
                           \/ /\ runs[q].pc = "idle" /\ runs'[q].pc # "idle"
                              /\ \E t \in ts : /\ ~Registered(t) /\ active'[t] = q
                                               /\ runs'[q].id = t /\ runs'[q].lease = tasks[t].lease
                                               /\ ~runs'[q].stale
         /\ \A t \in Task : active'[t] = active[t] \/ (t \in ts /\ ~Registered(t))
<1> DEFINE gated(t) == kind = "launch" /\ t \in Gated
           go == {t \in ts : ~Registered(t) /\ (kind = "launch" /\ ~gated(t) => ~Owned(t))}
           new(t) == [IdleRun EXCEPT !.pc = IF gated(t) THEN "checking" ELSE "executing",
                                     !.id = t, !.lease = tasks[t].lease, !.kind = kind]
<1>1. PICK slot \in [go -> {r \in Run : runs[r].pc = "idle"}] :
        /\ active' = [t \in Task |-> IF t \in go THEN slot[t] ELSE active[t]]
        /\ runs' = [r \in Run |-> IF \E t \in go : slot[t] = r
                                  THEN new(CHOOSE u \in go : slot[u] = r) ELSE runs[r]]
  BY DEF StartRuns
<1>2. \A t : /\ new(t).pc # "idle" /\ new(t).id = t /\ new(t).lease = tasks[t].lease
             /\ ~new(t).stale
  BY DEF IdleRun
<1>3. \A t \in go : t \in ts /\ t \in Task /\ ~Registered(t)
  OBVIOUS
<1> HIDE DEF new, go, gated
<1>4. ASSUME NEW q \in Run, ~\E t \in go : slot[t] = q
      PROVE  runs'[q] = runs[q]
  BY <1>1, <1>4
<1>5. ASSUME NEW q \in Run, \E t \in go : slot[t] = q
      PROVE  /\ runs[q].pc = "idle" /\ runs'[q].pc # "idle"
             /\ \E t \in ts : /\ ~Registered(t) /\ active'[t] = q
                              /\ runs'[q].id = t /\ runs'[q].lease = tasks[t].lease
                              /\ ~runs'[q].stale
  <2>1. PICK t : t = CHOOSE u \in go : slot[u] = q
    OBVIOUS
  <2>2. t \in go /\ slot[t] = q
    BY <1>5, <2>1
  <2>3. runs'[q] = new(t)
    BY <1>1, <1>5, <2>1
  <2>4. active'[t] = q
    BY <1>1, <1>3, <2>2
  <2>5. runs[q].pc = "idle"
    BY <1>1, <2>2
  <2> QED BY <1>2, <1>3, <2>2, <2>3, <2>4, <2>5
<1>6. \A t \in Task : active'[t] = active[t] \/ (t \in ts /\ ~Registered(t))
  BY <1>1, <1>3
<1> QED BY <1>4, <1>5, <1>6

-----------------------------------------------------------------------------
(* What a step leaves of the drivers of one task *)

\* Calls, registration, reconciliation and timers of t only go.
Shrinks(t) ==
  /\ \A r \in Run : runs'[r].pc # "idle" /\ runs'[r].id = t =>
       /\ runs[r].pc # "idle" /\ runs[r].id = t
       /\ runs'[r].lease = runs[r].lease /\ runs'[r].stale = runs[r].stale
  /\ Displaced(t)' => Displaced(t)
  /\ rec'[t].pc # "none" => rec[t].pc # "none"
  /\ timers'.start[t] # 0 => timers.start[t] # 0
  /\ timers'.retry[t] # 0 => timers.retry[t] # 0
  /\ Listed(t)' => Listed(t)
  /\ t \in pump'.admitted => t \in pump.admitted

\* What has to hold for t after a step.
Kept(t) ==
  /\ Chain(t)'
  /\ Unstarted(t)' => Dormant(t)'
  /\ \A r \in Run : runs'[r].pc # "idle" /\ runs'[r].id = t => runs'[r].lease = disk'[t].lease
  /\ ~Up => OneDriver(t)' /\ ~Displaced(t)'
  /\ boot.phase \in {"down", "loaded"} => Untouched(t)'

\* The file keeps an admission of t and its lease.
FileKeeps(t) ==
  /\ Unstarted(t)' => Unstarted(t)
  /\ ~Unstarted(t) => disk'[t].lease = disk[t].lease

\* It holds when they only go.
LEMMA ShrinkKeeps ==
  ASSUME XInv, NEW t \in Task, FileKeeps(t), Shrinks(t)
  PROVE  Kept(t)
<1>1. Untouched(t) => Untouched(t)'
  BY DEF Shrinks, Untouched, HasRun
<1>2. Dormant(t) => Dormant(t)'
  BY <1>1 DEF Shrinks, Dormant
<1>3. \A r \in Run : Live(r, t)' => Live(r, t)
  BY DEF Shrinks, Live
<1>4. OneDriver(t) => OneDriver(t)'
  BY <1>3 DEF Shrinks, OneDriver
<1>5. Chain(t)'
  BY <1>1, <1>4 DEF XInv, OneChain, Chain, Shrinks
<1>6. Unstarted(t)' => Dormant(t)'
  BY <1>2 DEF FileKeeps, XInv, DriversAreDurable
<1>7. ASSUME NEW r \in Run, runs'[r].pc # "idle", runs'[r].id = t
      PROVE  runs'[r].lease = disk'[t].lease
  <2>1. runs[r].pc # "idle" /\ runs[r].id = t /\ runs'[r].lease = runs[r].lease
    BY <1>7 DEF Shrinks
  <2>2. ~Unstarted(t)
    BY <2>1 DEF XInv, DriversAreDurable, Dormant, Untouched, HasRun
  <2> QED BY <2>1, <2>2 DEF FileKeeps, XInv, DriversAreDurable
<1>8. ~Up => OneDriver(t)' /\ ~Displaced(t)'
  BY <1>4 DEF Shrinks, XInv, StartsClean
<1>9. boot.phase \in {"down", "loaded"} => Untouched(t)'
  BY <1>1 DEF XInv, StartsClean
<1> QED BY <1>5, <1>6, <1>7, <1>8, <1>9 DEF Kept

\* Calls that move on are displaced when they were.
LEMMA RunsKeepShrinks ==
  ASSUME TypeOK, NothingNew, RunsKeep, NEW t \in Task
  PROVE  Shrinks(t)
<1>1. Displaced(t)' => Displaced(t)
  BY DEF RunsKeep, Displaced
<1>2. t \in pump'.admitted => t \in pump.admitted
  BY DEF NothingNew
<1> QED BY <1>1, <1>2 DEF NothingNew, RunsKeep, Shrinks

\* The end of a call displaces no call of a task that had none displaced: it
\* was the only one.
LEMMA EndRunShrinks ==
  ASSUME TypeOK, NothingNew, NEW r \in Run, runs[r].pc # "idle", EndRun(r), NEW t \in Task
  PROVE  Shrinks(t)
<1>1. \A q \in Run : runs'[q].pc # "idle" => runs'[q] = runs[q] /\ q # r
  BY DEF TypeOK, EndRun, IdleRun
<1>2. active' = [active EXCEPT ![runs[r].id] = NoRun]
  BY DEF EndRun
<1>3. Displaced(t)' => Displaced(t)
  <2>1. ASSUME NEW q \in Run, runs'[q].pc # "idle", runs'[q].id = t, runs'[q].stale \/ active'[t] # q
        PROVE  Displaced(t)
    <3>1. runs[q].pc # "idle" /\ runs[q].id = t /\ runs'[q].stale = runs[q].stale /\ q # r
      BY <1>1, <2>1
    <3>2. CASE active[t] # q
      BY <3>1, <3>2 DEF Displaced
    <3>3. CASE active[t] = q /\ t # runs[r].id
      BY <1>2, <2>1, <3>1, <3>3 DEF TypeOK, Displaced
    <3>4. CASE active[t] = q /\ t = runs[r].id
      BY <3>1, <3>4 DEF Displaced
    <3> QED BY <3>2, <3>3, <3>4
  <2> QED BY <2>1 DEF Displaced
<1>4. t \in pump'.admitted => t \in pump.admitted
  BY DEF NothingNew
<1> QED BY <1>1, <1>3, <1>4 DEF NothingNew, Shrinks

\* A launch starts a call for a task that has none but displaced ones, and its
\* reconciliation or its admission is over with it (launchTask,
\* observeRecoveredTask).
LEMMA LaunchKeeps ==
  ASSUME IInv, OInv, XInv, NothingNew, NEW ts \in SUBSET Task, Launches(ts), NEW t \in Task, FileKeeps(t)
  PROVE  Kept(t)
<1>0. TypeOK
  BY DEF IInv
<1>1. /\ \A q \in Run : \/ runs'[q] = runs[q]
                        \/ /\ runs[q].pc = "idle" /\ runs'[q].pc # "idle"
                           /\ \E u \in ts : /\ ~Registered(u) /\ active'[u] = q
                                            /\ runs'[q].id = u /\ runs'[q].lease = tasks[u].lease
                                            /\ ~runs'[q].stale
      /\ \A u \in Task : active'[u] = active[u] \/ (u \in ts /\ ~Registered(u))
  BY <1>0, CallsStart DEF Launches
<1>2. CASE ~\E q \in Run : runs[q].pc = "idle" /\ runs'[q].pc # "idle" /\ runs'[q].id = t
  <2>1. \A q \in Run : runs'[q].pc # "idle" /\ runs'[q].id = t => runs'[q] = runs[q]
    BY <1>1, <1>2
  <2>2. Displaced(t)' => Displaced(t)
    <3>1. ASSUME NEW q \in Run, runs'[q].pc # "idle", runs'[q].id = t, runs'[q].stale \/ active'[t] # q
          PROVE  Displaced(t)
      <4>1. runs[q].pc # "idle" /\ runs[q].id = t /\ runs[q].stale = runs'[q].stale
        BY <2>1, <3>1
      <4>2. CASE active'[t] = active[t]
        BY <3>1, <4>1, <4>2 DEF Displaced
      <4>3. CASE ~Registered(t)
        BY <4>1, <4>3, SlotAssumption DEF Registered, Displaced
      <4> QED BY <1>1, <4>2, <4>3
    <3> QED BY <3>1 DEF Displaced
  <2>3. t \in pump'.admitted => t \in pump.admitted
    BY DEF NothingNew
  <2>4. Shrinks(t)
    BY <2>1, <2>2, <2>3 DEF NothingNew, Shrinks
  <2> QED BY <2>4, ShrinkKeeps
<1>3. CASE \E q \in Run : runs[q].pc = "idle" /\ runs'[q].pc # "idle" /\ runs'[q].id = t
  <2>1. PICK q \in Run : runs[q].pc = "idle" /\ runs'[q].pc # "idle" /\ runs'[q].id = t
    BY <1>3
  <2>2. /\ t \in ts /\ ~Registered(t) /\ active'[t] = q /\ runs'[q].lease = tasks[t].lease
        /\ ~runs'[q].stale
    BY <1>1, <2>1
  <2>3. \A p \in Run : runs'[p].pc # "idle" /\ runs'[p].id = t /\ p # q => runs'[p] = runs[p]
    BY <1>1, <2>2
  <2>4. HasRun(t) => Displaced(t)
    BY <2>2, SlotAssumption DEF HasRun, Displaced, Registered
  <2>5. CASE rec[t].pc # "none" /\ rec'[t].pc = "none"
    <3>1. Alive /\ boot.phase \notin {"down", "loaded"}
      BY <2>5 DEF IInv, Quiet, XInv, StartsClean, Untouched, Alive
    <3>2. ~Unstarted(t) /\ ~Unstarted(t)'
      BY <2>5 DEF XInv, DriversAreDurable, Dormant, Untouched, FileKeeps
    <3>3. HasRun(t) \/ timers.start[t] # 0 \/ ~Up => OneDriver(t)
      BY <2>4 DEF XInv, OneChain, Chain, StartsClean
    <3>4. OneDriver(t) => OneDriver(t)'
      <4>1. ASSUME OneDriver(t)
            PROVE  timers'.retry[t] = 0 /\ \A p \in Run : Live(p, t)' => p = q
        <5>1. \A p \in Run : ~Live(p, t)
          BY <2>5, <4>1 DEF OneDriver
        <5>2. timers'.retry[t] = 0
          BY <2>5, <4>1 DEF OneDriver, NothingNew
        <5> QED BY <2>3, <5>1, <5>2 DEF Live
      <4> QED BY <2>5, <4>1 DEF OneDriver
    <3>5. Displaced(t)' => HasRun(t)
      BY <2>1, <2>2, <2>3 DEF Displaced, HasRun
    <3>6. Displaced(t)' => Displaced(t) /\ OneDriver(t)
      BY <2>4, <3>3, <3>5
    <3>7. ~(Listed(t) \/ (t \in pump.admitted /\ timers.start[t] # 0))
      BY <2>5 DEF XInv, OneChain, Chain, Untouched
    <3>8. t \in pump'.admitted => t \in pump.admitted
      BY DEF NothingNew
    <3>9. Chain(t)'
      BY <3>3, <3>4, <3>6, <3>7, <3>8 DEF XInv, OneChain, Chain, NothingNew
    <3>10. \A p \in Run : runs'[p].pc # "idle" /\ runs'[p].id = t => runs'[p].lease = disk'[t].lease
      <4>1. disk'[t].lease = disk[t].lease /\ tasks[t].lease = disk[t].lease
        BY <3>1, <3>2, MapFollows DEF FileKeeps
      <4> QED BY <2>2, <2>3, <4>1 DEF XInv, DriversAreDurable
    <3>11. ~Up => OneDriver(t)' /\ ~Displaced(t)'
      BY <3>3, <3>4, <3>6 DEF XInv, StartsClean
    <3> QED BY <3>1, <3>2, <3>9, <3>10, <3>11 DEF Kept
  <2>6. CASE t \in pump.admitted /\ pump'.admitted = {}
    <3>1. Up /\ Alive
      BY <2>6 DEF XInv, StartsClean, Up, Alive
    <3>2. ~Unstarted(t) /\ ~Unstarted(t)'
      BY <2>6 DEF XInv, DriversAreDurable, Dormant, FileKeeps
    <3>3. ~Displaced(t) /\ ~HasRun(t)
      BY <2>4, <2>6 DEF XInv, OneChain, Chain
    <3>4. \A p \in Run : runs'[p].pc # "idle" /\ runs'[p].id = t => p = q
      BY <2>3, <3>3 DEF HasRun
    <3>5. ~Displaced(t)'
      BY <2>2, <3>4 DEF Displaced
    <3>6. timers'.start[t] # 0 => OneDriver(t)'
      <4>1. ASSUME timers'.start[t] # 0
            PROVE  rec'[t].pc = "none" /\ timers'.retry[t] = 0
        <5>1. timers.start[t] # 0
          BY <4>1 DEF NothingNew
        <5>2. rec[t].pc = "none" /\ timers.retry[t] = 0
          BY <2>6, <5>1 DEF XInv, OneChain, Chain, Untouched
        <5> QED BY <5>2 DEF NothingNew
      <4> QED BY <3>4, <4>1 DEF OneDriver, Live
    <3>7. ~Listed(t)
      BY <3>1 DEF XInv, StartsClean, Up
    <3>8. Chain(t)'
      BY <2>6, <3>5, <3>6, <3>7 DEF Chain, NothingNew
    <3>9. \A p \in Run : runs'[p].pc # "idle" /\ runs'[p].id = t => runs'[p].lease = disk'[t].lease
      <4>1. disk'[t].lease = disk[t].lease /\ tasks[t].lease = disk[t].lease
        BY <3>1, <3>2, MapFollows DEF FileKeeps
      <4> QED BY <2>2, <3>4, <4>1
    <3> QED BY <3>1, <3>2, <3>8, <3>9 DEF Kept, Up
  <2> QED BY <2>2, <2>5, <2>6 DEF Launches
<1> QED BY <1>2, <1>3

\* An admission that is in the file arms the starting lease of a task for
\* which nothing is under way.
LEMMA StartSavedKeeps ==
  ASSUME IInv, OInv, XInv, StartSaved, NEW t \in Task, FileKeeps(t)
  PROVE  Kept(t)
<1>0. TypeOK /\ Saving /\ lock.id \in Task
  BY DEF IInv, TypeOK, StartSaved, Commit, Saving, SaveOps
<1>1. /\ UNCHANGED <<runs, active, rec, boot>> /\ disk' = tasks
      /\ pump' = [pump EXCEPT !.todo = @ \ {lock.id}, !.admitted = @ \cup {lock.id}]
      /\ timers' = [timers EXCEPT !.start[lock.id] = tasks[lock.id].lease]
  BY DEF StartSaved, Commit, exec
<1>2. pump'.admitted = pump.admitted \cup {lock.id}
  BY <1>0, <1>1 DEF TypeOK, PumpRec
<1>3. /\ timers'.start = [timers.start EXCEPT ![lock.id] = tasks[lock.id].lease]
      /\ timers'.retry = timers.retry
  BY <1>0, <1>1 DEF TypeOK, TimerRec
<1>4. CASE t # lock.id
  <2>1. Shrinks(t)
    BY <1>0, <1>1, <1>2, <1>3, <1>4 DEF Shrinks, Displaced, Listed, TypeOK, TimerRec
  <2> QED BY <2>1, ShrinkKeeps
<1>5. CASE t = lock.id
  <2>1. Up /\ Alive
    BY DEF StartSaved, Commit, XInv, StartsClean, Up, Alive
  <2>2. disk[t] = lock.prev /\ Changes("start", lock.prev, tasks[t])
    BY <1>0, <1>5, <2>1 DEF IInv, OInv, LedgerAgrees, SaveChanges, TypeOK, Alive, StartSaved, Commit
  <2>3. Unstarted(t) /\ ~Unstarted(t)'
    BY <1>1, <2>2 DEF Unstarted, Changes, Absent
  <2>4. Dormant(t)
    BY <2>3 DEF XInv, DriversAreDurable
  <2>5. ~HasRun(t)' /\ Untouched(t)'
    BY <1>1, <1>3, <2>4 DEF Dormant, Untouched, HasRun
  <2>6. OneDriver(t)' /\ ~Displaced(t)'
    BY <2>5 DEF HasRun, Untouched, OneDriver, Live, Displaced
  <2> QED BY <2>1, <2>3, <2>5, <2>6 DEF Kept, Chain, HasRun, Up
<1> QED BY <1>4, <1>5

\* The start of a reconciliation lists active tasks only, of a process that
\* has started nothing yet (initialize).
LEMMA BeginRecoveryKeeps ==
  ASSUME IInv, OInv, XInv, BeginRecovery, NEW t \in Task
  PROVE  Kept(t)
<1>0. /\ boot.phase = "loaded" /\ Free
      /\ UNCHANGED <<disk, runs, active, rec, timers, pump>>
      /\ boot'.list = [u \in Task |-> IF Active(u) THEN tasks[u] ELSE AbsentTask]
  BY DEF BeginRecovery, core, exec, queue
<1>1. Untouched(t) /\ Untouched(t)' /\ timers.start[t] = 0 /\ pump.admitted = {} /\ ~Up /\ Alive
  BY <1>0 DEF XInv, StartsClean, Untouched, HasRun, Up, Alive
<1>2. OneDriver(t)' /\ ~Displaced(t)'
  BY <1>0, <1>1 DEF Untouched, HasRun, OneDriver, Live, Displaced
<1>3. Unstarted(t) => ~Active(t)
  BY <1>0, <1>1, MapFollows DEF Free, Saving, SaveOps
<1>4. ~Active(t) => ~Listed(t)'
  BY <1>0 DEF Listed, AbsentTask
<1>5. Unstarted(t)' => Dormant(t)'
  BY <1>0, <1>1, <1>3, <1>4 DEF Unstarted, Dormant
<1>6. Chain(t)'
  BY <1>0, <1>1, <1>2 DEF Chain
<1> QED BY <1>0, <1>1, <1>2, <1>5, <1>6 DEF Kept, Untouched, HasRun

\* Activation arms starting leases of tasks with one driver.
LEMMA ActivateKeeps ==
  ASSUME IInv, OInv, XInv, Activate, NEW t \in Task
  PROVE  Kept(t)
<1>0. /\ boot.phase = "recovering" /\ ~Listed(t)
      /\ UNCHANGED <<disk, runs, active, rec, pump>> /\ boot' = [boot EXCEPT !.phase = "up"]
  BY DEF Activate, core, exec
<1>1. /\ timers'.start = [u \in Task |-> IF tasks[u].status = "starting" THEN tasks[u].lease ELSE 0]
      /\ timers'.retry = timers.retry
  BY DEF Activate, IInv, TypeOK, TimerRec
<1>2. ~Up /\ Alive /\ OneDriver(t) /\ ~Displaced(t) /\ pump.admitted = {}
  BY <1>0 DEF XInv, StartsClean, Up, Alive
<1>3. OneDriver(t)' /\ ~Displaced(t)' /\ ~Listed(t)'
  BY <1>0, <1>1, <1>2 DEF OneDriver, Live, Displaced, Listed, IInv, TypeOK, BootRec
<1>4. Chain(t)'
  BY <1>0, <1>2, <1>3 DEF Chain
<1>5. Unstarted(t) => ~Active(t)
  BY <1>2, MapFollows DEF XInv, StartsClean
<1>6. Unstarted(t)' => Dormant(t)'
  BY <1>0, <1>1, <1>2, <1>3, <1>5 DEF XInv, DriversAreDurable, Unstarted, Dormant, Untouched, HasRun,
     Active, ActiveStatus
<1> QED BY <1>0, <1>3, <1>4, <1>6 DEF Kept, XInv, DriversAreDurable

\* A dead process has no drivers.
LEMMA CrashKeeps ==
  ASSUME Crash, NEW t \in Task
  PROVE  Kept(t)
<1>1. \A r \in Run : runs'[r].pc = "idle"
  BY DEF Crash, Restarted, IdleRun
<1>2. rec'[t].pc = "none" /\ timers'.start[t] = 0 /\ timers'.retry[t] = 0 /\ pump'.admitted = {} /\ ~Listed(t)'
  BY DEF Crash, Restarted, NoRec, NoTimers, IdlePump, Listed, AtPhase, AbsentTask
<1> QED BY <1>1, <1>2 DEF Kept, Chain, Dormant, Untouched, HasRun, OneDriver, Live, Displaced

\* A starting lease that runs out displaces the call of a task that had one
\* driver, and its reconciliation is the only one then (handleStartingLease).
LEMMA StartLeaseKeeps ==
  ASSUME IInv, XInv, NEW u \in Task, StartLeaseFires(u), NEW t \in Task, FileKeeps(t)
  PROVE  Kept(t)
<1>0. TypeOK
  BY DEF IInv
<1>1. /\ UNCHANGED <<disk, boot, pump>> /\ rec[u].pc = "none" /\ timers.start[u] # 0
      /\ timers'.start = [timers.start EXCEPT ![u] = 0] /\ timers'.retry = timers.retry
  BY <1>0 DEF StartLeaseFires, core, queue, TypeOK, TimerRec
<1>2. CASE UNCHANGED <<runs, active, rec>>
  <2>1. Shrinks(t)
    BY <1>0, <1>1, <1>2 DEF Shrinks, Displaced, Listed, TypeOK, TimerRec
  <2> QED BY <2>1, ShrinkKeeps
<1>3. CASE /\ active' = [active EXCEPT ![u] = NoRun]
           /\ runs' = [r \in Run |-> IF runs[r].id = u THEN [runs[r] EXCEPT !.stale = TRUE] ELSE runs[r]]
           /\ rec' = [rec EXCEPT ![u] = Recovering(tasks[u], FALSE)]
  <2>1. \A r \in Run : runs'[r].pc = runs[r].pc /\ runs'[r].id = runs[r].id /\ runs'[r].lease = runs[r].lease
    BY <1>0, <1>3 DEF TypeOK, RunRec
  <2>2. \A r \in Run : IF runs[r].id = u THEN runs'[r].stale ELSE runs'[r] = runs[r]
    BY <1>0, <1>3 DEF TypeOK, RunRec
  <2>3. CASE t # u
    <3>1. active'[t] = active[t] /\ rec'[t] = rec[t] /\ timers'.start[t] = timers.start[t]
      BY <1>0, <1>1, <1>3, <2>3 DEF TypeOK, TimerRec
    <3>2. \A r \in Run : runs[r].id = t => runs'[r] = runs[r]
      BY <2>2, <2>3
    <3>3. Shrinks(t)
      BY <1>1, <2>1, <3>1, <3>2 DEF Shrinks, Displaced, Listed
    <3> QED BY <3>3, ShrinkKeeps
  <2>4. CASE t = u
    <3>1. ~Displaced(t) /\ OneDriver(t)
      BY <1>1, <2>4 DEF XInv, OneChain, Chain
    <3>2. Up
      BY <1>1, <2>4 DEF XInv, StartsClean
    <3>3. timers'.start[t] = 0
      BY <1>0, <1>1, <2>4 DEF TypeOK, TimerRec
    <3>4. \A r \in Run : ~Live(r, t)'
      BY <2>1, <2>2, <2>4 DEF Live
    <3>5. HasRun(t) => timers'.retry[t] = 0
      <4>1. HasRun(t) => \E r \in Run : Live(r, t)
        BY <3>1 DEF HasRun, Displaced, Live
      <4> QED BY <1>1, <3>1, <4>1 DEF OneDriver
    <3>6. HasRun(t) => OneDriver(t)'
      BY <3>4, <3>5 DEF OneDriver
    <3>7. Displaced(t)' => HasRun(t)
      BY <2>1 DEF Displaced, HasRun
    <3>8. ~Listed(t)' /\ (t \in pump'.admitted => ~HasRun(t))
      BY <1>1, <2>4, <3>2 DEF XInv, StartsClean, OneChain, Chain, Up, Listed, Untouched
    <3>9. Chain(t)'
      BY <3>3, <3>6, <3>7, <3>8 DEF Chain
    <3>10. ~Unstarted(t)'
      BY <1>1, <2>4 DEF FileKeeps, XInv, DriversAreDurable, Dormant
    <3>11. \A r \in Run : runs'[r].pc # "idle" /\ runs'[r].id = t => runs'[r].lease = disk'[t].lease
      BY <1>1, <2>1 DEF XInv, DriversAreDurable
    <3> QED BY <3>2, <3>9, <3>10, <3>11 DEF Kept, Up
  <2> QED BY <2>3, <2>4
<1> QED BY <1>2, <1>3 DEF StartLeaseFires, exec

\* A retry timer becomes a reconciliation, a reconciliation a retry timer, and
\* a listed task, of which nothing is under way, a reconciliation.
LEMMA RecoveryKeeps ==
  ASSUME IInv, XInv, NEW u \in Task, RetryFires(u) \/ ReconcileTransient(u) \/ RecoverNext(u),
         NEW t \in Task, FileKeeps(t)
  PROVE  Kept(t)
<1>0. TypeOK
  BY DEF IInv
<1>1. /\ UNCHANGED <<disk, pump, runs, active>>
      /\ \E new : rec' = rec \/ rec' = [rec EXCEPT ![u] = new]
      /\ \/ boot' = boot \/ (RecoverNext(u) /\ boot' = [boot EXCEPT !.list[u] = AbsentTask])
      /\ timers'.start = timers.start /\ \A v \in Task : v # u => timers'.retry[v] = timers.retry[v]
  <2>1. CASE RetryFires(u)
    BY <1>0, <2>1 DEF RetryFires, core, queue, exec, TypeOK, TimerRec
  <2>2. CASE ReconcileTransient(u)
    BY <1>0, <2>2 DEF ReconcileTransient, core, queue, exec, TypeOK, TimerRec
  <2>3. CASE RecoverNext(u)
    BY <1>0, <2>3 DEF RecoverNext, core, queue, exec, TypeOK, TimerRec
  <2> QED BY <2>1, <2>2, <2>3
<1>2. \A v \in Task : Listed(v)' => Listed(v)
  BY <1>0, <1>1 DEF Listed, TypeOK, BootRec, AbsentTask
<1>3. CASE t # u
  <2>1. rec'[t] = rec[t]
    BY <1>0, <1>1, <1>3 DEF TypeOK
  <2>2. Displaced(t)' => Displaced(t)
    BY <1>1 DEF Displaced
  <2>3. Shrinks(t)
    BY <1>1, <1>2, <1>3, <2>1, <2>2 DEF Shrinks
  <2> QED BY <2>3, ShrinkKeeps
<1>4. CASE t = u
  <2>1. ASSUME OneDriver(t) => OneDriver(t)', ~Unstarted(t), boot.phase \notin {"down", "loaded"},
               ~(Listed(t)' \/ (t \in pump.admitted /\ timers.start[t] # 0))
        PROVE  Kept(t)
    <3>1. Displaced(t)' => Displaced(t)
      BY <1>1 DEF Displaced
    <3>2. Chain(t)'
      BY <1>1, <1>2, <2>1, <3>1 DEF Chain, XInv, OneChain
    <3>3. ~Unstarted(t)'
      BY <2>1 DEF FileKeeps
    <3>4. \A r \in Run : runs'[r].pc # "idle" /\ runs'[r].id = t => runs'[r].lease = disk'[t].lease
      BY <1>1 DEF XInv, DriversAreDurable
    <3>5. ~Up => OneDriver(t)' /\ ~Displaced(t)'
      BY <2>1, <3>1 DEF XInv, StartsClean
    <3> QED BY <2>1, <3>2, <3>3, <3>4, <3>5 DEF Kept
  <2>2. CASE RetryFires(u)
    <3>1. timers.retry[t] # 0 /\ timers'.retry[t] = 0
      BY <1>0, <1>4, <2>2 DEF RetryFires, TypeOK, TimerRec
    <3>2. ~Untouched(t)
      BY <3>1 DEF Untouched
    <3>3. OneDriver(t) => OneDriver(t)'
      BY <1>1, <3>1 DEF OneDriver, Live
    <3> QED BY <1>2, <2>1, <3>2, <3>3 DEF XInv, StartsClean, DriversAreDurable, Dormant, OneChain, Chain
  <2>3. CASE ReconcileTransient(u)
    <3>1. rec[t].pc # "none" /\ rec'[t].pc = "none"
      BY <1>0, <1>4, <2>3 DEF ReconcileTransient, TypeOK, NoRec
    <3>2. ~Untouched(t)
      BY <3>1 DEF Untouched
    <3>3. OneDriver(t) => OneDriver(t)'
      BY <1>1, <3>1 DEF OneDriver, Live
    <3> QED BY <1>2, <2>1, <3>2, <3>3 DEF XInv, StartsClean, DriversAreDurable, Dormant, OneChain, Chain
  <2>4. CASE RecoverNext(u)
    <3>1. boot.phase = "recovering" /\ Listed(t) /\ timers' = timers
          /\ boot' = [boot EXCEPT !.list[t] = AbsentTask]
      BY <1>4, <2>4 DEF RecoverNext
    <3>2. Untouched(t) /\ ~Unstarted(t)
      BY <3>1 DEF XInv, OneChain, Chain, DriversAreDurable, Dormant
    <3>3. OneDriver(t) => OneDriver(t)'
      BY <1>1, <3>1, <3>2 DEF OneDriver, Live, Untouched, HasRun
    <3>4. ~Listed(t)' /\ t \notin pump.admitted
      BY <1>0, <3>1 DEF Listed, TypeOK, BootRec, AbsentTask, XInv, StartsClean, Up
    <3> QED BY <2>1, <3>1, <3>2, <3>3, <3>4
  <2> QED BY <2>2, <2>3, <2>4
<1> QED BY <1>3, <1>4

\* Every step keeps the drivers of every task.
LEMMA DriversKept ==
  ASSUME IInv, OInv, XInv, Next, LateSaveError = FALSE, NEW t \in Task
  PROVE  Kept(t)
<1>1. TypeOK /\ FileKeeps(t)
  BY FileMoves DEF IInv, FileKeeps
<1>2. ASSUME Shrinks(t)
      PROVE  Kept(t)
  BY <1>1, <1>2, ShrinkKeeps
<1>3. CASE NothingNew /\ RunsKeep
  BY <1>1, <1>2, <1>3, RunsKeepShrinks
<1>4. CASE NothingNew /\ \E r \in Run : runs[r].pc # "idle" /\ EndRun(r)
  BY <1>1, <1>2, <1>4, EndRunShrinks
<1>5. CASE NothingNew /\ \E ts \in SUBSET Task : Launches(ts)
  BY <1>1, <1>5, LaunchKeeps
<1>6. CASE StartSaved \/ BeginRecovery \/ Activate \/ Crash
  BY <1>1, <1>6, StartSavedKeeps, BeginRecoveryKeeps, ActivateKeeps, CrashKeeps
<1>7. CASE \E u \in Task : StartLeaseFires(u) \/ RetryFires(u) \/ ReconcileTransient(u) \/ RecoverNext(u)
  BY <1>1, <1>7, StartLeaseKeeps, RecoveryKeeps
<1> QED BY <1>3, <1>4, <1>5, <1>6, <1>7, DriverSteps DEF DriverMoves

-----------------------------------------------------------------------------
(* Starting up *)

\* The phase only changes with a crash and along the start-up.
LEMMA PhaseMoves ==
  ASSUME IInv, OInv, XInv, Next, ~InitialisationFails
  PROVE  boot' = boot \/ Crash \/ Load \/ BeginRecovery \/ Activate \/ \E t \in Task : RecoverNext(t)
<1>1. ASSUME NEW r \in Run, RunNext(r)
      PROVE  boot' = boot
  BY <1>1 DEF RunNext, RunCheck, RunChild, RunAccept, RunProgress, RunReturn, RunSettle
<1>2. ASSUME NEW t \in Task, CancelNext(t)
      PROVE  boot' = boot
  BY <1>2 DEF CancelNext, CancelCall, DeadlineFires, DeadlineRead, Claim, Withdraw, AbortOutcome,
     CancelSettle, Release, Replay
<1>3. ASSUME NEW t \in Task, RecNext(t)
      PROVE  boot' = boot \/ RecoverNext(t)
  BY <1>3 DEF RecNext, StartLeaseFires, RetryFires, ReconcileTerminal, ReconcileLive, ReconcileRelaunch,
     ReconcileTransient, RecAccept, RecObserve, RecFinish
<1>4. ASSUME PumpNext
      PROVE  boot' = boot
  BY <1>4 DEF PumpNext, PumpBegin, PumpHold, PumpStart, PumpEnd, AdmissionRetry
<1>5. ASSUME Saved
      PROVE  boot' = boot
  BY <1>5 DEF Saved, SubmitSaved, HoldSaved, StartSaved, ChildSaved, AcceptSaved, RenewSaved,
     SettleSaved, WithdrawSaved
<1>6. ASSUME SaveError
      PROVE  boot' = boot
  <2>1. CASE RecSaveFailed
    <3>1. lock.id \in Task
      BY <1>6 DEF SaveError, SaveFails, IInv, TypeOK
    <3>2. ~rec[lock.id].booting
      BY <2>1, <3>1 DEF RecSaveFailed, XInv, StartsClean, InitialisationFails, AtPhase
    <3> QED BY <2>1, <3>2 DEF RecSaveFailed
  <2> QED BY <1>6, <2>1 DEF SaveError, PumpSaveFailed, CallSaveFailed, RunSaveFailed, CancelSaveFailed
<1>7. ASSUME NEW t \in Task, Resubmit(t) \/ WaitForTask(t) \/ \E followUp \in BOOLEAN : Submit(t, followUp)
      PROVE  boot' = boot
  BY <1>7 DEF Resubmit, WaitForTask, Submit
<1> QED BY <1>1, <1>2, <1>3, <1>4, <1>5, <1>6, <1>7 DEF Next

\* A reconciliation counts towards the start-up when the start-up called it.
LEMMA BootingKept ==
  ASSUME TypeOK, Next, NEW u \in Task
  PROVE  ~rec[u].booting => ~rec'[u].booting \/ RecoverNext(u)
<1>1. CASE rec' = rec
  BY <1>1
<1>2. ASSUME NEW t \in Task, NEW new, rec' = [rec EXCEPT ![t] = new], ~new.booting \/ new.booting = rec[t].booting
      PROVE  ~rec[u].booting => ~rec'[u].booting
  <2>1. CASE t = u
    BY <1>2, <2>1 DEF TypeOK
  <2>2. CASE t # u
    BY <1>2, <2>2 DEF TypeOK
  <2> QED BY <2>1, <2>2
<1>3. ~NoRec.booting /\ \A snapshot : ~Recovering(snapshot, FALSE).booting
  BY DEF NoRec, Recovering
<1>4. ASSUME NEW t \in Task, NEW pc
      PROVE  [rec[t] EXCEPT !.pc = pc].booting = rec[t].booting
  <2>1. rec[t] \in RecRec
    BY DEF TypeOK
  <2> QED BY <2>1 DEF RecRec
<1>5. ASSUME NEW r \in Run, RunNext(r)
      PROVE  rec' = rec
  BY <1>5 DEF RunNext, RunCheck, RunChild, RunAccept, RunProgress, RunReturn, RunSettle
<1>6. ASSUME NEW t \in Task, CancelNext(t)
      PROVE  rec' = rec
  BY <1>6 DEF CancelNext, CancelCall, DeadlineFires, DeadlineRead, Claim, Withdraw, AbortOutcome,
     CancelSettle, Release, Replay
<1>7. ASSUME PumpNext
      PROVE  rec' = rec
  BY <1>7 DEF PumpNext, PumpBegin, PumpHold, PumpStart, PumpEnd, AdmissionRetry
<1>8. ASSUME NEW t \in Task, RecNext(t), t # u \/ ~RecoverNext(t)
      PROVE  ~rec[u].booting => ~rec'[u].booting
  <2>1. CASE StartLeaseFires(t) \/ RetryFires(t)
    BY <1>1, <1>2, <1>3, <2>1 DEF StartLeaseFires, RetryFires
  <2>2. CASE ReconcileRelaunch(t) \/ ReconcileTransient(t) \/ RecObserve(t)
    BY <1>2, <1>3, <2>2 DEF ReconcileRelaunch, ReconcileTransient, RecObserve
  <2>3. CASE ReconcileTerminal(t)
    <3>1. PICK res, pc : rec' = [rec EXCEPT ![t].res = res, ![t].pc = pc]
      BY <2>3 DEF ReconcileTerminal
    <3>2. rec'[u].booting = rec[u].booting
      BY <3>1 DEF TypeOK, RecRec
    <3> QED BY <3>2
  <2>4. CASE ReconcileLive(t) \/ RecAccept(t)
    <3>1. ASSUME rec' # rec
          PROVE  \E pc : rec' = [rec EXCEPT ![t] = [rec[t] EXCEPT !.pc = pc]]
      BY <2>4, <3>1 DEF ReconcileLive, RecAccept
    <3> QED BY <1>1, <1>2, <1>4, <3>1
  <2>5. CASE RecFinish(t)
    BY <1>1, <1>2, <1>3, <2>5 DEF RecFinish
  <2>6. CASE RecoverNext(t) /\ t # u
    BY <2>6 DEF RecoverNext, TypeOK
  <2> QED BY <1>8, <2>1, <2>2, <2>3, <2>4, <2>5, <2>6 DEF RecNext
<1>9. CASE Saved
  <2>1. lock.id \in Task
    BY <1>9 DEF Saved, SubmitSaved, HoldSaved, StartSaved, ChildSaved, AcceptSaved, RenewSaved,
       SettleSaved, WithdrawSaved, Commit, TypeOK, Saving, SaveOps
  <2>2. CASE AcceptSaved
    <3>1. ASSUME rec' # rec
          PROVE  \E pc : rec' = [rec EXCEPT ![lock.id] = [rec[lock.id] EXCEPT !.pc = pc]]
      BY <2>2, <3>1 DEF AcceptSaved
    <3> QED BY <1>1, <1>2, <1>4, <2>1, <3>1
  <2>3. CASE SettleSaved
    <3>1. rec' = rec \/ rec' = [rec EXCEPT ![lock.id] = NoRec]
      BY <2>3 DEF SettleSaved
    <3> QED BY <1>1, <1>2, <1>3, <2>1, <3>1
  <2> QED BY <1>1, <1>9, <2>2, <2>3 DEF Saved, SubmitSaved, HoldSaved, StartSaved, ChildSaved,
          RenewSaved, WithdrawSaved
<1>10. CASE SaveError
  <2>1. lock.id \in Task
    BY <1>10 DEF SaveError, SaveFails, TypeOK
  <2>2. CASE RecSaveFailed
    BY <1>2, <1>3, <2>1, <2>2 DEF RecSaveFailed
  <2> QED BY <1>1, <1>10, <2>2 DEF SaveError, PumpSaveFailed, CallSaveFailed, RunSaveFailed, CancelSaveFailed
<1>11. CASE Crash
  BY <1>3, <1>11 DEF Crash, Restarted
<1>12. CASE Load \/ BeginRecovery \/ Activate
  BY <1>1, <1>12 DEF Load, BeginRecovery, Activate
<1>13. ASSUME NEW t \in Task, Resubmit(t) \/ WaitForTask(t) \/ \E followUp \in BOOLEAN : Submit(t, followUp)
       PROVE  rec' = rec
  BY <1>13 DEF Resubmit, WaitForTask, Submit
<1> QED BY <1>1, <1>5, <1>6, <1>7, <1>8, <1>9, <1>10, <1>11, <1>12, <1>13 DEF Next

\* Only a claim, an answer and a deadline change a cancellation that is not
\* under way yet.
Unclaimed == \A t \in Task : cancel[t].pc \in {"none", "claim"}
NothingQueued ==
  /\ pumpDue = {} /\ ~timers.admission /\ lock.op \notin {"pump", "submit", "hold", "start"}

\* Before activation nothing is submitted, pumped or claimed.
LEMMA NotUpYet ==
  ASSUME IInv, OInv, XInv, Next, ~Up
  PROVE  Activate \/ (Unclaimed' /\ NothingQueued')
<1>0. TypeOK /\ Unclaimed /\ NothingQueued /\ \A t \in Task : timers.start[t] = 0
  BY DEF IInv, XInv, StartsClean, Unclaimed, NothingQueued
<1>1. ASSUME cancel' = cancel, UNCHANGED <<pumpDue, timers>>,
             lock' = lock \/ lock'.op \notin {"pump", "submit", "hold", "start"}
      PROVE  Unclaimed' /\ NothingQueued'
  BY <1>0, <1>1 DEF Unclaimed, NothingQueued
<1>2. ASSUME NEW r \in Run, RunNext(r)
      PROVE  Unclaimed' /\ NothingQueued'
  <2>1. UNCHANGED <<pumpDue, timers>> /\ (lock' = lock \/ lock'.op \notin {"pump", "submit", "hold", "start"})
    BY <1>2 DEF RunNext, RunCheck, RunChild, RunAccept, RunProgress, RunReturn, RunSettle, BeginSave, core, queue
  <2>2. cancel' = cancel \/ Owned(runs[r].id)
    BY <1>2 DEF RunNext, RunCheck, RunChild, RunAccept, RunProgress, RunReturn, RunSettle, Defers
  <2>3. runs[r].id \in Task
    BY <1>0, <1>2 DEF RunNext, RunCheck, RunChild, RunAccept, RunProgress, RunReturn, RunSettle, TypeOK
  <2> QED BY <1>0, <1>1, <2>1, <2>2, <2>3 DEF Unclaimed, Owned
<1>3. ASSUME NEW t \in Task, CancelNext(t)
      PROVE  Unclaimed' /\ NothingQueued'
  <2>1. DeadlineFires(t) \/ DeadlineRead(t)
    BY <1>0, <1>3 DEF CancelNext, CancelCall, Claim, Withdraw, AbortOutcome, CancelSettle, Release, Replay, Unclaimed
  <2>2. pumpDue' = pumpDue /\ lock' = lock
    BY <2>1 DEF DeadlineFires, DeadlineRead, core, queue
  <2>3. timers'.admission = timers.admission
    BY <1>0, <2>1 DEF DeadlineFires, DeadlineRead, TypeOK, TimerRec
  <2>4. CASE DeadlineFires(t)
    BY <1>0, <2>2, <2>3, <2>4 DEF DeadlineFires, Unclaimed, NothingQueued
  <2>5. CASE DeadlineRead(t)
    <3>1. ASSUME NEW new, new.pc = "claim", cancel' = [cancel EXCEPT ![t] = new]
          PROVE  Unclaimed'
      BY <1>0, <3>1 DEF Unclaimed, TypeOK
    <3>2. PICK new : new = [NoCancel EXCEPT !.pc = "claim", !.kind = "timeout", !.due = fired[t],
                              !.term = IF tasks[t].status = "queued" THEN "aborted" ELSE "failed"]
      OBVIOUS
    <3>3. new.pc = "claim"
      BY <3>2 DEF NoCancel
    <3>4. cancel' = cancel \/ cancel' = [cancel EXCEPT ![t] = new]
      BY <2>5, <3>2 DEF DeadlineRead
    <3>5. Unclaimed'
      BY <1>0, <3>1, <3>3, <3>4 DEF Unclaimed
    <3> QED BY <1>0, <2>2, <2>3, <3>5 DEF NothingQueued
  <2> QED BY <2>1, <2>4, <2>5
<1>4. ASSUME NEW t \in Task, RecNext(t)
      PROVE  Unclaimed' /\ NothingQueued'
  <2>1. pumpDue' = pumpDue /\ (lock' = lock \/ lock'.op \notin {"pump", "submit", "hold", "start"})
    <3>1. CASE RecAccept(t) \/ RecFinish(t)
      BY <3>1 DEF RecAccept, RecFinish, BeginSave, core, queue
    <3>2. CASE ~(RecAccept(t) \/ RecFinish(t))
      BY <1>4, <3>2 DEF RecNext, StartLeaseFires, RetryFires, ReconcileTerminal, ReconcileLive,
         ReconcileRelaunch, ReconcileTransient, RecObserve, RecoverNext, core, queue
    <3> QED BY <3>1, <3>2
  <2>2. cancel' = cancel
    <3>1. ~Owned(t)
      BY <1>0 DEF Owned, Unclaimed
    <3>2. CASE RecFinish(t)
      BY <3>1, <3>2 DEF RecFinish, Defers
    <3> QED BY <1>4, <3>2 DEF RecNext, StartLeaseFires, RetryFires, ReconcileTerminal, ReconcileLive,
            ReconcileRelaunch, ReconcileTransient, RecAccept, RecObserve, RecoverNext
  <2>3. timers'.admission = timers.admission
    BY <1>0, <1>4 DEF RecNext, StartLeaseFires, RetryFires, ReconcileTerminal, ReconcileLive, ReconcileRelaunch,
       ReconcileTransient, RecAccept, RecObserve, RecFinish, RecoverNext, TypeOK, TimerRec
  <2> QED BY <1>0, <2>1, <2>2, <2>3 DEF Unclaimed, NothingQueued
<1>5. ~PumpNext
  BY <1>0 DEF PumpNext, PumpBegin, PumpHold, PumpStart, PumpEnd, AdmissionRetry, NothingQueued
<1>6. CASE Saved
  <2>1. ChildSaved \/ AcceptSaved \/ RenewSaved \/ SettleSaved
    BY <1>0, <1>6 DEF Saved, SubmitSaved, HoldSaved, StartSaved, WithdrawSaved, Commit, NothingQueued,
       OInv, OwnerWaits, Unclaimed, Saving, SaveOps, TypeOK
  <2>2. lock'.op = "free" /\ lock.id \in Task /\ Saving
    BY <1>0, <2>1 DEF ChildSaved, AcceptSaved, RenewSaved, SettleSaved, Commit, Unlocked, TypeOK, Saving, SaveOps
  <2>3. pumpDue' = pumpDue
    BY <2>1, <2>2 DEF ChildSaved, AcceptSaved, RenewSaved, SettleSaved, XInv, StartsClean, Up, Free, Saving,
       SaveOps, IInv, TypeOK, BootRec, queue
  <2>4. timers'.admission = timers.admission
    BY <1>0, <2>1 DEF ChildSaved, AcceptSaved, RenewSaved, SettleSaved, TimersCleared, TypeOK, TimerRec
  <2>5. lock.by # "owner"
    BY <1>0, <2>2 DEF OInv, OwnerWaits, Unclaimed
  <2>6. cancel' = cancel \/ cancel' = [cancel EXCEPT ![lock.id] = NoCancel]
    BY <2>1, <2>5 DEF ChildSaved, AcceptSaved, RenewSaved, SettleSaved
  <2>7. Unclaimed'
    BY <1>0, <2>2, <2>6 DEF Unclaimed, NoCancel, TypeOK
  <2> QED BY <1>0, <2>2, <2>3, <2>4, <2>7 DEF NothingQueued
<1>7. CASE SaveError
  <2>1. lock'.op = "free" /\ lock.id \in Task /\ Saving /\ ~PumpSaveFailed
    BY <1>0, <1>7 DEF SaveError, SaveFails, PumpSaveFailed, NothingQueued, Unlocked, TypeOK
  <2>2. UNCHANGED <<pumpDue, timers>>
    BY <1>7, <2>1 DEF SaveError, CallSaveFailed, RunSaveFailed, CancelSaveFailed, RecSaveFailed, queue
  <2>3. lock.by # "owner"
    BY <1>0, <2>1 DEF OInv, OwnerWaits, Unclaimed
  <2>4. \/ cancel' = cancel \/ cancel' = [cancel EXCEPT ![lock.id] = NoCancel]
        \/ cancel' = [t \in Task |-> IF cancel[t].pc = "claim" THEN NoCancel ELSE cancel[t]]
    BY <1>7, <2>1, <2>3 DEF SaveError, CallSaveFailed, RunSaveFailed, CancelSaveFailed, RecSaveFailed
  <2>5. Unclaimed'
    BY <1>0, <2>1, <2>4 DEF Unclaimed, NoCancel, TypeOK
  <2> QED BY <1>0, <2>1, <2>2, <2>5 DEF NothingQueued
<1>8. CASE Crash
  BY <1>8 DEF Crash, Restarted, Unlocked, NoCancel, NoTimers, Unclaimed, NothingQueued
<1>9. CASE Load \/ BeginRecovery
  BY <1>1, <1>9 DEF Load, BeginRecovery, core, queue
<1>10. ASSUME NEW t \in Task
       PROVE  ~Resubmit(t) /\ ~WaitForTask(t) /\ \A followUp \in BOOLEAN : ~Submit(t, followUp)
  BY DEF Resubmit, WaitForTask, Submit
<1> QED BY <1>2, <1>3, <1>4, <1>5, <1>6, <1>7, <1>8, <1>9, <1>10 DEF Next

\* Before the reconciliations no locked section has anything to save.
LEMMA LoadedIsFree ==
  ASSUME IInv, XInv, Next, boot.phase \in {"down", "loaded"}
  PROVE  Free'
<1>0. TypeOK /\ Free /\ ~Up /\ Unclaimed /\ NothingQueued
      /\ \A t \in Task : Untouched(t) /\ timers.start[t] = 0
  BY DEF IInv, XInv, StartsClean, Unclaimed, NothingQueued, Up
<1>1. \A r \in Run : ~RunNext(r)
  <2>1. \A r \in Run : runs[r].pc = "idle"
    BY <1>0 DEF TypeOK, Untouched, HasRun
  <2> QED BY <2>1 DEF RunNext, RunCheck, RunChild, RunAccept, RunProgress, RunReturn, RunSettle
<1>2. ASSUME NEW t \in Task, CancelNext(t)
      PROVE  lock' = lock
  BY <1>0, <1>2 DEF CancelNext, CancelCall, DeadlineFires, DeadlineRead, Claim, Withdraw, AbortOutcome,
     CancelSettle, Release, Replay, Unclaimed, core
<1>3. \A t \in Task : ~RecNext(t)
  BY <1>0 DEF Untouched, RecNext, StartLeaseFires, RetryFires, ReconcileTerminal, ReconcileLive, ReconcileRelaunch,
     ReconcileTransient, RecAccept, RecObserve, RecFinish, RecoverNext
<1>4. ~PumpNext
  BY <1>0 DEF PumpNext, PumpBegin, PumpHold, PumpStart, PumpEnd, AdmissionRetry, NothingQueued
<1>5. ~Saved /\ ~SaveError
  BY <1>0 DEF Saved, SubmitSaved, HoldSaved, StartSaved, ChildSaved, AcceptSaved, RenewSaved, SettleSaved,
     WithdrawSaved, Commit, SaveError, SaveFails, Saving, SaveOps, Free
<1>6. CASE Crash
  BY <1>6 DEF Crash, Restarted, Free, Unlocked
<1>7. CASE Load \/ BeginRecovery
  BY <1>0, <1>7 DEF Load, BeginRecovery, Free, core
<1>8. ~Activate /\ \A t \in Task : ~Resubmit(t) /\ ~WaitForTask(t) /\ \A followUp \in BOOLEAN : ~Submit(t, followUp)
  BY <1>0 DEF Activate, Resubmit, WaitForTask, Submit
<1> QED BY <1>0, <1>1, <1>2, <1>3, <1>4, <1>5, <1>6, <1>7, <1>8 DEF Next, Free

\* Every step of an initialisation that does not fail half way keeps the
\* start-up clean.
LEMMA StartsCleanKept ==
  ASSUME IInv, OInv, XInv, Next, LateSaveError = FALSE, ~InitialisationFails
  PROVE  StartsClean'
<1>0. TypeOK /\ \A t \in Task : Kept(t)
  BY DriversKept DEF IInv
<1>1. CASE Crash
  <2>1. ~Up' /\ boot'.phase = "down" /\ Free' /\ pumpDue' = {} /\ ~timers'.admission /\ pump'.admitted = {}
    BY <1>1 DEF Crash, Restarted, Up, AtPhase, Free, Unlocked, NoTimers, IdlePump
  <2>2. ASSUME NEW t \in Task
        PROVE  /\ cancel'[t].pc = "none" /\ timers'.start[t] = 0 /\ timers'.retry[t] = 0
               /\ rec'[t].pc = "none" /\ ~rec'[t].booting /\ ~Listed(t)'
    BY <1>1 DEF Crash, Restarted, NoCancel, NoTimers, NoRec, Listed, AtPhase, AbsentTask
  <2>3. \A r \in Run : runs'[r].pc = "idle"
    BY <1>1 DEF Crash, Restarted, IdleRun
  <2>4. \A t \in Task : Untouched(t)' /\ OneDriver(t)' /\ ~Displaced(t)'
    BY <2>2, <2>3 DEF Untouched, HasRun, OneDriver, Live, Displaced
  <2> QED BY <2>1, <2>2, <2>4 DEF StartsClean, Free
<1>2. CASE ~Crash
  <2>1. boot' = boot \/ Load \/ BeginRecovery \/ Activate \/ \E t \in Task : RecoverNext(t)
    BY <1>2, PhaseMoves
  <2>2. \/ boot'.phase = boot.phase \/ (boot.phase = "down" /\ boot'.phase = "loaded")
        \/ BeginRecovery \/ Activate
    <3>1. ASSUME NEW t \in Task, RecoverNext(t)
          PROVE  boot'.phase = boot.phase
      BY <1>0, <3>1 DEF RecoverNext, TypeOK, BootRec
    <3>2. Load => boot.phase = "down" /\ boot'.phase = "loaded"
      BY DEF Load, AtPhase
    <3> QED BY <2>1, <3>1, <3>2
  <2>3. BeginRecovery => boot.phase = "loaded" /\ boot'.phase = "recovering"
    BY DEF BeginRecovery
  <2>4. Activate => boot.phase = "recovering" /\ boot'.phase = "up"
    BY <1>0 DEF Activate, TypeOK, BootRec
  <2>5. ASSUME ~Up'
        PROVE  /\ pumpDue' = {} /\ ~timers'.admission /\ pump'.admitted = {}
               /\ lock'.op \notin {"pump", "submit", "hold", "start"}
               /\ \A t \in Task : /\ cancel'[t].pc \in {"none", "claim"} /\ timers'.start[t] = 0
                                  /\ OneDriver(t)' /\ ~Displaced(t)'
    <3>1. ~Up /\ ~Activate
      BY <2>2, <2>3, <2>4, <2>5 DEF Up
    <3>2. Unclaimed' /\ NothingQueued'
      BY <3>1, NotUpYet
    <3>3. \A t \in Task : OneDriver(t)' /\ ~Displaced(t)'
      BY <1>0, <3>1 DEF Kept
    <3>4. ~StartSaved
      BY <3>1 DEF StartSaved, Commit, XInv, StartsClean
    <3>5. pump'.admitted = {} /\ \A t \in Task : timers'.start[t] = 0
      <4>1. CASE NothingNew
        BY <3>1, <4>1 DEF NothingNew, XInv, StartsClean
      <4>2. CASE BeginRecovery
        BY <3>1, <4>2 DEF BeginRecovery, XInv, StartsClean, queue
      <4>3. ASSUME NEW u \in Task, StartLeaseFires(u) \/ RetryFires(u) \/ ReconcileTransient(u) \/ RecoverNext(u)
            PROVE  pump' = pump /\ timers'.start = timers.start
        BY <1>0, <3>1, <4>3 DEF StartLeaseFires, RetryFires, ReconcileTransient, RecoverNext, queue, TypeOK,
           TimerRec, XInv, StartsClean
      <4> QED BY <1>2, <3>1, <3>4, <4>1, <4>2, <4>3, DriverSteps DEF DriverMoves, XInv, StartsClean
    <3> QED BY <3>2, <3>3, <3>5 DEF Unclaimed, NothingQueued
  <2>6. ASSUME boot'.phase \in {"down", "loaded"}
        PROVE  Free' /\ \A t \in Task : Untouched(t)'
    <3>1. boot.phase \in {"down", "loaded"}
      BY <2>2, <2>3, <2>4, <2>6
    <3> QED BY <1>0, <3>1, LoadedIsFree DEF Kept
  <2>7. ASSUME NEW t \in Task, rec'[t].booting
        PROVE  boot'.phase = "recovering"
    <3>1. CASE RecoverNext(t)
      BY <1>0, <3>1 DEF RecoverNext, TypeOK, BootRec
    <3>2. CASE rec[t].booting
      <4>1. boot.phase = "recovering"
        BY <3>2 DEF XInv, StartsClean
      <4>2. ~Activate
        BY <3>2 DEF Activate, BootIdle
      <4> QED BY <2>2, <2>3, <4>1, <4>2
    <3> QED BY <1>0, <2>7, <3>1, <3>2, BootingKept
  <2>8. ASSUME NEW t \in Task, Listed(t)'
        PROVE  boot'.phase = "recovering"
    <3>1. CASE BeginRecovery
      BY <2>3, <3>1
    <3>2. CASE Listed(t) /\ ~Activate
      <4>1. boot.phase = "recovering"
        BY <3>2 DEF XInv, StartsClean
      <4> QED BY <2>2, <2>3, <3>2, <4>1
    <3>3. ~BeginRecovery => Listed(t)
      <4>1. CASE boot' = boot \/ Load
        BY <2>8, <4>1 DEF Load, Listed, AtPhase, AbsentTask
      <4>2. CASE Activate
        BY <1>0, <2>8, <4>2 DEF Activate, Listed, TypeOK, BootRec
      <4>3. CASE \E u \in Task : RecoverNext(u)
        BY <1>0, <2>8, <4>3 DEF RecoverNext, Listed, TypeOK, BootRec, AbsentTask
      <4> QED BY <2>1, <4>1, <4>2, <4>3
    <3>4. Activate => ~Listed(t)
      BY DEF Activate
    <3> QED BY <3>1, <3>2, <3>3, <3>4
  <2> QED BY <2>5, <2>6, <2>7, <2>8 DEF StartsClean
<1> QED BY <1>1, <1>2

\* A walk that is over keeps no admission.
LEMMA AdmitsKept ==
  ASSUME IInv, OInv, AdmitsWhileWalking, OwnerMoves
  PROVE  AdmitsWhileWalking'
<1> USE DEF AdmitsWhileWalking, PumpWalking
<1>1. CASE UNCHANGED <<lock, pump>>
  BY <1>1
<1>2. ASSUME NEW op \in SaveOps, NEW t \in Task, NEW by, Begins(op, t, by)
      PROVE  AdmitsWhileWalking'
  <2>1. lock'.op = op
    BY <1>2 DEF Begins, BeginSave
  <2> QED BY <1>2, <2>1 DEF Begins
<1>3. CASE Ends
  BY <1>3 DEF Ends, PumpHolds, Saving, SaveOps, Unlocked
<1>4. CASE SaveFails /\ pump' = IF PumpWalking THEN IdlePump ELSE pump
  BY <1>4 DEF IdlePump
<1>5. ASSUME NEW c \in pumpDue, PumpBegin(c)
      PROVE  AdmitsWhileWalking'
  BY <1>5 DEF PumpBegin, PumpHolds, Unlocked
<1>6. CASE lock.op = "pump" /\ UNCHANGED lock
  BY <1>6
<1>7. CASE pump' = IdlePump
  BY <1>7 DEF IdlePump
<1>8. CASE Crash \/ Load
  BY <1>1, <1>7, <1>8 DEF Crash, Restarted, Load, queue
<1> QED BY <1>1, <1>2, <1>3, <1>4, <1>5, <1>6, <1>7, <1>8 DEF OwnerMoves

\* A call that ends leaves its slot as it was before.
LEMMA SlotsKept ==
  ASSUME TypeOK, FreeSlots, DriverMoves
  PROVE  FreeSlots'
<1>1. CASE RunsKeep \/ runs' = runs
  BY <1>1 DEF RunsKeep, FreeSlots
<1>2. ASSUME NEW r \in Run, EndRun(r)
      PROVE  FreeSlots'
  BY <1>2 DEF EndRun, IdleRun, FreeSlots, TypeOK
<1>3. ASSUME NEW ts \in SUBSET Task, Launches(ts)
      PROVE  FreeSlots'
  BY <1>3, CallsStart DEF Launches, FreeSlots
<1>4. CASE Crash
  BY <1>4 DEF Crash, Restarted, IdleRun, FreeSlots
<1>5. ASSUME NEW t \in Task, StartLeaseFires(t)
      PROVE  FreeSlots'
  <2>1. CASE runs' = [r \in Run |-> IF runs[r].id = t THEN [runs[r] EXCEPT !.stale = TRUE] ELSE runs[r]]
    BY <2>1 DEF FreeSlots, TypeOK, RunRec
  <2> QED BY <1>1, <1>5, <2>1 DEF StartLeaseFires, exec
<1>6. CASE StartSaved \/ BeginRecovery \/ Activate \/ \E t \in Task : RetryFires(t) \/ ReconcileTransient(t) \/ RecoverNext(t)
  BY <1>1, <1>6 DEF StartSaved, BeginRecovery, Activate, RetryFires, ReconcileTransient, RecoverNext, exec
<1> QED BY <1>1, <1>2, <1>3, <1>4, <1>5, <1>6 DEF DriverMoves

\* Every step of an initialisation that does not fail half way keeps it.
LEMMA ExecutionStepHolds ==
  ASSUME IInv, OInv, XInv, Next, LateSaveError = FALSE, ~InitialisationFails
  PROVE  XInv'
<1>1. \A t \in Task : Kept(t)
  BY DriversKept
<1>2. DriversAreDurable' /\ OneChain'
  BY <1>1 DEF Kept, DriversAreDurable, OneChain
<1>3. AdmitsWhileWalking'
  BY OwnerSteps, AdmitsKept DEF XInv
<1>4. FreeSlots'
  BY DriverSteps, SlotsKept DEF IInv, XInv
<1> QED BY <1>2, <1>3, <1>4, StartsCleanKept DEF XInv

\* It holds before the first start.
LEMMA ExecutionInitHolds == Init => XInv
BY DEF Init, XInv, StartsClean, DriversAreDurable, OneChain, Chain, AdmitsWhileWalking, Dormant, Untouched,
   HasRun, OneDriver, Live, Displaced, FreeSlots, Listed, Up, Free, AtPhase, AbsentTask, Unlocked, IdlePump,
   IdleRun, NoCancel, NoTimers, NoRec

\* A step that changes nothing keeps it.
LEMMA ExecutionStutters ==
  ASSUME XInv, UNCHANGED vars
  PROVE  XInv'
<1> USE DEF vars, core, queue, exec
<1>1. StartsClean'
  BY DEF XInv, StartsClean, Untouched, HasRun, OneDriver, Live, Displaced, Listed, Up, Free
<1>2. DriversAreDurable'
  BY DEF XInv, DriversAreDurable, Unstarted, Dormant, Untouched, HasRun, Listed
<1>3. OneChain'
  BY DEF XInv, OneChain, Chain, Untouched, HasRun, OneDriver, Live, Displaced, Listed
<1>4. AdmitsWhileWalking' /\ FreeSlots'
  BY DEF XInv, AdmitsWhileWalking, PumpWalking, FreeSlots
<1> QED BY <1>1, <1>2, <1>3, <1>4 DEF XInv

\* The invariant of who may start an executor holds in every reachable state,
\* as long as no initialisation fails half way.
THEOREM ExecutionInvariance ==
  ASSUME LateSaveError = FALSE
  PROVE  Spec /\ [][~InitialisationFails]_vars => []XInv
<1>1. IInv /\ OInv /\ XInv /\ [Next]_vars /\ [~InitialisationFails]_vars => XInv'
  BY ExecutionStepHolds, ExecutionStutters
<1> QED BY <1>1, ExecutionInitHolds, Invariance, OwnersInvariance, PTL DEF Spec

\* No executor runs for an admission the file does not hold (pump, launchTask).
THEOREM ExecutionsAreDurable ==
  ASSUME LateSaveError = FALSE
  PROVE  Spec /\ [][~InitialisationFails]_vars => []ExecutionIsDurable
<1>1. IInv /\ XInv => ExecutionIsDurable
  BY DEF IInv, TypeOK, XInv, DriversAreDurable, Dormant, Untouched, HasRun, Unstarted, ExecutionIsDurable
<1> QED BY <1>1, Invariance, ExecutionInvariance, PTL

\* One task has one executor call that its starting lease has not displaced
\* (activeLaunches, handleStartingLease).
THEOREM ExecutionsAreSingle ==
  ASSUME LateSaveError = FALSE
  PROVE  Spec /\ [][~InitialisationFails]_vars => []OneLiveExecution
<1>1. ASSUME IInv, XInv, NEW q \in Run, NEW r \in Run, q # r, runs[q].pc # "idle", runs[q].id = runs[r].id
      PROVE  runs[q].stale \/ runs[r].stale
  <2>1. PICK t \in Task : t = runs[q].id
    BY <1>1 DEF IInv, TypeOK
  <2>a. runs[r].pc # "idle"
    BY <1>1, <2>1, SlotAssumption DEF XInv, FreeSlots
  <2>2. Displaced(t)
    BY <1>1, <2>1, <2>a DEF Displaced
  <2>3. OneDriver(t)
    BY <2>2, <1>1 DEF XInv, OneChain, Chain
  <2> QED BY <1>1, <2>1, <2>a, <2>3 DEF OneDriver, Live
<1>2. IInv /\ XInv => OneLiveExecution
  BY <1>1 DEF OneLiveExecution
<1> QED BY <1>2, Invariance, ExecutionInvariance, PTL

\* A step that starts an executor call launches a task.
LEMMA OnlyLaunchesStart ==
  ASSUME TypeOK, DriverMoves, NEW r \in Run, runs[r].pc = "idle", runs'[r].pc # "idle"
  PROVE  \E ts \in SUBSET Task : Launches(ts)
<1>1. ASSUME NEW q \in Run, EndRun(q)
      PROVE  FALSE
  BY <1>1 DEF EndRun, IdleRun, TypeOK
<1>2. ~Crash
  BY DEF Crash, Restarted, IdleRun
<1>3. ASSUME NEW t \in Task, StartLeaseFires(t)
      PROVE  FALSE
  <2>1. CASE runs' = [q \in Run |-> IF runs[q].id = t THEN [runs[q] EXCEPT !.stale = TRUE] ELSE runs[q]]
    BY <2>1 DEF TypeOK, RunRec
  <2> QED BY <1>3, <2>1 DEF StartLeaseFires, exec
<1>4. runs' # runs
  OBVIOUS
<1>5. ~RunsKeep
  BY DEF RunsKeep
<1> QED BY <1>1, <1>2, <1>3, <1>4, <1>5 DEF DriverMoves, StartSaved, BeginRecovery, Activate, RetryFires,
        ReconcileTransient, RecoverNext, exec

\* An executor is only called for a task that is active in the file, under its
\* current lease (pump, launchTask, observeRecoveredTask).
THEOREM ExecutorsStartLive ==
  ASSUME LateSaveError = FALSE
  PROVE  Spec /\ [][~InitialisationFails]_vars => StartsUnderLiveLease
<1>1. ASSUME IInv, OInv, XInv, Next, NEW r \in Run, runs[r].pc = "idle", runs'[r].pc # "idle"
      PROVE  disk'[runs'[r].id].status \in ActiveStatus /\ disk'[runs'[r].id].lease = runs'[r].lease
  <2>1. DriverMoves
    BY <1>1, DriverSteps
  <2>2. PICK ts \in SUBSET Task : Launches(ts)
    BY <1>1, <2>1, OnlyLaunchesStart DEF IInv
  <2>3. PICK t \in ts : runs'[r].id = t
    BY <1>1, <2>2, CallsStart DEF IInv, Launches
  <2>4. Open(t) /\ (rec[t].pc # "none" \/ t \in pump.admitted)
    BY <2>2 DEF Launches
  <2>5. ~Unstarted(t) /\ ~Unstarted(t)' /\ Alive
    BY <1>1, <2>4, FileMoves DEF IInv, Quiet, XInv, StartsClean, DriversAreDurable, Dormant, Untouched, Alive, Up
  <2>6. runs'[r].lease = disk'[t].lease
    BY <1>1, <2>3, DriversKept DEF Kept
  <2>7. disk[t].status \in TaskStatuses /\ tasks[t].status \in TaskStatuses
    BY <1>1 DEF IInv, TypeOK, TaskRec
  <2>8. ~IsTerminal(tasks[t].status) /\ ~IsTerminal(disk[t].status)
    BY <1>1, <2>4, <2>5 DEF Open, Ended, IInv, TypeOK, LedgerAgrees, SaveIsLegal, Alive
  <2>9. disk' = disk \/ disk' = tasks
    BY <1>1, DiskStep
  <2>10. disk'[t].status \in ActiveStatus
    BY <2>5, <2>7, <2>8, <2>9 DEF Unstarted, TaskStatuses, IsTerminal
  <2> QED BY <2>3, <2>6, <2>10
<1>2. IInv /\ OInv /\ XInv /\ [Next]_vars =>
        [\A r \in Run : runs[r].pc = "idle" /\ runs'[r].pc # "idle" =>
           LET d == disk'[runs'[r].id] IN d.status \in ActiveStatus /\ d.lease = runs'[r].lease]_vars
  BY <1>1
<1> QED BY <1>2, Invariance, OwnersInvariance, ExecutionInvariance, PTL DEF Spec, StartsUnderLiveLease

-----------------------------------------------------------------------------
(* Registrations and the origin of a save *)

\* The launch of a task registers a call of it, unless it has an owner, and
\* leaves the calls in flight alone.
LEMMA LaunchRegisters ==
  ASSUME TypeOK, RegisteredRuns, NEW ts \in SUBSET Task, NEW kind \in {"launch", "observe"},
         StartRuns(ts, kind)
  PROVE  /\ RegisteredRuns'
         /\ \A t \in ts : Registered(t)' \/ Owned(t)
         /\ \A r \in Run : runs[r].pc # "idle" => runs'[r] = runs[r]
<1> DEFINE gated(t) == kind = "launch" /\ t \in Gated
           go == {t \in ts : ~Registered(t) /\ (kind = "launch" /\ ~gated(t) => ~Owned(t))}
           new(t) == [IdleRun EXCEPT !.pc = IF gated(t) THEN "checking" ELSE "executing",
                                     !.id = t, !.lease = tasks[t].lease, !.kind = kind]
<1>1. PICK slot \in [go -> {r \in Run : runs[r].pc = "idle"}] :
        /\ \A t, u \in go : slot[t] = slot[u] => t = u
        /\ active' = [t \in Task |-> IF t \in go THEN slot[t] ELSE active[t]]
        /\ runs' = [r \in Run |-> IF \E t \in go : slot[t] = r
                                  THEN new(CHOOSE u \in go : slot[u] = r) ELSE runs[r]]
  BY DEF StartRuns
<1>2. \A t : new(t).pc # "idle" /\ new(t).id = t
  BY DEF IdleRun
<1>3. \A t \in go : t \in Task
  OBVIOUS
<1>4. \A t \in ts : t \in go \/ Registered(t) \/ Owned(t)
  OBVIOUS
<1> HIDE DEF new, go, gated
<1>5. ASSUME NEW t \in go
      PROVE  active'[t] = slot[t] /\ slot[t] \in Run /\ runs'[slot[t]] = new(t)
  <2>1. slot[t] \in Run /\ active'[t] = slot[t]
    BY <1>1, <1>3
  <2>2. PICK u : u = CHOOSE v \in go : slot[v] = slot[t]
    OBVIOUS
  <2>3. u \in go /\ slot[u] = slot[t]
    BY <2>2
  <2>4. u = t
    BY <1>1, <2>3
  <2>5. runs'[slot[t]] = new(u)
    BY <1>1, <2>1, <2>2
  <2> QED BY <2>1, <2>4, <2>5
<1>6. ASSUME NEW r \in Run, runs[r].pc # "idle"
      PROVE  runs'[r] = runs[r]
  <2>1. ~\E t \in go : slot[t] = r
    BY <1>1, <1>6
  <2> QED BY <1>1, <2>1
<1>7. \A t \in Task : t \notin go => active'[t] = active[t]
  BY <1>1
<1>8. NoRun \notin Run
  BY SlotAssumption
<1>9. ASSUME NEW t \in Task, Registered(t)'
      PROVE  runs'[active'[t]].pc # "idle" /\ runs'[active'[t]].id = t
  <2>1. CASE t \in go
    BY <1>2, <1>5, <2>1
  <2>2. CASE t \notin go
    <3>1. active'[t] = active[t] /\ active[t] \in Run
      BY <1>7, <1>9, <2>2 DEF Registered, TypeOK
    <3>2. runs[active[t]].pc # "idle" /\ runs[active[t]].id = t
      BY <1>9, <3>1 DEF RegisteredRuns, Registered
    <3> QED BY <1>6, <3>1, <3>2
  <2> QED BY <2>1, <2>2
<1>10. ASSUME NEW t \in ts, t \in go \/ Registered(t)
       PROVE  Registered(t)'
  BY <1>5, <1>7, <1>8, <1>10 DEF Registered
<1> QED BY <1>4, <1>6, <1>9, <1>10 DEF RegisteredRuns

\* A call stays that of its task until it ends.
LEMMA CallsKeepTheirTask ==
  ASSUME IInv, OInv, Next, NEW r \in Run, runs[r].pc # "idle"
  PROVE  runs'[r].pc = "idle" \/ runs'[r].id = runs[r].id
<1>0. TypeOK
  BY DEF IInv
<1>1. CASE RunsKeep
  BY <1>1 DEF RunsKeep
<1>2. ASSUME NEW q \in Run, EndRun(q)
      PROVE  runs'[r].pc = "idle" \/ runs'[r].id = runs[r].id
  BY <1>0, <1>2, EndRunEnds
<1>3. ASSUME NEW ts \in SUBSET Task, Launches(ts)
      PROVE  runs'[r] = runs[r]
  BY <1>0, <1>3, CallsStart DEF Launches
<1>4. CASE Crash
  BY <1>4 DEF Crash, Restarted, IdleRun
<1>5. ASSUME NEW t \in Task, StartLeaseFires(t)
      PROVE  runs'[r].id = runs[r].id
  <2>1. CASE runs' = [q \in Run |-> IF runs[q].id = t THEN [runs[q] EXCEPT !.stale = TRUE] ELSE runs[q]]
    BY <1>0, <2>1 DEF TypeOK, RunRec
  <2> QED BY <1>5, <2>1 DEF StartLeaseFires, exec
<1>6. CASE StartSaved \/ BeginRecovery \/ Activate \/ \E t \in Task : RetryFires(t) \/ ReconcileTransient(t) \/ RecoverNext(t)
  BY <1>6 DEF StartSaved, BeginRecovery, Activate, RetryFires, ReconcileTransient, RecoverNext, exec
<1> QED BY <1>1, <1>2, <1>3, <1>4, <1>5, <1>6, DriverSteps DEF DriverMoves

\* Every step keeps the registrations those of their tasks.
LEMMA RegisteredRunsKept ==
  ASSUME IInv, OInv, RegisteredRuns, Next
  PROVE  RegisteredRuns'
<1>0. TypeOK
  BY DEF IInv
<1>1. CASE RunsKeep
  <2>1. ASSUME NEW t \in Task, Registered(t)'
        PROVE  runs'[active'[t]].pc # "idle" /\ runs'[active'[t]].id = t
    <3>1. active'[t] = active[t] /\ active[t] \in Run
      BY <1>0, <1>1, <2>1 DEF RunsKeep, Registered, TypeOK
    <3>2. runs[active[t]].pc # "idle" /\ runs[active[t]].id = t
      BY <2>1, <3>1 DEF RegisteredRuns, Registered
    <3> QED BY <1>1, <3>1, <3>2 DEF RunsKeep
  <2> QED BY <2>1 DEF RegisteredRuns
<1>2. ASSUME NEW q \in Run, runs[q].pc # "idle", EndRun(q)
      PROVE  RegisteredRuns'
  <2>1. ASSUME NEW t \in Task, Registered(t)'
        PROVE  runs'[active'[t]].pc # "idle" /\ runs'[active'[t]].id = t
    <3>1. t # runs[q].id /\ active'[t] = active[t] /\ active[t] \in Run
      BY <1>0, <1>2, <2>1 DEF EndRun, Registered, TypeOK
    <3>2. runs[active[t]].pc # "idle" /\ runs[active[t]].id = t
      BY <2>1, <3>1 DEF RegisteredRuns, Registered
    <3>3. runs'[active[t]] = runs[active[t]]
      BY <1>0, <1>2, <3>1, <3>2 DEF EndRun, TypeOK
    <3> QED BY <3>1, <3>2, <3>3
  <2> QED BY <2>1 DEF RegisteredRuns
<1>3. ASSUME NEW ts \in SUBSET Task, Launches(ts)
      PROVE  RegisteredRuns'
  BY <1>0, <1>3, LaunchRegisters DEF Launches
<1>4. CASE Crash
  BY <1>4 DEF Crash, Restarted, RegisteredRuns, Registered
<1>5. CASE UNCHANGED exec
  BY <1>5 DEF RegisteredRuns, Registered, exec
<1>6. ASSUME NEW u \in Task, StartLeaseFires(u), ~UNCHANGED exec
      PROVE  RegisteredRuns'
  <2>1. /\ active' = [active EXCEPT ![u] = NoRun]
        /\ runs' = [q \in Run |-> IF runs[q].id = u THEN [runs[q] EXCEPT !.stale = TRUE] ELSE runs[q]]
    BY <1>6 DEF StartLeaseFires
  <2>2. \A q \in Run : runs'[q].pc = runs[q].pc /\ runs'[q].id = runs[q].id
    BY <1>0, <2>1 DEF TypeOK, RunRec
  <2>3. \A t \in Task : Registered(t)' => active'[t] = active[t] /\ active[t] \in Run
    BY <1>0, <2>1 DEF Registered, TypeOK
  <2> QED BY <2>2, <2>3 DEF RegisteredRuns, Registered
<1>7. CASE StartSaved \/ BeginRecovery \/ Activate \/ \E t \in Task : RetryFires(t) \/ ReconcileTransient(t) \/ RecoverNext(t)
  BY <1>5, <1>7 DEF StartSaved, BeginRecovery, Activate, RetryFires, ReconcileTransient, RecoverNext
<1> QED BY <1>1, <1>2, <1>3, <1>4, <1>5, <1>6, <1>7, DriverSteps DEF DriverMoves

\* A settlement that commits is of a task that was active.
LEMMA SettlesActive ==
  ASSUME TypeOK, NEW t \in Task, NEW l, Settles(t, l)
  PROVE  Active(t) /\ tasks[t].lease = l
<1>1. tasks[t].status \in TaskStatuses
  BY DEF TypeOK, TaskRec
<1> QED BY <1>1 DEF Settles, Settleable, Open, Known, Ended, IsTerminal, Active, TaskStatuses

\* Every step keeps the origin of the pending save.
LEMMA SaveOriginsKept ==
  ASSUME IInv, IInv', OInv, SaveOrigins, Next
  PROVE  SaveOrigins'
<1>0. TypeOK /\ RunWaits
  BY DEF IInv
<1>1. CASE lock'.op \notin SaveOps
  BY <1>1 DEF SaveOrigins, Saving
<1>2. CASE UNCHANGED <<tasks, lock>>
  <2>1. ASSUME Saving, lock.by = "run"
        PROVE  runs'[lock.run].id = lock.id
    <3>1. lock.run \in Run /\ runs[lock.run].pc # "idle" /\ runs'[lock.run].pc # "idle"
      BY <1>2, <2>1 DEF IInv, RunWaits, Saving
    <3>2. runs[lock.run].id = lock.id
      BY <2>1 DEF SaveOrigins
    <3> QED BY <3>1, <3>2, CallsKeepTheirTask
  <2> QED BY <1>2, <2>1 DEF SaveOrigins, Saving
<1>3. ASSUME NEW op, NEW t \in Task, NEW next, NEW by, NEW r, BeginSave(op, t, next, by, r),
             op \in {"child", "accept", "renew"} => by \in {"run", "recover"},
             by = "run" => runs'[r].id = t,
             op = "start" => next.lease # 0,
             op \in {"hold", "child", "renew"} => next.status = tasks[t].status,
             op = "withdraw" => tasks[t].status = "queued",
             op = "settle" => Active(t)
      PROVE  SaveOrigins'
  <2>1. lock' = [op |-> op, id |-> t, prev |-> tasks[t], by |-> by, run |-> r] /\ tasks'[t] = next
    BY <1>0, <1>3 DEF BeginSave, TypeOK
  <2> QED BY <1>3, <2>1 DEF SaveOrigins, Active
<1>4. ASSUME NEW t \in Task, tasks[t] \in TaskRec
      PROVE  /\ [tasks[t] EXCEPT !.child = TRUE].status = tasks[t].status
             /\ [tasks[t] EXCEPT !.held = TRUE].status = tasks[t].status
             /\ [tasks[t] EXCEPT !.due = @ + 1].status = tasks[t].status
             /\ [tasks[t] EXCEPT !.status = "starting", !.lease = minted + 1, !.held = FALSE].lease = minted + 1
  BY <1>4 DEF TaskRec
<1>5. minted + 1 # 0 /\ \A t \in Task : tasks[t] \in TaskRec
  BY <1>0 DEF TypeOK
<1>6. ASSUME NEW r \in Run, RunNext(r)
      PROVE  SaveOrigins'
  <2>1. runs[r].pc # "idle" /\ runs[r].id \in Task
    BY <1>0, <1>6 DEF TypeOK, RunNext, RunCheck, RunChild, RunAccept, RunProgress, RunReturn, RunSettle
  <2>2. CASE RunChild(r)
    <3>1. runs'[r].id = runs[r].id
      BY <2>2 DEF RunChild, exec
    <3>2. BeginSave("child", runs[r].id, [tasks[runs[r].id] EXCEPT !.child = TRUE], "run", r)
      BY <2>2 DEF RunChild
    <3> QED BY <1>3, <1>4, <1>5, <2>1, <3>1, <3>2
  <2>3. CASE RunAccept(r)
    <3>1. runs'[r].id = runs[r].id
      BY <2>3 DEF RunAccept, exec
    <3>2. BeginSave("accept", runs[r].id, [tasks[runs[r].id] EXCEPT !.status = "running"], "run", r)
      BY <2>3 DEF RunAccept
    <3> QED BY <1>3, <2>1, <3>1, <3>2
  <2>4. CASE RunProgress(r)
    <3>1. runs'[r].id = runs[r].id
      BY <2>4 DEF RunProgress, exec
    <3>2. BeginSave("renew", runs[r].id, [tasks[runs[r].id] EXCEPT !.due = @ + 1], "run", r)
      BY <2>4 DEF RunProgress
    <3> QED BY <1>3, <1>4, <1>5, <2>1, <3>1, <3>2
  <2>5. CASE RunSettle(r) /\ ~UNCHANGED core
    <3>1. /\ Settles(runs[r].id, runs[r].lease) /\ runs' = [runs EXCEPT ![r].pc = "saving"]
          /\ BeginSave("settle", runs[r].id, Settled(runs[r].id, runs[r].res), "run", r)
      BY <2>5 DEF RunSettle
    <3>2. runs'[r].id = runs[r].id
      BY <1>0, <3>1 DEF TypeOK, RunRec
    <3>3. Active(runs[r].id)
      BY <1>0, <2>1, <3>1, SettlesActive
    <3> QED BY <1>3, <2>1, <3>1, <3>2, <3>3
  <2> QED BY <1>2, <1>6, <2>2, <2>3, <2>4, <2>5 DEF RunNext, RunCheck, RunReturn, core
<1>7. ASSUME NEW t \in Task, CancelNext(t)
      PROVE  SaveOrigins'
  <2>1. ASSUME Withdraw(t), ~UNCHANGED core
        PROVE  SaveOrigins'
    <3>1. /\ tasks[t].status = "queued"
          /\ BeginSave("withdraw", t, [tasks[t] EXCEPT !.status = "aborted", !.result = "aborted", !.held = FALSE],
                       "owner", NoRun)
      BY <2>1 DEF Withdraw
    <3> QED BY <1>3, <3>1
  <2>2. ASSUME CancelSettle(t) \/ Replay(t), ~UNCHANGED core
        PROVE  SaveOrigins'
    <3>1. /\ Settles(t, cancel[t].lease)
          /\ \/ BeginSave("settle", t, Settled(t, cancel[t].term), "owner", NoRun)
             \/ BeginSave("settle", t, Settled(t, cancel[t].deferred), "replay", NoRun)
      BY <2>2 DEF CancelSettle, Replay
    <3>2. Active(t)
      BY <1>0, <3>1, SettlesActive
    <3> QED BY <1>3, <3>1, <3>2
  <2> QED BY <1>2, <1>7, <2>1, <2>2 DEF CancelNext, CancelCall, DeadlineFires, DeadlineRead, Claim,
          AbortOutcome, Release, core
<1>8. ASSUME NEW t \in Task, RecNext(t)
      PROVE  SaveOrigins'
  <2>1. ASSUME RecAccept(t), ~UNCHANGED core
        PROVE  SaveOrigins'
    <3>1. BeginSave("accept", t, [tasks[t] EXCEPT !.status = "running"], "recover", NoRun)
      BY <2>1 DEF RecAccept
    <3> QED BY <1>3, <3>1
  <2>2. ASSUME RecFinish(t), ~UNCHANGED core
        PROVE  SaveOrigins'
    <3>1. /\ Settles(t, rec[t].lease)
          /\ BeginSave("settle", t, Settled(t, rec[t].res), "recover", NoRun)
      BY <2>2 DEF RecFinish
    <3>2. Active(t)
      BY <1>0, <3>1, SettlesActive
    <3> QED BY <1>3, <3>1, <3>2
  <2> QED BY <1>2, <1>8, <2>1, <2>2 DEF RecNext, StartLeaseFires, RetryFires, ReconcileTerminal,
          ReconcileLive, ReconcileRelaunch, ReconcileTransient, RecObserve, RecoverNext, core
<1>9. CASE PumpNext
  <2>1. ASSUME NEW t \in Task, PumpHold(t), ~UNCHANGED core
        PROVE  SaveOrigins'
    <3>1. PICK next : next = [tasks[t] EXCEPT !.held = TRUE]
      OBVIOUS
    <3>2. BeginSave("hold", t, next, "host", NoRun)
      BY <2>1, <3>1 DEF PumpHold
    <3>3. next.status = tasks[t].status
      BY <1>4, <1>5, <3>1
    <3> QED BY <1>3, <3>2, <3>3
  <2>2. ASSUME NEW t \in Task, PumpStart(t)
        PROVE  SaveOrigins'
    <3>1. PICK next : next = [tasks[t] EXCEPT !.status = "starting", !.lease = minted + 1, !.held = FALSE]
      OBVIOUS
    <3>2. BeginSave("start", t, next, "host", NoRun)
      BY <2>2, <3>1 DEF PumpStart
    <3>3. next.lease # 0
      BY <1>4, <1>5, <3>1
    <3> QED BY <1>3, <3>2, <3>3
  <2>3. ASSUME PumpEnd \/ \E c \in pumpDue : PumpBegin(c)
        PROVE  SaveOrigins'
    <3>1. lock' \in {Unlocked, PumpHolds}
      BY <2>3 DEF PumpEnd, PumpBegin
    <3> QED BY <1>1, <3>1 DEF Unlocked, PumpHolds, SaveOps
  <2> QED BY <1>2, <1>9, <2>1, <2>2, <2>3 DEF PumpNext, AdmissionRetry, core
<1>10. CASE Saved \/ SaveError \/ Crash
  BY <1>1, <1>10 DEF Saved, SubmitSaved, HoldSaved, StartSaved, ChildSaved, AcceptSaved, RenewSaved,
     SettleSaved, WithdrawSaved, SaveError, SaveFails, Crash, Restarted, Unlocked, PumpHolds, SaveOps
<1>11. CASE Load \/ BeginRecovery \/ Activate
  BY <1>0, <1>1, <1>2, <1>11 DEF Load, BeginRecovery, Activate, core, IInv, Quiet, Alive, Free, SaveOps
<1>12. ASSUME NEW t \in Task, Resubmit(t) \/ WaitForTask(t) \/ \E followUp \in BOOLEAN : Submit(t, followUp)
       PROVE  SaveOrigins'
  <2>1. ASSUME NEW followUp \in BOOLEAN, Submit(t, followUp)
        PROVE  SaveOrigins'
    <3>1. \E next : BeginSave("submit", t, next, "host", NoRun)
      BY <2>1 DEF Submit
    <3> QED BY <1>3, <3>1
  <2> QED BY <1>2, <1>12, <2>1 DEF Resubmit, WaitForTask, core
<1> QED BY <1>6, <1>7, <1>8, <1>9, <1>10, <1>11, <1>12 DEF Next

-----------------------------------------------------------------------------
(* Owners that are done *)

\* Between two locked sections the live map is the file.
LEMMA FreeMapIsFile ==
  ASSUME IInv, Free, Alive
  PROVE  disk = tasks
BY DEF IInv, LedgerAgrees, Free, Alive, Saving, SaveOps

\* The file only records a task active that is being admitted, or was active.
LEMMA OnlyAdmissionsActivate ==
  ASSUME IInv, OInv, Next, LateSaveError = FALSE, NEW t \in Task,
         disk[t].status \notin ActiveStatus, disk'[t].status \in ActiveStatus
  PROVE  Saving /\ lock.op = "start" /\ lock.id = t
<1>1. disk' = tasks /\ Alive
  BY DiskStep
<1>2. Saving /\ lock.id = t /\ disk[t] = lock.prev
  BY <1>1 DEF IInv, TypeOK, LedgerAgrees, Alive
<1>3. Changes(lock.op, disk[t], tasks[t]) /\ CanTransition(disk[t].status, tasks[t].status)
      /\ ~IsTerminal(disk[t].status)
  BY <1>2 DEF IInv, OInv, SaveChanges, SaveIsLegal
<1>4. disk[t].status \in TaskStatuses /\ tasks[t].status \in TaskStatuses
  BY DEF IInv, TypeOK, TaskRec
<1>5. disk[t].status = "queued" /\ tasks[t].status = "starting"
  BY <1>1, <1>3, <1>4, NoWayBack DEF TaskStatuses, IsTerminal
<1> QED BY <1>2, <1>3, <1>5 DEF Changes

\* Every step the code can come back from keeps it.
LEMMA OwnersDoneKept ==
  ASSUME IInv, OInv, XInv, OwnersDone, Next, LateSaveError = FALSE, ~Abandons
  PROVE  OwnersDone'
<1>0. TypeOK
  BY DEF IInv
<1>a. ASSUME NEW t \in Task
      PROVE  /\ OwnerIsDone(t) => disk'[t].status \notin ActiveStatus
             /\ cancel[t].deferred # "none" => ~Unstarted(t)'
             /\ ~Unstarted(t) => ~Unstarted(t)'
             /\ cancel[t] \in CancelRec
  <2>1. OwnerIsDone(t) => Owned(t)
    BY DEF OwnerIsDone, Owned
  <2>2. OwnerIsDone(t) => disk[t].status \notin ActiveStatus /\ ~(Saving /\ lock.op = "start" /\ lock.id = t)
    BY <2>1 DEF OwnersDone, OInv, OwnerHolds
  <2>3. ~Unstarted(t) => ~Unstarted(t)'
    BY FileMoves
  <2> QED BY <1>0, <2>2, <2>3, OnlyAdmissionsActivate DEF OwnersDone, TypeOK
<1>1. CASE cancel' = cancel
  BY <1>a, <1>1 DEF OwnersDone, OwnerIsDone
<1>2. ASSUME NEW t \in Task, NEW new, cancel' = [cancel EXCEPT ![t] = new],
             new.pc = "claim" => new.term # "none",
             new.pc \in {"withdraw", "release"} \/ (new.pc = "aborting" /\ new.term = "none")
               => OwnerIsDone(t) \/ disk'[t].status \notin ActiveStatus,
             new.deferred # "none" => cancel[t].deferred # "none" \/ ~Unstarted(t)
      PROVE  OwnersDone'
  <2>1. ASSUME NEW u \in Task
        PROVE  /\ cancel'[u].pc = "claim" => cancel'[u].term # "none"
               /\ OwnerIsDone(u)' => disk'[u].status \notin ActiveStatus
               /\ cancel'[u].deferred # "none" => ~Unstarted(u)'
    <3>1. CASE u = t
      BY <1>0, <1>a, <1>2, <3>1 DEF OwnerIsDone, TypeOK
    <3>2. CASE u # t
      BY <1>0, <1>a, <1>2, <3>2 DEF OwnersDone, OwnerIsDone, TypeOK
    <3> QED BY <3>1, <3>2
  <2> QED BY <2>1 DEF OwnersDone
<1>3. ASSUME NEW t \in Task, cancel' = [cancel EXCEPT ![t] = NoCancel]
      PROVE  OwnersDone'
  <2>1. NoCancel.pc = "none" /\ NoCancel.deferred = "none"
    BY DEF NoCancel
  <2> QED BY <1>2, <1>3, <2>1
<1>4. ASSUME NEW t \in Task, cancel' = [cancel EXCEPT ![t] = [cancel[t] EXCEPT !.pc = "release"]],
             OwnerIsDone(t) \/ disk'[t].status \notin ActiveStatus
      PROVE  OwnersDone'
  <2>1. PICK new : new = [cancel[t] EXCEPT !.pc = "release"]
    OBVIOUS
  <2>2. new.pc = "release" /\ new.deferred = cancel[t].deferred
    BY <1>a, <2>1 DEF CancelRec
  <2> QED BY <1>2, <1>4, <2>1, <2>2
<1>5. ASSUME NEW t \in Task, NEW res, cancel' = [cancel EXCEPT ![t].deferred = res], ~Unstarted(t)
      PROVE  OwnersDone'
  <2>1. PICK new : new = [cancel[t] EXCEPT !.deferred = res]
    OBVIOUS
  <2>2. new.pc = cancel[t].pc /\ new.term = cancel[t].term
    BY <1>a, <2>1 DEF CancelRec
  <2>3. cancel[t].pc = "claim" => cancel[t].term # "none"
    BY DEF OwnersDone
  <2>4. cancel' = [cancel EXCEPT ![t] = new]
    BY <1>5, <2>1
  <2> QED BY <1>2, <1>5, <2>2, <2>3, <2>4 DEF OwnerIsDone
<1>6. ASSUME NEW t \in Task, CancelNext(t)
      PROVE  OwnersDone'
  <2>1. ASSUME NEW k, CancelCall(t, k)
        PROVE  OwnersDone'
    <3>1. PICK new : new = [NoCancel EXCEPT !.pc = "claim", !.kind = k, !.term = "aborted"]
      OBVIOUS
    <3>2. new.pc = "claim" /\ new.term = "aborted" /\ new.deferred = "none"
      BY <3>1 DEF NoCancel
    <3>3. cancel' = [cancel EXCEPT ![t] = new]
      BY <2>1, <3>1 DEF CancelCall
    <3> QED BY <1>2, <3>2, <3>3
  <2>2. CASE DeadlineFires(t)
    BY <1>1, <2>2 DEF DeadlineFires
  <2>3. CASE DeadlineRead(t)
    <3>1. PICK new : new = [NoCancel EXCEPT !.pc = "claim", !.kind = "timeout", !.due = fired[t],
                              !.term = IF tasks[t].status = "queued" THEN "aborted" ELSE "failed"]
      OBVIOUS
    <3>2. new.pc = "claim" /\ new.term # "none" /\ new.deferred = "none"
      BY <3>1 DEF NoCancel
    <3>3. cancel' = cancel \/ cancel' = [cancel EXCEPT ![t] = new]
      BY <2>3, <3>1 DEF DeadlineRead
    <3> QED BY <1>1, <1>2, <3>2, <3>3
  <2>4. CASE Claim(t)
    <3>1. disk = tasks /\ disk' = disk
      BY <2>4, FreeMapIsFile DEF Claim, Alive, Up, core
    <3>2. cancel[t].term # "none"
      BY <2>4 DEF Claim, OwnersDone
    <3>3. PICK owner : owner = [cancel[t] EXCEPT !.lease = tasks[t].lease, !.child = tasks[t].child]
      OBVIOUS
    <3>a. PICK claimed : claimed = [owner EXCEPT !.pc = IF tasks[t].status = "queued" THEN "withdraw" ELSE "aborting"]
      OBVIOUS
    <3>b. PICK held : held = [owner EXCEPT !.pc = "aborting", !.term = "none"]
      OBVIOUS
    <3>4. PICK new : new = CASE Open(t) /\ SameDeadline(t) -> claimed
                             [] HandoffRemains(t) -> held
                             [] OTHER -> NoCancel
      OBVIOUS
    <3>5. cancel' = [cancel EXCEPT ![t] = new]
      BY <2>4, <3>3, <3>a, <3>b, <3>4 DEF Claim
    <3>6. owner \in CancelRec /\ owner.term = cancel[t].term /\ owner.deferred = cancel[t].deferred
      <4>1. tasks[t].lease \in Nat /\ tasks[t].child \in BOOLEAN
        BY <1>0 DEF TypeOK, TaskRec
      <4> QED BY <1>a, <3>3, <4>1 DEF CancelRec
    <3>7. CASE Open(t) /\ SameDeadline(t)
      <4>1. new = claimed
        BY <3>4, <3>7 DEF HandoffRemains, Open, Ended, IsTerminal, TerminalStatus
      <4>2. /\ new.pc = IF tasks[t].status = "queued" THEN "withdraw" ELSE "aborting"
            /\ new.term = cancel[t].term /\ new.deferred = cancel[t].deferred
        BY <3>6, <3>a, <4>1 DEF CancelRec
      <4>3. new.pc = "withdraw" => disk'[t].status \notin ActiveStatus
        BY <3>1, <4>2 DEF ActiveStatus
      <4>4. new.pc \in {"withdraw", "aborting"} /\ new.term # "none"
        BY <3>2, <4>2
      <4> QED BY <1>2, <3>5, <4>2, <4>3, <4>4
    <3>8. CASE ~(Open(t) /\ SameDeadline(t)) /\ HandoffRemains(t)
      <4>1. new = held
        BY <3>4, <3>8
      <4>2. new.pc = "aborting" /\ new.deferred = cancel[t].deferred
        BY <3>6, <3>b, <4>1 DEF CancelRec
      <4>3. disk'[t].status \notin ActiveStatus
        BY <3>1, <3>8 DEF HandoffRemains, ActiveStatus
      <4> QED BY <1>2, <3>5, <4>2, <4>3
    <3>9. CASE ~(Open(t) /\ SameDeadline(t)) /\ ~HandoffRemains(t)
      <4>1. new = NoCancel
        BY <3>4, <3>9
      <4> QED BY <1>3, <3>5, <4>1
    <3> QED BY <3>7, <3>8, <3>9
  <2>5. CASE Withdraw(t)
    <3>1. OwnerIsDone(t)
      BY <2>5 DEF Withdraw, OwnerIsDone
    <3>2. cancel' = cancel \/ cancel' = [cancel EXCEPT ![t] = [cancel[t] EXCEPT !.pc = "release"]]
      BY <2>5 DEF Withdraw
    <3> QED BY <1>1, <1>4, <3>1, <3>2
  <2>6. ASSUME NEW ok \in BOOLEAN, AbortOutcome(t, ok)
        PROVE  OwnersDone'
    <3>1. PICK new : new = [cancel[t] EXCEPT
                              !.pc = IF cancel[t].term = "none" \/ HandoffRefused(t, ok)
                                     THEN "release" ELSE "settle",
                              !.term = IF ok THEN cancel[t].term ELSE "interrupted"]
      OBVIOUS
    <3>2. cancel' = [cancel EXCEPT ![t] = new] /\ cancel[t].pc = "aborting"
      BY <2>6, <3>1 DEF AbortOutcome
    <3>3. ~HandoffRefused(t, ok)
      BY <2>6 DEF Abandons, HandoffRefused
    <3>4. new.pc = (IF cancel[t].term = "none" THEN "release" ELSE "settle") /\ new.deferred = cancel[t].deferred
      BY <1>a, <3>1, <3>3 DEF CancelRec
    <3> QED BY <1>2, <3>2, <3>4 DEF OwnerIsDone
  <2>7. CASE CancelSettle(t) /\ cancel' # cancel
    <3>1. /\ cancel' = [cancel EXCEPT ![t] = [cancel[t] EXCEPT !.pc = "release"]]
          /\ ~Settles(t, cancel[t].lease) /\ Free /\ disk' = disk /\ cancel[t].pc = "settle"
      BY <2>7 DEF CancelSettle, core
    <3>2. disk = tasks
      BY <3>1, FreeMapIsFile DEF IInv, Quiet
    <3>3. Known(t) /\ cancel[t].lease = tasks[t].lease
      BY <3>1 DEF OInv, OwnerHolds, Owned
    <3>4. tasks[t].status \notin ActiveStatus
      BY <3>1, <3>3 DEF Settles, Settleable, Open, Ended, IsTerminal, TerminalStatus, ActiveStatus
    <3> QED BY <1>4, <3>1, <3>2, <3>4
  <2>8. CASE Release(t)
    <3>1. PICK new : new = [cancel[t] EXCEPT !.pc = "replay"]
      OBVIOUS
    <3>2. new.pc = "replay" /\ new.deferred = cancel[t].deferred
      BY <1>a, <3>1 DEF CancelRec
    <3>3. cancel' = [cancel EXCEPT ![t] = new] \/ cancel' = [cancel EXCEPT ![t] = NoCancel]
      BY <2>8, <3>1 DEF Release
    <3> QED BY <1>2, <1>3, <3>2, <3>3
  <2>9. CASE Replay(t)
    BY <1>1, <1>3, <2>9 DEF Replay
  <2> QED BY <1>1, <1>6, <2>1, <2>2, <2>3, <2>4, <2>5, <2>6, <2>7, <2>8, <2>9 DEF CancelNext
<1>7. ASSUME NEW t \in Task, RecNext(t)
      PROVE  OwnersDone'
  <2>1. ASSUME RecFinish(t), cancel' # cancel
        PROVE  OwnersDone'
    <3>1. rec[t].pc # "none" /\ cancel' = [cancel EXCEPT ![t].deferred = rec[t].res]
      BY <2>1 DEF RecFinish
    <3>2. ~Unstarted(t)
      BY <3>1 DEF XInv, DriversAreDurable, Dormant, Untouched
    <3> QED BY <1>5, <3>1, <3>2
  <2> QED BY <1>1, <1>7, <2>1 DEF RecNext, StartLeaseFires, RetryFires, ReconcileTerminal, ReconcileLive,
          ReconcileRelaunch, ReconcileTransient, RecAccept, RecObserve, RecoverNext
<1>8. ASSUME NEW r \in Run, RunNext(r)
      PROVE  OwnersDone'
  <2>1. ASSUME RunSettle(r), cancel' # cancel
        PROVE  OwnersDone'
    <3>1. runs[r].pc # "idle" /\ runs[r].id \in Task
      BY <1>0, <2>1 DEF RunSettle, TypeOK
    <3>2. PICK res : cancel' = [cancel EXCEPT ![runs[r].id].deferred = res]
      <4>1. cancel' = [cancel EXCEPT ![runs[r].id].deferred = IF cancel[runs[r].id].deferred = "none"
                                                              THEN runs[r].res
                                                              ELSE cancel[runs[r].id].deferred]
        BY <2>1 DEF RunSettle
      <4> QED BY <4>1
    <3>3. ~Unstarted(runs[r].id)
      BY <3>1 DEF XInv, DriversAreDurable, Dormant, Untouched, HasRun
    <3> QED BY <1>5, <3>1, <3>2, <3>3
  <2> QED BY <1>1, <1>8, <2>1 DEF RunNext, RunCheck, RunChild, RunAccept, RunProgress, RunReturn
<1>9. CASE Saved
  <2>1. CASE SettleSaved
    <3>1. lock.op = "settle" /\ lock.id \in Task /\ disk' = tasks
      BY <1>0, <2>1 DEF SettleSaved, Commit, TypeOK, Saving, SaveOps
    <3>2. disk'[lock.id].status \notin ActiveStatus
      BY <3>1 DEF IInv, SaveIsLegal, Saving, SaveOps, IsTerminal, TerminalStatus, ActiveStatus
    <3>3. CASE lock.by = "owner"
      <4>1. PICK new : new = [cancel[lock.id] EXCEPT !.committed = TRUE, !.pc = "release"]
        OBVIOUS
      <4>2. new.pc = "release" /\ new.deferred = cancel[lock.id].deferred
        BY <1>a, <3>1, <4>1 DEF CancelRec
      <4>3. cancel' = [cancel EXCEPT ![lock.id] = new]
        BY <1>a, <2>1, <3>1, <3>3, <4>1, <1>0 DEF SettleSaved, TypeOK, CancelRec
      <4> QED BY <1>2, <3>1, <3>2, <4>2, <4>3
    <3>4. CASE lock.by # "owner"
      BY <1>1, <1>3, <2>1, <3>1, <3>4 DEF SettleSaved
    <3> QED BY <3>3, <3>4
  <2>2. CASE WithdrawSaved
    <3>1. lock.op = "withdraw" /\ lock.id \in Task /\ disk' = tasks
      BY <1>0, <2>2 DEF WithdrawSaved, Commit, TypeOK, Saving, SaveOps
    <3>2. disk'[lock.id].status \notin ActiveStatus
      BY <3>1 DEF IInv, SaveIsLegal, Saving, SaveOps, IsTerminal, TerminalStatus, ActiveStatus
    <3>3. cancel' = [cancel EXCEPT ![lock.id] = [cancel[lock.id] EXCEPT !.pc = "release"]]
      BY <2>2 DEF WithdrawSaved
    <3> QED BY <1>4, <3>1, <3>2, <3>3
  <2> QED BY <1>1, <1>9, <2>1, <2>2
          DEF Saved, SubmitSaved, HoldSaved, StartSaved, ChildSaved, AcceptSaved, RenewSaved
<1>10. CASE SaveError
  <2>1. SaveFails /\ ~RecSaveFailed
    BY <1>10 DEF SaveError, Abandons
  <2>2. CASE CancelSaveFailed
    <3>1. lock.op = "withdraw" /\ Saving /\ lock.id \in Task
      BY <1>0, <2>1, <2>2 DEF CancelSaveFailed, Abandons, Saving, SaveOps, TypeOK
    <3>2. lock.by = "owner" /\ cancel[lock.id].pc = "withdraw"
      BY <3>1 DEF OInv, OwnerWaits
    <3>3. cancel' = [cancel EXCEPT ![lock.id] = [cancel[lock.id] EXCEPT !.pc = "release"]]
      BY <2>2, <3>2 DEF CancelSaveFailed
    <3> QED BY <1>4, <3>1, <3>2, <3>3 DEF OwnerIsDone
  <2> QED BY <1>1, <1>10, <2>1, <2>2 DEF SaveError, PumpSaveFailed, CallSaveFailed, RunSaveFailed
<1>11. CASE Crash
  BY <1>11 DEF Crash, Restarted, OwnersDone, OwnerIsDone, NoCancel
<1>12. CASE PumpNext \/ Load \/ BeginRecovery \/ Activate
  BY <1>1, <1>12 DEF PumpNext, PumpBegin, PumpHold, PumpStart, PumpEnd, AdmissionRetry, Load, BeginRecovery, Activate
<1>13. ASSUME NEW t \in Task, Resubmit(t) \/ WaitForTask(t) \/ \E followUp \in BOOLEAN : Submit(t, followUp)
       PROVE  OwnersDone'
  BY <1>1, <1>13 DEF Resubmit, WaitForTask, Submit
<1> QED BY <1>6, <1>7, <1>8, <1>9, <1>10, <1>11, <1>12, <1>13 DEF Next

-----------------------------------------------------------------------------
(* Timers and reconciliations, and the leases they remember *)

\* What a step does to the starting lease and the retry timer of u.
LEMMA TimersMove ==
  ASSUME TypeOK, Next, NEW u \in Task
  PROVE  /\ \/ timers'.start[u] = timers.start[u]
            \/ /\ timers'.start[u] = 0
               /\ StartLeaseFires(u) \/ Crash \/ (u = lock.id /\ (AcceptSaved \/ SettleSaved \/ WithdrawSaved))
            \/ StartSaved /\ u = lock.id /\ timers'.start[u] = tasks[u].lease
            \/ Activate /\ timers'.start[u] = IF tasks[u].status = "starting" THEN tasks[u].lease ELSE 0
         /\ \/ timers'.retry[u] = timers.retry[u]
            \/ /\ timers'.retry[u] = 0
               /\ RetryFires(u) \/ Crash \/ (u = lock.id /\ (SettleSaved \/ WithdrawSaved))
            \/ /\ ReconcileTransient(u) /\ Active(u) /\ timers.retry[u] = 0
               /\ timers'.retry[u] = tasks[u].lease
<1> DEFINE Moved == /\ \/ timers'.start[u] = timers.start[u]
                       \/ /\ timers'.start[u] = 0
                          /\ StartLeaseFires(u) \/ Crash \/ (u = lock.id /\ (AcceptSaved \/ SettleSaved \/ WithdrawSaved))
                       \/ StartSaved /\ u = lock.id /\ timers'.start[u] = tasks[u].lease
                       \/ Activate /\ timers'.start[u] = IF tasks[u].status = "starting" THEN tasks[u].lease ELSE 0
                    /\ \/ timers'.retry[u] = timers.retry[u]
                       \/ /\ timers'.retry[u] = 0
                          /\ RetryFires(u) \/ Crash \/ (u = lock.id /\ (SettleSaved \/ WithdrawSaved))
                       \/ /\ ReconcileTransient(u) /\ Active(u) /\ timers.retry[u] = 0
                          /\ timers'.retry[u] = tasks[u].lease
<1>0. timers \in TimerRec
  BY DEF TypeOK
<1>1. ASSUME timers'.start = timers.start, timers'.retry = timers.retry
      PROVE  Moved
  BY <1>1
<1> SUFFICES Moved
  OBVIOUS
<1> HIDE DEF Moved
<1>2. ASSUME timers' = timers
      PROVE  Moved
  BY <1>1, <1>2
<1>3. ASSUME NEW b, timers' = [timers EXCEPT !.admission = b]
      PROVE  Moved
  BY <1>0, <1>1, <1>3 DEF TimerRec
<1>4. ASSUME NEW id, NEW d, timers' = [timers EXCEPT !.deadline[id] = d]
      PROVE  Moved
  BY <1>0, <1>1, <1>4 DEF TimerRec
<1>5. ASSUME NEW t \in Task, CancelNext(t)
      PROVE  Moved
  BY <1>2, <1>4, <1>5 DEF CancelNext, CancelCall, DeadlineFires, DeadlineRead, Claim, Withdraw, AbortOutcome,
     CancelSettle, Release, Replay
<1>6. ASSUME NEW t \in Task, RecNext(t)
      PROVE  Moved
  <2>1. CASE StartLeaseFires(t)
    <3>1. timers' = [timers EXCEPT !.start[t] = 0]
      BY <2>1 DEF StartLeaseFires
    <3>2. timers'.retry = timers.retry /\ timers'.start = [timers.start EXCEPT ![t] = 0]
      BY <1>0, <3>1 DEF TimerRec
    <3> QED BY <1>0, <2>1, <3>2 DEF Moved, TimerRec
  <2>2. CASE RetryFires(t)
    <3>1. timers' = [timers EXCEPT !.retry[t] = 0]
      BY <2>2 DEF RetryFires
    <3>2. timers'.start = timers.start /\ timers'.retry = [timers.retry EXCEPT ![t] = 0]
      BY <1>0, <3>1 DEF TimerRec
    <3> QED BY <1>0, <2>2, <3>2 DEF Moved, TimerRec
  <2>3. CASE ReconcileTransient(t) /\ timers' # timers
    <3>1. timers' = [timers EXCEPT !.retry[t] = tasks[t].lease] /\ Active(t) /\ timers.retry[t] = 0
      BY <2>3 DEF ReconcileTransient
    <3>2. timers'.start = timers.start /\ timers'.retry = [timers.retry EXCEPT ![t] = tasks[t].lease]
      BY <1>0, <3>1 DEF TimerRec
    <3> QED BY <1>0, <2>3, <3>1, <3>2 DEF Moved, TimerRec
  <2> QED BY <1>2, <1>6, <2>1, <2>2, <2>3 DEF RecNext, ReconcileTerminal, ReconcileLive,
          ReconcileRelaunch, RecAccept, RecObserve, RecFinish, RecoverNext
<1>7. ASSUME NEW r \in Run, RunNext(r)
      PROVE  Moved
  BY <1>2, <1>7 DEF RunNext, RunCheck, RunChild, RunAccept, RunProgress, RunReturn, RunSettle
<1>8. CASE PumpNext
  BY <1>2, <1>3, <1>8 DEF PumpNext, PumpBegin, PumpHold, PumpStart, PumpEnd, AdmissionRetry
<1>9. CASE Saved
  <2>1. lock.id \in Task
    BY <1>9 DEF TypeOK, Saved, SubmitSaved, HoldSaved, StartSaved, ChildSaved, AcceptSaved, RenewSaved,
       SettleSaved, WithdrawSaved, Commit, Saving, SaveOps
  <2>2. CASE StartSaved
    <3>1. timers' = [timers EXCEPT !.start[lock.id] = tasks[lock.id].lease]
      BY <2>2 DEF StartSaved
    <3>2. timers'.retry = timers.retry /\ timers'.start = [timers.start EXCEPT ![lock.id] = tasks[lock.id].lease]
      BY <1>0, <3>1 DEF TimerRec
    <3> QED BY <1>0, <2>1, <2>2, <3>2 DEF Moved, TimerRec
  <2>3. CASE AcceptSaved
    <3>1. timers' = [timers EXCEPT !.start[lock.id] = 0]
      BY <2>3 DEF AcceptSaved
    <3>2. timers'.retry = timers.retry /\ timers'.start = [timers.start EXCEPT ![lock.id] = 0]
      BY <1>0, <3>1 DEF TimerRec
    <3> QED BY <1>0, <2>1, <2>3, <3>2 DEF Moved, TimerRec
  <2>4. CASE SettleSaved \/ WithdrawSaved
    <3>1. timers' = TimersCleared(lock.id)
      BY <2>4 DEF SettleSaved, WithdrawSaved
    <3>2. /\ timers'.start = [timers.start EXCEPT ![lock.id] = 0]
          /\ timers'.retry = [timers.retry EXCEPT ![lock.id] = 0]
      BY <1>0, <3>1 DEF TimerRec, TimersCleared
    <3> QED BY <1>0, <2>1, <2>4, <3>2 DEF Moved, TimerRec
  <2> QED BY <1>2, <1>3, <1>4, <1>9, <2>2, <2>3, <2>4 DEF Saved, SubmitSaved, HoldSaved, ChildSaved, RenewSaved
<1>10. CASE SaveError
  BY <1>2, <1>3, <1>10 DEF SaveError, PumpSaveFailed, CallSaveFailed, RunSaveFailed, CancelSaveFailed, RecSaveFailed
<1>11. CASE Crash
  BY <1>11 DEF Crash, Restarted, NoTimers, Moved
<1>12. CASE Load \/ BeginRecovery
  BY <1>2, <1>12 DEF Load, BeginRecovery
<1>13. CASE Activate
  <2>1. timers' = [timers EXCEPT !.deadline = Deadlines,
          !.start = [t \in Task |-> IF tasks[t].status = "starting" THEN tasks[t].lease ELSE 0]]
    BY <1>13 DEF Activate
  <2>2. /\ timers'.start = [t \in Task |-> IF tasks[t].status = "starting" THEN tasks[t].lease ELSE 0]
        /\ timers'.retry = timers.retry
    BY <1>0, <2>1 DEF TimerRec
  <2> QED BY <1>13, <2>2 DEF Moved
<1>14. ASSUME NEW t \in Task, Resubmit(t) \/ WaitForTask(t) \/ \E followUp \in BOOLEAN : Submit(t, followUp)
       PROVE  Moved
  BY <1>2, <1>4, <1>14 DEF Resubmit, WaitForTask, Submit
<1> QED BY <1>5, <1>6, <1>7, <1>8, <1>9, <1>10, <1>11, <1>12, <1>13, <1>14 DEF Next

\* What a step does to the reconciliation of u.
LEMMA ReconciliationMoves ==
  ASSUME IInv, OInv, Next, NEW u \in Task
  PROVE  \/ rec'[u] = rec[u]
         \/ rec[u].pc # "none" /\ rec'[u].pc # "none" /\ rec'[u].lease = rec[u].lease
         \/ /\ rec'[u].pc = "none"
            /\ \/ ReconcileRelaunch(u) \/ ReconcileTransient(u) \/ RecObserve(u) \/ RecFinish(u)
               \/ SettleSaved /\ u = lock.id
               \/ (SaveFails /\ RecSaveFailed) \/ Crash
         \/ /\ rec'[u].pc # "none" /\ rec'[u].lease = tasks[u].lease /\ Active(u)
            /\ \/ StartLeaseFires(u) /\ timers.start[u] = tasks[u].lease /\ timers.start[u] # 0
               \/ RetryFires(u) /\ timers.retry[u] = tasks[u].lease /\ timers.retry[u] # 0
         \/ RecoverNext(u) /\ Listed(u) /\ rec'[u].pc # "none" /\ rec'[u].lease = boot.list[u].lease
<1> DEFINE Moved == \/ rec'[u] = rec[u]
                    \/ rec[u].pc # "none" /\ rec'[u].pc # "none" /\ rec'[u].lease = rec[u].lease
                    \/ /\ rec'[u].pc = "none"
                       /\ \/ ReconcileRelaunch(u) \/ ReconcileTransient(u) \/ RecObserve(u) \/ RecFinish(u)
                          \/ SettleSaved /\ u = lock.id
                          \/ (SaveFails /\ RecSaveFailed) \/ Crash
                    \/ /\ rec'[u].pc # "none" /\ rec'[u].lease = tasks[u].lease /\ Active(u)
                       /\ \/ StartLeaseFires(u) /\ timers.start[u] = tasks[u].lease /\ timers.start[u] # 0
                          \/ RetryFires(u) /\ timers.retry[u] = tasks[u].lease /\ timers.retry[u] # 0
                    \/ RecoverNext(u) /\ Listed(u) /\ rec'[u].pc # "none" /\ rec'[u].lease = boot.list[u].lease
<1>0. TypeOK /\ \A t \in Task : rec[t] \in RecRec
  BY DEF IInv, TypeOK
<1>1. ASSUME rec' = rec
      PROVE  Moved
  BY <1>1
<1> SUFFICES Moved
  OBVIOUS
<1> HIDE DEF Moved
<1>2. ASSUME NEW t \in Task, NEW new, rec' = [rec EXCEPT ![t] = new], rec[t].pc # "none", new.pc # "none",
             new.lease = rec[t].lease
      PROVE  Moved
  BY <1>0, <1>2 DEF Moved, TypeOK
<1>3. /\ NoRec.pc = "none"
      /\ \A task, b : Recovering(task, b).pc # "none" /\ Recovering(task, b).lease = task.lease
  BY DEF NoRec, Recovering
<1>4. ASSUME NEW t \in Task, RecNext(t)
      PROVE  Moved
  <2>1. CASE StartLeaseFires(t) /\ rec' # rec
    <3>1. /\ rec' = [rec EXCEPT ![t] = Recovering(tasks[t], FALSE)] /\ timers.start[t] # 0
          /\ tasks[t].status = "starting" /\ timers.start[t] = tasks[t].lease
      BY <2>1 DEF StartLeaseFires
    <3> QED BY <1>0, <1>3, <2>1, <3>1 DEF Moved, TypeOK, Active, ActiveStatus
  <2>2. CASE RetryFires(t) /\ rec' # rec
    <3>1. /\ rec' = [rec EXCEPT ![t] = Recovering(tasks[t], FALSE)] /\ timers.retry[t] # 0
          /\ Active(t) /\ timers.retry[t] = tasks[t].lease
      BY <2>2 DEF RetryFires
    <3> QED BY <1>0, <1>3, <2>2, <3>1 DEF Moved, TypeOK
  <2>3. CASE ReconcileTerminal(t)
    <3>1. PICK res : rec' = [rec EXCEPT ![t].res = res,
                 ![t].pc = IF rec[t].was = "starting" /\ res = "completed" THEN "accept" ELSE "finish"]
      BY <2>3 DEF ReconcileTerminal
    <3>2. PICK new : new = [rec[t] EXCEPT !.res = res,
                 !.pc = IF rec[t].was = "starting" /\ res = "completed" THEN "accept" ELSE "finish"]
      OBVIOUS
    <3>3. new.pc # "none" /\ new.lease = rec[t].lease
      BY <1>0, <3>2 DEF RecRec
    <3>4. rec' = [rec EXCEPT ![t] = new]
      BY <1>0, <3>1, <3>2 DEF TypeOK, RecRec
    <3>5. rec[t].pc # "none"
      BY <2>3 DEF ReconcileTerminal
    <3> QED BY <1>2, <3>3, <3>4, <3>5
  <2>4. ASSUME NEW pc, rec[t].pc # "none", pc # "none", rec' = [rec EXCEPT ![t].pc = pc]
        PROVE  Moved
    <3>1. PICK new : new = [rec[t] EXCEPT !.pc = pc]
      OBVIOUS
    <3>2. new.pc # "none" /\ new.lease = rec[t].lease
      BY <1>0, <2>4, <3>1 DEF RecRec
    <3>3. rec' = [rec EXCEPT ![t] = new]
      BY <2>4, <3>1
    <3> QED BY <1>2, <2>4, <3>2, <3>3
  <2>5. CASE ReconcileLive(t) \/ (RecAccept(t) /\ rec' # rec)
    <3>1. rec[t].pc # "none" /\ \E pc : pc # "none" /\ rec' = [rec EXCEPT ![t].pc = pc]
      BY <2>5 DEF ReconcileLive, RecAccept
    <3> QED BY <2>4, <3>1
  <2>6. CASE (ReconcileRelaunch(t) \/ ReconcileTransient(t) \/ RecObserve(t) \/ RecFinish(t)) /\ rec' # rec
    <3>1. rec' = [rec EXCEPT ![t] = NoRec]
      BY <2>6 DEF ReconcileRelaunch, ReconcileTransient, RecObserve, RecFinish
    <3> QED BY <1>0, <1>3, <2>6, <3>1 DEF Moved, TypeOK
  <2>7. CASE RecoverNext(t)
    <3>1. rec' = [rec EXCEPT ![t] = Recovering(boot.list[t], TRUE)] /\ Listed(t)
      BY <2>7 DEF RecoverNext
    <3>2. Recovering(boot.list[t], TRUE).pc # "none" /\ Recovering(boot.list[t], TRUE).lease = boot.list[t].lease
      BY DEF Recovering, NoRec
    <3> QED BY <1>0, <2>7, <3>1, <3>2 DEF Moved, TypeOK
  <2>8. CASE rec' = rec
    BY <1>1, <2>8
  <2> QED BY <1>4, <2>1, <2>2, <2>3, <2>5, <2>6, <2>7, <2>8 DEF RecNext
<1>5. ASSUME NEW t \in Task, CancelNext(t)
      PROVE  Moved
  BY <1>1, <1>5 DEF CancelNext, CancelCall, DeadlineFires, DeadlineRead, Claim, Withdraw, AbortOutcome,
     CancelSettle, Release, Replay
<1>6. ASSUME NEW r \in Run, RunNext(r)
      PROVE  Moved
  BY <1>1, <1>6 DEF RunNext, RunCheck, RunChild, RunAccept, RunProgress, RunReturn, RunSettle
<1>7. CASE Saved
  <2>1. CASE AcceptSaved /\ rec' # rec
    <3>1. lock.by = "recover" /\ lock.op = "accept" /\ lock.id \in Task
      BY <1>0, <2>1 DEF AcceptSaved, Commit, TypeOK, Saving, SaveOps
    <3>2. rec[lock.id].pc # "none"
      BY <3>1 DEF OInv, RecWaits, Saving, SaveOps
    <3>3. PICK new : new = [rec[lock.id] EXCEPT !.pc = IF rec[lock.id].res = "none" THEN "observe" ELSE "finish"]
      OBVIOUS
    <3>4. new.pc # "none" /\ new.lease = rec[lock.id].lease
      BY <1>0, <3>1, <3>3 DEF RecRec
    <3>5. rec' = [rec EXCEPT ![lock.id] = new]
      BY <2>1, <3>1, <3>3 DEF AcceptSaved
    <3> QED BY <1>2, <3>1, <3>2, <3>4, <3>5
  <2>2. CASE SettleSaved /\ rec' # rec
    <3>1. rec' = [rec EXCEPT ![lock.id] = NoRec]
      BY <2>2 DEF SettleSaved
    <3> QED BY <1>0, <1>3, <2>2, <3>1 DEF Moved, TypeOK
  <2> QED BY <1>1, <1>7, <2>1, <2>2 DEF Saved, SubmitSaved, HoldSaved, StartSaved, ChildSaved, RenewSaved, WithdrawSaved
<1>8. CASE SaveError
  <2>1. CASE RecSaveFailed
    <3>1. rec' = [rec EXCEPT ![lock.id] = NoRec] /\ SaveFails
      BY <1>8, <2>1 DEF RecSaveFailed, SaveError
    <3> QED BY <1>0, <1>3, <2>1, <3>1 DEF Moved, TypeOK
  <2> QED BY <1>1, <1>8, <2>1 DEF SaveError, PumpSaveFailed, CallSaveFailed, RunSaveFailed, CancelSaveFailed
<1>9. CASE Crash
  BY <1>3, <1>9 DEF Crash, Restarted, Moved
<1>10. CASE PumpNext \/ Load \/ BeginRecovery \/ Activate
  BY <1>1, <1>10 DEF PumpNext, PumpBegin, PumpHold, PumpStart, PumpEnd, AdmissionRetry, Load, BeginRecovery, Activate
<1>11. ASSUME NEW t \in Task, Resubmit(t) \/ WaitForTask(t) \/ \E followUp \in BOOLEAN : Submit(t, followUp)
       PROVE  Moved
  BY <1>1, <1>11 DEF Resubmit, WaitForTask, Submit
<1> QED BY <1>4, <1>5, <1>6, <1>7, <1>8, <1>9, <1>10, <1>11 DEF Next

\* Only a save that is durable and a crash replace the file.
LEMMA OnlySavesWrite ==
  ASSUME Next, LateSaveError = FALSE, disk' # disk
  PROVE  Saved \/ Crash
<1>1. ASSUME NEW r \in Run, RunNext(r)
      PROVE  disk' = disk
  BY <1>1 DEF RunNext, RunCheck, RunChild, RunAccept, RunProgress, RunReturn, RunSettle, BeginSave, core
<1>2. ASSUME NEW t \in Task, CancelNext(t)
      PROVE  disk' = disk
  BY <1>2 DEF CancelNext, CancelCall, DeadlineFires, DeadlineRead, Claim, Withdraw, AbortOutcome,
     CancelSettle, Release, Replay, BeginSave, core
<1>3. ASSUME NEW t \in Task, RecNext(t)
      PROVE  disk' = disk
  BY <1>3 DEF RecNext, StartLeaseFires, RetryFires, ReconcileTerminal, ReconcileLive,
     ReconcileRelaunch, ReconcileTransient, RecAccept, RecObserve, RecFinish, RecoverNext, BeginSave, core
<1>4. ASSUME PumpNext
      PROVE  disk' = disk
  BY <1>4 DEF PumpNext, PumpBegin, PumpHold, PumpStart, PumpEnd, AdmissionRetry, BeginSave, core
<1>5. ASSUME SaveError \/ Load \/ BeginRecovery \/ Activate
      PROVE  disk' = disk
  BY <1>5 DEF SaveError, SaveFails, Load, BeginRecovery, Activate, core
<1>6. ASSUME NEW t \in Task, Resubmit(t) \/ WaitForTask(t) \/ \E followUp \in BOOLEAN : Submit(t, followUp)
      PROVE  disk' = disk
  BY <1>6 DEF Resubmit, WaitForTask, Submit, BeginSave, core
<1> QED BY <1>1, <1>2, <1>3, <1>4, <1>5, <1>6 DEF Next

\* An admission stays one in the file until it is accepted or settled.
LEMMA StartingStays ==
  ASSUME IInv, OInv, SaveOrigins, Next, LateSaveError = FALSE, NEW t \in Task, disk[t].status = "starting",
         ~Crash, ~(t = lock.id /\ (AcceptSaved \/ SettleSaved \/ WithdrawSaved))
  PROVE  disk'[t].status = "starting"
<1>0. TypeOK
  BY DEF IInv
<1>1. CASE disk' # disk
  <2>1. disk' = tasks /\ Alive /\ Saved
    BY <1>1, DiskStep, OnlySavesWrite
  <2>2. CASE lock.id = t
    <3>1. Saving
      BY <2>1 DEF Saved, SubmitSaved, HoldSaved, StartSaved, ChildSaved, AcceptSaved, RenewSaved,
         SettleSaved, WithdrawSaved, Commit, Saving, SaveOps
    <3>2. disk[t] = lock.prev
      BY <1>0, <2>1, <2>2, <3>1 DEF IInv, LedgerAgrees, Alive, TypeOK
    <3>3. Changes(lock.op, disk[t], tasks[t])
      BY <2>2, <3>1, <3>2 DEF OInv, SaveChanges
    <3>4. lock.op \in {"hold", "child", "renew"}
      <4>1. lock.op \notin {"submit", "start"}
        BY <3>3 DEF Changes, Absent
      <4>2. lock.op # "withdraw"
        BY <3>1, <3>2 DEF SaveOrigins
      <4> QED BY <2>1, <2>2, <4>1, <4>2 DEF Saved, SubmitSaved, HoldSaved, StartSaved, ChildSaved, RenewSaved,
              Commit
    <3> QED BY <2>1, <2>2, <3>1, <3>2, <3>4 DEF SaveOrigins
  <2>3. CASE lock.id # t
    BY <1>0, <2>1, <2>3 DEF IInv, LedgerAgrees, Alive, TypeOK
  <2> QED BY <2>2, <2>3
<1> QED BY <1>1

\* The live map holds an admission that is not being saved as the file does.
LEMMA StartingInFile ==
  ASSUME IInv, OInv, Alive, NEW t \in Task, tasks[t].status = "starting", ~Admitting(t)
  PROVE  disk[t].status = "starting" /\ disk[t].lease = tasks[t].lease
<1>0. TypeOK
  BY DEF IInv
<1>1. ~Unstarted(t)
  BY MapFollows DEF Active, ActiveStatus, Admitting
<1>2. disk[t].lease = tasks[t].lease
  BY <1>1, MapFollows
<1>3. CASE Saving /\ lock.id = t
  <2>1. disk[t] = lock.prev
    BY <1>0, <1>3 DEF IInv, LedgerAgrees, Alive, TypeOK
  <2>2. CanTransition(disk[t].status, "starting")
    BY <1>3, <2>1 DEF IInv, SaveIsLegal
  <2>3. disk[t].status \in TaskStatuses
    BY <1>0 DEF TypeOK, TaskRec
  <2> QED BY <1>1, <1>2, <2>2, <2>3 DEF CanTransition, AllowedTransitions, Unstarted, TaskStatuses, ActiveStatus,
          TerminalStatus, Absent
<1>4. CASE ~(Saving /\ lock.id = t)
  BY <1>0, <1>2, <1>4 DEF IInv, LedgerAgrees, Alive, TypeOK
<1> QED BY <1>3, <1>4

\* Every step keeps the leases that timers and reconciliations remember.
LEMMA LeasesAgreeKept ==
  ASSUME IInv, OInv, XInv, LeasesAgree, SaveOrigins, Next, LateSaveError = FALSE, ~InitialisationFails
  PROVE  LeasesAgree'
<1>0. TypeOK
  BY DEF IInv
<1> SUFFICES ASSUME NEW u \in Task
             PROVE  /\ disk'[u].status \in ActiveStatus => disk'[u].lease # 0
                    /\ timers'.start[u] # 0 => timers'.start[u] = disk'[u].lease /\ disk'[u].status = "starting"
                    /\ timers'.retry[u] # 0 => timers'.retry[u] = disk'[u].lease
                    /\ rec'[u].pc # "none" => rec'[u].lease = disk'[u].lease
                    /\ Listed(u)' => boot'.list[u].lease = disk'[u].lease
  BY DEF LeasesAgree
<1>1. ~Unstarted(u) => disk'[u].lease = disk[u].lease
  BY FileMoves
<1>2. Alive /\ ~Unstarted(u) => tasks[u].lease = disk[u].lease
  BY MapFollows
<1>3. timers.start[u] # 0 \/ timers.retry[u] # 0 \/ rec[u].pc # "none" \/ Listed(u) => ~Unstarted(u)
  BY DEF XInv, DriversAreDurable, Dormant, Untouched
<1>4. ASSUME timers'.start[u] # 0
      PROVE  timers'.start[u] = disk'[u].lease /\ disk'[u].status = "starting"
  <2>1. ASSUME timers'.start[u] = timers.start[u]
        PROVE  timers'.start[u] = disk'[u].lease /\ disk'[u].status = "starting"
    <3>1. timers.start[u] = disk[u].lease /\ disk[u].status = "starting" /\ ~Unstarted(u)
      BY <1>3, <1>4, <2>1 DEF LeasesAgree
    <3>2. ~Crash
      BY <1>4 DEF Crash, Restarted, NoTimers
    <3>3. ASSUME u = lock.id, AcceptSaved \/ SettleSaved \/ WithdrawSaved
          PROVE  FALSE
      <4>1. timers' = [timers EXCEPT !.start[u] = 0] \/ timers' = TimersCleared(u)
        BY <3>3 DEF AcceptSaved, SettleSaved, WithdrawSaved
      <4>2. timers'.start[u] = 0
        BY <1>0, <4>1 DEF TimersCleared, TypeOK, TimerRec
      <4> QED BY <1>4, <4>2
    <3>4. disk'[u].status = "starting"
      BY <3>1, <3>2, <3>3, StartingStays
    <3> QED BY <1>1, <2>1, <3>1, <3>4
  <2>2. ASSUME StartSaved, u = lock.id, timers'.start[u] = tasks[u].lease
        PROVE  timers'.start[u] = disk'[u].lease /\ disk'[u].status = "starting"
    <3>1. disk' = tasks /\ Saving /\ lock.op = "start"
      BY <2>2 DEF StartSaved, Commit, Saving, SaveOps
    <3>2. tasks[u].status = "starting"
      BY <2>2, <3>1 DEF OInv, SaveChanges, Changes
    <3> QED BY <2>2, <3>1, <3>2
  <2>3. ASSUME Activate, timers'.start[u] = IF tasks[u].status = "starting" THEN tasks[u].lease ELSE 0
        PROVE  timers'.start[u] = disk'[u].lease /\ disk'[u].status = "starting"
    <3>1. disk' = disk /\ Alive /\ ~Up
      BY <2>3 DEF Activate, core, Alive, Up
    <3>2. tasks[u].status = "starting" /\ timers'.start[u] = tasks[u].lease
      BY <1>4, <2>3
    <3>3. ~Admitting(u)
      BY <3>1 DEF Admitting, XInv, StartsClean
    <3> QED BY <3>1, <3>2, <3>3, StartingInFile
  <2> QED BY <1>4, <2>1, <2>2, <2>3, TimersMove DEF IInv
<1>5. ASSUME timers'.retry[u] # 0
      PROVE  timers'.retry[u] = disk'[u].lease
  <2>1. ASSUME ReconcileTransient(u), timers'.retry[u] = tasks[u].lease
        PROVE  timers'.retry[u] = disk'[u].lease
    <3>1. rec[u].pc # "none"
      BY <2>1 DEF ReconcileTransient
    <3>2. Alive
      BY <3>1 DEF IInv, Quiet
    <3> QED BY <1>1, <1>2, <1>3, <2>1, <3>1, <3>2
  <2>2. ASSUME timers'.retry[u] = timers.retry[u]
        PROVE  timers'.retry[u] = disk'[u].lease
    BY <1>1, <1>3, <1>5, <2>2 DEF LeasesAgree
  <2> QED BY <1>5, <2>1, <2>2, TimersMove DEF IInv
<1>6. ASSUME rec'[u].pc # "none"
      PROVE  rec'[u].lease = disk'[u].lease
  <2>1. ASSUME rec[u].pc # "none", rec'[u].lease = rec[u].lease
        PROVE  rec'[u].lease = disk'[u].lease
    BY <1>1, <1>3, <2>1 DEF LeasesAgree
  <2>2. ASSUME rec'[u].lease = tasks[u].lease, timers.start[u] # 0 \/ timers.retry[u] # 0, Alive
        PROVE  rec'[u].lease = disk'[u].lease
    BY <1>1, <1>2, <1>3, <2>2
  <2>3. ASSUME Listed(u), rec'[u].lease = boot.list[u].lease
        PROVE  rec'[u].lease = disk'[u].lease
    BY <1>1, <1>3, <2>3 DEF LeasesAgree
  <2>4. StartLeaseFires(u) \/ RetryFires(u) => Alive
    BY DEF StartLeaseFires, RetryFires
  <2> QED BY <1>6, <2>1, <2>2, <2>3, <2>4, ReconciliationMoves
<1>7. ASSUME Listed(u)'
      PROVE  boot'.list[u].lease = disk'[u].lease
  <2>1. ASSUME boot'.list[u] = boot.list[u]
        PROVE  boot'.list[u].lease = disk'[u].lease
    BY <1>1, <1>3, <1>7, <2>1 DEF LeasesAgree, Listed
  <2>2. CASE Crash \/ Load
    BY <1>7, <2>2 DEF Crash, Load, Listed, AtPhase, AbsentTask
  <2>3. CASE BeginRecovery
    <3>1. disk' = disk /\ disk = tasks
      BY <2>3, FreeMapIsFile DEF BeginRecovery, Alive, core
    <3>2. boot'.list[u] = IF Active(u) THEN tasks[u] ELSE AbsentTask
      BY <2>3 DEF BeginRecovery
    <3> QED BY <1>7, <3>1, <3>2 DEF Listed, AbsentTask
  <2>4. CASE Activate
    BY <1>0, <2>1, <2>4 DEF Activate, TypeOK, BootRec
  <2>5. ASSUME NEW t \in Task, RecoverNext(t)
        PROVE  boot'.list[u].lease = disk'[u].lease
    <3>1. boot'.list = [boot.list EXCEPT ![t] = AbsentTask]
      BY <1>0, <2>5 DEF RecoverNext, TypeOK, BootRec
    <3>2. u # t
      BY <1>0, <1>7, <3>1 DEF Listed, AbsentTask, TypeOK, BootRec
    <3> QED BY <1>0, <2>1, <3>1, <3>2 DEF TypeOK, BootRec
  <2> QED BY <2>1, <2>2, <2>3, <2>4, <2>5, PhaseMoves
<1>8. ASSUME disk'[u].status \in ActiveStatus
      PROVE  disk'[u].lease # 0
  <2>1. CASE disk[u].status \in ActiveStatus
    BY <1>1, <2>1 DEF LeasesAgree, Unstarted, ActiveStatus, Absent
  <2>2. CASE disk[u].status \notin ActiveStatus
    <3>1. Saving /\ lock.op = "start" /\ lock.id = u
      BY <1>8, <2>2, OnlyAdmissionsActivate
    <3>2. disk' = tasks
      BY <1>8, <2>2, DiskStep
    <3> QED BY <3>1, <3>2 DEF SaveOrigins
  <2> QED BY <2>1, <2>2
<1> QED BY <1>4, <1>5, <1>6, <1>7, <1>8

-----------------------------------------------------------------------------
(* Who comes back to an active task *)

\* While a save is pending, only its answer changes the live map.
LEMMA SavingWaits ==
  ASSUME IInv, Next, Saving
  PROVE  (tasks' = tasks /\ lock' = lock) \/ Saved \/ SaveError \/ Crash
<1>0. lock.op # "free" /\ lock.op # "pump" /\ Alive
  BY DEF Saving, SaveOps, IInv, Quiet, Free
<1>1. ASSUME NEW r \in Run, RunNext(r)
      PROVE  tasks' = tasks /\ lock' = lock
  BY <1>0, <1>1 DEF RunNext, RunCheck, RunChild, RunAccept, RunProgress, RunReturn, RunSettle, Free, core
<1>2. ASSUME NEW t \in Task, CancelNext(t)
      PROVE  tasks' = tasks /\ lock' = lock
  BY <1>0, <1>2 DEF CancelNext, CancelCall, DeadlineFires, DeadlineRead, Claim, Withdraw, AbortOutcome,
     CancelSettle, Release, Replay, Free, core
<1>3. ASSUME NEW t \in Task, RecNext(t)
      PROVE  tasks' = tasks /\ lock' = lock
  BY <1>0, <1>3 DEF RecNext, StartLeaseFires, RetryFires, ReconcileTerminal, ReconcileLive,
     ReconcileRelaunch, ReconcileTransient, RecAccept, RecObserve, RecFinish, RecoverNext, Free, core
<1>4. ASSUME PumpNext
      PROVE  tasks' = tasks /\ lock' = lock
  BY <1>0, <1>4 DEF PumpNext, PumpBegin, PumpHold, PumpStart, PumpEnd, AdmissionRetry, Free, core
<1>5. ASSUME Load \/ BeginRecovery \/ Activate
      PROVE  tasks' = tasks /\ lock' = lock
  BY <1>0, <1>5 DEF Load, BeginRecovery, Activate, Alive, Free, core
<1>6. ASSUME NEW t \in Task, Resubmit(t) \/ WaitForTask(t) \/ \E followUp \in BOOLEAN : Submit(t, followUp)
      PROVE  tasks' = tasks /\ lock' = lock
  BY <1>0, <1>6 DEF Resubmit, WaitForTask, Submit, Free, core
<1> QED BY <1>1, <1>2, <1>3, <1>4, <1>5, <1>6 DEF Next

\* What makes a task active whose admission is not being saved.
LEMMA ActiveBefore ==
  ASSUME IInv, IInv', OInv, OInv', XInv, SaveOrigins, Next, ~InitialisationFails,
         boot'.phase \in {"recovering", "up"}, NEW t \in Task, Active(t)', ~Admitting(t)'
  PROVE  \/ BeginRecovery
         \/ StartSaved /\ t = lock.id
         \/ SaveError /\ lock.op = "settle" /\ t = lock.id
         \/ boot.phase \in {"recovering", "up"} /\ Active(t) /\ ~Admitting(t)
<1>0. TypeOK
  BY DEF IInv
<1>1. ~Crash /\ ~Load
  BY DEF Crash, Load, AtPhase
<1>2. BeginRecovery \/ boot.phase \in {"recovering", "up"}
  BY <1>1, PhaseMoves DEF Activate, RecoverNext
<1>3. CASE Saving
  <2>1. CASE tasks' = tasks /\ lock' = lock
    BY <1>2, <2>1 DEF Active, Admitting
  <2>2. CASE Saved
    <3>1. tasks' = tasks /\ (lock.op = "start" => StartSaved)
      BY <2>2 DEF Saved, SubmitSaved, HoldSaved, StartSaved, ChildSaved, AcceptSaved, RenewSaved,
         SettleSaved, WithdrawSaved, Commit
    <3> QED BY <1>2, <3>1 DEF Active, Admitting
  <2>3. CASE SaveError
    <3>1. tasks' = [tasks EXCEPT ![lock.id] = lock.prev] /\ lock.id \in Task
      BY <1>0, <1>3, <2>3 DEF SaveError, SaveFails, RolledBack, TypeOK
    <3>2. CASE t # lock.id
      BY <1>0, <1>2, <3>1, <3>2 DEF Active, Admitting, TypeOK
    <3>3. CASE t = lock.id
      <4>1. lock.prev.status \in ActiveStatus
        BY <1>0, <3>1, <3>3 DEF Active, TypeOK
      <4>2. /\ Changes(lock.op, lock.prev, tasks[t]) /\ CanTransition(lock.prev.status, tasks[t].status)
            /\ lock.op \in {"settle", "withdraw"} <=> IsTerminal(tasks[t].status)
        BY <1>3, <3>3 DEF IInv, SaveIsLegal, OInv, SaveChanges
      <4>3. lock.op \notin {"start", "withdraw"}
        BY <1>3, <4>1, <4>2 DEF Changes, SaveOrigins, ActiveStatus
      <4>4. CASE lock.op # "settle"
        <5>1. tasks[t].status \in ActiveStatus
          BY <4>1, <4>2, <4>3, <4>4 DEF CanTransition, AllowedTransitions, ActiveStatus, TaskStatuses,
             TerminalStatus, IsTerminal
        <5> QED BY <1>2, <4>3, <5>1 DEF Active, Admitting
      <4> QED BY <2>3, <3>3, <4>4
    <3> QED BY <3>2, <3>3
  <2> QED BY <1>1, <1>3, <2>1, <2>2, <2>3, SavingWaits
<1>4. CASE ~Saving
  <2>1. ~Admitting(t)
    BY <1>4 DEF Admitting, Saving, SaveOps
  <2>2. CASE tasks' = tasks
    BY <1>2, <2>1, <2>2 DEF Active
  <2>3. ASSUME NEW op \in SaveOps, NEW u \in Task, NEW by, Begins(op, u, by)
        PROVE  Active(t)
    <3>1. PICK next, r : BeginSave(op, u, next, by, r)
      BY <2>3 DEF Begins
    <3>2. tasks' = [tasks EXCEPT ![u] = next] /\ lock'.op = op /\ lock'.id = u /\ lock'.prev = tasks[u] /\ Saving'
      BY <3>1 DEF BeginSave, Saving
    <3>3. CASE t # u
      BY <1>0, <3>2, <3>3 DEF TypeOK, Active
    <3>4. CASE t = u
      <4>1. CanTransition(tasks[t].status, tasks'[t].status)
        BY <3>2, <3>4 DEF IInv, SaveIsLegal
      <4>2. Changes(op, tasks[t], tasks'[t])
        BY <3>2, <3>4 DEF OInv, SaveChanges
      <4>3. op # "start"
        BY <3>2, <3>4 DEF Admitting
      <4>4. tasks[t].status \in TaskStatuses /\ tasks'[t].status \in TaskStatuses
        BY <1>0 DEF IInv, TypeOK, TaskRec
      <4>5. ~IsTerminal(tasks[t].status)
        BY <3>2, <3>4 DEF IInv, SaveIsLegal
      <4> QED BY <4>1, <4>2, <4>3, <4>4, <4>5, NoWayBack DEF Changes, Active, TaskStatuses, IsTerminal
    <3> QED BY <3>3, <3>4
  <2> QED BY <1>1, <1>2, <1>4, <2>1, <2>2, <2>3, OwnerSteps DEF OwnerMoves, Ends, SaveFails, PumpBegin
<1> QED BY <1>3, <1>4

\* How a call ends.
LEMMA CallsEnd ==
  ASSUME IInv, OInv, Next, NEW r \in Run, runs[r].pc # "idle", runs'[r].pc = "idle"
  PROVE  \/ Crash
         \/ RunCheck(r) /\ (~Settleable(runs[r].id, runs[r].lease) \/ Owned(runs[r].id))
         \/ RunSettle(r) /\ \/ Defers(runs[r].id, runs[r].lease)
                            \/ ~Settles(runs[r].id, runs[r].lease)
         \/ SettleSaved /\ lock.by = "run" /\ lock.run = r
         \/ SaveError /\ RunSaveFailed /\ runs[r].last /\ lock.run = r
<1>0. TypeOK
  BY DEF IInv
<1>1. ASSUME NEW q \in Run, EndRun(q)
      PROVE  q = r
  BY <1>0, <1>1 DEF EndRun, TypeOK
<1>2. ASSUME NEW q \in Run, NEW new, runs' = [runs EXCEPT ![q] = new], new.pc # "idle"
      PROVE  FALSE
  BY <1>0, <1>2 DEF TypeOK
<1>3. ASSUME NEW ts \in SUBSET Task, NEW kind \in {"launch", "observe"}, StartRuns(ts, kind)
      PROVE  FALSE
  BY <1>0, <1>3, CallsStart
<1>4. ASSUME runs' = runs
      PROVE  FALSE
  BY <1>4
<1>5. ASSUME NEW q \in Run, RunNext(q)
      PROVE  \/ RunCheck(r) /\ (~Settleable(runs[r].id, runs[r].lease) \/ Owned(runs[r].id))
             \/ RunSettle(r) /\ \/ Defers(runs[r].id, runs[r].lease)
                                \/ ~Settles(runs[r].id, runs[r].lease)
  <2>0. runs[q] \in RunRec
    BY <1>0 DEF TypeOK
  <2>1. CASE RunCheck(q)
    <3>1. ASSUME runs' = [runs EXCEPT ![q].pc = "settling", ![q].res = "failed", ![q].last = TRUE]
          PROVE  FALSE
      BY <1>0, <2>0, <3>1 DEF TypeOK, RunRec
    <3>2. ASSUME runs' = [runs EXCEPT ![q].pc = "executing"]
          PROVE  FALSE
      BY <1>0, <2>0, <3>2 DEF TypeOK, RunRec
    <3> QED BY <1>1, <2>1, <3>1, <3>2 DEF RunCheck
  <2>2. CASE RunSettle(q)
    <3>1. ASSUME runs' = [runs EXCEPT ![q].pc = "saving"]
          PROVE  FALSE
      BY <1>0, <2>0, <3>1 DEF TypeOK, RunRec
    <3> QED BY <1>1, <2>2, <3>1 DEF RunSettle
  <2>3. CASE RunReturn(q)
    <3>1. ASSUME NEW res, runs' = [runs EXCEPT ![q].pc = "settling", ![q].res = res]
          PROVE  FALSE
      BY <1>0, <2>0, <3>1 DEF TypeOK, RunRec
    <3>2. ASSUME NEW res, runs' = [runs EXCEPT ![q].pc = "settling", ![q].res = res, ![q].last = TRUE]
          PROVE  FALSE
      BY <1>0, <2>0, <3>2 DEF TypeOK, RunRec
    <3> QED BY <2>3, <3>1, <3>2 DEF RunReturn
  <2> QED BY <1>4, <1>5, <2>1, <2>2, <2>3 DEF RunNext, RunChild, RunAccept, RunProgress, exec
<1>6. ASSUME NEW t \in Task, CancelNext(t)
      PROVE  FALSE
  BY <1>4, <1>6 DEF CancelNext, CancelCall, DeadlineFires, DeadlineRead, Claim, Withdraw, AbortOutcome,
     CancelSettle, Release, Replay, exec
<1>7. ASSUME NEW t \in Task, RecNext(t)
      PROVE  FALSE
  <2>1. ~StartLeaseFires(t)
    <3>1. CASE runs' = [q \in Run |-> IF runs[q].id = t THEN [runs[q] EXCEPT !.stale = TRUE] ELSE runs[q]]
      BY <1>0, <3>1 DEF TypeOK, RunRec
    <3> QED BY <1>4, <3>1 DEF StartLeaseFires, exec
  <2>2. {t} \in SUBSET Task
    OBVIOUS
  <2> QED BY <1>3, <1>4, <1>7, <2>1, <2>2 DEF RecNext, RetryFires, ReconcileTerminal, ReconcileLive,
          ReconcileRelaunch, ReconcileTransient, RecAccept, RecObserve, RecFinish, RecoverNext, exec
<1>8. ~LaunchAdmitted
  <2>1. {t \in pump.admitted : tasks[t].status = "starting" /\ ~Owned(t)} \in SUBSET Task
    BY <1>0 DEF TypeOK, PumpRec
  <2> QED BY <1>3, <2>1 DEF LaunchAdmitted
<1>9. ~PumpNext
  BY <1>4, <1>8 DEF PumpNext, PumpBegin, PumpHold, PumpStart, PumpEnd, AdmissionRetry, exec
<1>10. ASSUME Saved
       PROVE  SettleSaved /\ lock.by = "run" /\ lock.run = r
  <2>1. SettleSaved /\ lock.by = "run" /\ EndRun(lock.run)
    BY <1>4, <1>10 DEF Saved, SubmitSaved, HoldSaved, StartSaved, ChildSaved, AcceptSaved, RenewSaved,
       SettleSaved, WithdrawSaved, exec
  <2>2. lock.run \in Run
    BY <2>1 DEF IInv, RunWaits, SettleSaved, Commit, Saving, SaveOps
  <2> QED BY <1>1, <2>1, <2>2
<1>11. ASSUME SaveError
       PROVE  RunSaveFailed /\ runs[r].last /\ lock.run = r
  <2>1. RunSaveFailed
    BY <1>4, <1>8, <1>11 DEF SaveError, PumpSaveFailed, CallSaveFailed, CancelSaveFailed, RecSaveFailed, exec
  <2>2. lock.run \in Run /\ runs[lock.run] \in RunRec
    BY <1>0, <2>1 DEF IInv, RunWaits, RunSaveFailed, Saving, SaveOps, TypeOK
  <2>3. ASSUME ~runs[lock.run].last
        PROVE  FALSE
    <3>1. runs' = [runs EXCEPT ![lock.run].pc = "settling", ![lock.run].last = TRUE,
                               ![lock.run].res = ThrowStatus(runs[lock.run].kind)]
      BY <2>1, <2>3 DEF RunSaveFailed
    <3> QED BY <1>0, <2>2, <3>1 DEF TypeOK, RunRec
  <2>4. EndRun(lock.run)
    BY <2>1, <2>3 DEF RunSaveFailed
  <2> QED BY <1>1, <2>1, <2>2, <2>3, <2>4
<1>12. ~Load /\ ~BeginRecovery /\ ~Activate
  BY <1>4 DEF Load, BeginRecovery, Activate, exec
<1>13. ASSUME NEW t \in Task, Resubmit(t) \/ WaitForTask(t) \/ \E followUp \in BOOLEAN : Submit(t, followUp)
       PROVE  FALSE
  BY <1>4, <1>13 DEF Resubmit, WaitForTask, Submit, exec
<1> QED BY <1>5, <1>6, <1>7, <1>9, <1>10, <1>11, <1>12, <1>13 DEF Next

\* How an owner goes.
LEMMA OwnersLeave ==
  ASSUME IInv, OInv, Next, ~Abandons, NEW t \in Task, Owned(t), ~Owned(t)'
  PROVE  Crash \/ Release(t) \/ (SettleSaved /\ lock.id = t)
<1> USE DEF Owned
<1>0. TypeOK
  BY DEF IInv
<1>1. ASSUME cancel'[t] = cancel[t]
      PROVE  FALSE
  BY <1>1
<1>2. ASSUME NEW u \in Task, NEW new, cancel' = [cancel EXCEPT ![u] = new],
             ~Owned(u) \/ new.pc \in {"withdraw", "aborting", "settle", "release"}
      PROVE  FALSE
  BY <1>0, <1>2 DEF TypeOK
<1>3. ASSUME NEW u \in Task, NEW res, cancel' = [cancel EXCEPT ![u].deferred = res]
      PROVE  FALSE
  BY <1>0, <1>3 DEF TypeOK, CancelRec
<1>4. ASSUME NEW u \in Task, cancel' = [cancel EXCEPT ![u].pc = "release"]
      PROVE  FALSE
  BY <1>0, <1>4 DEF TypeOK, CancelRec
<1>5. ASSUME NEW u \in Task, CancelNext(u)
      PROVE  Release(t)
  <2>1. ASSUME NEW k, CancelCall(u, k)
        PROVE  FALSE
    <3>1. ~Owned(u) /\ \E new : cancel' = [cancel EXCEPT ![u] = new]
      BY <2>1 DEF CancelCall, Cancelling
    <3> QED BY <1>2, <3>1
  <2>2. CASE DeadlineRead(u) /\ cancel' # cancel
    <3>1. ~Owned(u) /\ \E new : cancel' = [cancel EXCEPT ![u] = new]
      BY <2>2 DEF DeadlineRead, Cancelling
    <3> QED BY <1>2, <3>1
  <2>3. CASE Claim(u)
    <3>1. ~Owned(u) /\ \E new : cancel' = [cancel EXCEPT ![u] = new]
      BY <2>3 DEF Claim
    <3> QED BY <1>2, <3>1
  <2>4. CASE Withdraw(u) \/ CancelSettle(u)
    BY <1>1, <1>4, <2>4 DEF Withdraw, CancelSettle
  <2>5. ASSUME NEW ok \in BOOLEAN, AbortOutcome(u, ok)
        PROVE  FALSE
    <3>1. PICK pc : pc = IF cancel[u].term = "none" \/ HandoffRefused(u, ok) THEN "release" ELSE "settle"
      OBVIOUS
    <3>2. PICK new : new = [cancel[u] EXCEPT !.pc = pc, !.term = IF ok THEN cancel[u].term ELSE "interrupted"]
      OBVIOUS
    <3>3. cancel' = [cancel EXCEPT ![u] = new]
      BY <2>5, <3>1, <3>2 DEF AbortOutcome
    <3>4. new.pc = pc /\ pc \in {"release", "settle"}
      BY <1>0, <3>1, <3>2 DEF TypeOK, CancelRec
    <3> QED BY <1>2, <3>3, <3>4
  <2>6. CASE Release(u) /\ u # t
    <3>1. \E new : cancel' = [cancel EXCEPT ![u] = new]
      BY <2>6 DEF Release
    <3> QED BY <1>0, <1>1, <2>6, <3>1 DEF TypeOK
  <2>7. CASE Replay(u)
    <3>1. ~Owned(u) /\ (cancel' = cancel \/ cancel' = [cancel EXCEPT ![u] = NoCancel])
      BY <2>7 DEF Replay
    <3> QED BY <1>1, <1>2, <3>1
  <2> QED BY <1>1, <1>5, <2>1, <2>2, <2>3, <2>4, <2>5, <2>6, <2>7 DEF CancelNext, DeadlineFires
<1>6. ASSUME NEW r \in Run, RunNext(r)
      PROVE  FALSE
  <2>1. ASSUME RunSettle(r), cancel' # cancel
        PROVE  FALSE
    <3>1. runs[r].id \in Task
      BY <1>0, <2>1 DEF RunSettle, TypeOK
    <3>2. cancel' = [cancel EXCEPT ![runs[r].id].deferred = IF cancel[runs[r].id].deferred = "none"
                                                            THEN runs[r].res
                                                            ELSE cancel[runs[r].id].deferred]
      BY <2>1 DEF RunSettle
    <3> QED BY <1>3, <3>1, <3>2
  <2> QED BY <1>1, <1>6, <2>1 DEF RunNext, RunCheck, RunChild, RunAccept, RunProgress, RunReturn
<1>7. ASSUME NEW u \in Task, RecNext(u)
      PROVE  FALSE
  <2>1. ~RecFinish(u)
    BY <1>1, <1>3 DEF RecFinish
  <2> QED BY <1>1, <1>7, <2>1 DEF RecNext, StartLeaseFires, RetryFires, ReconcileTerminal, ReconcileLive,
          ReconcileRelaunch, ReconcileTransient, RecAccept, RecObserve, RecoverNext
<1>8. ASSUME Saved
      PROVE  SettleSaved /\ lock.id = t
  <2>1. ASSUME SettleSaved, lock.id # t
        PROVE  FALSE
    <3>1. lock.id \in Task
      BY <1>0, <2>1 DEF SettleSaved, Commit, TypeOK, Saving, SaveOps
    <3>2. CASE lock.by = "owner"
      <4>1. cancel' = [cancel EXCEPT ![lock.id].committed = TRUE, ![lock.id].pc = "release"]
        BY <2>1, <3>2 DEF SettleSaved
      <4> QED BY <1>0, <1>1, <2>1, <4>1 DEF TypeOK
    <3>3. CASE lock.by = "replay"
      <4>1. cancel' = [cancel EXCEPT ![lock.id] = NoCancel]
        BY <2>1, <3>3 DEF SettleSaved
      <4> QED BY <1>0, <1>1, <2>1, <4>1 DEF TypeOK
    <3>4. CASE lock.by \notin {"owner", "replay"}
      BY <1>1, <2>1, <3>4 DEF SettleSaved
    <3> QED BY <3>2, <3>3, <3>4
  <2>2. ASSUME WithdrawSaved
        PROVE  FALSE
    <3>1. lock.id \in Task /\ cancel' = [cancel EXCEPT ![lock.id].pc = "release"]
      BY <1>0, <2>2 DEF WithdrawSaved, Commit, TypeOK, Saving, SaveOps
    <3> QED BY <1>4, <3>1
  <2> QED BY <1>1, <1>8, <2>1, <2>2
          DEF Saved, SubmitSaved, HoldSaved, StartSaved, ChildSaved, AcceptSaved, RenewSaved
<1>9. ~SaveError
  <2>1. ASSUME SaveFails, CancelSaveFailed
        PROVE  FALSE
    <3>1. lock.op = "withdraw" /\ lock.id \in Task
      BY <1>0, <2>1 DEF CancelSaveFailed, Abandons, Saving, SaveOps, TypeOK
    <3>2. lock.by = "owner"
      BY <3>1 DEF OInv, OwnerWaits
    <3>3. cancel' = [cancel EXCEPT ![lock.id].pc = "release"]
      BY <2>1, <3>2 DEF CancelSaveFailed
    <3> QED BY <1>4, <3>1, <3>3
  <2>2. ~(SaveFails /\ RecSaveFailed)
    BY DEF Abandons
  <2> QED BY <1>1, <2>1, <2>2 DEF SaveError, PumpSaveFailed, CallSaveFailed, RunSaveFailed
<1>10. ~PumpNext /\ ~Load /\ ~BeginRecovery /\ ~Activate
  BY <1>1 DEF PumpNext, PumpBegin, PumpHold, PumpStart, PumpEnd, AdmissionRetry, Load, BeginRecovery, Activate
<1>11. ASSUME NEW u \in Task, Resubmit(u) \/ WaitForTask(u) \/ \E followUp \in BOOLEAN : Submit(u, followUp)
       PROVE  FALSE
  BY <1>1, <1>11 DEF Resubmit, WaitForTask, Submit
<1> QED BY <1>5, <1>6, <1>7, <1>8, <1>9, <1>10, <1>11 DEF Next

\* A launch of an open task leaves it a registered call or its owner.
LEMMA LaunchAttends ==
  ASSUME IInv, IInv', RegisteredRuns, NEW t \in Task, NEW kind \in {"launch", "observe"}, StartRuns({t}, kind)
  PROVE  HasRun(t)' \/ Owned(t)
<1>1. {t} \in SUBSET Task
  OBVIOUS
<1>2. RegisteredRuns' /\ (Registered(t)' \/ Owned(t))
  BY <1>1, LaunchRegisters DEF IInv
<1>3. ASSUME Registered(t)'
      PROVE  HasRun(t)'
  <2>1. active'[t] \in Run
    BY <1>3 DEF Registered, IInv, TypeOK
  <2> QED BY <1>2, <1>3, <2>1 DEF RegisteredRuns, HasRun
<1> QED BY <1>2, <1>3

\* What a reconciliation, a timer or a call knows of an active task.
LEMMA ActiveInFile ==
  ASSUME IInv, OInv, LeasesAgree, Alive, NEW t \in Task, Active(t), ~Admitting(t)
  PROVE  /\ ~Unstarted(t) /\ tasks[t].lease = disk[t].lease /\ tasks[t].lease # 0
         /\ Settleable(t, disk[t].lease) /\ Settles(t, disk[t].lease)
<1>0. TypeOK
  BY DEF IInv
<1>1. ~Unstarted(t) /\ tasks[t].lease = disk[t].lease
  BY MapFollows DEF Admitting
<1>2. Settleable(t, disk[t].lease) /\ Settles(t, disk[t].lease)
  BY <1>1 DEF Active, ActiveStatus, Settles, Settleable, Open, Known, Ended, IsTerminal, TerminalStatus, Absent
<1>3. disk[t].status \in ActiveStatus
  <2>1. disk[t].status \in TaskStatuses
    BY <1>0 DEF TypeOK, TaskRec
  <2>2. ~IsTerminal(disk[t].status)
    <3>1. CASE Saving /\ lock.id = t
      <4>1. disk[t] = lock.prev
        BY <1>0, <3>1 DEF IInv, LedgerAgrees, Alive, TypeOK
      <4> QED BY <3>1, <4>1 DEF IInv, SaveIsLegal
    <3>2. CASE ~(Saving /\ lock.id = t)
      <4>1. disk[t] = tasks[t]
        BY <1>0, <3>2 DEF IInv, LedgerAgrees, Alive, TypeOK
      <4> QED BY <4>1 DEF Active, ActiveStatus, IsTerminal, TerminalStatus
    <3> QED BY <3>1, <3>2
  <2> QED BY <1>1, <2>1, <2>2 DEF Unstarted, TaskStatuses, IsTerminal
<1> QED BY <1>1, <1>2, <1>3 DEF LeasesAgree

\* A settlement that is durable leaves its task ended.
LEMMA SettledIsEnded ==
  ASSUME IInv, SettleSaved \/ WithdrawSaved
  PROVE  lock.id \in Task /\ tasks'[lock.id].status \notin ActiveStatus
<1>1. Saving /\ lock.op \in {"settle", "withdraw"} /\ tasks' = tasks
  BY DEF SettleSaved, WithdrawSaved, Commit, Saving, SaveOps
<1>2. lock.id \in Task /\ IsTerminal(tasks[lock.id].status)
  BY <1>1 DEF IInv, TypeOK, SaveIsLegal
<1> QED BY <1>1, <1>2 DEF IsTerminal, TerminalStatus, ActiveStatus

\* An active task that has an executor call keeps one, or has an owner.
LEMMA CallStays ==
  ASSUME IInv, OInv, XInv, LeasesAgree, SaveOrigins, Next, ~Abandons, boot'.phase # "down",
         NEW t \in Task, Active(t), ~Admitting(t), Active(t)', HasRun(t)
  PROVE  HasRun(t)' \/ Owned(t)'
<1>0. TypeOK
  BY DEF IInv
<1>1. PICK r \in Run : runs[r].pc # "idle" /\ runs[r].id = t
  BY DEF HasRun
<1>2. CASE runs'[r].pc # "idle"
  BY <1>1, <1>2, CallsKeepTheirTask DEF HasRun
<1>3. CASE runs'[r].pc = "idle"
  <2>1. Alive
    BY <1>1 DEF IInv, Quiet
  <2>2. runs[r].lease = disk[t].lease
    BY <1>1 DEF XInv, DriversAreDurable
  <2>3. Settleable(t, runs[r].lease) /\ Settles(t, runs[r].lease)
    BY <2>1, <2>2, ActiveInFile
  <2>4. ~Crash
    BY DEF Crash, AtPhase
  <2>5. CASE RunCheck(r) /\ Owned(t)
    BY <2>5 DEF RunCheck, Owned
  <2>6. CASE RunSettle(r) /\ Defers(t, runs[r].lease)
    <3>1. \E res : cancel' = [cancel EXCEPT ![t].deferred = res]
      BY <1>1, <2>3, <2>6 DEF RunSettle
    <3>2. Owned(t)
      BY <2>6 DEF Defers
    <3> QED BY <1>0, <3>1, <3>2 DEF TypeOK, CancelRec, Owned
  <2>7. ASSUME SettleSaved, lock.by = "run", lock.run = r
        PROVE  FALSE
    <3>1. lock.id = t
      BY <1>1, <2>7 DEF SaveOrigins, SettleSaved, Commit, Saving, SaveOps
    <3> QED BY <2>7, <3>1, SettledIsEnded DEF Active
  <2>8. ~(SaveError /\ RunSaveFailed /\ runs[r].last /\ lock.run = r)
    BY DEF Abandons, SaveError
  <2> QED BY <1>1, <1>3, <2>3, <2>4, <2>5, <2>6, <2>7, <2>8, CallsEnd
<1> QED BY <1>2, <1>3

\* An active task that has an owner keeps it.
LEMMA OwnerStays ==
  ASSUME IInv, OInv, OwnersDone, Next, ~Abandons, boot'.phase # "down",
         NEW t \in Task, Active(t), Active(t)', Owned(t)
  PROVE  Owned(t)'
<1>1. ~Crash
  BY DEF Crash, AtPhase
<1>2. ASSUME Release(t)
      PROVE  FALSE
  <2>1. disk = tasks /\ cancel[t].pc = "release"
    BY <1>2, FreeMapIsFile DEF Release, IInv, Quiet
  <2> QED BY <2>1 DEF OwnersDone, OwnerIsDone, Active
<1>3. ~(SettleSaved /\ lock.id = t)
  BY SettledIsEnded DEF Active
<1> QED BY <1>1, <1>2, <1>3, OwnersLeave

\* An active task that is reconciled gets a call, an observer or a retry, or
\* has an owner.
LEMMA ReconciliationStays ==
  ASSUME IInv, IInv', OInv, XInv, LeasesAgree, RegisteredRuns, OwnersDone, Next, ~Abandons, boot'.phase # "down",
         NEW t \in Task, Active(t), ~Admitting(t), Active(t)', rec[t].pc # "none"
  PROVE  Attended(t)'
<1>0. TypeOK
  BY DEF IInv
<1>1. Alive
  BY DEF IInv, Quiet
<1>2. rec[t].lease = tasks[t].lease /\ Settles(t, rec[t].lease) /\ tasks[t].lease # 0 /\ Open(t)
  BY <1>1, ActiveInFile DEF LeasesAgree, Settles, Settleable
<1>3. ASSUME Owned(t)
      PROVE  Attended(t)'
  BY <1>3, OwnerStays DEF Attended
<1>4. CASE ReconcileRelaunch(t)
  <2>1. StartRuns({t}, "launch")
    BY <1>2, <1>4 DEF ReconcileRelaunch
  <2> QED BY <1>3, <2>1, LaunchAttends DEF Attended
<1>5. CASE RecObserve(t)
  <2>1. StartRuns({t}, "observe")
    BY <1>2, <1>5 DEF RecObserve
  <2> QED BY <1>3, <2>1, LaunchAttends DEF Attended
<1>6. CASE ReconcileTransient(t)
  <2>1. timers.retry[t] # 0 \/ timers' = [timers EXCEPT !.retry[t] = tasks[t].lease]
    BY <1>2, <1>6 DEF ReconcileTransient
  <2>2. timers.retry[t] # 0 => timers' = timers
    BY <1>6 DEF ReconcileTransient
  <2>3. timers'.retry[t] # 0
    BY <1>0, <1>2, <2>1, <2>2 DEF TypeOK, TimerRec
  <2> QED BY <2>3 DEF Attended
<1>7. CASE RecFinish(t)
  <2>1. CASE Defers(t, rec[t].lease)
    BY <1>3, <2>1 DEF Defers
  <2>2. CASE ~Defers(t, rec[t].lease)
    BY <1>2, <1>7, <2>2 DEF RecFinish, Attended
  <2> QED BY <2>1, <2>2
<1>8. ~(SettleSaved /\ t = lock.id)
  BY SettledIsEnded DEF Active
<1>9. ~(SaveFails /\ RecSaveFailed)
  BY DEF Abandons
<1>a. ~Crash
  BY DEF Crash, AtPhase
<1>10. CASE rec'[t].pc # "none"
  BY <1>10 DEF Attended
<1> QED BY <1>4, <1>5, <1>6, <1>7, <1>8, <1>9, <1>a, <1>10, ReconciliationMoves

\* An active task whose starting lease is armed keeps it, or is reconciled, or
\* has the executor call that has accepted it.
LEMMA LeaseStays ==
  ASSUME IInv, OInv, XInv, LeasesAgree, SaveOrigins, Next, boot'.phase # "down",
         NEW t \in Task, Active(t), ~Admitting(t), Active(t)', timers.start[t] # 0
  PROVE  Attended(t)'
<1>0. TypeOK
  BY DEF IInv
<1>1. disk[t].status = "starting" /\ timers.start[t] = disk[t].lease
  BY DEF LeasesAgree
<1>2. Alive /\ tasks[t].lease = disk[t].lease
  <2>1. Up
    BY DEF XInv, StartsClean
  <2>2. Alive
    BY <2>1 DEF Up, Alive
  <2> QED BY <2>2, ActiveInFile
<1>3. ASSUME Saving, lock.op = "accept", lock.id = t, lock.by = "run"
      PROVE  /\ lock.run \in Run /\ runs[lock.run].pc = "executing" /\ runs[lock.run].id = t
             /\ UNCHANGED exec => HasRun(t)'
  BY <1>3 DEF IInv, RunWaits, SaveOrigins, HasRun, exec
<1>4. CASE StartLeaseFires(t)
  <2>1. CASE tasks[t].status = "starting"
    <3>1. rec' = [rec EXCEPT ![t] = Recovering(tasks[t], FALSE)]
      BY <1>1, <1>2, <1>4, <2>1 DEF StartLeaseFires
    <3>2. Recovering(tasks[t], FALSE).pc # "none"
      BY DEF Recovering, NoRec
    <3> QED BY <1>0, <3>1, <3>2 DEF Attended, TypeOK
  <2>2. CASE tasks[t].status # "starting"
    <3>1. Saving /\ lock.id = t /\ disk[t] = lock.prev
      BY <1>0, <1>1, <1>2, <2>2 DEF IInv, LedgerAgrees, Alive, TypeOK
    <3>2. lock.op \notin {"hold", "child", "renew", "start", "withdraw"}
      BY <1>1, <2>2, <3>1 DEF SaveOrigins, Admitting
    <3>3. lock.op \notin {"settle", "submit"}
      BY <1>1, <3>1 DEF IInv, SaveIsLegal, OInv, SaveChanges, Changes, Absent, Active, ActiveStatus, IsTerminal, TerminalStatus
    <3>4. lock.op = "accept"
      BY <3>1, <3>2, <3>3 DEF Saving, SaveOps
    <3>5. lock.by = "run"
      <4>1. lock.by \in {"run", "recover"}
        BY <3>1, <3>4 DEF SaveOrigins
      <4>2. rec[t].pc = "none"
        BY <1>4 DEF StartLeaseFires
      <4> QED BY <3>1, <3>4, <4>1, <4>2 DEF OInv, RecWaits
    <3>6. UNCHANGED exec
      BY <1>4, <2>2 DEF StartLeaseFires
    <3> QED BY <1>3, <3>1, <3>4, <3>5, <3>6 DEF Attended
  <2> QED BY <2>1, <2>2
<1>5. CASE AcceptSaved /\ t = lock.id
  <2>1. Saving /\ lock.op = "accept"
    BY <1>5 DEF AcceptSaved, Commit, Saving, SaveOps
  <2>2. CASE lock.by = "run"
    BY <1>3, <1>5, <2>1, <2>2 DEF AcceptSaved, Attended, exec
  <2>3. CASE lock.by = "recover"
    <3>1. rec' = [rec EXCEPT ![t].pc = IF rec[t].res = "none" THEN "observe" ELSE "finish"]
      BY <1>5, <2>3 DEF AcceptSaved
    <3>2. rec'[t].pc # "none"
      BY <1>0, <3>1 DEF TypeOK, RecRec
    <3> QED BY <3>2 DEF Attended
  <2> QED BY <2>1, <2>2, <2>3 DEF SaveOrigins
<1>6. ~(t = lock.id /\ (SettleSaved \/ WithdrawSaved))
  BY SettledIsEnded DEF Active
<1>7. ~Crash
  BY DEF Crash, AtPhase
<1>8. ~(StartSaved /\ t = lock.id)
  BY DEF StartSaved, Commit, Admitting
<1>9. ~Activate
  BY DEF Activate, XInv, StartsClean, Up
<1>10. CASE timers'.start[t] # 0
  BY <1>10 DEF Attended
<1> QED BY <1>0, <1>4, <1>5, <1>6, <1>7, <1>8, <1>9, <1>10, TimersMove

\* An active task with a retry timer keeps it, or is reconciled.
LEMMA RetryStays ==
  ASSUME IInv, OInv, LeasesAgree, Next, boot'.phase # "down",
         NEW t \in Task, Active(t), ~Admitting(t), Active(t)', timers.retry[t] # 0
  PROVE  Attended(t)'
<1>0. TypeOK
  BY DEF IInv
<1>1. CASE RetryFires(t)
  <2>1. Alive
    BY <1>1 DEF RetryFires
  <2>2. tasks[t].lease = timers.retry[t]
    BY <2>1, ActiveInFile DEF LeasesAgree
  <2>3. rec' = [rec EXCEPT ![t] = Recovering(tasks[t], FALSE)]
    BY <1>1, <2>2 DEF RetryFires
  <2>4. Recovering(tasks[t], FALSE).pc # "none"
    BY DEF Recovering, NoRec
  <2> QED BY <1>0, <2>3, <2>4 DEF Attended, TypeOK
<1>2. ~(t = lock.id /\ (SettleSaved \/ WithdrawSaved))
  BY SettledIsEnded DEF Active
<1>3. ~Crash
  BY DEF Crash, AtPhase
<1>4. CASE timers'.retry[t] # 0
  BY <1>4 DEF Attended
<1> QED BY <1>0, <1>1, <1>2, <1>3, <1>4, TimersMove

\* A task that is listed stays so until it is reconciled.
LEMMA ListedStays ==
  ASSUME IInv, OInv, XInv, Next, ~InitialisationFails, boot'.phase # "down", NEW t \in Task, Listed(t)
  PROVE  Listed(t)' \/ Attended(t)'
<1>0. TypeOK
  BY DEF IInv
<1>1. boot.phase = "recovering"
  BY DEF XInv, StartsClean
<1>2. ~Crash
  BY DEF Crash, AtPhase
<1>3. ~Load /\ ~BeginRecovery
  BY <1>1 DEF Load, BeginRecovery
<1>4. ~Activate
  BY DEF Activate
<1>5. ASSUME NEW u \in Task, RecoverNext(u)
      PROVE  Listed(t)' \/ Attended(t)'
  <2>1. CASE u = t
    <3>1. rec' = [rec EXCEPT ![t] = Recovering(boot.list[t], TRUE)]
      BY <1>5, <2>1 DEF RecoverNext
    <3>2. Recovering(boot.list[t], TRUE).pc # "none"
      BY DEF Recovering, NoRec
    <3> QED BY <1>0, <3>1, <3>2 DEF Attended, TypeOK
  <2>2. CASE u # t
    BY <1>0, <1>5, <2>2 DEF RecoverNext, Listed, TypeOK, BootRec
  <2> QED BY <2>1, <2>2
<1>6. CASE boot' = boot
  BY <1>6 DEF Listed
<1> QED BY <1>2, <1>3, <1>4, <1>5, <1>6, PhaseMoves

\* Every step the code can come back from leaves somebody to come back to an
\* active task.
LEMMA ActiveAttendedKept ==
  ASSUME IInv, IInv', OInv, OInv', XInv, NInv, Next, ~Abandons
  PROVE  ActiveAttended'
<1>0. TypeOK /\ ~InitialisationFails
  BY DEF IInv, Abandons
<1> SUFFICES ASSUME boot'.phase \in {"recovering", "up"}, NEW t \in Task, Active(t)', ~Admitting(t)'
             PROVE  Attended(t)' \/ Listed(t)'
  BY DEF ActiveAttended
<1>1. CASE BeginRecovery
  <2>1. Active(t) /\ boot'.list[t] = IF Active(t) THEN tasks[t] ELSE AbsentTask
    BY <1>1 DEF BeginRecovery, Active, core
  <2>2. tasks[t].status # Absent
    BY <2>1 DEF Active, ActiveStatus, Absent
  <2> QED BY <2>1, <2>2 DEF Listed
<1>2. CASE StartSaved /\ t = lock.id
  <2>1. Saving /\ lock.op = "start"
    BY <1>2 DEF StartSaved, Commit, Saving, SaveOps
  <2>2. tasks[t].lease # 0
    BY <1>2, <2>1 DEF NInv, SaveOrigins
  <2>3. timers' = [timers EXCEPT !.start[t] = tasks[t].lease]
    BY <1>2 DEF StartSaved
  <2>4. timers'.start[t] # 0
    BY <1>0, <2>2, <2>3 DEF TypeOK, TimerRec
  <2> QED BY <2>4 DEF Attended
<1>3. CASE SaveError /\ lock.op = "settle" /\ t = lock.id
  <2>1. SaveFails /\ RunSaveFailed /\ ~runs[lock.run].last
    BY <1>3 DEF SaveError, Abandons, PumpSaveFailed, CallSaveFailed
  <2>2. lock.by = "run" /\ Saving
    BY <2>1 DEF RunSaveFailed, SaveFails
  <2>3. lock.run \in Run /\ runs[lock.run].id = t /\ runs[lock.run] \in RunRec
    BY <1>0, <1>3, <2>2 DEF IInv, RunWaits, NInv, SaveOrigins, TypeOK
  <2>4. PICK new : new = [runs[lock.run] EXCEPT !.pc = "settling", !.last = TRUE,
                                                !.res = ThrowStatus(runs[lock.run].kind)]
    OBVIOUS
  <2>5. new.pc = "settling" /\ new.id = t
    BY <2>3, <2>4 DEF RunRec
  <2>6. runs' = [runs EXCEPT ![lock.run] = new]
    BY <2>1, <2>4 DEF RunSaveFailed
  <2>7. HasRun(t)'
    BY <1>0, <2>3, <2>5, <2>6 DEF HasRun, TypeOK
  <2> QED BY <2>7 DEF Attended
<1>4. CASE boot.phase \in {"recovering", "up"} /\ Active(t) /\ ~Admitting(t)
  <2>1. boot'.phase # "down"
    OBVIOUS
  <2>2. Attended(t) \/ Listed(t)
    BY <1>4 DEF NInv, ActiveAttended
  <2>3. CASE HasRun(t)
    BY <1>4, <2>1, <2>3, CallStays DEF NInv, Attended
  <2>4. CASE Owned(t)
    BY <1>4, <2>1, <2>4, OwnerStays DEF NInv, Attended
  <2>5. CASE rec[t].pc # "none"
    BY <1>4, <2>1, <2>5, ReconciliationStays DEF NInv
  <2>6. CASE timers.start[t] # 0
    BY <1>4, <2>1, <2>6, LeaseStays DEF NInv
  <2>7. CASE timers.retry[t] # 0
    BY <1>4, <2>1, <2>7, RetryStays DEF NInv
  <2>8. CASE Listed(t)
    BY <1>0, <2>1, <2>8, ListedStays
  <2> QED BY <2>2, <2>3, <2>4, <2>5, <2>6, <2>7, <2>8 DEF Attended
<1> QED BY <1>0, <1>1, <1>2, <1>3, <1>4, ActiveBefore DEF NInv

-----------------------------------------------------------------------------
(* Who comes back to a queued task *)

\* What a step does to the pump's calls, its walk and the admission retry.
WalkMoves ==
  \/ Crash \/ PumpEnd
  \/ pumpDue' # {}
  \/ PumpWalking' /\ pump'.held /\ timers'.admission
  \/ ~PumpWalking' /\ timers'.admission
  \/ /\ PumpWalking' /\ ~pump'.held /\ UNCHANGED <<tasks, cancel>>
     /\ pump'.todo = {t \in Task : tasks[t].status = "queued" /\ ~Owned(t)}
  \/ /\ UNCHANGED pumpDue /\ (PumpWalking' <=> PumpWalking)
     /\ pump'.held = pump.held /\ timers'.admission = timers.admission
     /\ pump'.todo = pump.todo \/ (StartSaved /\ pump'.todo = pump.todo \ {lock.id})

\* Every step the code can come back from is one of these.
LEMMA WalkSteps ==
  ASSUME IInv, OInv, Next, ~Abandons
  PROVE  WalkMoves
<1>0. TypeOK /\ timers \in TimerRec /\ pump \in PumpRec
  BY DEF IInv, TypeOK
<1>1. ASSUME UNCHANGED <<pumpDue, pump>>, PumpWalking' <=> PumpWalking, timers'.admission = timers.admission
      PROVE  WalkMoves
  BY <1>1 DEF WalkMoves
<1>2. \/ UNCHANGED lock
      \/ lock.op \notin {"pump", "hold", "start"} /\ lock'.op \notin {"pump", "hold", "start"}
      \/ lock.op \in {"pump", "hold", "start"} /\ lock'.op \in {"pump", "hold", "start"}
      => (PumpWalking' <=> PumpWalking)
  BY DEF PumpWalking
<1>3. ASSUME pumpDue' # {}
      PROVE  WalkMoves
  BY <1>3 DEF WalkMoves
<1>4. ASSUME NEW op, NEW u, NEW next, NEW by, NEW r, BeginSave(op, u, next, by, r), Free, op \notin {"hold", "start"},
             op # "pump", UNCHANGED <<pumpDue, pump, timers>>
      PROVE  WalkMoves
  <2>1. lock'.op = op
    BY <1>4 DEF BeginSave
  <2> QED BY <1>1, <1>2, <1>4, <2>1 DEF Free
<1>5. ASSUME UNCHANGED <<pumpDue, pump, lock>>, timers'.admission = timers.admission
      PROVE  WalkMoves
  BY <1>1, <1>2, <1>5
<1>6. ASSUME NEW t \in Task, CancelNext(t)
      PROVE  WalkMoves
  <2>1. CASE DeadlineFires(t)
    <3>1. timers'.admission = timers.admission
      BY <1>0, <2>1 DEF DeadlineFires, TimerRec
    <3> QED BY <1>5, <2>1, <3>1 DEF DeadlineFires, queue, core
  <2>2. CASE Release(t)
    BY <1>3, <1>5, <2>2 DEF Release, core
  <2>3. CASE Withdraw(t)
    BY <1>4, <1>5, <2>3 DEF Withdraw, core, queue
  <2>4. CASE CancelSettle(t)
    BY <1>4, <1>5, <2>4 DEF CancelSettle, core, queue
  <2>5. CASE Replay(t)
    BY <1>4, <1>5, <2>5 DEF Replay, core, queue
  <2>6. ASSUME (\E k : CancelCall(t, k)) \/ DeadlineRead(t) \/ Claim(t) \/ \E ok \in BOOLEAN : AbortOutcome(t, ok)
        PROVE  WalkMoves
    BY <1>5, <2>6 DEF CancelCall, DeadlineRead, Claim, AbortOutcome, core, queue
  <2> QED BY <1>6, <2>1, <2>2, <2>3, <2>4, <2>5, <2>6 DEF CancelNext
<1>7. ASSUME NEW r \in Run, RunNext(r)
      PROVE  WalkMoves
  <2>1. CASE RunChild(r)
    BY <1>4, <2>1 DEF RunChild, queue
  <2>2. CASE RunAccept(r)
    BY <1>4, <2>2 DEF RunAccept, queue
  <2>3. CASE RunProgress(r)
    <3>1. PICK next : next = [tasks[runs[r].id] EXCEPT !.due = @ + 1]
      OBVIOUS
    <3>2. BeginSave("renew", runs[r].id, next, "run", r) /\ Free /\ UNCHANGED <<queue, timers>>
      BY <2>3, <3>1 DEF RunProgress
    <3> QED BY <1>4, <3>2 DEF queue
  <2>4. CASE RunSettle(r)
    BY <1>4, <1>5, <2>4 DEF RunSettle, core, queue
  <2>5. CASE RunCheck(r) \/ RunReturn(r)
    BY <1>5, <2>5 DEF RunCheck, RunReturn, core, queue
  <2> QED BY <1>7, <2>1, <2>2, <2>3, <2>4, <2>5 DEF RunNext
<1>8. ASSUME NEW t \in Task, RecNext(t)
      PROVE  WalkMoves
  <2>1. CASE StartLeaseFires(t) \/ RetryFires(t) \/ ReconcileTransient(t)
    <3>1. timers'.admission = timers.admission
      BY <1>0, <2>1 DEF StartLeaseFires, RetryFires, ReconcileTransient, TimerRec
    <3> QED BY <1>5, <2>1, <3>1 DEF StartLeaseFires, RetryFires, ReconcileTransient, core, queue
  <2>2. CASE RecAccept(t)
    BY <1>4, <1>5, <2>2 DEF RecAccept, core, queue
  <2>3. CASE RecFinish(t)
    BY <1>4, <1>5, <2>3 DEF RecFinish, core, queue
  <2>4. CASE ReconcileTerminal(t) \/ ReconcileLive(t) \/ ReconcileRelaunch(t) \/ RecObserve(t) \/ RecoverNext(t)
    BY <1>5, <2>4 DEF ReconcileTerminal, ReconcileLive, ReconcileRelaunch, RecObserve, RecoverNext, core, queue
  <2> QED BY <1>8, <2>1, <2>2, <2>3, <2>4 DEF RecNext
<1>9. CASE PumpNext
  <2>1. ASSUME NEW c \in pumpDue, PumpBegin(c)
        PROVE  WalkMoves
    <3>1. pump' = [IdlePump EXCEPT !.by = c, !.todo = {t \in Task : tasks[t].status = "queued" /\ ~Owned(t)}]
      BY <2>1 DEF PumpBegin
    <3>2. pump'.todo = {t \in Task : tasks[t].status = "queued" /\ ~Owned(t)} /\ ~pump'.held
      BY <3>1 DEF IdlePump
    <3>3. PumpWalking'
      BY <2>1 DEF PumpBegin, PumpWalking, PumpHolds
    <3> QED BY <2>1, <3>2, <3>3 DEF WalkMoves, PumpBegin
  <2>2. ASSUME NEW t \in Task, PumpHold(t)
        PROVE  WalkMoves
    <3>1. CASE UNCHANGED <<pump, timers>> /\ BeginSave("hold", t, [tasks[t] EXCEPT !.held = TRUE], "host", NoRun)
      <4>1. lock'.op = "hold" /\ lock.op = "pump"
        BY <2>2, <3>1 DEF BeginSave, PumpHold
      <4> QED BY <1>1, <1>2, <2>2, <3>1, <4>1 DEF PumpHold
    <3>2. CASE /\ pump' = [pump EXCEPT !.todo = @ \ {t}, !.held = TRUE] /\ UNCHANGED core
               /\ timers' = [timers EXCEPT !.admission = TRUE]
      <4>1. pump'.held /\ timers'.admission
        BY <1>0, <3>2 DEF PumpRec, TimerRec
      <4>2. PumpWalking'
        BY <2>2, <3>2 DEF PumpHold, PumpWalking, core
      <4> QED BY <4>1, <4>2 DEF WalkMoves
    <3> QED BY <2>2, <3>1, <3>2 DEF PumpHold
  <2>3. ASSUME NEW t \in Task, PumpStart(t)
        PROVE  WalkMoves
    <3>1. lock'.op = "start" /\ lock.op = "pump"
      BY <2>3 DEF BeginSave, PumpStart
    <3> QED BY <1>1, <1>2, <2>3, <3>1 DEF PumpStart, queue
  <2>4. CASE PumpEnd
    BY <2>4 DEF WalkMoves
  <2>5. CASE AdmissionRetry
    BY <1>3, <2>5 DEF AdmissionRetry
  <2> QED BY <1>9, <2>1, <2>2, <2>3, <2>4, <2>5 DEF PumpNext
<1>10. CASE Saved
  <2>1. CASE SubmitSaved
    BY <1>3, <2>1 DEF SubmitSaved
  <2>2. CASE HoldSaved
    <3>1. pump'.held /\ timers'.admission
      BY <1>0, <2>2 DEF HoldSaved, PumpRec, TimerRec
    <3>2. PumpWalking'
      BY <2>2 DEF HoldSaved, PumpWalking, PumpHolds
    <3> QED BY <3>1, <3>2 DEF WalkMoves
  <2>3. CASE StartSaved
    <3>1. pump'.held = pump.held /\ pump'.todo = pump.todo \ {lock.id} /\ timers'.admission = timers.admission
      BY <1>0, <2>3 DEF StartSaved, PumpRec, TimerRec
    <3>2. PumpWalking' /\ PumpWalking
      BY <2>3 DEF StartSaved, Commit, PumpWalking, PumpHolds
    <3> QED BY <2>3, <3>1, <3>2 DEF WalkMoves, StartSaved
  <2>4. CASE ChildSaved \/ AcceptSaved \/ RenewSaved \/ SettleSaved \/ WithdrawSaved
    <3>1. timers'.admission = timers.admission
      BY <1>0, <2>4 DEF ChildSaved, AcceptSaved, RenewSaved, SettleSaved, WithdrawSaved, TimersCleared, TimerRec
    <3>2. lock.op \notin {"pump", "hold", "start"} /\ lock'.op \notin {"pump", "hold", "start"} /\ pump' = pump
      BY <2>4 DEF ChildSaved, AcceptSaved, RenewSaved, SettleSaved, WithdrawSaved, Commit, Unlocked, queue
    <3>3. pumpDue' = pumpDue \/ pumpDue' # {}
      BY <2>4 DEF ChildSaved, AcceptSaved, RenewSaved, SettleSaved, WithdrawSaved, queue
    <3> QED BY <1>1, <1>2, <1>3, <3>1, <3>2, <3>3
  <2> QED BY <1>10, <2>1, <2>2, <2>3, <2>4 DEF Saved
<1>11. CASE SaveError
  <2>1. ~PumpWalking'
    BY <1>11 DEF SaveError, SaveFails, PumpWalking, Unlocked
  <2>2. CASE PumpSaveFailed
    <3>1. pump.by = "submit"
      BY <1>11, <2>2 DEF SaveError, Abandons
    <3>2. timers'.admission
      BY <1>0, <2>2, <3>1 DEF PumpSaveFailed, TimerRec
    <3> QED BY <2>1, <3>2 DEF WalkMoves
  <2>3. CASE CallSaveFailed \/ RunSaveFailed \/ CancelSaveFailed \/ RecSaveFailed
    <3>1. ~PumpWalking
      BY <2>3 DEF CallSaveFailed, RunSaveFailed, CancelSaveFailed, RecSaveFailed, PumpWalking
    <3>2. UNCHANGED <<queue, timers>>
      BY <2>3 DEF CallSaveFailed, RunSaveFailed, CancelSaveFailed, RecSaveFailed
    <3> QED BY <1>1, <2>1, <3>1, <3>2 DEF queue
  <2> QED BY <1>11, <2>2, <2>3 DEF SaveError
<1>12. CASE Crash
  BY <1>12 DEF WalkMoves
<1>13. CASE Load \/ BeginRecovery
  BY <1>5, <1>13 DEF Load, BeginRecovery, core, queue
<1>14. CASE Activate
  BY <1>3, <1>14 DEF Activate
<1>15. ASSUME NEW t \in Task, Resubmit(t) \/ WaitForTask(t) \/ \E followUp \in BOOLEAN : Submit(t, followUp)
       PROVE  WalkMoves
  <2>1. CASE Resubmit(t)
    BY <1>3, <2>1 DEF Resubmit
  <2>2. CASE WaitForTask(t)
    BY <1>5, <2>2 DEF WaitForTask, core, queue
  <2>3. ASSUME NEW followUp \in BOOLEAN, Submit(t, followUp)
        PROVE  WalkMoves
    <3>1. \E next : BeginSave("submit", t, next, "host", NoRun)
      BY <2>3 DEF Submit
    <3> QED BY <1>4, <2>3, <3>1 DEF Submit, queue
  <2> QED BY <1>15, <2>1, <2>2, <2>3
<1> QED BY <1>6, <1>7, <1>8, <1>9, <1>10, <1>11, <1>12, <1>13, <1>14, <1>15 DEF Next

\* What makes a task queued whose submission is not being saved.
LEMMA QueuedBefore ==
  ASSUME IInv, IInv', OInv, OInv', XInv, SaveOrigins, Next, ~Abandons, Up',
         NEW t \in Task, tasks'[t].status = "queued", ~Submitting(t)'
  PROVE  \/ pumpDue' # {} \/ Owned(t)' \/ (~PumpWalking' /\ timers'.admission)
         \/ Up /\ tasks[t].status = "queued" /\ ~Submitting(t)
<1>0. TypeOK /\ ~InitialisationFails
  BY DEF IInv, Abandons
<1>1. ~Crash /\ ~Load /\ ~BeginRecovery
  BY DEF Crash, Load, BeginRecovery, AtPhase, Up
<1>2. Up \/ pumpDue' # {}
  <2>1. Activate => pumpDue' # {}
    BY DEF Activate
  <2> QED BY <1>0, <1>1, <2>1, PhaseMoves DEF RecoverNext, Up, TypeOK, BootRec
<1>3. CASE Saving
  <2>1. CASE tasks' = tasks /\ lock' = lock
    BY <1>2, <2>1 DEF Submitting
  <2>2. CASE Saved
    <3>1. tasks' = tasks /\ (lock.op = "submit" => SubmitSaved)
      BY <2>2 DEF Saved, SubmitSaved, HoldSaved, StartSaved, ChildSaved, AcceptSaved, RenewSaved,
         SettleSaved, WithdrawSaved, Commit
    <3>2. SubmitSaved => pumpDue' # {}
      BY DEF SubmitSaved
    <3> QED BY <1>2, <3>1, <3>2 DEF Submitting
  <2>3. CASE SaveError
    <3>1. tasks' = [tasks EXCEPT ![lock.id] = lock.prev] /\ lock.id \in Task /\ SaveFails
      BY <1>0, <1>3, <2>3 DEF SaveError, SaveFails, RolledBack, TypeOK
    <3>2. CASE t # lock.id
      BY <1>0, <1>2, <3>1, <3>2 DEF Submitting, TypeOK
    <3>3. CASE t = lock.id
      <4>1. lock.prev.status = "queued"
        BY <1>0, <3>1, <3>3 DEF TypeOK
      <4>2. /\ Changes(lock.op, lock.prev, tasks[t]) /\ CanTransition(lock.prev.status, tasks[t].status)
            /\ lock.op \in {"settle", "withdraw"} <=> IsTerminal(tasks[t].status)
        BY <1>3, <3>3 DEF IInv, SaveIsLegal, OInv, SaveChanges
      <4>3. lock.op \notin {"submit", "settle"}
        BY <1>3, <4>1, <4>2 DEF Changes, SaveOrigins, ActiveStatus, Absent
      <4>4. CASE lock.op = "start"
        <5>1. PumpSaveFailed /\ pump.by = "submit"
          BY <2>3, <3>1, <4>4 DEF SaveError, Abandons, CallSaveFailed, RunSaveFailed, CancelSaveFailed, RecSaveFailed
        <5>2. timers'.admission
          BY <1>0, <5>1 DEF PumpSaveFailed, TypeOK, TimerRec
        <5>3. ~PumpWalking'
          BY <3>1 DEF SaveFails, PumpWalking, Unlocked
        <5> QED BY <5>2, <5>3
      <4>5. CASE lock.op = "withdraw"
        <5>1. CancelSaveFailed /\ lock.by = "owner"
          BY <2>3, <4>5 DEF SaveError, PumpSaveFailed, CallSaveFailed, RunSaveFailed, RecSaveFailed, OInv, OwnerWaits
        <5>2. cancel' = [cancel EXCEPT ![t] = [cancel[t] EXCEPT !.pc = "release"]]
          BY <3>3, <5>1 DEF CancelSaveFailed
        <5>3. cancel'[t].pc = "release"
          BY <1>0, <5>2 DEF TypeOK, CancelRec
        <5> QED BY <5>3 DEF Owned
      <4>6. CASE lock.op \notin {"start", "withdraw"}
        <5>1. tasks[t].status = "queued"
          <6>1. tasks[t].status # "starting" /\ ~IsTerminal(tasks[t].status)
            BY <4>1, <4>2, <4>3, <4>6 DEF Changes
          <6> QED BY <4>1, <4>2, <6>1 DEF CanTransition, AllowedTransitions, TaskStatuses, ActiveStatus,
                  TerminalStatus, IsTerminal, Absent
        <5> QED BY <1>2, <4>3, <5>1 DEF Submitting
      <4> QED BY <4>4, <4>5, <4>6
    <3> QED BY <3>2, <3>3
  <2> QED BY <1>1, <1>3, <2>1, <2>2, <2>3, SavingWaits
<1>4. CASE ~Saving
  <2>1. ~Submitting(t)
    BY <1>4 DEF Submitting, Saving, SaveOps
  <2>2. CASE tasks' = tasks
    BY <1>2, <2>1, <2>2
  <2>3. ASSUME NEW op \in SaveOps, NEW u \in Task, NEW by, Begins(op, u, by)
        PROVE  tasks[t].status = "queued"
    <3>1. PICK next, r : BeginSave(op, u, next, by, r)
      BY <2>3 DEF Begins
    <3>2. tasks' = [tasks EXCEPT ![u] = next] /\ lock'.op = op /\ lock'.id = u /\ lock'.prev = tasks[u] /\ Saving'
      BY <3>1 DEF BeginSave, Saving
    <3>3. CASE t # u
      BY <1>0, <3>2, <3>3 DEF TypeOK
    <3>4. CASE t = u
      <4>1. CanTransition(tasks[t].status, "queued")
        BY <3>2, <3>4 DEF IInv, SaveIsLegal
      <4>2. Changes(op, tasks[t], tasks'[t])
        BY <3>2, <3>4 DEF OInv, SaveChanges
      <4>3. op # "submit"
        BY <3>2, <3>4 DEF Submitting
      <4>4. tasks[t].status \in TaskStatuses
        BY <1>0 DEF TypeOK, TaskRec
      <4>5. tasks[t].status \in {Absent, "queued"}
        BY <4>1, <4>4, NoWayBack DEF TaskStatuses
      <4> QED BY <4>2, <4>3, <4>5 DEF Changes
    <3> QED BY <3>3, <3>4
  <2> QED BY <1>1, <1>2, <1>4, <2>1, <2>2, <2>3, OwnerSteps DEF OwnerMoves, Ends, SaveFails, PumpBegin
<1> QED BY <1>3, <1>4

\* A queued task that has an owner keeps it, or the pump is called for it.
LEMMA QueuedOwnerStays ==
  ASSUME IInv, OInv, OwnersDone, Next, ~Abandons, Up', NEW t \in Task, tasks[t].status = "queued", Owned(t)
  PROVE  Owned(t)' \/ pumpDue' # {}
<1>1. ~Crash
  BY DEF Crash, AtPhase, Up
<1>2. ASSUME Release(t)
      PROVE  pumpDue' # {}
  <2>1. disk = tasks
    BY <1>2, FreeMapIsFile DEF Release, IInv, Quiet
  <2>2. ~Replays(t)
    BY <2>1 DEF Replays, OwnersDone, Unstarted
  <2>3. pumpDue' = pumpDue \cup {"other"}
    BY <1>2, <2>2 DEF Release
  <2> QED BY <2>3
<1>3. ~(SettleSaved /\ lock.id = t)
  <2>1. ASSUME SettleSaved, lock.id = t
        PROVE  FALSE
    <3>1. Saving /\ lock.op = "settle"
      BY <2>1 DEF SettleSaved, Commit, Saving, SaveOps
    <3> QED BY <2>1, <3>1 DEF IInv, SaveIsLegal, IsTerminal, TerminalStatus
  <2> QED BY <2>1
<1> QED BY <1>1, <1>2, <1>3, OwnersLeave

\* Every step the code can come back from leaves a walk of the pump ahead of a
\* queued task.
LEMMA QueueSeenKept ==
  ASSUME IInv, IInv', OInv, OInv', XInv, NInv, Next, ~Abandons
  PROVE  QueueSeen'
<1>0. TypeOK /\ QueueSeen /\ WalkMoves
  BY WalkSteps DEF IInv, NInv
<1>1. ASSUME PumpWalking', pump'.held
      PROVE  timers'.admission \/ pumpDue' # {}
  <2>1. ~Crash /\ ~PumpEnd
    BY <1>1 DEF Crash, Restarted, PumpEnd, PumpWalking, Unlocked
  <2> QED BY <1>0, <1>1, <2>1 DEF WalkMoves, QueueSeen
<1>2. ASSUME Up', NEW t \in Task, tasks'[t].status = "queued", ~Submitting(t)'
      PROVE  Awaited(t)'
  <2>1. ~Crash
    BY <1>2 DEF Crash, AtPhase, Up
  <2>2. CASE pumpDue' # {} \/ Owned(t)' \/ (~PumpWalking' /\ timers'.admission)
    BY <2>2 DEF Awaited
  <2>3. CASE Up /\ tasks[t].status = "queued" /\ ~Submitting(t) /\ pumpDue' = {} /\ ~Owned(t)'
    <3>1. Awaited(t) /\ ~Owned(t)
      BY <1>2, <2>3, QueuedOwnerStays DEF QueueSeen, NInv
    <3>2. CASE PumpEnd
      <4>1. pumpDue = {} /\ PumpWalking /\ pump.todo = {}
        BY <2>3, <3>2 DEF PumpEnd, PumpWalking
      <4>2. pump.held /\ timers.admission
        BY <1>0, <3>1, <4>1 DEF Awaited, QueueSeen
      <4>3. timers' = timers /\ ~PumpWalking'
        BY <3>2, <4>2 DEF PumpEnd, PumpWalking, Unlocked
      <4> QED BY <4>2, <4>3 DEF Awaited
    <3>3. CASE PumpWalking' /\ pump'.held
      BY <3>3 DEF Awaited
    <3>4. CASE /\ PumpWalking' /\ UNCHANGED <<tasks, cancel>>
               /\ pump'.todo = {u \in Task : tasks[u].status = "queued" /\ ~Owned(u)}
      BY <2>3, <3>1, <3>4 DEF Awaited
    <3>5. CASE /\ UNCHANGED pumpDue /\ (PumpWalking' <=> PumpWalking)
               /\ pump'.held = pump.held /\ timers'.admission = timers.admission
               /\ pump'.todo = pump.todo \/ (StartSaved /\ pump'.todo = pump.todo \ {lock.id})
      <4>1. ~(StartSaved /\ t = lock.id)
        <5>1. ASSUME StartSaved, t = lock.id
              PROVE  FALSE
          <6>1. Saving /\ lock.op = "start"
            BY <5>1 DEF StartSaved, Commit, Saving, SaveOps
          <6> QED BY <2>3, <5>1, <6>1 DEF OInv, SaveChanges, Changes
        <5> QED BY <5>1
      <4> QED BY <2>3, <3>1, <3>5, <4>1 DEF Awaited
    <3> QED BY <1>0, <2>1, <2>2, <2>3, <3>2, <3>3, <3>4, <3>5 DEF WalkMoves
  <2>4. \/ pumpDue' # {} \/ Owned(t)' \/ (~PumpWalking' /\ timers'.admission)
        \/ Up /\ tasks[t].status = "queued" /\ ~Submitting(t)
    BY <1>2, QueuedBefore DEF NInv
  <2> QED BY <2>2, <2>3, <2>4
<1> QED BY <1>1, <1>2 DEF QueueSeen

-----------------------------------------------------------------------------
(* Nobody is forgotten *)

\* Every step the code can come back from keeps the invariant.
LEMMA AttentionStepHolds ==
  ASSUME IInv, IInv', OInv, OInv', XInv, NInv, Next, LateSaveError = FALSE, ~Abandons
  PROVE  NInv'
<1>1. ~InitialisationFails
  BY DEF Abandons
<1>2. LeasesAgree' /\ RegisteredRuns' /\ OwnersDone' /\ SaveOrigins'
  BY <1>1, LeasesAgreeKept, RegisteredRunsKept, OwnersDoneKept, SaveOriginsKept DEF NInv
<1> QED BY <1>2, ActiveAttendedKept, QueueSeenKept DEF NInv

\* It holds before the first start.
LEMMA AttentionInitHolds == Init => NInv
<1> SUFFICES ASSUME Init
             PROVE  NInv
  OBVIOUS
<1> USE DEF Init, AbsentTask, Unlocked, NoCancel, NoTimers, NoRec, AtPhase
<1>1. ActiveAttended /\ QueueSeen
  BY DEF ActiveAttended, QueueSeen, PumpWalking, Up
<1>2. LeasesAgree /\ RegisteredRuns
  BY DEF LeasesAgree, RegisteredRuns, Registered, Listed, ActiveStatus, Absent
<1>3. OwnersDone /\ SaveOrigins
  BY DEF OwnersDone, OwnerIsDone, SaveOrigins, Saving, SaveOps, ActiveStatus, Absent
<1> QED BY <1>1, <1>2, <1>3 DEF NInv

\* A step that changes nothing keeps it.
LEMMA AttentionStutters ==
  ASSUME NInv, UNCHANGED vars
  PROVE  NInv'
<1> USE DEF vars, core, queue, exec
<1>1. ActiveAttended'
  BY DEF NInv, ActiveAttended, Active, Admitting, Attended, HasRun, Owned, Listed
<1>2. QueueSeen'
  BY DEF NInv, QueueSeen, Up, Submitting, Awaited, Owned, PumpWalking
<1>3. LeasesAgree' /\ RegisteredRuns'
  BY DEF NInv, LeasesAgree, Listed, RegisteredRuns, Registered
<1>4. OwnersDone' /\ SaveOrigins'
  BY DEF NInv, OwnersDone, OwnerIsDone, Unstarted, SaveOrigins, Saving
<1> QED BY <1>1, <1>2, <1>3, <1>4 DEF NInv

\* The invariant of who comes back to a task holds in every reachable state, as
\* long as nothing the code gives up on happens.
THEOREM AttentionInvariance ==
  ASSUME LateSaveError = FALSE
  PROVE  Spec /\ [][~Abandons]_vars => []NInv
<1>1. IInv /\ IInv' /\ OInv /\ OInv' /\ XInv /\ NInv /\ [Next]_vars /\ [~Abandons]_vars => NInv'
  BY AttentionStepHolds, AttentionStutters
<1>2. [~Abandons]_vars => [~InitialisationFails]_vars
  BY DEF Abandons
<1> QED BY <1>1, <1>2, AttentionInitHolds, Invariance, OwnersInvariance, ExecutionInvariance, PTL DEF Spec

\* No unfinished task is forgotten: an active one has somebody who comes back
\* to it, and a queued one a walk of the pump ahead of it (pump, recoverTask,
\* handleStartingLease, releaseCancellationOwner).
THEOREM NobodyIsStranded ==
  ASSUME LateSaveError = FALSE
  PROVE  Spec /\ [][~Abandons]_vars => []NoneStranded
<1>1. ASSUME XInv, NInv, Up, Free, NEW t \in Task
      PROVE  /\ Active(t) => Pending(t)
             /\ tasks[t].status = "queued" => Pending(t) \/ pumpDue # {} \/ timers.admission
  <2>1. Owned(t) => Pending(t)
    BY DEF Owned, Pending
  <2>2. ASSUME Active(t)
        PROVE  Pending(t)
    <3>1. ~Admitting(t) /\ ~Listed(t)
      BY <1>1 DEF Admitting, Free, XInv, StartsClean, Up
    <3>2. Attended(t)
      BY <1>1, <2>2, <3>1 DEF NInv, ActiveAttended, Up
    <3> QED BY <2>1, <3>2 DEF Attended, HasRun, Pending
  <2>3. ASSUME tasks[t].status = "queued"
        PROVE  Pending(t) \/ pumpDue # {} \/ timers.admission
    <3>1. ~Submitting(t) /\ ~PumpWalking
      BY <1>1 DEF Submitting, PumpWalking, Free
    <3>2. Awaited(t)
      BY <1>1, <2>3, <3>1 DEF NInv, QueueSeen
    <3> QED BY <2>1, <3>1, <3>2 DEF Awaited
  <2> QED BY <2>2, <2>3
<1>2. XInv /\ NInv => NoneStranded
  BY <1>1 DEF NoneStranded
<1>3. [~Abandons]_vars => [~InitialisationFails]_vars
  BY DEF Abandons
<1> QED BY <1>2, <1>3, AttentionInvariance, ExecutionInvariance, PTL

=============================================================================
