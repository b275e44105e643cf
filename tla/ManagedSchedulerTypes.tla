------------------------ MODULE ManagedSchedulerTypes -----------------------
(***************************************************************************)
(* Type correctness of every action of ManagedScheduler.  It is not        *)
(* inductive by itself: an answer that is settled has to be an outcome     *)
(* (HasAnswer), and a failed save has to find the executor call it rejects *)
(* (RunWaits), so a step starts from the whole invariant.                  *)
(***************************************************************************)
EXTENDS ManagedSchedulerInvariant, FiniteSetTheorems, TLAPS

\* The first half of a commit keeps the types (commitTaskUpdateLocked).
LEMMA BeginSaveTyped ==
  ASSUME TypeOK, NEW op \in SaveOps, NEW t \in Task, NEW next \in TaskRec,
         NEW by \in {"host", "run", "owner", "replay", "recover"}, NEW r \in Run \cup {NoRun},
         BeginSave(op, t, next, by, r)
  PROVE  /\ disk' \in [Task -> TaskRec] /\ tasks' \in [Task -> TaskRec]
         /\ lock' \in LockRec /\ (Saving => lock.id \in Task)'
BY DEF TypeOK, BeginSave, LockRec, Saving

\* The end of an executor promise keeps the types (activeLaunches.delete).
LEMMA EndRunTyped ==
  ASSUME TypeOK, NEW r, EndRun(r)
  PROVE  /\ runs' \in [Run -> RunRec] /\ active' \in [Task -> Run \cup {NoRun}]
         /\ \A q \in Run : runs'[q].pc # "idle" => runs'[q].id \in Task
BY DEF TypeOK, EndRun, IdleRun, RunRec, Results

\* Launching or observing tasks keeps the types, and every new promise runs a
\* task (launchTask, observeRecoveredTask).
LEMMA StartRunsTyped ==
  ASSUME TypeOK, NEW ts \in SUBSET Task, NEW kind \in {"launch", "observe"}, StartRuns(ts, kind)
  PROVE  /\ runs' \in [Run -> RunRec] /\ active' \in [Task -> Run \cup {NoRun}]
         /\ \A q \in Run : runs'[q].pc # "idle" => runs'[q].id \in Task
<1> DEFINE gated(t) == kind = "launch" /\ t \in Gated
           go == {t \in ts : ~Registered(t) /\ (kind = "launch" /\ ~gated(t) => ~Owned(t))}
<1>1. PICK slot \in [go -> {r \in Run : runs[r].pc = "idle"}] :
        /\ active' = [t \in Task |-> IF t \in go THEN slot[t] ELSE active[t]]
        /\ runs' = [r \in Run |->
             IF \E t \in go : slot[t] = r
             THEN LET t == CHOOSE u \in go : slot[u] = r
                  IN [IdleRun EXCEPT !.pc = IF gated(t) THEN "checking" ELSE "executing",
                                     !.id = t, !.lease = tasks[t].lease, !.kind = kind]
             ELSE runs[r]]
  BY DEF StartRuns
<1>2. go \subseteq Task
  OBVIOUS
<1>3. ASSUME NEW q \in Run
      PROVE  runs'[q] \in RunRec /\ (runs'[q].pc # "idle" => runs'[q].id \in Task)
  <2>1. CASE \E t \in go : slot[t] = q
    <3> DEFINE u == CHOOSE t \in go : slot[t] = q
    <3>1. u \in Task
      BY <1>2, <2>1
    <3>2. tasks[u].lease \in Nat
      BY <3>1 DEF TypeOK, TaskRec
    <3>3. runs'[q] = [IdleRun EXCEPT !.pc = IF gated(u) THEN "checking" ELSE "executing",
                                     !.id = u, !.lease = tasks[u].lease, !.kind = kind]
      BY <1>1, <2>1
    <3> HIDE DEF u
    <3> QED BY <3>1, <3>2, <3>3 DEF IdleRun, RunRec, Results
  <2>2. CASE ~ \E t \in go : slot[t] = q
    <3>1. runs'[q] = runs[q]
      BY <1>1, <2>2
    <3> QED BY <3>1 DEF TypeOK
  <2> QED BY <2>1, <2>2
<1>4. active' \in [Task -> Run \cup {NoRun}]
  BY <1>1 DEF TypeOK
<1>5. runs' \in [Run -> RunRec]
  BY <1>1, <1>3
<1> QED BY <1>3, <1>4, <1>5

\* The idle records have their types.
LEMMA ConstantsTyped ==
  /\ AbsentTask \in TaskRec
  /\ Unlocked \in LockRec /\ Unlocked.op = "free"
  /\ PumpHolds \in LockRec /\ PumpHolds.op = "pump"
  /\ IdlePump \in PumpRec /\ IdleRun \in RunRec /\ IdleRun.pc = "idle"
  /\ NoCancel \in CancelRec /\ NoRec \in RecRec /\ NoTimers \in TimerRec
  /\ \A phase \in {"down", "loaded", "recovering", "up"} : AtPhase(phase) \in BootRec
BY DEF AbsentTask, TaskRec, Unlocked, PumpHolds, LockRec, IdlePump, PumpRec, IdleRun, RunRec,
       NoCancel, CancelRec, NoRec, RecRec, NoTimers, TimerRec, AtPhase, BootRec,
       Results, TaskStatuses, TerminalStatus

\* A reconciliation starts with a typed record (recoverTask).
LEMMA RecoveringTyped ==
  ASSUME NEW snapshot \in TaskRec, NEW booting \in BOOLEAN
  PROVE  Recovering(snapshot, booting) \in RecRec
BY DEF Recovering, NoRec, RecRec, TaskRec, Results, TaskStatuses

\* The record updates that the scheduler commits give records.
LEMMA UpdatesTyped ==
  ASSUME NEW task \in TaskRec
  PROVE  /\ [task EXCEPT !.child = TRUE] \in TaskRec
         /\ [task EXCEPT !.held = TRUE] \in TaskRec
         /\ [task EXCEPT !.due = @ + 1] \in TaskRec
         /\ \A lease \in Nat : [task EXCEPT !.status = "starting", !.lease = lease, !.held = FALSE] \in TaskRec
         /\ [task EXCEPT !.status = "running"] \in TaskRec
         /\ [task EXCEPT !.status = "aborted", !.result = "aborted", !.held = FALSE] \in TaskRec
<1>1. {"starting", "running", "aborted"} \subseteq TaskStatuses /\ "aborted" \in Results
  BY DEF TaskStatuses, ActiveStatus, TerminalStatus, Results
<1>2. [task EXCEPT !.child = TRUE] \in TaskRec /\ [task EXCEPT !.held = TRUE] \in TaskRec
  BY DEF TaskRec
<1>3. [task EXCEPT !.due = @ + 1] \in TaskRec
  BY DEF TaskRec
<1>4. ASSUME NEW lease \in Nat
      PROVE [task EXCEPT !.status = "starting", !.lease = lease, !.held = FALSE] \in TaskRec
  BY <1>1 DEF TaskRec
<1>5. [task EXCEPT !.status = "running"] \in TaskRec
  BY <1>1 DEF TaskRec
<1>6. [task EXCEPT !.status = "aborted", !.result = "aborted", !.held = FALSE] \in TaskRec
  BY <1>1 DEF TaskRec
<1> QED BY <1>2, <1>3, <1>4, <1>5, <1>6

\* The updates of a cancellation give cancellations.
LEMMA CancelUpdatesTyped ==
  ASSUME TypeOK, NEW t \in Task
  PROVE  /\ [cancel EXCEPT ![t].pc = "release"] \in [Task -> CancelRec]
         /\ [cancel EXCEPT ![t].committed = TRUE, ![t].pc = "release"] \in [Task -> CancelRec]
         /\ [cancel EXCEPT ![t] = NoCancel] \in [Task -> CancelRec]
         /\ \A res \in Results : [cancel EXCEPT ![t].deferred = res] \in [Task -> CancelRec]
<1>1. cancel[t] \in CancelRec
  BY DEF TypeOK
<1>2. /\ [cancel[t] EXCEPT !.pc = "release"] \in CancelRec
      /\ [cancel[t] EXCEPT !.committed = TRUE, !.pc = "release"] \in CancelRec
      /\ \A res \in Results : [cancel[t] EXCEPT !.deferred = res] \in CancelRec
  BY <1>1 DEF CancelRec
<1> QED BY <1>2, ConstantsTyped DEF TypeOK

\* The next sequence is a number: the ledger is finite.
LEMMA NextSeqTyped == NextSeq \in Nat
<1>1. {t \in Task : Known(t)} \subseteq Task
  OBVIOUS
<1>2. Cardinality({t \in Task : Known(t)}) \in Nat
  BY <1>1, FiniteAssumption, FS_Subset, FS_CardinalityType
<1> QED BY <1>2 DEF NextSeq

\* An outcome is a terminal status, and recording it gives a record (finishTask).
LEMMA SettledTyped ==
  ASSUME TypeOK, NEW t \in Task, NEW res \in TerminalStatus
  PROVE  /\ Outcome(t, res) \in TerminalStatus
         /\ Settled(t, res) \in TaskRec /\ Settled(t, res).status = Outcome(t, res)
<1>1. Outcome(t, res) \in TerminalStatus
  BY DEF Outcome, TerminalStatus
<1>2. tasks[t] \in TaskRec
  BY DEF TypeOK
<1> QED BY <1>1, <1>2 DEF Settled, TaskRec, Results, TaskStatuses

\* Every step of the scheduler keeps the types: one step per action.
LEMMA TypeStep ==
  ASSUME IInv, Next
  PROVE  TypeOK'
<1>0. TypeOK
  BY DEF IInv
<1> USE <1>0
<1>1. ASSUME NEW t \in Task, NEW followUp \in BOOLEAN, Submit(t, followUp)
      PROVE  TypeOK'
  <2> DEFINE next == [AbsentTask EXCEPT !.status = "queued", !.seq = NextSeq, !.child = followUp,
                                        !.due = IF t \in Timed THEN 1 ELSE 0]
  <2>1. next \in TaskRec
    BY NextSeqTyped DEF AbsentTask, TaskRec, TaskStatuses, Results
  <2>2. BeginSave("submit", t, next, "host", NoRun)
    BY <1>1 DEF Submit
  <2> HIDE DEF next
  <2> QED BY <1>1, <2>1, <2>2, BeginSaveTyped DEF TypeOK, Submit, SaveOps, queue, exec
<1>2. ASSUME SubmitSaved
      PROVE  TypeOK'
  BY <1>2, ConstantsTyped
  DEF TypeOK, SubmitSaved, core, queue, exec, Saving, Commit, TimerRec, TaskRec, SaveOps
<1>3. ASSUME NEW t \in Task, Resubmit(t)
      PROVE  TypeOK'
  <2>1. timers' \in TimerRec
    BY <1>3 DEF TypeOK, Resubmit, TimerRec, TaskRec
  <2>2. spent' \in SpentRec
    BY <1>3 DEF TypeOK, Resubmit, SpentRec
  <2> QED BY <1>3, <2>1, <2>2 DEF TypeOK, Resubmit, core, exec, Saving
<1>4. ASSUME NEW c \in pumpDue, PumpBegin(c)
      PROVE  TypeOK'
  <2>1. pump' \in PumpRec
    BY <1>4 DEF TypeOK, PumpBegin, IdlePump, PumpRec
  <2> QED BY <1>4, <2>1, ConstantsTyped DEF TypeOK, PumpBegin, exec, Saving, SaveOps
<1>5. ASSUME NEW t \in Task, PumpHold(t)
      PROVE  TypeOK'
  <2>1. CASE BeginSave("hold", t, [tasks[t] EXCEPT !.held = TRUE], "host", NoRun) /\ UNCHANGED <<pump, timers>>
    <3>1. tasks[t] \in TaskRec
      BY DEF TypeOK
    <3>2. [tasks[t] EXCEPT !.held = TRUE] \in TaskRec
      BY <3>1, UpdatesTyped
    <3> QED BY <1>5, <2>1, <3>2, BeginSaveTyped DEF TypeOK, PumpHold, SaveOps, exec
  <2>2. CASE /\ pump' = [pump EXCEPT !.todo = @ \ {t}, !.held = TRUE]
             /\ timers' = [timers EXCEPT !.admission = TRUE]
             /\ UNCHANGED core
    BY <1>5, <2>2 DEF TypeOK, PumpHold, core, exec, Saving, PumpRec, TimerRec
  <2> QED BY <1>5, <2>1, <2>2 DEF PumpHold
<1>6. ASSUME HoldSaved
      PROVE  TypeOK'
  BY <1>6, ConstantsTyped
  DEF TypeOK, HoldSaved, core, queue, exec, Saving, Commit, TimerRec, PumpRec, SaveOps
<1>7. ASSUME NEW t \in Task, PumpStart(t)
      PROVE  TypeOK'
  <2> DEFINE next == [tasks[t] EXCEPT !.status = "starting", !.lease = minted + 1, !.held = FALSE]
  <2>1. next \in TaskRec
    <3>1. tasks[t] \in TaskRec /\ minted + 1 \in Nat
      BY DEF TypeOK
    <3> QED BY <3>1, UpdatesTyped
  <2>2. BeginSave("start", t, next, "host", NoRun)
    BY <1>7 DEF PumpStart
  <2> HIDE DEF next
  <2> QED BY <1>7, <2>1, <2>2, BeginSaveTyped DEF TypeOK, PumpStart, SaveOps, queue, exec
<1>8. ASSUME StartSaved
      PROVE  TypeOK'
  BY <1>8, ConstantsTyped
  DEF TypeOK, StartSaved, core, queue, exec, Saving, Commit, TimerRec, PumpRec, TaskRec, SaveOps
<1>9. ASSUME PumpEnd
      PROVE  TypeOK'
  <2>1. {t \in pump.admitted : tasks[t].status = "starting" /\ ~Owned(t)} \in SUBSET Task
    BY DEF TypeOK, PumpRec
  <2>2. /\ runs' \in [Run -> RunRec] /\ active' \in [Task -> Run \cup {NoRun}]
        /\ \A q \in Run : runs'[q].pc # "idle" => runs'[q].id \in Task
    BY <1>9, <2>1, StartRunsTyped DEF PumpEnd, LaunchAdmitted
  <2>3. timers' \in TimerRec
    BY <1>9 DEF TypeOK, PumpEnd, TimerRec
  <2> QED BY <1>9, <2>2, <2>3, ConstantsTyped DEF TypeOK, PumpEnd, Saving, SaveOps
<1>10. ASSUME AdmissionRetry
       PROVE  TypeOK'
  BY <1>10
  DEF TypeOK, AdmissionRetry, core, queue, exec, Saving, TimerRec
<1>11. ASSUME NEW r \in Run, RunCheck(r)
       PROVE  TypeOK'
  BY <1>11, EndRunTyped
  DEF TypeOK, RunCheck, core, queue, exec, Saving, RunRec, Results, TerminalStatus
<1>12. ASSUME NEW r \in Run, RunChild(r)
       PROVE  TypeOK'
  <2> DEFINE t == runs[r].id
  <2>1. t \in Task /\ [tasks[t] EXCEPT !.child = TRUE] \in TaskRec
    <3>1. t \in Task /\ tasks[t] \in TaskRec
      BY <1>12 DEF TypeOK, RunChild
    <3> QED BY <3>1, UpdatesTyped
  <2>2. BeginSave("child", t, [tasks[t] EXCEPT !.child = TRUE], "run", r)
    BY <1>12 DEF RunChild
  <2> QED BY <1>12, <2>1, <2>2, BeginSaveTyped DEF TypeOK, RunChild, SaveOps, queue, exec
<1>13. ASSUME ChildSaved
       PROVE  TypeOK'
  BY <1>13, ConstantsTyped DEF TypeOK, ChildSaved, Commit, core, queue, exec, Saving, SaveOps
<1>14. ASSUME NEW r \in Run, RunAccept(r)
       PROVE  TypeOK'
  <2> DEFINE t == runs[r].id
  <2>1. t \in Task /\ [tasks[t] EXCEPT !.status = "running"] \in TaskRec
    <3>1. t \in Task /\ tasks[t] \in TaskRec
      BY <1>14 DEF TypeOK, RunAccept
    <3> QED BY <3>1, UpdatesTyped
  <2>2. BeginSave("accept", t, [tasks[t] EXCEPT !.status = "running"], "run", r)
    BY <1>14 DEF RunAccept
  <2> QED BY <1>14, <2>1, <2>2, BeginSaveTyped DEF TypeOK, RunAccept, SaveOps, queue, exec
<1>15. ASSUME AcceptSaved
       PROVE  TypeOK'
  BY <1>15, ConstantsTyped
  DEF TypeOK, AcceptSaved, core, queue, exec, Saving, Commit, TimerRec, RecRec, SaveOps
<1>16. ASSUME NEW r \in Run, RunProgress(r)
       PROVE  TypeOK'
  <2> DEFINE t == runs[r].id
  <2>1. t \in Task /\ [tasks[t] EXCEPT !.due = @ + 1] \in TaskRec
    <3>1. t \in Task /\ tasks[t] \in TaskRec
      BY <1>16 DEF TypeOK, RunProgress
    <3> QED BY <3>1, UpdatesTyped
  <2>2. BeginSave("renew", t, [tasks[t] EXCEPT !.due = @ + 1], "run", r)
    BY <1>16 DEF RunProgress
  <2> QED BY <1>16, <2>1, <2>2, BeginSaveTyped DEF TypeOK, RunProgress, SaveOps, queue, exec
<1>17. ASSUME RenewSaved
       PROVE  TypeOK'
  BY <1>17, ConstantsTyped
  DEF TypeOK, RenewSaved, core, queue, exec, Saving, Commit, TimerRec, TaskRec, SaveOps
<1>18. ASSUME NEW r \in Run, RunReturn(r)
       PROVE  TypeOK'
  <2>1. ASSUME NEW res \in {"completed", "failed"},
               runs' = [runs EXCEPT ![r].pc = "settling", ![r].res = res]
        PROVE  /\ runs' \in [Run -> RunRec]
               /\ \A q \in Run : runs'[q].pc # "idle" => runs'[q].id \in Task
    <3>1. res \in Results /\ runs[r] \in RunRec /\ runs[r].id \in Task
      BY <1>18 DEF TypeOK, RunReturn, Results, TerminalStatus
    <3> QED BY <2>1, <3>1 DEF TypeOK, RunRec
  <2>2. CASE runs' = [runs EXCEPT ![r].pc = "settling", ![r].res = ThrowStatus(runs[r].kind),
                                  ![r].last = TRUE]
    <3>1. ThrowStatus(runs[r].kind) \in Results /\ runs[r] \in RunRec /\ runs[r].id \in Task
      BY <1>18 DEF TypeOK, RunReturn, Results, TerminalStatus, ThrowStatus
    <3>2. /\ runs' \in [Run -> RunRec]
          /\ \A q \in Run : runs'[q].pc # "idle" => runs'[q].id \in Task
      BY <2>2, <3>1 DEF TypeOK, RunRec
    <3> QED BY <1>18, <3>2 DEF TypeOK, RunReturn, core, queue, Saving
  <2> QED BY <1>18, <2>1, <2>2 DEF TypeOK, RunReturn, core, queue, Saving
<1>19. ASSUME NEW r \in Run, RunSettle(r)
       PROVE  TypeOK'
  <2> DEFINE t == runs[r].id
             l == runs[r].lease
  <2>0. t \in Task /\ runs[r].res \in TerminalStatus
    BY <1>19 DEF IInv, TypeOK, RunSettle, RunRec, HasAnswer, Results
  <2>1. CASE /\ cancel' = [cancel EXCEPT ![t].deferred = IF @ = "none" THEN runs[r].res ELSE @]
             /\ EndRun(r)
             /\ UNCHANGED core
    <3>1. cancel' \in [Task -> CancelRec]
      <4>1. runs[r].res \in Results /\ cancel[t].deferred \in Results
        BY <2>0 DEF TypeOK, CancelRec, Results
      <4>2. PICK res \in Results : cancel' = [cancel EXCEPT ![t].deferred = res]
        BY <2>1, <4>1
      <4> QED BY <2>0, <4>2, CancelUpdatesTyped
    <3> QED BY <1>19, <2>1, <3>1, EndRunTyped DEF TypeOK, RunSettle, core, queue, Saving
  <2>2. CASE /\ BeginSave("settle", t, Settled(t, runs[r].res), "run", r)
             /\ runs' = [runs EXCEPT ![r].pc = "saving"]
             /\ UNCHANGED <<active, cancel>>
    <3>1. /\ runs' \in [Run -> RunRec]
          /\ \A q \in Run : runs'[q].pc # "idle" => runs'[q].id \in Task
      BY <2>0, <2>2 DEF TypeOK, RunRec
    <3>2. Settled(t, runs[r].res) \in TaskRec
      BY <2>0, SettledTyped
    <3> QED BY <1>19, <2>0, <2>2, <3>1, <3>2, BeginSaveTyped DEF TypeOK, RunSettle, SaveOps, queue
  <2>3. CASE EndRun(r) /\ UNCHANGED <<core, cancel>>
    BY <1>19, <2>3, EndRunTyped DEF TypeOK, RunSettle, core, queue, Saving
  <2> QED BY <1>19, <2>1, <2>2, <2>3 DEF RunSettle
<1>20. ASSUME SettleSaved
       PROVE  TypeOK'
  <2> DEFINE t == lock.id
  <2>1. t \in Task /\ tasks[t].status \in Results
    BY <1>20 DEF IInv, TypeOK, SettleSaved, Commit, Saving, SaveOps, SaveIsLegal, IsTerminal, Results
  <2>2. timers' \in TimerRec
    BY <1>20 DEF TypeOK, SettleSaved, TimersCleared, TimerRec
  <2>3. waiter' \in WaiterRec
    BY <1>20, <2>1 DEF TypeOK, SettleSaved, NotifyWaiters, WaiterRec
  <2>4. /\ runs' \in [Run -> RunRec] /\ active' \in [Task -> Run \cup {NoRun}]
        /\ \A q \in Run : runs'[q].pc # "idle" => runs'[q].id \in Task
    <3>1. CASE lock.by = "run"
      BY <1>20, <3>1, EndRunTyped DEF SettleSaved
    <3>2. CASE lock.by # "run"
      BY <1>20, <3>2 DEF TypeOK, SettleSaved, exec
    <3> QED BY <3>1, <3>2
  <2>5. cancel' \in [Task -> CancelRec]
    <3>1. /\ [cancel EXCEPT ![t].committed = TRUE, ![t].pc = "release"] \in [Task -> CancelRec]
          /\ [cancel EXCEPT ![t] = NoCancel] \in [Task -> CancelRec]
      BY <2>1, CancelUpdatesTyped
    <3> QED BY <1>20, <3>1 DEF TypeOK, SettleSaved
  <2>6. rec' \in [Task -> RecRec]
    BY <1>20, ConstantsTyped DEF TypeOK, SettleSaved
  <2> QED BY <1>20, <2>2, <2>3, <2>4, <2>5, <2>6, ConstantsTyped
      DEF TypeOK, SettleSaved, Commit, Saving, SaveOps
<1>21. ASSUME WithdrawSaved
       PROVE  TypeOK'
  <2> DEFINE t == lock.id
  <2>1. t \in Task /\ tasks[t].status \in Results
    BY <1>21 DEF IInv, TypeOK, WithdrawSaved, Commit, Saving, SaveOps, SaveIsLegal, IsTerminal, Results
  <2>2. timers' \in TimerRec
    BY <1>21 DEF TypeOK, WithdrawSaved, TimersCleared, TimerRec
  <2>3. waiter' \in WaiterRec
    BY <1>21, <2>1 DEF TypeOK, WithdrawSaved, NotifyWaiters, WaiterRec
  <2>4. cancel' \in [Task -> CancelRec]
    BY <1>21, <2>1, CancelUpdatesTyped DEF WithdrawSaved
  <2> QED BY <1>21, <2>2, <2>3, <2>4, ConstantsTyped
      DEF TypeOK, WithdrawSaved, Commit, Saving, SaveOps, queue, exec
<1>22. ASSUME NEW t \in Task, NEW k \in {"manual", "handoff"}, CancelCall(t, k)
       PROVE  TypeOK'
  <2>1. [NoCancel EXCEPT !.pc = "claim", !.kind = k, !.term = "aborted"] \in CancelRec
    BY DEF NoCancel, CancelRec, Results, TerminalStatus
  <2>2. spent' \in SpentRec
    BY <1>22 DEF TypeOK, CancelCall, SpentRec
  <2> QED BY <1>22, <2>1, <2>2 DEF TypeOK, CancelCall, core, queue, exec, Saving
<1>23. ASSUME NEW t \in Task, DeadlineFires(t)
       PROVE  TypeOK'
  BY <1>23
  DEF TypeOK, DeadlineFires, core, queue, exec, Saving, TimerRec
<1>24. ASSUME NEW t \in Task, DeadlineRead(t)
       PROVE  TypeOK'
  BY <1>24
  DEF TypeOK, DeadlineRead, core, queue, exec, Saving, NoCancel, CancelRec, Results, TerminalStatus
<1>25. ASSUME NEW t \in Task, Claim(t)
       PROVE  TypeOK'
  <2> DEFINE owner == [cancel[t] EXCEPT !.lease = tasks[t].lease, !.child = tasks[t].child]
  <2>1. owner \in CancelRec
    <3>1. cancel[t] \in CancelRec /\ tasks[t].lease \in Nat /\ tasks[t].child \in BOOLEAN
      BY DEF TypeOK, TaskRec
    <3> QED BY <3>1 DEF CancelRec
  <2>2. /\ [owner EXCEPT !.pc = IF tasks[t].status = "queued" THEN "withdraw" ELSE "aborting"]
             \in CancelRec
        /\ [owner EXCEPT !.pc = "aborting", !.term = "none"] \in CancelRec
    <3> HIDE DEF owner
    <3> QED BY <2>1 DEF CancelRec, Results
  <2>3. cancel' \in [Task -> CancelRec]
    BY <1>25, <2>2, ConstantsTyped DEF TypeOK, Claim
  <2> QED BY <1>25, <2>3 DEF TypeOK, Claim, core, queue, exec, Saving
<1>26. ASSUME NEW t \in Task, Withdraw(t)
       PROVE  TypeOK'
  <2>1. CASE BeginSave("withdraw", t,
               [tasks[t] EXCEPT !.status = "aborted", !.result = "aborted", !.held = FALSE],
               "owner", NoRun) /\ UNCHANGED cancel
    <3>0. tasks[t] \in TaskRec
      BY DEF TypeOK
    <3>1. [tasks[t] EXCEPT !.status = "aborted", !.result = "aborted", !.held = FALSE] \in TaskRec
      BY <3>0, UpdatesTyped
    <3> QED BY <1>26, <2>1, <3>1, BeginSaveTyped DEF TypeOK, Withdraw, SaveOps, queue, exec
  <2>2. CASE cancel' = [cancel EXCEPT ![t].pc = "release"] /\ UNCHANGED core
    BY <1>26, <2>2, CancelUpdatesTyped DEF TypeOK, Withdraw, core, queue, exec, Saving
  <2> QED BY <1>26, <2>1, <2>2 DEF Withdraw
<1>27. ASSUME NEW t \in Task, NEW ok \in BOOLEAN, AbortOutcome(t, ok)
       PROVE  TypeOK'
  <2>1. cancel[t] \in CancelRec /\ "interrupted" \in Results
    BY DEF TypeOK, Results, TerminalStatus
  <2>3. cancel[t].term \in Results
    BY <2>1 DEF CancelRec
  <2>4. PICK pc \in {"release", "settle"}, term \in Results :
           cancel' = [cancel EXCEPT ![t].pc = pc, ![t].term = term]
    BY <1>27, <2>1, <2>3 DEF AbortOutcome
  <2>5. cancel' \in [Task -> CancelRec]
    BY <2>1, <2>4 DEF TypeOK, CancelRec
  <2> QED BY <1>27, <2>5 DEF TypeOK, AbortOutcome, core, queue, exec, Saving
<1>28. ASSUME NEW t \in Task, CancelSettle(t)
       PROVE  TypeOK'
  <2>1. CASE BeginSave("settle", t, Settled(t, cancel[t].term), "owner", NoRun) /\ UNCHANGED cancel
    <3>1. Settled(t, cancel[t].term) \in TaskRec
      BY <1>28, SettledTyped DEF IInv, TypeOK, CancelSettle, CancelRec, HasAnswer, Results
    <3> QED BY <1>28, <2>1, <3>1, BeginSaveTyped DEF TypeOK, CancelSettle, SaveOps, queue, exec
  <2>2. CASE cancel' = [cancel EXCEPT ![t].pc = "release"] /\ UNCHANGED core
    BY <1>28, <2>2, CancelUpdatesTyped DEF TypeOK, CancelSettle, core, queue, exec, Saving
  <2> QED BY <1>28, <2>1, <2>2 DEF CancelSettle
<1>29. ASSUME NEW t \in Task, Release(t)
       PROVE  TypeOK'
  BY <1>29, ConstantsTyped
  DEF TypeOK, Release, core, queue, exec, Saving, CancelRec
<1>30. ASSUME NEW t \in Task, Replay(t)
       PROVE  TypeOK'
  <2>1. CASE BeginSave("settle", t, Settled(t, cancel[t].deferred), "replay", NoRun) /\ UNCHANGED cancel
    <3>1. Settled(t, cancel[t].deferred) \in TaskRec
      BY <1>30, SettledTyped DEF IInv, TypeOK, Replay, CancelRec, HasAnswer, Results
    <3> QED BY <1>30, <2>1, <3>1, BeginSaveTyped DEF TypeOK, Replay, SaveOps, queue, exec
  <2>2. CASE cancel' = [cancel EXCEPT ![t] = NoCancel] /\ UNCHANGED core
    BY <1>30, <2>2, ConstantsTyped DEF TypeOK, Replay, core, queue, exec, Saving
  <2> QED BY <1>30, <2>1, <2>2 DEF Replay
<1>31. ASSUME NEW t \in Task, StartLeaseFires(t)
       PROVE  TypeOK'
  <2>1. timers' \in TimerRec
    BY <1>31 DEF TypeOK, StartLeaseFires, TimerRec
  <2>2. rec' \in [Task -> RecRec]
    <3>1. tasks[t] \in TaskRec
      BY DEF TypeOK
    <3>2. Recovering(tasks[t], FALSE) \in RecRec
      BY <3>1, RecoveringTyped
    <3> QED BY <1>31, <3>2 DEF TypeOK, StartLeaseFires, exec
  <2>3. runs' \in [Run -> RunRec] /\ active' \in [Task -> Run \cup {NoRun}]
        /\ \A q \in Run : runs'[q].pc # "idle" => runs'[q].id \in Task
    <3>1. CASE UNCHANGED exec
      BY <3>1 DEF TypeOK, exec
    <3>2. CASE /\ active' = [active EXCEPT ![t] = NoRun]
               /\ runs' = [q \in Run |-> IF runs[q].id = t THEN [runs[q] EXCEPT !.stale = TRUE] ELSE runs[q]]
      <4>1. \A q \in Run : LET s == [runs[q] EXCEPT !.stale = TRUE]
                           IN s \in RunRec /\ s.pc = runs[q].pc /\ s.id = runs[q].id
        BY DEF TypeOK, RunRec
      <4> QED BY <3>2, <4>1 DEF TypeOK
    <3> QED BY <1>31, <3>1, <3>2 DEF StartLeaseFires
  <2> QED BY <1>31, <2>1, <2>2, <2>3 DEF TypeOK, StartLeaseFires, core, queue, Saving
<1>32. ASSUME NEW t \in Task, RetryFires(t)
       PROVE  TypeOK'
  BY <1>32, RecoveringTyped
  DEF TypeOK, RetryFires, core, queue, exec, Saving, TimerRec
<1>33. ASSUME NEW t \in Task, ReconcileTerminal(t)
       PROVE  TypeOK'
  BY <1>33
  DEF TypeOK, ReconcileTerminal, core, queue, exec, Saving, RecRec, Results, TerminalStatus
<1>34. ASSUME NEW t \in Task, ReconcileLive(t)
       PROVE  TypeOK'
  BY <1>34
  DEF TypeOK, ReconcileLive, core, queue, exec, Saving, RecRec
<1>35. ASSUME NEW t \in Task, ReconcileRelaunch(t)
       PROVE  TypeOK'
  BY <1>35, ConstantsTyped, StartRunsTyped
  DEF TypeOK, ReconcileRelaunch, core, queue, exec, Saving
<1>36. ASSUME NEW t \in Task, ReconcileTransient(t)
       PROVE  TypeOK'
  BY <1>36, ConstantsTyped
  DEF TypeOK, ReconcileTransient, core, queue, exec, Saving, TimerRec, TaskRec
<1>37. ASSUME NEW t \in Task, RecAccept(t)
       PROVE  TypeOK'
  <2>1. CASE BeginSave("accept", t, [tasks[t] EXCEPT !.status = "running"], "recover", NoRun) /\ UNCHANGED rec
    <3>0. tasks[t] \in TaskRec
      BY DEF TypeOK
    <3>1. [tasks[t] EXCEPT !.status = "running"] \in TaskRec
      BY <3>0, UpdatesTyped
    <3> QED BY <1>37, <2>1, <3>1, BeginSaveTyped DEF TypeOK, RecAccept, SaveOps, queue, exec
  <2>2. CASE rec' = [rec EXCEPT ![t].pc = IF rec[t].res = "none" THEN "observe" ELSE "finish"] /\ UNCHANGED core
    BY <1>37, <2>2 DEF TypeOK, RecAccept, RecRec, core, queue, exec, Saving
  <2> QED BY <1>37, <2>1, <2>2 DEF RecAccept
<1>38. ASSUME NEW t \in Task, RecObserve(t)
       PROVE  TypeOK'
  BY <1>38, ConstantsTyped, StartRunsTyped
  DEF TypeOK, RecObserve, core, queue, exec, Saving
<1>39. ASSUME NEW t \in Task, RecFinish(t)
       PROVE  TypeOK'
  <2>1. CASE BeginSave("settle", t, Settled(t, rec[t].res), "recover", NoRun) /\ UNCHANGED <<rec, cancel>>
    <3>1. Settled(t, rec[t].res) \in TaskRec
      BY <1>39, SettledTyped DEF IInv, TypeOK, RecFinish, RecRec, HasAnswer, Results
    <3> QED BY <1>39, <2>1, <3>1, BeginSaveTyped DEF TypeOK, RecFinish, SaveOps, queue, exec
  <2>2. CASE /\ rec' = [rec EXCEPT ![t] = NoRec]
             /\ \/ cancel' = [cancel EXCEPT ![t].deferred = rec[t].res]
                \/ UNCHANGED cancel
             /\ UNCHANGED core
    <3>1. rec[t].res \in Results
      BY DEF TypeOK, RecRec
    <3>2. cancel' \in [Task -> CancelRec]
      <4>1. [cancel EXCEPT ![t].deferred = rec[t].res] \in [Task -> CancelRec]
        BY <3>1, CancelUpdatesTyped
      <4> QED BY <2>2, <4>1 DEF TypeOK
    <3> QED BY <1>39, <2>2, <3>2, ConstantsTyped DEF TypeOK, RecFinish, core, queue, exec, Saving
  <2> QED BY <1>39, <2>1, <2>2 DEF RecFinish
<1>40. ASSUME Crash
       PROVE  TypeOK'
  <2>1. spent' \in SpentRec
    BY <1>40 DEF TypeOK, Crash, SpentRec
  <2>2. waiter' \in WaiterRec
    BY <1>40 DEF TypeOK, Crash, Restarted, WaiterRec
  <2>3. /\ disk' \in [Task -> TaskRec] /\ tasks' \in [Task -> TaskRec]
        /\ lock' = Unlocked /\ pump' = IdlePump /\ pumpDue' = {}
    BY <1>40, ConstantsTyped DEF TypeOK, Crash, Restarted
  <2>4. /\ runs' \in [Run -> RunRec] /\ active' \in [Task -> Run \cup {NoRun}]
        /\ \A q \in Run : runs'[q].pc = "idle"
    BY <1>40, ConstantsTyped DEF Crash, Restarted
  <2>5. /\ cancel' \in [Task -> CancelRec] /\ timers' \in TimerRec /\ fired' \in [Task -> Nat]
        /\ rec' \in [Task -> RecRec] /\ boot' \in BootRec /\ minted' \in Nat
    BY <1>40, ConstantsTyped DEF TypeOK, Crash, Restarted
  <2> QED BY <2>1, <2>2, <2>3, <2>4, <2>5, ConstantsTyped DEF TypeOK, Saving, SaveOps
<1>41. ASSUME Load
       PROVE  TypeOK'
  BY <1>41, ConstantsTyped DEF TypeOK, Load, queue, exec, Saving
<1>42. ASSUME BeginRecovery
       PROVE  TypeOK'
  BY <1>42, ConstantsTyped
  DEF TypeOK, BeginRecovery, core, queue, exec, Saving, BootRec
<1>43. ASSUME NEW t \in Task, RecoverNext(t)
       PROVE  TypeOK'
  BY <1>43, ConstantsTyped, RecoveringTyped
  DEF TypeOK, RecoverNext, core, queue, exec, Saving, BootRec
<1>44. ASSUME Activate
       PROVE  TypeOK'
  BY <1>44
  DEF TypeOK, Activate, core, queue, exec, Saving, BootRec, TimerRec, TaskRec, Deadlines
<1>45. ASSUME SaveError
       PROVE  TypeOK'
  <2>1. /\ disk' \in [Task -> TaskRec] /\ tasks' \in [Task -> TaskRec]
        /\ lock' = Unlocked /\ minted' = minted /\ spent' \in SpentRec
    BY <1>45 DEF TypeOK, SaveError, SaveFails, RolledBack, LockRec, SpentRec, Saving
  <2>2. CASE PumpSaveFailed
    <3>1. {t \in pump.admitted : tasks[t].status = "starting" /\ ~Owned(t)} \in SUBSET Task
      BY DEF TypeOK, PumpRec
    <3>2. /\ runs' \in [Run -> RunRec] /\ active' \in [Task -> Run \cup {NoRun}]
          /\ \A q \in Run : runs'[q].pc # "idle" => runs'[q].id \in Task
      BY <2>2, <3>1, StartRunsTyped DEF PumpSaveFailed, LaunchAdmitted
    <3>3. timers' \in TimerRec
      BY <2>2 DEF TypeOK, PumpSaveFailed, TimerRec
    <3> QED BY <2>1, <2>2, <3>2, <3>3, ConstantsTyped DEF TypeOK, PumpSaveFailed, Saving, SaveOps
  <2>3. CASE CallSaveFailed
    BY <2>1, <2>3, ConstantsTyped DEF TypeOK, CallSaveFailed, queue, exec, Saving, SaveOps
  <2>4. CASE RunSaveFailed
    <3> DEFINE r == lock.run
    <3>1. r \in Run /\ runs[r] \in RunRec /\ runs[r].id \in Task
      BY <1>45, <2>4 DEF IInv, TypeOK, RunWaits, RunSaveFailed, SaveError, SaveFails
    <3>2. CASE EndRun(r)
      BY <2>1, <2>4, <3>2, ConstantsTyped, EndRunTyped
      DEF TypeOK, RunSaveFailed, queue, Saving, SaveOps
    <3>3. CASE /\ runs' = [runs EXCEPT ![r].pc = "settling", ![r].last = TRUE,
                                       ![r].res = ThrowStatus(runs[r].kind)]
               /\ UNCHANGED active
      <4>1. ThrowStatus(runs[r].kind) \in Results
        BY DEF ThrowStatus, Results, TerminalStatus
      <4>2. /\ runs' \in [Run -> RunRec]
            /\ \A q \in Run : runs'[q].pc # "idle" => runs'[q].id \in Task
        BY <3>1, <3>3, <4>1 DEF TypeOK, RunRec
      <4> QED BY <2>1, <2>4, <3>3, <4>2, ConstantsTyped DEF TypeOK, RunSaveFailed, queue, Saving, SaveOps
    <3> QED BY <2>4, <3>2, <3>3 DEF RunSaveFailed
  <2>5. CASE CancelSaveFailed
    <3>1. cancel' \in [Task -> CancelRec]
      BY <1>45, <2>5, CancelUpdatesTyped DEF TypeOK, CancelSaveFailed, SaveError, SaveFails
    <3> QED BY <2>1, <2>5, <3>1, ConstantsTyped
        DEF TypeOK, CancelSaveFailed, queue, exec, Saving, SaveOps
  <2>6. CASE RecSaveFailed
    <3>1. rec' \in [Task -> RecRec] /\ boot' \in BootRec
      BY <2>6, ConstantsTyped DEF TypeOK, RecSaveFailed
    <3>2. cancel' \in [Task -> CancelRec]
      BY <2>6, ConstantsTyped DEF TypeOK, RecSaveFailed
    <3> QED BY <2>1, <2>6, <3>1, <3>2, ConstantsTyped
        DEF TypeOK, RecSaveFailed, queue, exec, Saving, SaveOps
  <2> QED BY <1>45, <2>2, <2>3, <2>4, <2>5, <2>6 DEF SaveError
<1>46. ASSUME NEW t \in Task, WaitForTask(t)
       PROVE  TypeOK'
  <2>1. waiter' \in WaiterRec
    BY <1>46 DEF TypeOK, WaitForTask, WaiterRec, WaitOver, Ended, IsTerminal, Results
  <2> QED BY <1>46, <2>1 DEF TypeOK, WaitForTask, core, queue, exec, Saving
<1> QED BY <1>1, <1>2, <1>3, <1>4, <1>5, <1>6, <1>7, <1>8, <1>9, <1>10, <1>11, <1>12, <1>13, <1>14, <1>15, <1>16, <1>17, <1>18, <1>19, <1>20, <1>21, <1>22, <1>23, <1>24, <1>25, <1>26, <1>27, <1>28, <1>29, <1>30, <1>31, <1>32, <1>33, <1>34, <1>35, <1>36, <1>37, <1>38, <1>39, <1>40, <1>41, <1>42, <1>43, <1>44, <1>45, <1>46
    DEF Next, RunNext, CancelNext, RecNext, PumpNext, Saved
=============================================================================
