------------------------ MODULE ManagedSchedulerProofs ----------------------
(***************************************************************************)
(* Theorems about ManagedScheduler, for any set of tasks, any number of    *)
(* executor calls in flight and any bounds.  A save that fails is assumed  *)
(* to leave the file alone: the run outcome_rewritten shows what the file  *)
(* may hold when it does not.                                              *)
(***************************************************************************)
EXTENDS ManagedSchedulerTypes

-----------------------------------------------------------------------------
(* The file *)

\* The arrows of the status graph that the actions take (transitions.js).
LEMMA LegalTransitions ==
  /\ CanTransition(Absent, "queued") /\ CanTransition("queued", "starting")
  /\ CanTransition("queued", "aborted") /\ CanTransition("starting", "running")
  /\ \A s \in TaskStatuses : CanTransition(s, s)
  /\ \A res \in TerminalStatus : CanTransition("running", res)
                                 /\ (res # "completed" => CanTransition("starting", res))
BY DEF CanTransition, AllowedTransitions, TaskStatuses, ActiveStatus, TerminalStatus, Absent

\* A settlement that finishTask commits ends an active task along the graph.
LEMMA OutcomeLegal ==
  ASSUME TypeOK, NEW t \in Task, NEW l, Settles(t, l), NEW res \in TerminalStatus
  PROVE  /\ ~IsTerminal(tasks[t].status) /\ CanTransition(tasks[t].status, Outcome(t, res))
         /\ IsTerminal(Outcome(t, res))
<1>1. tasks[t].status \in ActiveStatus
  BY DEF TypeOK, TaskRec, Settles, Settleable, Open, Known, Ended, IsTerminal, TaskStatuses
<1>2. Outcome(t, res) \in TerminalStatus /\ (tasks[t].status = "starting" => Outcome(t, res) # "completed")
  BY DEF Outcome, TerminalStatus
<1> QED BY <1>1, <1>2, LegalTransitions DEF ActiveStatus, TerminalStatus, IsTerminal

\* A commit that starts with the lock free and moves one open task along the
\* graph leaves a live map one legal record ahead of the file.
LEMMA BeginSaveLedger ==
  ASSUME TypeOK, LedgerAgrees, ~Saving, boot' = boot,
         NEW op \in SaveOps, NEW t \in Task, NEW next \in TaskRec, NEW by, NEW r,
         BeginSave(op, t, next, by, r),
         ~IsTerminal(tasks[t].status), CanTransition(tasks[t].status, next.status),
         op \in {"settle", "withdraw"} <=> IsTerminal(next.status)
  PROVE  LedgerAgrees' /\ SaveIsLegal'
<1>1. tasks' = [tasks EXCEPT ![t] = next] /\ disk' = disk /\ Saving'
      /\ lock'.id = t /\ lock'.prev = tasks[t] /\ lock'.op = op
  BY DEF BeginSave, Saving
<1>2. [tasks' EXCEPT ![t] = tasks[t]] = tasks
  BY <1>1 DEF TypeOK
<1> QED BY <1>1, <1>2 DEF LedgerAgrees, SaveIsLegal, TypeOK

\* A durable save makes the file agree with the live map.
LEMMA CommitLedger ==
  ASSUME NEW op \in SaveOps, Commit(op), lock' \in {Unlocked, PumpHolds}
  PROVE  LedgerAgrees' /\ SaveIsLegal'
BY DEF Commit, Unlocked, PumpHolds, LedgerAgrees, SaveIsLegal, Saving, SaveOps

\* Every step keeps the file and the live map one legal record apart at most.
LEMMA LedgerStep ==
  ASSUME IInv, Next, LateSaveError = FALSE
  PROVE  LedgerAgrees' /\ SaveIsLegal'
<1> USE DEF IInv
<1>1. ASSUME NEW t \in Task, NEW followUp \in BOOLEAN, Submit(t, followUp)
      PROVE  LedgerAgrees' /\ SaveIsLegal'
  <2> DEFINE next == [AbsentTask EXCEPT !.status = "queued", !.seq = NextSeq, !.child = followUp,
                                        !.due = IF t \in Timed THEN 1 ELSE 0]
  <2>1. next \in TaskRec /\ next.status = "queued"
    BY NextSeqTyped DEF AbsentTask, TaskRec, TaskStatuses, Results
  <2>2. BeginSave("submit", t, next, "host", NoRun)
    BY <1>1 DEF Submit
  <2> HIDE DEF next
  <2> QED BY <1>1, <2>1, <2>2, BeginSaveLedger, LegalTransitions
      DEF Submit, Saving, SaveOps, Free, Known, IsTerminal, TerminalStatus, Absent
<1>2. ASSUME NEW t \in Task, PumpHold(t)
      PROVE  LedgerAgrees' /\ SaveIsLegal'
  <2>1. CASE BeginSave("hold", t, [tasks[t] EXCEPT !.held = TRUE], "host", NoRun)
    <3>1. tasks[t] \in TaskRec /\ tasks[t].status = "queued"
      BY <1>2 DEF PumpHold, IsNext, PumpWalks, LedgerAgrees, Saving, SaveOps, TypeOK, Quiet, Free, Alive
    <3>2. LET next == [tasks[t] EXCEPT !.held = TRUE]
          IN next \in TaskRec /\ next.status = tasks[t].status
      BY <3>1, UpdatesTyped DEF TaskRec
    <3> QED BY <1>2, <2>1, <3>1, <3>2, BeginSaveLedger, LegalTransitions
        DEF PumpHold, Saving, SaveOps, IsTerminal, TerminalStatus, TaskStatuses
  <2>2. CASE UNCHANGED core
    BY <1>2, <2>2 DEF PumpHold, core, LedgerAgrees, SaveIsLegal, Saving
  <2> QED BY <1>2, <2>1, <2>2 DEF PumpHold
<1>3. ASSUME NEW t \in Task, PumpStart(t)
      PROVE  LedgerAgrees' /\ SaveIsLegal'
  <2> DEFINE next == [tasks[t] EXCEPT !.status = "starting", !.lease = minted + 1, !.held = FALSE]
  <2>1. tasks[t] \in TaskRec /\ tasks[t].status = "queued" /\ minted + 1 \in Nat
    BY <1>3 DEF PumpStart, IsNext, PumpWalks, LedgerAgrees, Saving, SaveOps, TypeOK, Quiet, Free, Alive
  <2>2. next \in TaskRec /\ next.status = "starting"
    BY <2>1, UpdatesTyped DEF TaskRec
  <2>3. BeginSave("start", t, next, "host", NoRun)
    BY <1>3 DEF PumpStart
  <2> HIDE DEF next
  <2> QED BY <1>3, <2>1, <2>2, <2>3, BeginSaveLedger, LegalTransitions
      DEF PumpStart, Saving, SaveOps, IsTerminal, TerminalStatus
<1>4. ASSUME NEW r \in Run, RunChild(r) \/ RunAccept(r) \/ RunProgress(r)
      PROVE  LedgerAgrees' /\ SaveIsLegal'
  <2> DEFINE t == runs[r].id
  <2>1. t \in Task /\ tasks[t] \in TaskRec /\ ~Saving
    BY <1>4 DEF TypeOK, RunChild, RunAccept, RunProgress, Free, Saving, SaveOps
  <2>2. CASE RunChild(r)
    <3>1. LET next == [tasks[t] EXCEPT !.child = TRUE]
          IN next \in TaskRec /\ next.status = tasks[t].status
      BY <2>1, UpdatesTyped DEF TaskRec
    <3> QED BY <2>1, <2>2, <3>1, BeginSaveLedger, LegalTransitions
        DEF RunChild, SaveOps, Settleable, Open, Ended, TaskRec
  <2>3. CASE RunAccept(r)
    <3>1. LET next == [tasks[t] EXCEPT !.status = "running"]
          IN next \in TaskRec /\ next.status = "running"
      BY <2>1, UpdatesTyped DEF TaskRec
    <3> QED BY <2>1, <2>3, <3>1, BeginSaveLedger, LegalTransitions
        DEF RunAccept, SaveOps, IsTerminal, TerminalStatus
  <2>4. CASE RunProgress(r)
    <3>1. LET next == [tasks[t] EXCEPT !.due = @ + 1]
          IN next \in TaskRec /\ next.status = tasks[t].status
      BY <2>1, UpdatesTyped DEF TaskRec
    <3> QED BY <2>1, <2>4, <3>1, BeginSaveLedger, LegalTransitions
        DEF RunProgress, SaveOps, IsTerminal, TerminalStatus, TaskStatuses, ActiveStatus
  <2> QED BY <1>4, <2>2, <2>3, <2>4
<1>5. ASSUME NEW t \in Task, NEW res \in TerminalStatus, NEW by, NEW r, NEW l, Settles(t, l), Free,
             BeginSave("settle", t, Settled(t, res), by, r), boot' = boot
      PROVE  LedgerAgrees' /\ SaveIsLegal'
  <2>1. Settled(t, res) \in TaskRec /\ Settled(t, res).status = Outcome(t, res)
    BY SettledTyped
  <2> QED BY <1>5, <2>1, BeginSaveLedger, OutcomeLegal DEF Saving, SaveOps, Free
<1>6. ASSUME NEW r \in Run, RunSettle(r)
      PROVE  LedgerAgrees' /\ SaveIsLegal'
  <2> DEFINE t == runs[r].id
  <2>1. t \in Task /\ runs[r].res \in TerminalStatus /\ boot' = boot /\ Free
    BY <1>6 DEF TypeOK, RunSettle, RunRec, HasAnswer, Results
  <2>2. CASE UNCHANGED core
    BY <2>1, <2>2 DEF core, LedgerAgrees, SaveIsLegal, Saving
  <2>3. CASE Settles(t, runs[r].lease) /\ BeginSave("settle", t, Settled(t, runs[r].res), "run", r)
    BY <1>5, <2>1, <2>3
  <2> QED BY <1>6, <2>2, <2>3 DEF RunSettle
<1>7. ASSUME NEW t \in Task, Withdraw(t)
      PROVE  LedgerAgrees' /\ SaveIsLegal'
  <2>1. CASE UNCHANGED core
    BY <1>7, <2>1 DEF Withdraw, core, LedgerAgrees, SaveIsLegal, Saving
  <2>2. CASE tasks[t].status = "queued" /\ BeginSave("withdraw", t,
               [tasks[t] EXCEPT !.status = "aborted", !.result = "aborted", !.held = FALSE],
               "owner", NoRun)
    <3>1. tasks[t] \in TaskRec
      BY DEF TypeOK
    <3>2. LET next == [tasks[t] EXCEPT !.status = "aborted", !.result = "aborted", !.held = FALSE]
          IN next \in TaskRec /\ next.status = "aborted"
      BY <3>1, UpdatesTyped DEF TaskRec
    <3> QED BY <1>7, <2>2, <3>2, BeginSaveLedger, LegalTransitions
        DEF Withdraw, Free, Saving, SaveOps, IsTerminal, TerminalStatus
  <2> QED BY <1>7, <2>1, <2>2 DEF Withdraw
<1>8. ASSUME NEW t \in Task, CancelSettle(t)
      PROVE  LedgerAgrees' /\ SaveIsLegal'
  <2>1. cancel[t].term \in TerminalStatus /\ boot' = boot /\ Free
    BY <1>8 DEF TypeOK, CancelSettle, CancelRec, HasAnswer, Results
  <2>2. CASE UNCHANGED core
    BY <2>1, <2>2 DEF core, LedgerAgrees, SaveIsLegal, Saving
  <2>3. CASE Settles(t, cancel[t].lease)
             /\ BeginSave("settle", t, Settled(t, cancel[t].term), "owner", NoRun)
    BY <1>5, <2>1, <2>3
  <2> QED BY <1>8, <2>2, <2>3 DEF CancelSettle
<1>9. ASSUME NEW t \in Task, Replay(t)
      PROVE  LedgerAgrees' /\ SaveIsLegal'
  <2>1. cancel[t].deferred \in TerminalStatus /\ boot' = boot /\ Free
    BY <1>9 DEF TypeOK, Replay, CancelRec, HasAnswer, Results
  <2>2. CASE UNCHANGED core
    BY <2>1, <2>2 DEF core, LedgerAgrees, SaveIsLegal, Saving
  <2>3. CASE Settles(t, cancel[t].lease)
             /\ BeginSave("settle", t, Settled(t, cancel[t].deferred), "replay", NoRun)
    BY <1>5, <2>1, <2>3
  <2> QED BY <1>9, <2>2, <2>3 DEF Replay
<1>10. ASSUME NEW t \in Task, RecAccept(t)
       PROVE  LedgerAgrees' /\ SaveIsLegal'
  <2>1. CASE UNCHANGED core
    BY <1>10, <2>1 DEF RecAccept, core, LedgerAgrees, SaveIsLegal, Saving
  <2>2. CASE tasks[t].status = "starting"
             /\ BeginSave("accept", t, [tasks[t] EXCEPT !.status = "running"], "recover", NoRun)
    <3>1. tasks[t] \in TaskRec
      BY DEF TypeOK
    <3>2. LET next == [tasks[t] EXCEPT !.status = "running"]
          IN next \in TaskRec /\ next.status = "running"
      BY <3>1, UpdatesTyped DEF TaskRec
    <3> QED BY <1>10, <2>2, <3>2, BeginSaveLedger, LegalTransitions
        DEF RecAccept, Free, Saving, SaveOps, IsTerminal, TerminalStatus
  <2> QED BY <1>10, <2>1, <2>2 DEF RecAccept
<1>11. ASSUME NEW t \in Task, RecFinish(t)
       PROVE  LedgerAgrees' /\ SaveIsLegal'
  <2>1. rec[t].res \in TerminalStatus /\ boot' = boot /\ Free
    BY <1>11 DEF TypeOK, RecFinish, RecRec, HasAnswer, Results
  <2>2. CASE UNCHANGED core
    BY <2>1, <2>2 DEF core, LedgerAgrees, SaveIsLegal, Saving
  <2>3. CASE Settles(t, rec[t].lease)
             /\ BeginSave("settle", t, Settled(t, rec[t].res), "recover", NoRun)
    BY <1>5, <2>1, <2>3
  <2> QED BY <1>11, <2>2, <2>3 DEF RecFinish
<1>12. CASE Saved
  BY <1>12, CommitLedger DEF Saved, SubmitSaved, HoldSaved, StartSaved, ChildSaved, AcceptSaved,
     RenewSaved, SettleSaved, WithdrawSaved, SaveOps
<1>13. CASE SaveError
  <2>1. disk' = disk /\ tasks' = RolledBack /\ lock' = Unlocked /\ Alive
    BY <1>13 DEF SaveError, SaveFails, Quiet, Free, Saving, SaveOps
  <2>2. disk = RolledBack
    BY <1>13, <2>1 DEF SaveError, SaveFails, RolledBack, LedgerAgrees, Alive
  <2> QED BY <2>1, <2>2 DEF LedgerAgrees, SaveIsLegal, Saving, Unlocked, SaveOps
<1>14. ASSUME NEW c \in pumpDue, PumpBegin(c)
       PROVE  LedgerAgrees' /\ SaveIsLegal'
  BY <1>14 DEF PumpBegin, LedgerAgrees, SaveIsLegal, Saving, Free, PumpHolds, Unlocked, SaveOps
<1>15. CASE PumpEnd
  BY <1>15 DEF PumpEnd, LedgerAgrees, SaveIsLegal, Saving, Unlocked, SaveOps
<1>16. CASE Crash
  BY <1>16 DEF Crash, Restarted, AtPhase, LedgerAgrees, SaveIsLegal, Saving, Unlocked, SaveOps
<1>17. CASE Load
  BY <1>17 DEF Load, AtPhase, LedgerAgrees, SaveIsLegal, Saving, Quiet, Alive, Free, SaveOps
<1>18. CASE BeginRecovery \/ Activate
  BY <1>18 DEF BeginRecovery, Activate, core, LedgerAgrees, SaveIsLegal, Saving
<1>19. CASE UNCHANGED <<core, boot>>
  BY <1>19 DEF core, LedgerAgrees, SaveIsLegal, Saving
<1>20. ASSUME NEW t \in Task,
              \/ Resubmit(t) \/ WaitForTask(t) \/ \E k \in {"manual", "handoff"} : CancelCall(t, k)
              \/ DeadlineFires(t) \/ DeadlineRead(t) \/ Claim(t)
              \/ \E ok \in BOOLEAN : AbortOutcome(t, ok)
              \/ Release(t)
       PROVE  UNCHANGED <<core, boot>>
  BY <1>20 DEF Resubmit, WaitForTask, CancelCall, DeadlineFires, DeadlineRead, Claim, AbortOutcome, Release
<1>21. ASSUME NEW t \in Task,
              \/ StartLeaseFires(t) \/ RetryFires(t)
              \/ ReconcileTerminal(t) \/ ReconcileLive(t) \/ ReconcileRelaunch(t) \/ ReconcileTransient(t)
              \/ RecObserve(t)
       PROVE  UNCHANGED <<core, boot>>
  BY <1>21 DEF StartLeaseFires, RetryFires, ReconcileTerminal, ReconcileLive, ReconcileRelaunch,
     ReconcileTransient, RecObserve
<1>22. ASSUME NEW t \in Task, RecoverNext(t)
       PROVE  LedgerAgrees' /\ SaveIsLegal'
  BY <1>22 DEF RecoverNext, core, LedgerAgrees, SaveIsLegal, Saving
<1>23. ASSUME NEW r \in Run, RunCheck(r) \/ RunReturn(r)
       PROVE  UNCHANGED <<core, boot>>
  BY <1>23 DEF RunCheck, RunReturn
<1>24. AdmissionRetry => UNCHANGED <<core, boot>>
  BY DEF AdmissionRetry
<1> QED BY <1>1, <1>2, <1>3, <1>4, <1>6, <1>7, <1>8, <1>9, <1>10, <1>11, <1>12, <1>13, <1>14,
           <1>15, <1>16, <1>17, <1>18, <1>19, <1>20, <1>21, <1>22, <1>23, <1>24
    DEF Next, RunNext, CancelNext, RecNext, PumpNext

-----------------------------------------------------------------------------
(* Executor promises *)

\* The end of an executor promise leaves the others alone.
LEMMA EndRunEnds ==
  ASSUME TypeOK, NEW r, EndRun(r)
  PROVE  \A q \in Run : runs'[q] = runs[q] \/ (q = r /\ runs'[q].pc = "idle")
BY DEF TypeOK, EndRun, IdleRun

\* A start of executor promises takes idle slots and leaves the others alone.
LEMMA StartRunsStarts ==
  ASSUME TypeOK, NEW ts \in SUBSET Task, NEW kind \in {"launch", "observe"}, StartRuns(ts, kind)
  PROVE  \A q \in Run : \/ runs'[q] = runs[q]
                        \/ runs[q].pc = "idle" /\ runs'[q].pc \in {"checking", "executing"}
<1> DEFINE gated(t) == kind = "launch" /\ t \in Gated
           go == {t \in ts : ~Registered(t) /\ (kind = "launch" /\ ~gated(t) => ~Owned(t))}
<1>1. PICK slot \in [go -> {r \in Run : runs[r].pc = "idle"}] :
        runs' = [r \in Run |->
             IF \E t \in go : slot[t] = r
             THEN LET t == CHOOSE u \in go : slot[u] = r
                  IN [IdleRun EXCEPT !.pc = IF gated(t) THEN "checking" ELSE "executing",
                                     !.id = t, !.lease = tasks[t].lease, !.kind = kind]
             ELSE runs[r]]
  BY DEF StartRuns
<1>2. ASSUME NEW q \in Run, \E t \in go : slot[t] = q
      PROVE  runs[q].pc = "idle" /\ runs'[q].pc \in {"checking", "executing"}
  <2> DEFINE u == CHOOSE t \in go : slot[t] = q
  <2>1. runs'[q] = [IdleRun EXCEPT !.pc = IF gated(u) THEN "checking" ELSE "executing",
                                   !.id = u, !.lease = tasks[u].lease, !.kind = kind]
    BY <1>1, <1>2
  <2>2. runs'[q].pc \in {"checking", "executing"}
    <3> HIDE DEF u
    <3> QED BY <2>1 DEF IdleRun
  <2>3. PICK t \in go : slot[t] = q
    BY <1>2
  <2>4. runs[q].pc = "idle"
    <3> HIDE DEF go
    <3> QED BY <2>3
  <2> QED BY <2>2, <2>4
<1> QED BY <1>1, <1>2

\* So do the launches at the end of a pump walk.
LEMMA LaunchAdmittedStarts ==
  ASSUME TypeOK, LaunchAdmitted
  PROVE  /\ runs' \in [Run -> RunRec] /\ active' \in [Task -> Run \cup {NoRun}]
         /\ \A q \in Run : runs'[q].pc # "idle" => runs'[q].id \in Task
         /\ \A q \in Run : \/ runs'[q] = runs[q]
                           \/ runs[q].pc = "idle" /\ runs'[q].pc \in {"checking", "executing"}
<1>1. {t \in pump.admitted : tasks[t].status = "starting" /\ ~Owned(t)} \in SUBSET Task
  BY DEF TypeOK, PumpRec
<1> QED BY <1>1, StartRunsTyped, StartRunsStarts DEF LaunchAdmitted

\* Every step keeps an outcome in each answer that is about to be recorded.
LEMMA HasAnswerStep ==
  ASSUME IInv, Next
  PROVE  HasAnswer'
<1> USE DEF IInv
<1>1. CASE UNCHANGED <<runs, cancel, rec>>
  BY <1>1 DEF HasAnswer
<1>2. ASSUME NEW r \in Run, RunNext(r)
      PROVE  HasAnswer'
  <2>1. CASE RunChild(r) \/ RunAccept(r) \/ RunProgress(r)
    BY <1>1, <2>1 DEF RunChild, RunAccept, RunProgress, exec
  <2>2. CASE RunCheck(r)
    <3>1. CASE EndRun(r)
      BY <2>2, <3>1, EndRunEnds DEF HasAnswer, RunCheck
    <3>2. CASE \/ runs' = [runs EXCEPT ![r].pc = "settling", ![r].res = "failed", ![r].last = TRUE]
               \/ runs' = [runs EXCEPT ![r].pc = "executing"]
      BY <2>2, <3>2 DEF TypeOK, RunRec, HasAnswer, RunCheck
    <3> QED BY <2>2, <3>1, <3>2 DEF RunCheck
  <2>3. CASE RunReturn(r)
    BY <2>3 DEF TypeOK, RunRec, HasAnswer, RunReturn, ThrowStatus
  <2>4. CASE RunSettle(r)
    <3> DEFINE t == runs[r].id
    <3>0. t \in Task /\ runs[r].res # "none"
      BY <2>4 DEF TypeOK, HasAnswer, RunSettle
    <3>1. CASE EndRun(r) /\ \/ UNCHANGED cancel
                            \/ cancel' = [cancel EXCEPT ![t].deferred = IF @ = "none" THEN runs[r].res ELSE @]
      BY <2>4, <3>0, <3>1, EndRunEnds DEF TypeOK, CancelRec, HasAnswer, RunSettle
    <3>2. CASE runs' = [runs EXCEPT ![r].pc = "saving"] /\ UNCHANGED cancel
      BY <2>4, <3>2 DEF TypeOK, RunRec, HasAnswer, RunSettle
    <3> QED BY <2>4, <3>1, <3>2 DEF RunSettle
  <2> QED BY <1>2, <2>1, <2>2, <2>3, <2>4 DEF RunNext
<1>3. ASSUME NEW t \in Task, CancelNext(t)
      PROVE  HasAnswer'
  <2>1. CASE DeadlineFires(t)
    BY <1>1, <2>1 DEF DeadlineFires, exec
  <2>2. CASE \E k \in {"manual", "handoff"} : CancelCall(t, k)
    BY <2>2 DEF HasAnswer, TypeOK, CancelCall, NoCancel, exec
  <2>3. CASE DeadlineRead(t) \/ Claim(t) \/ Release(t)
    <3>1. UNCHANGED <<runs, rec>>
      BY <2>3 DEF DeadlineRead, Claim, Release, exec
    <3>2. cancel' = [cancel EXCEPT ![t] = cancel'[t]]
      BY <2>3 DEF TypeOK, DeadlineRead, Claim, Release
    <3>3. cancel'[t] = cancel[t] \/ cancel'[t].pc \notin {"settle", "replay"}
          \/ (cancel'[t].pc = "replay" /\ cancel'[t].deferred # "none")
      <4>1. CASE DeadlineRead(t)
        BY <4>1 DEF TypeOK, DeadlineRead, NoCancel
      <4>2. CASE Claim(t)
        BY <4>2 DEF TypeOK, CancelRec, Claim, NoCancel
      <4>3. CASE Release(t)
        BY <4>3 DEF TypeOK, CancelRec, Release, Replays, NoCancel
      <4> QED BY <2>3, <4>1, <4>2, <4>3
    <3> QED BY <3>1, <3>2, <3>3 DEF HasAnswer, TypeOK
  <2>4. CASE \E ok \in BOOLEAN : AbortOutcome(t, ok)
    BY <2>4 DEF HasAnswer, TypeOK, CancelRec, AbortOutcome, exec
  <2>5. CASE Withdraw(t) \/ CancelSettle(t) \/ Replay(t)
    <3>1. \/ UNCHANGED cancel
          \/ cancel' = [cancel EXCEPT ![t].pc = "release"]
          \/ cancel' = [cancel EXCEPT ![t] = NoCancel]
      BY <2>5 DEF Withdraw, CancelSettle, Replay
    <3>2. UNCHANGED <<runs, rec>>
      BY <2>5 DEF Withdraw, CancelSettle, Replay, exec
    <3> QED BY <3>1, <3>2 DEF HasAnswer, TypeOK, CancelRec, NoCancel
  <2> QED BY <1>3, <2>1, <2>2, <2>3, <2>4, <2>5 DEF CancelNext
<1>4. ASSUME NEW t \in Task, RecNext(t)
      PROVE  HasAnswer'
  <2>1. CASE StartLeaseFires(t)
    <3>1. UNCHANGED exec \/ runs' = [r \in Run |-> IF runs[r].id = t THEN [runs[r] EXCEPT !.stale = TRUE] ELSE runs[r]]
      BY <2>1 DEF StartLeaseFires
    <3>2. \A r \in Run : runs'[r].pc = runs[r].pc /\ runs'[r].res = runs[r].res
      BY <3>1 DEF TypeOK, RunRec, exec
    <3>3. UNCHANGED rec \/ rec' = [rec EXCEPT ![t] = Recovering(tasks[t], FALSE)]
      BY <2>1 DEF StartLeaseFires
    <3>4. \A u \in Task : rec'[u] = rec[u] \/ rec'[u].pc # "finish"
      BY <3>3 DEF TypeOK, Recovering, NoRec
    <3> QED BY <2>1, <3>2, <3>4 DEF HasAnswer, StartLeaseFires
  <2>2. CASE RetryFires(t) \/ RecoverNext(t)
    <3>1. UNCHANGED <<runs, cancel>>
      BY <2>2 DEF RetryFires, RecoverNext, exec
    <3>2. UNCHANGED rec \/ \E snapshot, booting : rec' = [rec EXCEPT ![t] = Recovering(snapshot, booting)]
      BY <2>2 DEF RetryFires, RecoverNext
    <3>3. \A u \in Task : rec'[u] = rec[u] \/ rec'[u].pc # "finish"
      BY <3>2 DEF TypeOK, Recovering, NoRec
    <3> QED BY <3>1, <3>3 DEF HasAnswer
  <2>3. CASE ReconcileTerminal(t) \/ ReconcileLive(t) \/ ReconcileTransient(t)
    <3>1. UNCHANGED <<runs, cancel>>
      BY <2>3 DEF ReconcileTerminal, ReconcileLive, ReconcileTransient, exec
    <3>2. \A u \in Task : rec'[u] = rec[u] \/ rec'[u].pc # "finish" \/ rec'[u].res # "none"
      <4>1. CASE ReconcileTerminal(t)
        BY <4>1 DEF ReconcileTerminal, TypeOK, RecRec
      <4>2. CASE ReconcileLive(t) \/ ReconcileTransient(t)
        BY <4>2 DEF ReconcileLive, ReconcileTransient, NoRec, TypeOK, RecRec
      <4> QED BY <2>3, <4>1, <4>2
    <3> QED BY <3>1, <3>2 DEF HasAnswer
  <2>4. CASE ReconcileRelaunch(t) \/ RecObserve(t)
    <3>1. rec' = [rec EXCEPT ![t] = NoRec] /\ UNCHANGED cancel
      BY <2>4 DEF ReconcileRelaunch, RecObserve
    <3>2. UNCHANGED runs \/ \E kind \in {"launch", "observe"} : StartRuns({t}, kind)
      BY <2>4 DEF ReconcileRelaunch, RecObserve, exec
    <3>3. \A q \in Run : runs'[q] = runs[q] \/ runs'[q].pc # "settling"
      BY <3>2, StartRunsStarts
    <3> QED BY <3>1, <3>3 DEF HasAnswer, TypeOK, NoRec
  <2>5. CASE RecAccept(t)
    <3>1. UNCHANGED rec \/ rec' = [rec EXCEPT ![t].pc = IF rec[t].res = "none" THEN "observe" ELSE "finish"]
      BY <2>5 DEF RecAccept
    <3>2. UNCHANGED <<runs, cancel>>
      BY <2>5 DEF RecAccept, exec
    <3> QED BY <3>1, <3>2 DEF HasAnswer, TypeOK, RecRec
  <2>6. CASE RecFinish(t)
    <3>1. rec[t].res # "none" /\ UNCHANGED runs
      BY <2>6 DEF HasAnswer, RecFinish, exec
    <3>2. UNCHANGED rec \/ rec' = [rec EXCEPT ![t] = NoRec]
      BY <2>6 DEF RecFinish
    <3>3. UNCHANGED cancel \/ cancel' = [cancel EXCEPT ![t].deferred = rec[t].res]
      BY <2>6 DEF RecFinish
    <3> QED BY <3>1, <3>2, <3>3 DEF HasAnswer, TypeOK, CancelRec, NoRec
  <2> QED BY <1>4, <2>1, <2>2, <2>3, <2>4, <2>5, <2>6 DEF RecNext
<1>5. CASE PumpNext
  <2>1. CASE PumpEnd
    BY <2>1, LaunchAdmittedStarts DEF PumpEnd, HasAnswer
  <2>2. CASE AdmissionRetry \/ \E c \in pumpDue : PumpBegin(c)
    BY <1>1, <2>2 DEF AdmissionRetry, PumpBegin, exec
  <2>3. CASE \E t \in Task : PumpHold(t) \/ PumpStart(t)
    BY <1>1, <2>3 DEF PumpHold, PumpStart, exec
  <2> QED BY <1>5, <2>1, <2>2, <2>3 DEF PumpNext
<1>6. CASE Saved
  <2>1. CASE SubmitSaved \/ HoldSaved \/ StartSaved \/ ChildSaved \/ RenewSaved
    BY <1>1, <2>1 DEF SubmitSaved, HoldSaved, StartSaved, ChildSaved, RenewSaved, exec
  <2>2. CASE AcceptSaved
    BY <2>2 DEF HasAnswer, TypeOK, RecRec, AcceptSaved, exec
  <2>3. CASE SettleSaved
    <3> DEFINE t == lock.id
    <3>1. \A q \in Run : runs'[q] = runs[q] \/ runs'[q].pc = "idle"
      BY <2>3, EndRunEnds DEF SettleSaved, exec
    <3>2. \/ cancel' = [cancel EXCEPT ![t].committed = TRUE, ![t].pc = "release"]
          \/ cancel' = [cancel EXCEPT ![t] = NoCancel]
          \/ UNCHANGED cancel
      BY <2>3 DEF SettleSaved
    <3>3. \A u \in Task : cancel'[u] = cancel[u] \/ cancel'[u].pc \notin {"settle", "replay"}
      BY <3>2 DEF TypeOK, CancelRec, NoCancel
    <3>4. \A u \in Task : rec'[u] = rec[u] \/ rec'[u].pc # "finish"
      BY <2>3 DEF SettleSaved, TypeOK, NoRec
    <3> QED BY <3>1, <3>3, <3>4 DEF HasAnswer
  <2>4. CASE WithdrawSaved
    BY <2>4 DEF HasAnswer, TypeOK, CancelRec, WithdrawSaved, exec
  <2> QED BY <1>6, <2>1, <2>2, <2>3, <2>4 DEF Saved
<1>7. CASE SaveError
  <2>1. CASE CallSaveFailed
    BY <1>1, <2>1 DEF CallSaveFailed, exec
  <2>2. CASE PumpSaveFailed
    BY <2>2, LaunchAdmittedStarts DEF PumpSaveFailed, HasAnswer
  <2>3. CASE RunSaveFailed
    BY <2>3, EndRunEnds DEF RunSaveFailed, HasAnswer, TypeOK, RunRec, ThrowStatus
  <2>4. CASE CancelSaveFailed
    BY <2>4 DEF CancelSaveFailed, HasAnswer, TypeOK, CancelRec, NoCancel, exec
  <2>5. CASE RecSaveFailed
    BY <2>5 DEF RecSaveFailed, HasAnswer, TypeOK, NoCancel, NoRec, exec
  <2> QED BY <1>7, <2>1, <2>2, <2>3, <2>4, <2>5 DEF SaveError
<1>8. CASE Crash
  BY <1>8 DEF Crash, Restarted, HasAnswer, IdleRun, NoCancel, NoRec
<1>9. CASE Load \/ BeginRecovery \/ Activate
  BY <1>1, <1>9 DEF Load, BeginRecovery, Activate, exec
<1>10. ASSUME NEW t \in Task, Resubmit(t) \/ WaitForTask(t) \/ \E followUp \in BOOLEAN : Submit(t, followUp)
       PROVE  HasAnswer'
  BY <1>1, <1>10 DEF Resubmit, WaitForTask, Submit, exec
<1> QED BY <1>2, <1>3, <1>4, <1>5, <1>6, <1>7, <1>8, <1>9, <1>10 DEF Next

\* Every step keeps an executor call waiting for its own pending save.
LEMMA RunWaitsStep ==
  ASSUME IInv, Next
  PROVE  RunWaits'
<1> USE DEF IInv
<1>1. CASE lock'.op \notin SaveOps \/ lock'.by # "run"
  BY <1>1 DEF RunWaits, Saving
<1>2. CASE /\ UNCHANGED lock
           /\ \A q \in Run : runs'[q].pc = runs[q].pc \/ runs[q].pc \notin {"executing", "saving"}
  BY <1>2 DEF RunWaits, Saving
<1>3. ASSUME NEW r \in Run, RunNext(r)
      PROVE  RunWaits'
  <2>1. CASE RunChild(r) \/ RunAccept(r) \/ RunProgress(r)
    BY <2>1 DEF RunWaits, Saving, BeginSave, RunChild, RunAccept, RunProgress, exec
  <2>2. CASE RunCheck(r)
    <3>1. UNCHANGED lock
      BY <2>2 DEF RunCheck, core
    <3>2. runs[r].pc = "checking" /\ \A q \in Run : q # r => runs'[q] = runs[q]
      BY <2>2 DEF TypeOK, RunCheck, EndRun
    <3> QED BY <1>2, <3>1, <3>2
  <2>3. CASE RunReturn(r)
    BY <2>3 DEF TypeOK, RunWaits, RunReturn, Saving, core
  <2>4. CASE RunSettle(r)
    <3>1. CASE UNCHANGED core
      BY <1>1, <2>4, <3>1 DEF RunSettle, Free, SaveOps, core
    <3>2. CASE /\ BeginSave("settle", runs[r].id, Settled(runs[r].id, runs[r].res), "run", r)
               /\ runs' = [runs EXCEPT ![r].pc = "saving"]
      BY <3>2 DEF TypeOK, RunRec, RunWaits, BeginSave, Saving
    <3> QED BY <2>4, <3>1, <3>2 DEF RunSettle
  <2> QED BY <1>3, <2>1, <2>2, <2>3, <2>4 DEF RunNext
<1>4. ASSUME NEW t \in Task, CancelNext(t)
      PROVE  RunWaits'
  <2>1. UNCHANGED runs
    BY <1>4 DEF CancelNext, CancelCall, DeadlineFires, DeadlineRead, Claim, Withdraw, AbortOutcome,
       CancelSettle, Release, Replay, exec
  <2>2. UNCHANGED lock \/ lock'.by # "run"
    <3>1. CASE Withdraw(t) \/ CancelSettle(t) \/ Replay(t)
      BY <3>1 DEF Withdraw, CancelSettle, Replay, BeginSave, core
    <3>2. CASE ~(Withdraw(t) \/ CancelSettle(t) \/ Replay(t))
      BY <1>4, <3>2 DEF CancelNext, CancelCall, DeadlineFires, DeadlineRead, Claim, AbortOutcome, Release, core
    <3> QED BY <3>1, <3>2
  <2> QED BY <1>1, <1>2, <2>1, <2>2
<1>5. ASSUME NEW t \in Task, RecNext(t)
      PROVE  RunWaits'
  <2>1. CASE StartLeaseFires(t)
    <3>1. UNCHANGED lock
      BY <2>1 DEF StartLeaseFires, core
    <3>2. \A q \in Run : runs'[q].pc = runs[q].pc
      <4>1. CASE runs' = [r \in Run |-> IF runs[r].id = t THEN [runs[r] EXCEPT !.stale = TRUE] ELSE runs[r]]
        BY <4>1 DEF TypeOK, RunRec
      <4> QED BY <2>1, <4>1 DEF StartLeaseFires, exec
    <3> QED BY <1>2, <3>1, <3>2
  <2>2. CASE ReconcileRelaunch(t) \/ RecObserve(t)
    <3>1. UNCHANGED runs \/ \E kind \in {"launch", "observe"} : StartRuns({t}, kind)
      BY <2>2 DEF ReconcileRelaunch, RecObserve, exec
    <3>2. \A q \in Run : runs'[q].pc = runs[q].pc \/ runs[q].pc = "idle"
      BY <3>1, StartRunsStarts
    <3>3. UNCHANGED lock
      BY <2>2 DEF ReconcileRelaunch, RecObserve, core
    <3> QED BY <1>2, <3>2, <3>3
  <2>3. CASE RetryFires(t) \/ ReconcileTerminal(t) \/ ReconcileLive(t) \/ ReconcileTransient(t) \/ RecoverNext(t)
    BY <1>2, <2>3 DEF RetryFires, ReconcileTerminal, ReconcileLive, ReconcileTransient, RecoverNext, core, exec
  <2>4. CASE RecAccept(t) \/ RecFinish(t)
    BY <1>1, <1>2, <2>4 DEF RecAccept, RecFinish, BeginSave, core, exec
  <2> QED BY <1>5, <2>1, <2>2, <2>3, <2>4 DEF RecNext
<1>6. CASE PumpNext
  <2>1. lock'.op \notin SaveOps \/ lock'.by # "run" \/ (lock' = lock /\ runs' = runs)
    <3>1. CASE PumpEnd \/ AdmissionRetry
      BY <3>1 DEF PumpEnd, AdmissionRetry, Unlocked, SaveOps, core, exec
    <3>3. CASE \E c \in pumpDue : PumpBegin(c)
      BY <3>3 DEF PumpBegin, Unlocked, PumpHolds, SaveOps
    <3>2. CASE \E t \in Task : PumpHold(t) \/ PumpStart(t)
      BY <3>2 DEF PumpHold, PumpStart, BeginSave, core, exec
    <3> QED BY <1>6, <3>1, <3>2, <3>3 DEF PumpNext
  <2> QED BY <1>1, <1>2, <2>1
<1>7. CASE Saved \/ SaveError \/ Crash
  BY <1>1, <1>7 DEF Saved, SubmitSaved, HoldSaved, StartSaved, ChildSaved, AcceptSaved, RenewSaved,
     SettleSaved, WithdrawSaved, SaveError, SaveFails, Crash, Restarted, Unlocked, PumpHolds, SaveOps
<1>8. CASE Load \/ BeginRecovery \/ Activate
  BY <1>2, <1>8 DEF Load, BeginRecovery, Activate, core, exec
<1>9. ASSUME NEW t \in Task, Resubmit(t) \/ WaitForTask(t) \/ \E followUp \in BOOLEAN : Submit(t, followUp)
      PROVE  RunWaits'
  <2>1. lock'.by # "run" \/ (lock' = lock /\ runs' = runs)
    <3>1. CASE Resubmit(t) \/ WaitForTask(t)
      BY <3>1 DEF Resubmit, WaitForTask, core, exec
    <3>2. CASE \E followUp \in BOOLEAN : Submit(t, followUp)
      BY <3>2 DEF Submit, BeginSave
    <3> QED BY <1>9, <3>1, <3>2
  <2> QED BY <1>1, <1>2, <2>1
<1> QED BY <1>3, <1>4, <1>5, <1>6, <1>7, <1>8, <1>9 DEF Next

-----------------------------------------------------------------------------
(* The pump and the process *)

\* Every step keeps the pump on tasks that are queued in the file: while it
\* holds the lock nobody else commits, and its own commits leave the walk.
LEMMA PumpWalksStep ==
  ASSUME IInv, Next
  PROVE  PumpWalks'
<1> DEFINE Walking == {"pump", "hold", "start"}
<1> USE DEF IInv, Free
<1>1. CASE pump' = pump /\ lock.op \notin Walking
  BY <1>1 DEF PumpWalks
<1>2. CASE pump' = pump /\ disk' = disk /\ (lock' = lock \/ lock'.op \in Walking)
  BY <1>2 DEF PumpWalks
<1>3. CASE pump' = IdlePump
  BY <1>3 DEF PumpWalks, IdlePump
<1>4. CASE PumpNext
  <2>1. ASSUME NEW c \in pumpDue, PumpBegin(c)
        PROVE  PumpWalks'
    <3>1. disk = tasks /\ disk' = disk
      BY <2>1 DEF PumpBegin, LedgerAgrees, Alive, Saving, SaveOps
    <3>2. lock'.op = "pump" /\ pump'.todo \subseteq {t \in Task : tasks[t].status = "queued"}
      BY <2>1 DEF PumpBegin, PumpHolds, Unlocked, IdlePump
    <3> QED BY <3>1, <3>2 DEF PumpWalks
  <2>2. ASSUME NEW t \in Task, PumpHold(t)
        PROVE  PumpWalks'
    <3>1. CASE pump' = [pump EXCEPT !.todo = @ \ {t}, !.held = TRUE] /\ UNCHANGED core
      BY <2>2, <3>1 DEF TypeOK, PumpRec, PumpHold, PumpWalks, core
    <3>2. CASE BeginSave("hold", t, [tasks[t] EXCEPT !.held = TRUE], "host", NoRun) /\ UNCHANGED pump
      BY <1>2, <3>2 DEF BeginSave
    <3> QED BY <2>2, <3>1, <3>2 DEF PumpHold
  <2>3. ASSUME NEW t \in Task, PumpStart(t)
        PROVE  PumpWalks'
    BY <1>2, <2>3 DEF PumpStart, BeginSave, queue
  <2>4. CASE PumpEnd
    BY <1>3, <2>4 DEF PumpEnd
  <2>5. CASE AdmissionRetry
    BY <1>2, <2>5 DEF AdmissionRetry, core
  <2> QED BY <1>4, <2>1, <2>2, <2>3, <2>4, <2>5 DEF PumpNext
<1>5. CASE HoldSaved \/ StartSaved
  <2>1. Saving /\ boot.phase # "down" /\ disk' = tasks /\ lock'.op = "pump"
    BY <1>5 DEF HoldSaved, StartSaved, Commit, Saving, SaveOps, Quiet, Alive, PumpHolds, Unlocked
  <2>2. pump'.todo = pump.todo \ {lock.id}
    BY <1>5 DEF TypeOK, PumpRec, HoldSaved, StartSaved
  <2>3. ASSUME NEW u \in pump.todo, u # lock.id
        PROVE  disk'[u].status = "queued"
    BY <2>1, <2>3 DEF TypeOK, PumpRec, PumpWalks, LedgerAgrees
  <2> QED BY <2>1, <2>2, <2>3 DEF PumpWalks
<1>6. CASE SubmitSaved \/ ChildSaved \/ AcceptSaved \/ RenewSaved \/ SettleSaved \/ WithdrawSaved
  BY <1>1, <1>6 DEF SubmitSaved, ChildSaved, AcceptSaved, RenewSaved, SettleSaved, WithdrawSaved,
     Commit, queue
<1>7. CASE SaveError
  <2>1. CASE PumpSaveFailed
    BY <1>3, <2>1 DEF PumpSaveFailed
  <2>2. CASE ~PumpSaveFailed
    BY <1>1, <1>7, <2>2 DEF SaveError, CallSaveFailed, RunSaveFailed, CancelSaveFailed, RecSaveFailed, queue
  <2> QED BY <2>1, <2>2
<1>8. CASE Crash
  BY <1>3, <1>8 DEF Crash, Restarted
<1>9. CASE Load \/ BeginRecovery \/ Activate
  BY <1>1, <1>2, <1>9 DEF Load, BeginRecovery, Activate, Quiet, Alive, core, queue
<1>10. ASSUME NEW r \in Run, RunNext(r)
       PROVE  PumpWalks'
  BY <1>1, <1>2, <1>10 DEF RunNext, RunCheck, RunChild, RunAccept, RunProgress, RunReturn, RunSettle,
     core, queue
<1>11. ASSUME NEW t \in Task, CancelNext(t)
       PROVE  PumpWalks'
  BY <1>1, <1>2, <1>11 DEF CancelNext, CancelCall, DeadlineFires, DeadlineRead, Claim, Withdraw,
     AbortOutcome, CancelSettle, Release, Replay, core, queue
<1>12. ASSUME NEW t \in Task, RecNext(t)
       PROVE  PumpWalks'
  BY <1>1, <1>2, <1>12 DEF RecNext, StartLeaseFires, RetryFires, ReconcileTerminal, ReconcileLive,
     ReconcileRelaunch, ReconcileTransient, RecAccept, RecObserve, RecFinish, RecoverNext, core, queue
<1>13. ASSUME NEW t \in Task, Resubmit(t) \/ WaitForTask(t) \/ \E followUp \in BOOLEAN : Submit(t, followUp)
       PROVE  PumpWalks'
  BY <1>1, <1>2, <1>13 DEF Resubmit, WaitForTask, Submit, core, queue
<1> QED BY <1>4, <1>5, <1>6, <1>7, <1>8, <1>9, <1>10, <1>11, <1>12, <1>13 DEF Next, Saved

\* Every step but a crash ends with a process that is alive.
LEMMA StaysAlive ==
  ASSUME TypeOK, Quiet, Next
  PROVE  boot'.phase # "down" \/ Crash
<1> USE DEF Quiet, Alive, Up, Free
<1>1. ASSUME NEW r \in Run, RunNext(r)
      PROVE  boot'.phase # "down"
  BY <1>1 DEF RunNext, RunCheck, RunChild, RunAccept, RunProgress, RunReturn, RunSettle
<1>2. ASSUME NEW t \in Task, CancelNext(t)
      PROVE  boot'.phase # "down"
  BY <1>2 DEF CancelNext, CancelCall, DeadlineFires, DeadlineRead, Claim, Withdraw, AbortOutcome,
     CancelSettle, Release, Replay
<1>3. ASSUME NEW t \in Task, RecNext(t)
      PROVE  boot'.phase # "down"
  BY <1>3 DEF TypeOK, BootRec, RecNext, StartLeaseFires, RetryFires, ReconcileTerminal, ReconcileLive,
     ReconcileRelaunch, ReconcileTransient, RecAccept, RecObserve, RecFinish, RecoverNext
<1>4. CASE PumpNext
  BY <1>4 DEF PumpNext, PumpBegin, PumpHold, PumpStart, PumpEnd, AdmissionRetry
<1>5. CASE Saved
  BY <1>5 DEF Saved, Commit, SubmitSaved, HoldSaved, StartSaved, ChildSaved, AcceptSaved, RenewSaved,
     SettleSaved, WithdrawSaved
<1>6. CASE SaveError
  BY <1>6 DEF SaveError, SaveFails, Saving, SaveOps, AtPhase, PumpSaveFailed, CallSaveFailed,
     RunSaveFailed, CancelSaveFailed, RecSaveFailed
<1>7. CASE Load \/ BeginRecovery \/ Activate
  BY <1>7 DEF TypeOK, BootRec, Load, BeginRecovery, Activate, AtPhase
<1>8. ASSUME NEW t \in Task, Resubmit(t) \/ WaitForTask(t) \/ \E followUp \in BOOLEAN : Submit(t, followUp)
      PROVE  boot'.phase # "down"
  BY <1>8 DEF Resubmit, WaitForTask, Submit
<1> QED BY <1>1, <1>2, <1>3, <1>4, <1>5, <1>6, <1>7, <1>8 DEF Next

\* Every step keeps a dead process quiet.
LEMMA QuietStep ==
  ASSUME IInv, Next
  PROVE  Quiet'
<1>1. CASE Crash
  BY <1>1 DEF Crash, Restarted, Quiet, Free, Unlocked, IdleRun, NoCancel, NoRec
<1>2. CASE boot'.phase # "down"
  BY <1>2 DEF Quiet, Alive
<1> QED BY <1>1, <1>2, StaysAlive DEF IInv

-----------------------------------------------------------------------------
(* The invariant and what follows from it *)

\* Only a live process replaces the file, and then by its live map.
LEMMA DiskStep ==
  ASSUME IInv, Next, LateSaveError = FALSE
  PROVE  disk' = disk \/ (disk' = tasks /\ Alive)
<1> USE DEF Quiet, Alive, Up, Free
<1>1. ASSUME NEW r \in Run, RunNext(r)
      PROVE  disk' = disk
  BY <1>1 DEF RunNext, RunCheck, RunChild, RunAccept, RunProgress, RunReturn, RunSettle, BeginSave, core
<1>2. ASSUME NEW t \in Task, CancelNext(t)
      PROVE  disk' = disk
  BY <1>2 DEF CancelNext, CancelCall, DeadlineFires, DeadlineRead, Claim, Withdraw, AbortOutcome,
     CancelSettle, Release, Replay, BeginSave, core
<1>3. ASSUME NEW t \in Task, RecNext(t)
      PROVE  disk' = disk
  BY <1>3 DEF RecNext, StartLeaseFires, RetryFires, ReconcileTerminal, ReconcileLive,
     ReconcileRelaunch, ReconcileTransient, RecAccept, RecObserve, RecFinish, RecoverNext, BeginSave, core
<1>4. CASE PumpNext
  BY <1>4 DEF PumpNext, PumpBegin, PumpHold, PumpStart, PumpEnd, AdmissionRetry, BeginSave, core
<1>5. CASE Saved
  BY <1>5 DEF IInv, Saved, Commit, SubmitSaved, HoldSaved, StartSaved, ChildSaved, AcceptSaved,
     RenewSaved, SettleSaved, WithdrawSaved
<1>6. CASE SaveError \/ Crash
  BY <1>6 DEF SaveError, SaveFails, Crash
<1>7. CASE Load \/ BeginRecovery \/ Activate
  BY <1>7 DEF Load, BeginRecovery, Activate, core
<1>8. ASSUME NEW t \in Task, Resubmit(t) \/ WaitForTask(t) \/ \E followUp \in BOOLEAN : Submit(t, followUp)
      PROVE  disk' = disk
  BY <1>8 DEF Resubmit, WaitForTask, Submit, BeginSave, core
<1> QED BY <1>1, <1>2, <1>3, <1>4, <1>5, <1>6, <1>7, <1>8 DEF Next

\* A step that changes the file changes one record, of a task that has not
\* ended, along the status graph.
LEMMA OneLegalCommit ==
  ASSUME IInv, Next, LateSaveError = FALSE, disk' # disk
  PROVE  \E t \in Task : /\ disk' = [disk EXCEPT ![t] = tasks[t]]
                         /\ ~IsTerminal(disk[t].status)
                         /\ CanTransition(disk[t].status, tasks[t].status)
<1>1. disk' = tasks /\ Alive
  BY DiskStep
<1>2. Saving /\ lock.id \in Task /\ disk = [tasks EXCEPT ![lock.id] = lock.prev]
  BY <1>1 DEF IInv, TypeOK, LedgerAgrees, Alive
<1>3. disk[lock.id] = lock.prev /\ tasks = [disk EXCEPT ![lock.id] = tasks[lock.id]]
  BY <1>2 DEF IInv, TypeOK
<1> QED BY <1>1, <1>2, <1>3 DEF IInv, SaveIsLegal

\* The invariant holds before the first start.
LEMMA InitHolds == Init => IInv
<1> SUFFICES ASSUME Init
             PROVE  IInv
  OBVIOUS
<1>1. TypeOK
  BY ConstantsTyped DEF Init, TypeOK, SpentRec, WaiterRec, Results, Saving, SaveOps
<1>2. LedgerAgrees /\ SaveIsLegal /\ RunWaits
  BY DEF Init, LedgerAgrees, SaveIsLegal, RunWaits, AtPhase, Saving, SaveOps, Unlocked
<1>3. PumpWalks /\ HasAnswer /\ Quiet
  BY DEF Init, PumpWalks, HasAnswer, Quiet, Free, IdlePump, IdleRun, NoCancel, NoRec, Unlocked
<1> QED BY <1>1, <1>2, <1>3 DEF IInv

\* A step that changes nothing keeps it.
LEMMA StutterHolds ==
  ASSUME IInv, UNCHANGED vars
  PROVE  IInv'
<1> USE DEF IInv, vars, core, queue, exec
<1>1. TypeOK'
  BY DEF TypeOK, Saving
<1>2. (LedgerAgrees /\ SaveIsLegal /\ RunWaits)'
  BY DEF LedgerAgrees, SaveIsLegal, RunWaits, Saving
<1>3. (PumpWalks /\ HasAnswer /\ Quiet)'
  BY DEF PumpWalks, HasAnswer, Quiet, Alive, Free
<1> QED BY <1>1, <1>2, <1>3

\* Every step of the scheduler keeps it.
LEMMA StepHolds ==
  ASSUME IInv, Next, LateSaveError = FALSE
  PROVE  IInv'
<1>1. TypeOK'
  BY TypeStep
<1>2. LedgerAgrees' /\ SaveIsLegal'
  BY LedgerStep
<1>3. PumpWalks' /\ HasAnswer' /\ RunWaits' /\ Quiet'
  BY PumpWalksStep, HasAnswerStep, RunWaitsStep, QuietStep
<1> QED BY <1>1, <1>2, <1>3 DEF IInv

\* The invariant holds in every reachable state, for any set of tasks, any
\* number of executor calls and any bounds.
THEOREM Invariance ==
  ASSUME LateSaveError = FALSE
  PROVE  Spec => []IInv
<1>1. IInv /\ [Next]_vars => IInv'
  BY StepHolds, StutterHolds
<1> QED BY <1>1, InitHolds, PTL DEF Spec

\* Every variable has its type in every reachable state.
THEOREM TypeCorrect ==
  ASSUME LateSaveError = FALSE
  PROVE  Spec => []TypeOK
<1>1. IInv => TypeOK
  BY DEF IInv
<1> QED BY <1>1, Invariance, PTL

\* Between locked sections the live map is the file, and a pending save is one
\* record ahead (commitTaskUpdateLocked and its rollback).
THEOREM LedgerCorrect ==
  ASSUME LateSaveError = FALSE
  PROVE  Spec => []LedgerAgrees
<1>1. IInv => LedgerAgrees
  BY DEF IInv
<1> QED BY <1>1, Invariance, PTL

\* A recorded outcome is never written again, whatever answers, retries and
\* restarts come later (finishTask, assertManagedTaskTransition).
THEOREM OutcomesFinal ==
  ASSUME LateSaveError = FALSE
  PROVE  Spec => OutcomeIsFinal
<1>1. IInv /\ [Next]_vars => [\A t \in Task : IsTerminal(disk[t].status) => disk'[t] = disk[t]]_disk
  <2>1. ASSUME IInv, Next, disk' # disk, NEW t \in Task, IsTerminal(disk[t].status)
        PROVE  disk'[t] = disk[t]
    BY <2>1, OneLegalCommit DEF IInv, TypeOK
  <2>2. UNCHANGED vars => disk' = disk
    BY DEF vars, core
  <2> QED BY <2>1, <2>2
<1> QED BY <1>1, Invariance, PTL DEF Spec, OutcomeIsFinal

\* The ledger file implements the lifecycle: one task at a time along the
\* status graph, across failed saves and crashes.
THEOREM LifecycleImplemented ==
  ASSUME LateSaveError = FALSE
  PROVE  Spec => ImplementsLifecycle
<1> DEFINE status == [t \in Task |-> disk[t].status]
<1>1. Init => Lifecycle!Init
  BY DEF Init, Lifecycle!Init, Lifecycle!Absent, AbsentTask, Absent
<1>2. IInv /\ [Next]_vars => [Lifecycle!Next]_status
  <2>1. ASSUME IInv, Next, disk' # disk
        PROVE  Lifecycle!Next \/ status' = status
    <3>1. PICK t \in Task : /\ disk' = [disk EXCEPT ![t] = tasks[t]]
                            /\ CanTransition(disk[t].status, tasks[t].status)
      BY <2>1, OneLegalCommit
    <3>2. status' = [status EXCEPT ![t] = tasks[t].status]
      BY <2>1, <3>1 DEF IInv, TypeOK
    <3>3. CASE tasks[t].status = disk[t].status
      BY <3>2, <3>3
    <3>4. CASE tasks[t].status \in AllowedTransitions[disk[t].status]
      <4>1. Lifecycle!AllowedTransitions = AllowedTransitions
        BY DEF Lifecycle!AllowedTransitions, AllowedTransitions, Lifecycle!TaskStatuses, TaskStatuses,
           Lifecycle!ActiveStatus, ActiveStatus, Lifecycle!TerminalStatus, TerminalStatus,
           Lifecycle!Absent, Absent
      <4>2. tasks[t].status \in Lifecycle!AllowedTransitions[status[t]]
        BY <3>4, <4>1
      <4>3. Lifecycle!Commit(t)
        BY <3>2, <4>2 DEF Lifecycle!Commit
      <4> QED BY <4>3 DEF Lifecycle!Next
    <3> QED BY <3>1, <3>3, <3>4 DEF CanTransition
  <2>2. disk' = disk => status' = status
    OBVIOUS
  <2>3. UNCHANGED vars => disk' = disk
    BY DEF vars, core
  <2> QED BY <2>1, <2>2, <2>3
<1> QED BY <1>1, <1>2, Invariance, PTL DEF Spec, ImplementsLifecycle, Lifecycle!Spec

-----------------------------------------------------------------------------
(* Waiters *)

\* What a step does to the waiters: nothing, unless it is the settlement that
\* wakes them, a crash, or a call of waitForTask.
Told ==
  \/ waiter' = waiter /\ (disk' = disk \/ lock.op \notin {"settle", "withdraw"})
  \/ waiter' = [waiter EXCEPT !.waiting = {}]
  \/ /\ disk' = disk /\ Alive
     /\ \E t \in Task : \/ waiter' = [waiter EXCEPT !.fast[t] = tasks[t].status]
                        \/ ~Ended(t) /\ waiter' = [waiter EXCEPT !.waiting = @ \cup {t}]
  \/ lock.op \in {"settle", "withdraw"} /\ disk' = tasks /\ NotifyWaiters(lock.id)

\* Every step treats the waiters in one of these ways.
LEMMA ToldStep ==
  ASSUME Next, LateSaveError = FALSE
  PROVE  Told
<1>1. CASE disk' = disk /\ waiter' = waiter
  BY <1>1 DEF Told
<1>2. CASE Saved
  <2>1. CASE SettleSaved \/ WithdrawSaved
    BY <2>1 DEF SettleSaved, WithdrawSaved, Commit, Told
  <2>2. CASE SubmitSaved \/ HoldSaved \/ StartSaved \/ ChildSaved \/ AcceptSaved \/ RenewSaved
    BY <2>2 DEF SubmitSaved, HoldSaved, StartSaved, ChildSaved, AcceptSaved, RenewSaved, Commit, Told
  <2> QED BY <1>2, <2>1, <2>2 DEF Saved
<1>3. CASE SaveError
  BY <1>1, <1>3 DEF SaveError, SaveFails, PumpSaveFailed, CallSaveFailed, RunSaveFailed,
     CancelSaveFailed, RecSaveFailed
<1>4. CASE Crash
  BY <1>4 DEF Crash, Restarted, Told
<1>5. ASSUME NEW t \in Task, WaitForTask(t)
      PROVE  Told
  BY <1>5 DEF WaitForTask, WaitOver, Told, Up, Alive, core
<1>6. ASSUME NEW t \in Task, Resubmit(t) \/ \E followUp \in BOOLEAN : Submit(t, followUp)
      PROVE  Told
  <2>1. CASE Resubmit(t)
    BY <1>1, <2>1 DEF Resubmit, core
  <2>2. CASE \E followUp \in BOOLEAN : Submit(t, followUp)
    BY <1>1, <2>2 DEF Submit, BeginSave
  <2> QED BY <1>6, <2>1, <2>2
<1>7. ASSUME NEW r \in Run, RunNext(r)
      PROVE  Told
  BY <1>1, <1>7 DEF RunNext, RunCheck, RunChild, RunAccept, RunProgress, RunReturn, RunSettle,
     BeginSave, core
<1>8. ASSUME NEW t \in Task, CancelNext(t)
      PROVE  Told
  BY <1>1, <1>8 DEF CancelNext, CancelCall, DeadlineFires, DeadlineRead, Claim, Withdraw, AbortOutcome,
     CancelSettle, Release, Replay, BeginSave, core
<1>9. ASSUME NEW t \in Task, RecNext(t)
      PROVE  Told
  BY <1>1, <1>9 DEF RecNext, StartLeaseFires, RetryFires, ReconcileTerminal, ReconcileLive,
     ReconcileRelaunch, ReconcileTransient, RecAccept, RecObserve, RecFinish, RecoverNext, BeginSave, core
<1>10. CASE PumpNext
  BY <1>1, <1>10 DEF PumpNext, PumpBegin, PumpHold, PumpStart, PumpEnd, AdmissionRetry, BeginSave, core
<1>11. CASE Load \/ BeginRecovery \/ Activate
  BY <1>1, <1>11 DEF Load, BeginRecovery, Activate, core
<1> QED BY <1>2, <1>3, <1>4, <1>5, <1>6, <1>7, <1>8, <1>9, <1>10, <1>11 DEF Next

\* Every step keeps the waiters in line with the file.
LEMMA WaitersStep ==
  ASSUME IInv, WaitersFollow, Next, LateSaveError = FALSE
  PROVE  WaitersFollow'
<1> USE DEF IInv
<1>1. ASSUME NEW t \in Task, IsTerminal(disk[t].status)
      PROVE  disk'[t] = disk[t]
  BY <1>1, OneLegalCommit DEF TypeOK
<1>2. \A t \in Task : waiter.notified[t] # "none" =>
         IsTerminal(disk'[t].status) /\ disk'[t].status = waiter.notified[t]
  BY <1>1 DEF WaitersFollow
<1>3. waiter.waiting \subseteq Task
  BY DEF TypeOK, WaiterRec
<1>4. CASE waiter' = waiter /\ (disk' = disk \/ lock.op \notin {"settle", "withdraw"})
  <2>1. ASSUME NEW t \in waiter.waiting
        PROVE  ~IsTerminal(disk'[t].status)
    <3>1. CASE disk' = disk
      BY <3>1 DEF WaitersFollow
    <3>2. CASE disk' # disk /\ lock.op \notin {"settle", "withdraw"}
      <4>1. disk' = tasks /\ Alive
        BY <3>2, DiskStep
      <4>2. Saving /\ disk = [tasks EXCEPT ![lock.id] = lock.prev] /\ ~IsTerminal(tasks[lock.id].status)
        BY <3>2, <4>1 DEF LedgerAgrees, SaveIsLegal, Alive
      <4> QED BY <1>3, <4>1, <4>2 DEF WaitersFollow, TypeOK
    <3> QED BY <1>4, <3>1, <3>2
  <2> QED BY <1>2, <1>4, <2>1 DEF WaitersFollow
<1>5. CASE waiter' = [waiter EXCEPT !.waiting = {}]
  BY <1>2, <1>5 DEF WaitersFollow, TypeOK, WaiterRec
<1>6. ASSUME NEW t \in Task, disk' = disk, waiter' = [waiter EXCEPT !.fast[t] = tasks[t].status]
      PROVE  WaitersFollow'
  BY <1>6 DEF WaitersFollow, TypeOK, WaiterRec
<1>7. ASSUME NEW t \in Task, disk' = disk, ~Ended(t),
             waiter' = [waiter EXCEPT !.waiting = @ \cup {t}], Alive
      PROVE  WaitersFollow'
  <2>1. ~IsTerminal(disk[t].status)
    <3>1. CASE Saving /\ lock.id = t
      BY <1>7, <3>1 DEF LedgerAgrees, SaveIsLegal, Alive, TypeOK
    <3>2. CASE ~Saving \/ lock.id # t
      BY <1>7, <3>2 DEF LedgerAgrees, Alive, TypeOK, Ended
    <3> QED BY <3>1, <3>2
  <2> QED BY <1>7, <2>1 DEF WaitersFollow, TypeOK, WaiterRec
<1>8. CASE lock.op \in {"settle", "withdraw"} /\ disk' = tasks /\ NotifyWaiters(lock.id)
  <2> DEFINE t == lock.id
  <2>1. Saving /\ Alive /\ t \in Task
    BY <1>8 DEF Saving, SaveOps, Quiet, Free, TypeOK
  <2>2. IsTerminal(tasks[t].status) /\ disk = [tasks EXCEPT ![t] = lock.prev]
    BY <1>8, <2>1 DEF SaveIsLegal, LedgerAgrees, Alive
  <2>3. \A u \in Task : u # t => disk'[u] = disk[u]
    BY <1>8, <2>2 DEF TypeOK
  <2>4. CASE t \in waiter.waiting
    <3>1. waiter' = [waiter EXCEPT !.waiting = @ \ {t}, !.notified[t] = tasks[t].status]
      BY <1>8, <2>4 DEF NotifyWaiters
    <3>2. /\ waiter'.waiting = waiter.waiting \ {t}
          /\ waiter'.notified = [waiter.notified EXCEPT ![t] = tasks[t].status]
          /\ waiter.notified \in [Task -> Results]
      BY <3>1 DEF TypeOK, WaiterRec
    <3> QED BY <1>2, <1>3, <1>8, <2>1, <2>2, <2>3, <3>2 DEF WaitersFollow
  <2>5. CASE t \notin waiter.waiting
    <3>1. waiter' = waiter
      BY <1>8, <2>5 DEF NotifyWaiters
    <3> QED BY <1>2, <1>3, <2>3, <2>5, <3>1 DEF WaitersFollow
  <2> QED BY <2>4, <2>5
<1>9. Told
  BY ToldStep
<1> QED BY <1>4, <1>5, <1>6, <1>7, <1>8, <1>9 DEF Told

\* The waiters follow the file in every reachable state.
THEOREM WaitersInvariance ==
  ASSUME LateSaveError = FALSE
  PROVE  Spec => []WaitersFollow
<1>1. Init => WaitersFollow
  BY DEF Init, WaitersFollow
<1>2. IInv /\ WaitersFollow /\ [Next]_vars => WaitersFollow'
  <2>1. WaitersFollow /\ UNCHANGED vars => WaitersFollow'
    BY DEF WaitersFollow, vars, core
  <2> QED BY <2>1, WaitersStep
<1> QED BY <1>1, <1>2, Invariance, PTL DEF Spec

\* No waiter sleeps through a settlement (waitForTask, notifyTaskWaiters).
THEOREM WaitersWoken ==
  ASSUME LateSaveError = FALSE
  PROVE  Spec => []NoLostWakeup
<1>1. WaitersFollow => NoLostWakeup
  BY DEF WaitersFollow, NoLostWakeup
<1> QED BY <1>1, WaitersInvariance, PTL

\* What a woken waiter was told is what the file holds, for ever.
THEOREM WaitersToldTheOutcome ==
  ASSUME LateSaveError = FALSE
  PROVE  Spec => []NotifiedOutcomeIsDurable
<1>1. WaitersFollow => NotifiedOutcomeIsDurable
  BY DEF WaitersFollow, NotifiedOutcomeIsDurable
<1> QED BY <1>1, WaitersInvariance, PTL
=============================================================================
