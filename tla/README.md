# Verification of the DevRyan orchestration and session runtimes

DevRyan runs coding agents. This directory holds TLA+ modules of the parts of it
that must not lose, repeat or tear work, TLC runs on small instances, and TLAPS
proofs for every instance:

- the *managed orchestration runtime* (`src/packages/orchestration-runtime`), a
  scheduler that records sub-agent tasks in a ledger file, launches them through
  OpenCode, and brings each to exactly one outcome across cancellations,
  deadlines, failed writes and restarts;
- its *results and their automatic resume*: a task that stopped on a provider
  limit is continued by itself, by a person, or not at all, and never twice;
- the *session revert* of the harness runtime (`src/packages/harness-runtime`):
  a conversation tree and its file changes go back and forth together;
- the *bounded read pool* that shares reads between callers;
- the *configuration apply coordinator* (`src/packages/shared-runtime`), which
  restarts OpenCode for saved configuration without losing a change.

Line numbers below are of `scheduler.js` unless a file is named.

1. [Components](#1-components)
2. [Plan](#2-plan)
3. [The modules](#3-the-modules)
4. [Bounds and abstractions](#4-bounds-and-abstractions)
5. [Fairness](#5-fairness)
6. [Runs](#6-runs)
7. [What the documentation says and the code does not do](#7-what-the-documentation-says-and-the-code-does-not-do)
8. [Proofs](#8-proofs)
9. [What is not covered](#9-what-is-not-covered)

## 1. Components

`PROJECT.json` lists every component with its sources and status. The ones with
logic of their own:

| Component | State | Operations | Hard behaviour | Correct when |
|---|---|---|---|---|
| **Managed task scheduler** (`scheduler.js`) | live map of task records; promise-chain mutex; `activeLaunches`; `cancellationPromises` and `cancellationOwners`; deadline, starting-lease, retry and admission timers; waiters | `submit`, `pump`, `launchTask` and its control callbacks, `finishTask`, `cancelTask`, `cancelTaskForAgentHandoff`, `handleTaskTimeout`, `handleStartingLease`, `recoverTask`, `initialize`, `waitForTask`, dispositions, automatic resume, operator stop, removal, shutdown | everything above interleaves at each `await`; a save may fail; the process may die | one outcome per task, never rewritten; no task forgotten; no executor call without a durable admission |
| **Task status graph** (`transitions.js`, `contract.js`) | none | `assertManagedTaskTransition`, `isTerminalManagedTaskStatus` | races ask for transitions the graph refuses | the file only moves along the graph |
| **Ledger file** (`atomic-ledger.js`, `atomic-file.js`) | the JSON file, its temporary file, the ownership lock | `load`, `save` | a save fails before or after the rename; a crash cuts it | a file that is read is one that was written |
| **OpenCode executor** (`open-code-executor.js`) | one child session per task | `execute`, `abort`, `reconcile` | every read may time out; a late answer of a call given up on | every call answers |
| **Result envelopes, dispositions** (`result-envelope.js`) | an envelope per terminal task, with its disposition | acknowledge, continue, retry, accept partial | check and commit in two sections; the duplicate guard may answer a retry with an active task | each envelope is disposed of once, with a follow-up that the same save creates or that has not finished |
| **Automatic resume** (`auto-resume-policy.js`, 1392-1750, 2185-2279) | a record per parked result: state, generation, attempts, failures; timers; promises of the host's attempt | park, plan, attempt, answer, disable, enable, rearm | people and timers act on the same result; a step resumes after the result has moved on; crash between two saves | no follow-up by an attempt that was revoked; one lineage, one budget; no waiting record is forgotten |
| **Native job proofs** (`native-job-proof-store.js`) | pending receipts, shard files | record, flush, release | two files written in order | no receipt lost, none resurrected |
| **Single flight** (`single-flight.js`) | promise per key | run, settle | a settled promise and a new caller | no two computations of one key at once |
| **Orchestration host** (`web/server/lib/orchestration`) | the runtime in service | start, replace, drain | requests across a replacement | one scheduler writes the ledger |
| **Session revert** (`session-revert-coordinator.js`, `session-mutations.js`) | the ledger of prompts, leases, operations, transactions and fences; the markers of the conversation store; a lock per transaction | `revert`, `redo`, `restoreFiles`, `recover`; register, reserve, finish of calls | five phases with an await in each, over a store and a ledger that fail separately; two processes; crash and recovery | messages and files change together, for the whole tree or not at all; nobody writes into the past |
| **Bounded read pool** (`bounded-read-pool.js`) | entries by key, a queue, the slots in use | `run`, abort of a caller, `drain` | callers join and leave a shared run; abandoned entries in the queue | one run per key; no slot lost; nobody aborted who stays; every call answered |
| **Rest of the harness runtime** (`harness-runtime/lib`) | session leases, admission queues, journals, provider claims | acquire, release, append, replay, claim | crash between stages; bounded queues; cancellation while queued | a slot is returned once; a journal replays to what was acknowledged |
| **Configuration apply coordinator** (`shared-runtime/lib/config-apply-coordinator.js`) | pending changes, revisions, the waiting revision and its idle timer, the apply in flight | `markChanged`, `apply` when idle or by force, the idle check, `acknowledgeExternal` | every await (count, abort, restart) lets changes and other applies in; the restart is shared with the health monitor | a change is pending until a runtime that has read it runs; a wait ends |

How they interact. The hosts (web server routes, Electron, the `oc` tools) call
the scheduler's operations. The scheduler calls `persistence.save`, which
replaces the ledger file atomically, and `executor.execute/abort/reconcile`,
which talk to the OpenCode process. The executor calls back through `control`
(`setChildSessionId`, `markAccepted`, `recordProgress`). Hosts hear of outcomes
from `waitForTask` or from events. One process owns a ledger: the concurrency
is that of promises and timers inside it, and of its death and restart. A
settlement parks its result in the same locked section, whose timers ask the
host for an attempt; the host acknowledges the result, which submits a task.

The revert coordinator is called by the web server and by every host of a
project; it stops calls through the session executor, moves the markers of the
conversation store, and lets the mutation ledger settle. Here two processes may
work on the same transaction. The read pool is used by the hosts that compare
worktrees (`session-changes-host.js`).

The user interface, desktop shells, quota adapters, migrations and the plug-in
are listed as not modelled, each with its reason.

## 2. Plan

In the order of importance; (1) to (12) exist.

1. `TaskStatus`, `TaskLifecycle`: the status graph, and the lifecycle a reader
   of the ledger file sees. The abstract specification.
2. `ManagedScheduler`: the scheduler, the ledger file and the executor's
   contract, from submission to settlement, with failures and restarts.
3. `ManagedSchedulerInvariant`: its inductive invariant.
4. `ManagedSchedulerTypes`, `ManagedSchedulerProofs`: the invariant is
   inductive; type correctness, agreement of map and file, finality,
   the refinement of `TaskLifecycle`, and the promises made to waiters.
5. `ConfigApply`, `ConfigApplyProofs`: the configuration apply coordinator with
   the restart it shares with the health monitor, and its safety proved.
6. `ParkedResult`, `AutoResume`: what the disposition of a result promises, and
   parking, planning, attempts, acknowledgements, the switch, crash and
   rearming, which implement it.
7. `AtomicRevert`, `SessionRevert`: a revert as one step, and the phases of the
   coordinator over the mutation ledger, which implement it.
8. `SessionRevertProofs`: the fences, the stopped writers and the finality of
   the decision, for any tree and any number of processes; messages and files
   that agree, and the refinement of `AtomicRevert`, when no head stands above
   another one.
9. `BoundedReadPool`, `BoundedReadPoolProofs`: the pool and its safety proved.
10. `AutoResumeProofs`: one follow-up of its own per result, one attempt at a
    time, and what a stale attempt may not do.
11. `AutoResumePromises`: a record that waits is driven by something, the
    budget is the lineage's, and the refinement of `ParkedResult`.
12. `ManagedSchedulerPromises`: what holds between the locked sections: owners,
    deadlines, the order of admission, who may start an executor, and who comes
    back to a task that has not ended.

Not written yet:

13. `OperatorStop` and the removal, drain and shutdown fences of the scheduler:
    an extension of (2) whose new variable is the set of fences.
14. `NativeJobProofs`, `ExecutionAdmission`, `Journal`: small modules with an
    abstract specification each.
15. The inside of `open-code-executor.js`: prompt, poll, transport recovery;
    shown to keep the contract that (2) assumes.

Further theorems, in order: what is left of `Whole` when heads do stand above
one another (each session agrees with the ledger until the Redo of a head below
a pending or completed Revert), and the same as for (12) for (13).

## 3. The modules

### The scheduler

`ManagedScheduler` is one Node process and its ledger file. Code between two
`await`s is one atomic action. The scheduler serialises mutations behind a
promise-chain mutex (`runExclusive`, 377); a locked section that commits is
*two* actions: the first puts the new record into the live map and takes the
lock, the second is the answer of `persistence.save`. In between, the code that
runs outside the mutex (timers, executor answers, `waitForTask`, the checks of
`launchTask`) reads a live map that is ahead of the file. Most of the hazards
live in that gap.

| Variable | In the code |
|---|---|
| `disk` | the ledger file, as task records |
| `tasks` | the live map `tasks` (278) |
| `lock` | the section that holds the mutex, the record it would roll back to (`previous`, 650-660) and whose promise waits for it |
| `pump`, `pumpDue` | the walk of `pump` (2031-2096) and the calls of it queued on the mutex |
| `runs`, `active` | promises of `executor.execute` and `executor.observe` in flight; `activeLaunches` (322) |
| `cancel` | `cancellationPromises` and `cancellationOwners` (323-324): the cancellation in flight for a task, its program counter, and the answer it has deferred |
| `timers`, `fired` | `timeoutTimers`, `startingLeaseTimers`, `reconciliationRetryTimers`, the admission timer; deadline handlers that have fired and wait for the mutex |
| `rec`, `boot` | `recoverTask` calls in flight; the process and its start-up sequence (2310-2391) |
| `minted`, `spent` | lease tokens issued; crashes, failed saves and caller calls so far (bounds) |
| `waiter` | callers of `waitForTask`: waiting, answered at once (`fast`), woken (`notified`) |

A record keeps the fields that decide anything: status, sequence, lease token,
deadline (counted by its renewals), whether a child session is known, whether
the task is recorded as held, and the result. `PROJECT.json` maps every
definition to its lines.

Correspondence of the main actions:

- *Submission*: `Submit`/`SubmitSaved` (`submit`, `commitNewTaskLocked`,
  `launchCommittedTask`), `Resubmit` (a known idempotency key: the deadline is
  armed again and the pump called).
- *Pump*: `PumpBegin` lists the queue under the mutex, `PumpHold`/`HoldSaved`
  record a task whose prerequisites are not met, `PumpStart`/`StartSaved` admit
  the head under a fresh lease, `PumpEnd` is the `finally` block that launches
  the admissions in the same turn. `PumpSaveFailed` keeps the code's asymmetry:
  only the pump called by a submission arms the retry timer.
- *Executor promises*: `RunCheck`, `RunChild`, `RunAccept`, `RunProgress`,
  `RunReturn`, `RunSettle`. A throw is settled by the catch block, once.
- *Cancellation*: `CancelCall`, `DeadlineFires`/`DeadlineRead` (the deadline
  handler and its two sections), `Claim`, `Withdraw`, `AbortOutcome`,
  `CancelSettle`, `Release`, `Replay`.
- *Reconciliation*: `StartLeaseFires` and `RetryFires` call `recoverTask`, whose
  answers are `ReconcileTerminal/Live/Relaunch/Transient`, followed by
  `RecAccept`, `RecObserve`, `RecFinish`.
- *Restart*: `Crash` (a pending save has or has not replaced the file), `Load`,
  `BeginRecovery`, `RecoverNext` (one task after another), `Activate`.
- *Failed saves*: `SaveError`, one disjunct per kind of caller, each with what
  that caller's rejection does.

`ManagedSchedulerInvariant` holds the inductive invariants: `IInv` (map and
file), `OInv` (settlement owners and the walk of the pump), `XInv` (who may
start an executor) and `NInv` (who comes back to a task). The proofs are in `ManagedSchedulerTypes`,
`ManagedSchedulerProofs` and `ManagedSchedulerPromises`.

`TaskLifecycle` sees the status of each task in the file and nothing else. The
scheduler implements it under `status <- [t \in Task |-> disk[t].status]`.

### The configuration apply coordinator

`ConfigApply` is the coordinator of a host, the OpenCode runtime it restarts and
the health monitor that restarts it too. Saved changes are numbered; a change is
its number.

| Variable | In the code |
|---|---|
| `revision`, `applied`, `changes` | `revision`, `appliedRevision`, the pending `changes` (79-81) |
| `waiting`, `timer` | `waitingRevision`, and the revision `waitingTimer` was set for (82-83): the two differ when a stale timer is armed |
| `inFlight`, `failed` | `inFlight`, `lastError` (84-85) |
| `calls` | promises at an await: a call of `apply` or an idle check that counts chats (`counting`, `checking`), an apply before, in and after the restart (`forcing`, `restarting`, `restarted`, `refused`), an acknowledgement (`refreshing`) |
| `restart`, `runtime` | `currentRestartPromise` of `lifecycle.js` with the configuration it has read; the process and the configuration it was started with |
| `busy` | whether the host's activity snapshot shows an active chat |
| `mode` | managed or external runtime |

- *Changes*: `MarkChanged` (a wait is cancelled).
- *Applies*: `ApplyWhenIdle`, then `CountedIdle` or `CountedBusy` when the
  authoritative count answers; `ApplyForce`, then `Forced`. `Capture` is the
  synchronous part of `runCapturedApply`; `ApplySucceeds` and `ApplyFails` its
  end. `IdleTimer` is the callback of `scheduleIdleCheck`.
- *External runtime*: `Acknowledge`, `Acknowledged`.
- *Restart*: `JoinRestart` (started or joined), `RestartReads` (the old process
  is closed and the new one takes its configuration snapshot),
  `RestartReady`/`RestartFails` (everybody who waits hears of it),
  `HealthRestart`.

### Results and automatic resume

`AutoResume` begins where the scheduler's module ends: a task of a lineage
settles, and its result is parked, attempted, retried or given up. A locked
section is one step here, its saves included, since a save that fails rolls its
own change back; where a section has two saves (`parkAutoResumeLocked`) the
step between them is an action. A promise that leaves the lock (a plan that
asks for the provider's windows, an attempt at the host) is a record in `steps`.
The tasks are those of one root session: a lineage begins with task 1 and with
every `Dispatch`.

| Variable | In the code |
|---|---|
| `task` | status of a task record; the task it follows, who made it (`root`, `user`, `auto`), whether it ran on the backup, `transportRecoveryAttempted` (`spent`) |
| `action`, `followUp` | `action` and `followUpTaskId` of its result envelope |
| `auto` | `autoResume` of the envelope: `state`, `enabled`, `cancelGeneration` (`gen`), `attemptCount`, `hostFailures`, `lastAttemptTaskId`, `nextTarget` |
| `late` | records older than `expiresAt` |
| `timer` | `autoResumeTimers`, with the generation it was armed for |
| `steps` | `planAutoResume` and `runAutoResumeAttempt` between two sections, with the `acknowledgeResult` the host makes for the attempt |
| `acks` | `acknowledgementPromises` |
| `up`, `cursor` | the process: recovering, rearming (record by record), running |
| `chain`, `lost`, `twice` | observation only: automatic follow-ups in a row; records whose driver a failure took; attempts given back while they were out |

- *Parking*: `Settle` and `Park` (`finishTask`, `parkAutoResumeLocked`),
  `SettlePartly` (cut after the task, or after its prior), `CancelQueued`.
- *Planning*: `FirePlan`, `Plan`. *Attempts*: `FireAttempt`, `Postpone` (a
  breaker, another probe), `Answer`; `StepFails` and `AttemptFails` when their
  save fails.
- *Acknowledgement*: `Ask` up to the lock, where it joins one in flight,
  `AckAuto` under it (`Admits` is the second look), `AckRefused`; `Request`,
  `AckByHand` and `AckByHandRefused` for a person or a handoff.
- *Duplicate guard*: a retry passes neither `allowDuplicate` nor the Council class
  of the dispatch it repeats (3617-3657). `prepareSubmissionLocked` (2441-2455)
  may therefore answer it with a task that is active and was dispatched with the
  same prompt, agent, directory, objective and required checks, whatever that
  task continues. `AckAuto` and `AckByHand` make a new task (`NewTask`) or take one
  of `Duplicates`: the envelope then names a task that is a stranger to its
  result, or that another envelope names too. `OneFollowUp` says what is left of
  "one follow-up": a task that *continues* a result is the one its envelope
  names.
- *Switch*: `SwitchOff`, `Cancel`, `CancelSession`, `Enable`, `DisableFails`.
- *Restart*: `Crash`, `Restart`, `BeginRearm`, `Rearm` (both loops of
  `rearmAutoResumeLocked`).

`AutoResumeProofs` and `AutoResumePromises` hold the proofs, each with its
invariants.

`ParkedResult` sees a task (none, pending) and its result (open, resumed,
retried, dropped), whether the result would resume itself, and its follow-up. It
is disposed of once, together with a follow-up that the step creates or that is
pending, so never with one that has ended. `AutoResume` implements it
(`DisposesOnce`); a result counts as resumed when its record says that the
follow-up is its attempt (`lastAttemptTaskId`).

### Session revert

`SessionRevert` is the coordinator over the sections of `session-mutations.js`
that it calls, the conversation store as the coordinator uses it, and the work
that a revert rewinds. One ledger section is one step: it is durable when it
returns, and its file writes are an intent of the same commit that every later
section finishes first (`materialize`). A prompt makes one call, so a number in
`log` is the prompt, the lease of its call and the operation it publishes.

| Variable | In the code |
|---|---|
| `log` | `prompts/`, `leases/`, `operations/`: session, the root's prompt it was dispatched from, generation of the lease, operation on or off, reverted, undone by a file restore |
| `gen`, `pending` | `sessions/<id>.generation` and `.pending` |
| `txs`, `reverts` | `transactions/`, `last-reverts/` |
| `kept`, `marker` | the conversation store: messages, and the message from which the rest is hidden |
| `adrift` | observation only: messages that stay hidden although the Redo that would bring them back was dropped by a prompt |
| `host` | per process: where its `resume` is (`pc`), the transaction, the sessions still to do, the transactions a start-up recovery has left |
| `told` | pending transactions whose caller was told of a failure, or that a failed recovery left |

- *Work*: `Prompt` (`register` and `reserve`; it drops Redos that the store is
  about to make impossible), `Publish` (`finish`).
- *Requests*: `AskRevert`, `AskRedo`, `AskFiles` join a pending transaction or
  `Prepare` one.
- *Phases*: `Take` (under the transaction's lock), `Stop` or `StopUnconfirmed`,
  `Mark`, `Turn`, `Rewind` session by session, `Decide`, `Commit`; on the way
  back `GiveBack`, `Restore`, `Abandon`.
- *Failures*: `MarkFails`, `RewindFails`, `Unknown`, `Refuse`, `Drop`,
  `LockTimeout`, `Crash`, `Start` and `Resume` (`recover`), `ColdCancel` (a cold
  start gives up fences that have recorded nothing).

`AtomicRevert` sees the messages that count in each session, and the fenced
sessions. `SessionRevert` implements it (`Atomically`): all the phases together
are the one step that lifts the fence.

### The read pool

`BoundedReadPool` has the module's variables under their names (`entries`,
`queue`, `active`, `closed`); `runs` is every entry ever created, `caller` the
entry each call waits on, and `pumping` that `pump` is on the stack: its loop
takes an action per turn and nothing else acts meanwhile. A refused call changes
nothing and is no action.

### Faults

Definitions marked *Fault* are deliberate mistakes next to the definition they
distort; no action uses them. Substituting one must make its property fail:

| Fault | in place of | caught by |
|---|---|---|
| `OutcomeUnchecked` | `Outcome` | `TypeOK` |
| `NotRolledBack` | `RolledBack` | `LedgerAgrees` |
| `LaunchUnsaved` | `LaunchAdmitted` | `ExecutionIsDurable` |
| `NeverRegistered` | `Registered` | `OneLiveExecution` |
| `NeverCancelling` | `Cancelling` | `DeadlineIsCurrent` |
| `OutcomeAsAnswered` | `Outcome` | `ImplementsLifecycle` |
| `NeverDefers` | `Defers` | `OwnerSettles` |
| `SettlesTwice` | `Settles` | `OutcomeIsFinal`, `IInv` |
| `OnlyKnown` | `Open` | `StartsUnderLiveLease` |
| `InTodo` | `IsNext` | `StartsInOrder` |
| `NeverOver` | `WaitOver` | `NoLostWakeup` |
| `CommitUnsynced` | `Commit` | `NotifiedOutcomeIsDurable` |
| `NotRearmed` | `Deadlines` | `TimedSettles` |
| `DropsDeferred` | `Replays` | `NoneStranded`, `AnswerSettles` |
| `ReportsNext` | `Reported` | `TypeOK` of `ConfigApply` |
| `DropsAll` | `Remaining` | `PendingIsRest` |
| `KeepsInFlight` | `Landed` | `ApplyingIsRunning` |
| `WatchedOnce` | `Watched` | `WaitEnds` |
| `GivenBackTwice` | `GivenBack` | `TypeOK` of `AutoResume` |
| `FollowUpFirst` | `Acknowledge` | `OneFollowUp` |
| `AdmitsAll` | `Admits` | `StaleNeverCreates`, `DisposesOnce` |
| `RearmPlanned` | `RearmActive` | `Driven` |
| `FreshRecord` | `InitialRecord` | `LineageBudget` |
| `AwaitedByAny` | `Awaited` | `OneAttempt` |
| `SpentByCount` | `Spent` | `Resolves` |
| `SettledInPhase` | `Settled` | `TypeOK` of `SessionRevert` |
| `RestoreCleared` | `Restore` | `Whole` |
| `NeverLost` | `RedoLost` | `Whole` |
| `WidensAny` | `Widens` | `Whole` |
| `StopRequested` | `Stop` | `Quiet` |
| `SettledFenced` | `Settled` | `FencesOwned` |
| `RefuseAny` | `Refuse` | `Final` |
| `DecideEarly` | `Decide` | `Atomically` |
| `StartIdle` | `Start` | `Settles` |
| `DrainResets` | `Drain` | `TypeOK` of `BoundedReadPool` |
| `DropRegistered` | `PumpDrop` | `OneRun` |
| `SettleQuiet` | `Settle` | `Slots` |
| `LeaveAborts` | `Leave` | `NeverAborted` |
| `DrainQueued` | `Drain` | `CallsEnd` |

## 4. Bounds and abstractions

Bounds, all CONSTANTS:

- `Task`: one or two identities. The scheduler treats tasks independently but
  for the mutex, the queue order and the pump's walk; two tasks exercise each.
- `Run`: slots for executor promises in flight. Two, so that a launch the
  starting lease displaced and its successor exist together; one where a single
  call is enough for the counterexample or where liveness would not be
  affected. A state where a launch finds no idle slot is cut off there: the step
  is not taken, and never taken with the launch dropped.
- `MaxLease`: lease tokens, hence admissions. A task is admitted once and again
  after a failed admission save.
- `MaxDue`: renewals of a deadline; the first renewal is the one that can race.
- `MaxCrash`, `MaxSaveError`, `MaxCall`: crashes, failed saves, cancellations
  and repeated submissions. One of each meets every operation at every point;
  the runs of [section 6](#6-runs) combine them.
- At most one `recoverTask` per task, one deadline handler per task waiting for
  its first read, and one waiter per task.

`Gated`, `Timed` and `Waited` select the tasks submitted with prerequisites,
with a deadline, and those somebody waits for. `LateSaveError` says whether a
save may report failure after the rename (`atomic-file.js` 89-100: permissions
and directory sync; the ownership check of `atomic-ledger.js` 534-549).

Of `ConfigApply`: `Call`, the promises in flight at once, two, so that an apply
overlaps another apply, an idle check or an acknowledgement; `MaxRevision`,
three changes in `config`, so that two can be saved after the one being applied.

Abstractions of the scheduler:

- Prompts, results and messages are left out; an executor's answer is
  `completed`, `failed` or a throw, a reconciliation's one of its four shapes.
- The order in which sections queued on the mutex get it is left open. The
  code's order (first in, first out) is one of these.
- Start-up rewrites the ledger it has loaded. That save changes no record, so
  it is part of `BeginRecovery`; when it fails the initialisation starts over,
  as after any failed one.
- `SettleSaved` ends the run of an executor at the save. In the code the run ends
  once the pump that follows has returned (1186, 1792-1796); until then its
  entry in `activeLaunches` belongs to a task that has settled.
- The pump's prerequisite verification either holds the task or does not; the
  evidence itself belongs to the host.

Abstractions of the coordinator:

- Scopes, reason codes and metadata are left out: they select messages and
  which catalogue is checked, not what happens.
- A runtime has the configuration that was saved when its restart took the
  snapshot. A file may be written just before its change is marked, so a runtime
  may have more than that, never less.
- The parts of a forced apply before the restart (count, audit, abort, the wait
  for the chats) are one wait with the outcomes they can have.
- An idle check that joins an apply in flight ends there. In the code it would
  set its timer again in one case: the joined apply was a forced one whose count
  was not available.
- A restart skipped because the host shuts down, and disposal, are left out.

Of `AutoResume`: `MaxTask`, the tasks of a root session: three in `resume`, so
that a follow-up of a follow-up exists, which is what a budget is about, or two
results that meet in one follow-up. `Step`, plans and attempts in flight: two in
`resume_ends`, so that one of an old generation meets one of the new; one in
`resume`, whose properties are about what is saved. `MaxAttempts` (8 in the code)
and `MaxHostFailures` (5) are one or two: only reaching them matters.
`MaxEvents` bounds uses of the switch, dispatches and faults together, two: off
and on again, or any of the three and a crash, or a dispatch before a person
decides. `MaxFaults` bounds the faults among them. The last task of the bound
does not stop on a limit.

- Time is left out. A timer fires at any moment; backoff, provider windows,
  probe stagger and the candidates of a backup decide *when* or *where* an
  attempt is made, and are nondeterministic (`Plans`, `Postpone`). `late` says
  that the six hours of a record are over.
- A timer's callback and the locked section it starts with are one step, as is
  the answer of a host that declines at once.
- The duplicate guard compares a fingerprint and the age of a task (ten minutes).
  Both are left open: any live task may be a duplicate or not (`Duplicates`). A
  task with a parent is never collapsed, and one whose prompt nobody repeats is
  not either: both are behaviours in which the other branch is taken. `Dispatch` is a
  submission that the guard does not answer (another prompt, `allowDuplicate`, a
  Council seat); one that it answers changes nothing.
- Follow-up and acknowledgement are one save, so the code's healing by
  idempotency key finds nothing to heal: it is not modelled.
- A person may retry or hand off results of limits; other results (continue,
  accept partial) have no automatic resume to race with.
- `Driven`, `Resolves`, `OneAttempt` and `LineageBudget` say which states the
  code itself gives up: records in `lost` (a plan, attempt, park or disable that
  could not be saved; a cancelled queued follow-up), in `twice` (an attempt
  that was made while the process was recovering and was given back by
  rearming), and `Orphaned` ones. `Driven` and `Resolves` exempt `Collapsed` ones
  as well: an attempt that the duplicate guard gave a stranger stays `attempting`
  when that task has settled, since parking settles the record of `priorTaskId`
  only (1445); its result has been disposed of. Each exemption is a hazard of
  `PROJECT.json`.

Of `SessionRevert`: `Root` and `Children`, a root and one child that is
dispatched by it, so that a request has members and targets of both kinds;
`Heads`, whose Reverts are asked for; two processes; `MaxSeq` prompts, three, so
that a boundary has something on both sides; `MaxTx` transactions, three: a
Revert, a second one over it, and a Redo of both; `MaxFaults`, one crash or
failed call at any point (two in `settles`, which has one process and both
sessions as heads, so that two transactions are pending at once and a target may
have been discarded before it is rewound).

- A call is registered and reserved in one step, and publishes one operation.
- A child prompt belongs to the latest call of its root (`Prompt`);
  `registerChild` (3147-3156) accepts any call of the current generation.
- A request for files that repeats one already settled is answered from its
  receipt (`session-mutations.js` 3005-3021) and changes nothing; `AskFiles`
  leaves that out.
- Files are not contents but contributions: an operation is on or off. What the
  ledger does with foreign edits (conflicts, partial outcomes) is left out.
- Holds of native admission, native removal and provisional prompts are left
  out: they refuse requests before they are prepared.
- The store is assumed to refuse a marker on a message it no longer has, and to
  discard what a marker hides when the next prompt is taken.

Of `BoundedReadPool`: three callers on three keys, one slot and one place, so
that a queue is full while callers share, leave and are refused; `MaxSubs` is
128 in the code; `MaxRun` bounds the entries created.

## 5. Fairness

For the scheduler, `FairSpec` assumes, and the code justifies:

- saves answer (`WF(Saved)`). They are file operations; a watchdog reports a
  slow one but does not end it, so this is an assumption on the file system;
- aborts and reconciliations answer (`CancelStep`, `RecStep`): aborts race a
  timer (`raceAbortWithTimeout`, 2577), every transport read of the executor
  has a timeout;
- a section queued on the mutex gets its turn (`PumpTurn`, `PumpWalk`, and the
  steps above that need the lock): the promise chain is first in, first out and
  calls are finite, so weak fairness is enough. `RecoverNext` gets strong
  fairness: a starting-lease recovery of the same task may disable it in
  between;
- deadline timers fire; start-up proceeds.

Nothing is assumed of callers, of executors (they may never answer) or of
faults. The starting-lease, retry and admission timers are *not* assumed fair:
the liveness properties below do not need them.

For the coordinator: the idle timer fires; counts, aborts and restarts answer,
each has a timeout (`config-apply-coordinator.js` 165-173, `application.js`
1048, `lifecycle.js` 236-269); and a count asked for again and again while the
chats stay idle is zero at some time, hence strong fairness of `CountedIdle`:
the authoritative count is of the chats whose activity the host shows. Nothing
is assumed of callers, chats and the health monitor.

For automatic resume: what happens once does (a follow-up starts and ends, six
hours pass, a restart proceeds); plans and attempts answer, each host call has a
timeout; an acknowledgement in flight ends. A timer that is armed again and
again is not postponed for ever (strong fairness of `FirePlan`, `FireAttempt`):
breakers end and the stagger of probes is bounded. `Resolves` needs a queued
follow-up to start, that is, a scheduler that is not drained.

For reverts: a host that was restarted recovers (`session-execution-host.js`
1577 calls `recover`) and a call that can go on does: ledger sections and store calls answer
or fail, and the wait for the lock has a timeout. Nothing is assumed of prompts,
calls that run and requests.

For the pool: the event loop runs what is queued on it, and a run ends; the
pool's users give their reads a time limit. Callers need not leave.

## 6. Runs

| Run | Instance | Shows |
|---|---|---|
| `lifecycle` (3.7 M states) | one task with a deadline, two slots, one crash, one failed save, one call | `TypeOK`; the map and the file agree (`LedgerAgrees`); executors only run for admissions in the file, at most one live (`ExecutionIsDurable`, `OneLiveExecution`, `StartsUnderLiveLease`); a deadline settles only while it is the task's (`DeadlineIsCurrent`); only the settlement owner settles (`OwnerSettles`); outcomes are final (`OutcomeIsFinal`); the file implements `TaskLifecycle` |
| `queue` (3.1 M) | two tasks, one gated, two slots | first come, first served except past held or owned heads (`StartsInOrder`); the inductive invariant `IInv` with two tasks |
| `promises` (704 k) | one task with a deadline somebody waits for, one crash, `FairSpec` | `NoLostWakeup`, `NotifiedOutcomeIsDurable`, `TimedSettles` |
| `answers` (70 k) | one task without prerequisites, one call, no crash, `FairSpec` | the task is not forgotten (`NoneStranded`); an answer under the live lease settles it (`AnswerSettles`) |
| `config` (185 k) | `ConfigApply`, two promises, three changes, `FairSpec` | exactly the changes after the reported revision are pending (`PendingIsRest`); an apply shown is running (`ApplyingIsRunning`); a wait ends once chats stay idle, unless an earlier call has put its own revision in its place (`WaitEnds`) |

| `resume` (3.3 M) | `AutoResume`, three tasks, dispatched or follow-ups, one step, one attempt, two events of which one may be a fault | a task that continues a result is the one its envelope names, and the names lead to an end (`OneFollowUp`); a record that waits has a timer, a step or a follow-up, also after a restart (`Driven`); the budget is the lineage's (`LineageBudget`) |
| `resume_ends` (100 k) | two tasks, the second dispatched or a follow-up, two steps and attempts, two events, `FairSpec` | `ParkedResult` is implemented (`DisposesOnce`); no follow-up by an attempt that began before a person last spoke (`StaleNeverCreates`); one request per generation (`OneAttempt`); a waiting result stops waiting (`Resolves`) |
| `revert` (2.1 M) | `SessionRevert`, root and child, two processes, three prompts, three transactions, one fault | messages and files agree whenever nothing is being reverted (`Whole`); no writer while history is rewritten (`Quiet`); every fence has its transaction (`FencesOwned`); decisions are final (`Final`); the phases implement one step (`Atomically`) |
| `settles` (515 k) | one process, three prompts, two transactions, two faults, `FairSpec` | a recorded request is settled, or its caller has been told, or a recovery that failed has left it (`Settles`) |
| `pool` (396 k) | `BoundedReadPool`, three callers and keys, `FairSpec` | `OneRun`, `Slots`, `NeverAborted`; every call is answered, drain returns and an abandoned key becomes free (`CallsEnd`) |

`CHECK_DEADLOCK FALSE` in the runs of the scheduler, of automatic resume, of
reverts and of the pool: a drained scheduler waits for the next submission, a
settled conversation for the next request, a drained pool for nothing, and the
bounded instances have none left. The runs of the configuration coordinator
check deadlock.

`lifecycle` has the failures together on one task, since every hazard of
settlement is a race of several actors for the *same* record; `queue` has two
tasks and no failures, since the order of admission is the only thing tasks
share besides the mutex. The liveness runs leave out failed saves and, for
deadlines, calls: with them the properties do not hold, which is what the next
section is about.

## 7. What the documentation says and the code does not do

Two runs end in a counterexample; `PROJECT.json` quotes the lines.

| Run | What happens |
|---|---|
| `applied_unread` | The health monitor is restarting OpenCode and the configuration snapshot is taken; a change is saved and applied. The apply joins that restart (`lifecycle.js` 303) and reports the change as applied; the runtime does not have it, and nothing is pending any more. |
| `revealed` | A child is reverted, then its root is reverted over it, then the child's Redo is asked for. `prepareRedo` (`session-mutations.js` 2879) looks only at the child's own reverts: the child's messages come back, the operations that the root's Revert took stay off. The comment at 2748 excludes this for a repeated Revert. |

More were met; each is reproduced with the property and the constants named, on
top of a configuration of this directory.

| Property, instance | What happens |
|---|---|
| `ReturnedOutcomeIsDurable`, `promises` with `MaxCrash = 0`, `MaxSaveError = 1` under `Spec` | `waitForTask` (2870) answers from the live map while the terminal save is pending. The save fails, the record is rolled back, and the task may end differently. `DOCUMENTATION.md:125`: "Waiters remain withheld until durable task and envelope publication succeeds". |
| `OutcomeIsFinal`, one task, `LateSaveError = TRUE`, `MaxSaveError = 1` | A save that fails after the rename (`atomic-file.js` 89) leaves an outcome in the file that is rolled back in memory and later replaced by another. `DOCUMENTATION.md:263`: "Terminal tasks are immutable". |
| `TimedSettles`, one timed task, `MaxCall = 1`, one slot, `FairSpec` | A deadline that fires during an agent handoff joins that cancellation (2607) and is spent with it, also when the abort is not confirmed. `DOCUMENTATION.md:237`: "the existing task deadline remains the upper bound". |
| `TimedSettles`, one timed task, `MaxSaveError = 1`, one slot, `FairSpec` | The settlement of an expired deadline cannot be saved; the handler logs it (2144) and nothing arms the deadline again. |
| `NoneStranded`, `answers` with `MaxCrash = 1`, or with `Gated = {t1}` | A reconciliation answers relaunch, after a restart or because the starting lease has displaced the launch of a follow-up that is still verifying its prerequisites. The relaunch is dropped because a handoff owns the task (1769), and so is the displaced launch; the abort is not confirmed; nobody observes the active task any more. `NobodyIsStranded` ([section 8](#8-proofs)) proves the property of behaviours without such a handoff. `DOCUMENTATION.md:337`: "an unconfirmed remote abort leaves observation active". |
| `ExecutionIsDurable`, three tasks, `MaxCrash = 1`, `MaxSaveError = 1`, a ledger file with two running tasks and a queued follow-up | The process restarts. A task is launched again by its reconciliation; the save of the second reconciliation fails, so the initialisation rejects (2354-2386). The first task settles, which asks for the pump (1186), and the caller initialises again: the pump saves an admission of the queued task while `Activate` arms its starting lease, which fires, and the executor is called for a task the file still has as queued. |
| `WaitingIsWatched`, `config` | A call of `apply` counts chats; a change is saved; the count is positive. The call makes its own, now outdated revision the waiting one (`config-apply-coordinator.js` 309). Its idle check gives up at once and the status stays `waiting_for_idle`; `config-apply-runtime.js:107` has told a caller that OpenCode will restart. |
| `FilesFollowChat`, `revert` with one process, `MaxSeq = 4`, `MaxFaults = 0`, `FileOnly = FALSE` | The root prompts twice and its child works for the second prompt. The root is reverted at its second prompt, which hides the child's message and disables its operations, and prompts again: the store discards the root's suffix and `register` (1808) drops the Redo. The child's message stays hidden, since the child takes no prompt. A Revert of the root at its first prompt selects that message again (`session-mutations.js` 2769 does not skip reverted ones) but not its operations, which are no longer active; the Redo of this Revert shows the message, without its operations, which is what the comment at 2748 excludes. |
| `OwnFollowUp`, `resume` with `MaxEvents = 1`, `MaxFaults = 0` | Two tasks are dispatched with one prompt on purpose, as the seats of a Council are (`council-owner.js` 40-45: same prompt, no parent). One stops on a provider limit and is retried while the other runs. The retry does not carry the Council class, so the guard at 2441 answers with the other seat, which runs another model: the envelope names it as the follow-up, the model a person chose is dropped, and nothing continues the first seat. `DOCUMENTATION.md:273`: "results must never be attributed to another councillor's model". The same happens to siblings dispatched with `allowDuplicate`, and for an automatic attempt. |
| `AttemptEnds`, `resume` with `MaxTask = 2`, `MaxFaults = 0` | A queued automatic follow-up is cancelled (2645-2660) or swept by a handoff (2763-2775). Neither parks it, so its prior stays `attempting` until a restart; the comment at 1437 says that parking settles the prior. After a dispatch the duplicate guard does it too: the attempt's follow-up is another seat, whose settlement does not look for this record. The label is stale, the result has been disposed of. |
| `OneRequest`, `resume_ends` under `Spec` | A task settles while a restart recovers, plans and begins an attempt, which rearming (2226-2233) then gives back and plans again: two requests of one generation are out. One makes the follow-up. The comment at 2179 reconciles attempts with their follow-up. |

Met while reading, without a property of their own:

- Through the duplicate guard two envelopes may name one follow-up. Its result is
  then shown as the continuation of both; `DOCUMENTATION.md:263` says "retry
  creates a new child".
- A launch displaced by its starting lease keeps its lease token, so that its
  late completion passes the lease check the comment at 2115 relies on, and
  settles the task under the observer that took over.
- `handleTaskTimeout` (2106) chooses the terminal status in one locked section
  and settles in another: a pump in between starts the task, and an active task
  is recorded aborted, where `scheduler.timeout.test.js:179` expects failed.
- A person's retry that joins an automatic acknowledgement in flight succeeds
  without bumping the generation, where `DOCUMENTATION.md:435` says that any
  manual acknowledgement does.
- A quota root whose settlement was saved and whose park was not is never
  parked, also not by a restart: the second loop of rearming (2258) looks at
  transport incidents and follow-ups only.
- Switching a lineage off while its follow-up is out and on again later begins
  a new budget, as does a transport incident after a quota chain.
- A Redo that is asked for while a file redo of the same root is pending joins
  that one (`prepareRedo` 2876 does not look at the kind).
- `recover` (`session-revert-coordinator.js` 208) stops at the first pending
  transaction that fails, also when another process merely holds it
  (`LockTimeout`); those after it wait for the next start or caller, where
  `docs/CONCURRENT_REVERT.md` (118) says that the host retries pending
  transactions during startup.
- A session-scope Revert of a parent keeps a child that is not a member from
  publishing, where `docs/CONCURRENT_REVERT.md` says that it fences only its
  member sessions.

## 8. Proofs

`tlapm ManagedSchedulerTypes.tla`, `tlapm ManagedSchedulerProofs.tla` and
`tlapm ManagedSchedulerPromises.tla` check the theorems for any sets of tasks
and slots and any bounds, from the named assumptions of `ManagedScheduler` and
`LateSaveError = FALSE` (with it TRUE finality is refuted, see
[section 7](#7-what-the-documentation-says-and-the-code-does-not-do)).

| Theorem | Says |
|---|---|
| `Invariance` | `Spec => []IInv` |
| `TypeCorrect` | `Spec => []TypeOK` |
| `LedgerCorrect` | `Spec => []LedgerAgrees` |
| `OutcomesFinal` | `Spec => OutcomeIsFinal` |
| `LifecycleImplemented` | `Spec => ImplementsLifecycle` |
| `WaitersWoken` | `Spec => []NoLostWakeup` |
| `WaitersToldTheOutcome` | `Spec => []NotifiedOutcomeIsDurable` |
| `OwnersInvariance` | `Spec => []OInv` |
| `DeadlinesAreCurrent` | `Spec => []DeadlineIsCurrent` |
| `OwnersSettle` | `Spec => OwnerSettles` |
| `AdmissionIsFair` | `Spec => StartsInOrder` |
| `ExecutionInvariance` | `Spec /\ [][~InitialisationFails]_vars => []XInv` |
| `ExecutionsAreDurable` | under the same, `[]ExecutionIsDurable` |
| `ExecutionsAreSingle` | under the same, `[]OneLiveExecution` |
| `ExecutorsStartLive` | under the same, `StartsUnderLiveLease` |
| `AttentionInvariance` | `Spec /\ [][~Abandons]_vars => []NInv` |
| `NobodyIsStranded` | under the same, `[]NoneStranded` |

The argument. `OutcomeIsFinal` speaks of the file, and the file changes when a
pending save answers; so what matters is which record was pending. The
invariant says so in seven parts:

- `TypeOK` is not inductive: an executor answer of `"none"` would be settled
  into a record outside its type. `HasAnswer` excludes it, and needs `RunWaits`
  for the promise whose own save is pending.
- `LedgerAgrees`: the map and the file differ in the record of the pending save
  and in nothing else.
- `SaveIsLegal`: that record changes a task that has not ended, along the
  graph, and ends it exactly when the save is a settlement or a withdrawal.
- `PumpWalks`: an admission is legal because the pump walks over tasks that are
  queued in the file. That stays so while the pump has the mutex: nobody else
  commits.
- `Quiet`: a dead process does nothing, so a restart starts from the file.

One lemma per part shows that every action keeps it (`TypeStep`, `LedgerStep`,
`HasAnswerStep`, `RunWaitsStep`, `PumpWalksStep`, `QuietStep`), `StepHolds`
puts them together. `OneLegalCommit` then says what any step does to the file:
nothing, or one legal change of one record. `OutcomesFinal` and
`LifecycleImplemented` follow from it, the latter with the steps of
`TaskLifecycle` as targets. For waiters, `WaitersFollow` strengthens both
promises (a waiter waits for a task whose outcome is not in the file, and was
told the one that is) and is shown inductive on top of `IInv`.

The promises of section 3 that hold *between* locked sections rest on what the
code remembers across them. A cancellation claims the settlement of a task and
aborts it outside the mutex; `OInv` says that the task keeps, under that owner,
the lease and the deadline it was claimed with (`OwnerHolds`): the saves that
would change them refuse an owned task, and a pump that lists the queue leaves
it out. Each pending save changes only what its section is about
(`SaveChanges`), and an owner or a reconciliation whose own save is pending
waits for it (`OwnerWaits`, `RecWaits`), so that an owner is never taken away
under its save. `WalkIsComplete` is the queue: while the pump walks, every
queued task is ahead of it, owned or gated, hence whatever it admits has been
overtaken by nobody else. `Forgotten` starts a new process without any of this.
The steps are sorted once into kinds (`OwnerMoves`), by what they do to the map,
the lock, the walk and the owners, and the parts are kept kind by kind.

Executor calls need a third invariant, `XInv`, and an assumption: no
initialisation fails half way (`InitialisationFails`, the rejection at
2354-2386). Without it `ExecutionIsDurable` is refuted by the run described in
section 7. With it, nothing is under way for a task that the file does not hold
as admitted, and every call has the lease in the file (`DriversAreDurable`):
the admissions of a pump become visible to the launch, the starting lease and
the reconciliation only after their save, and a start-up begins from a process
in which nothing runs (`StartsClean`). One call counts because one chain of
events may start one (`OneChain`): the registration in `activeLaunches` keeps
every other launch away; the only starting lease a task ever has displaces a
call once, and hands the task over to one reconciliation, which hands it on to
one observer or one retry timer. `AdmitsWhileWalking` and `FreeSlots` connect
the pump and the slots to this.

`NoneStranded` needs a fourth invariant, `NInv`, and a longer assumption: no step
in `Abandons`. These are the steps after which the code itself gives a task up:
an initialisation that fails half way; a walk of the pump that no submission
called, the second settlement of an answer (the catch block at 1785), the
settlement of a cancellation, or a reconciliation, whose save fails; and a
handoff whose abort is not confirmed, for the reason in section 7. Crashes,
every other failed save, cancellations that nobody confirms, deadlines and
reconciliations that fail or come too late are all allowed. The invariant says who is
going to look at a task: an active one has an executor call, an owner, a
reconciliation, a timer, or its place in the list of a start-up
(`ActiveAttended`); a queued one an owner or a walk of the pump ahead of it,
which is due, in progress, or called by the retry timer of admission
(`QueueSeen`). That would be no use if the attendant were turned away, and the
rest of the invariant says that it is not. A timer or a reconciliation carries
the lease that is in the file (`LeasesAgree`), so that it is never taken for a
stale one; a launch is dropped for another registration only if a call of the
same task has that registration (`RegisteredRuns`); an owner that leaves without
settling owns a task that is not active (`OwnersDone`); and a failed save
restores the record that it had changed, which is in the state its section
started from (`SaveOrigins`). There is one lemma per kind of attendant
(`CallStays`, `OwnerStays`, `ReconciliationStays`, `LeaseStays`, `RetryStays`,
`ListedStays`): it stays or hands the task on to another kind, unless the task
ends. `ActiveBefore` and `QueuedBefore` say which tasks are new to the question,
and `WalkSteps` what a step of the pump leaves ahead of it.

`tlapm ConfigApplyProofs.tla` proves, for any set of promises and any number of
changes, `TypeCorrect` (`Spec => []TypeOK`), `PendingCorrect`
(`Spec => []PendingIsRest`) and `ApplyingCorrect`
(`Spec => []ApplyingIsRunning`). The three are inductive together. An apply that
ends need not be the last that was started: `RemainingIsRest` says that what it
leaves pending is what its reported revision excludes, also when a newer apply
has been reported before; and the end of one apply clears `inFlight` only of its
own revision, so the apply that is shown is another one and still runs.

`tlapm SessionRevertProofs.tla` proves, for any tree of a root and its children,
any processes and any bounds: `TypeCorrect` (`Spec => []TypeOK`), `FencesCorrect`
(`Spec => []FencesOwned`), `WritersStopped` (`Spec => []Quiet`) and
`DecisionFinal` (`Spec => Final`); and, when no head stands above another one
(`NoHeadAbove`: Reverts are asked for the root only, or for children only),
`HistoryWhole` (`Spec => []Whole`) and `HistoryAtomic` (`Spec => Atomically`).

The argument. Two processes may hold the same transaction identifier, so all
four rest on who may act on it: a transaction that is being worked on has one
process that does (`OneHolder`), is still pending, and is in the phase that this
process's place in `resume` stands for (`InPhase`). `Quiet` is inductive with
`FencesOwned` and `StillQuiet`, its form between the stop and its record: past
the first phase a transaction has no open call among its members because `Stop`
ended them, and none can start because its own fences keep `Prompt` away from
each of them; a settlement lifts only the fences of its own transaction. `Final`
follows: only the holder moves the phase, from `files` forward or from
`restoring` back; and markers are moved by a prompt, which fences keep away, or
by the holder of another transaction, which has other members.

`Whole` relates three things that are written at different times by different
actors: what the store hides, what the ledger has reverted, and which
transactions a Redo would undo. `HInv` is what keeps them in step, also in the
middle of a request:

- `Markers`: a message the store has is reverted exactly when it is behind the
  *base* of its session, the marker the session has or, while a request that
  has stopped its writers holds it, the one that request found. So it does not
  matter how far a request has come.
- `Progress` and `Decided`: the sessions a host has gone through have the
  marker it is after, and those it has not gone through still have their own;
  once the request is decided, all of them have it. This is what makes a base
  the marker again at the settlement.
- `TxForm`, `PendingReverts` and `PendingRedos`: what a request recorded when it
  was prepared still describes the history when it commits. A target cuts its
  session into what is selected and what is not (`Cuts`), every selected prompt
  has a target (`Covers`), the operations taken are those of the selection
  (`Holds`), and a Redo has everything the Reverts it undoes have.
- `Lists` and `Reasons`: the transactions in `last-reverts` are committed
  Reverts of that head whose selection is still reverted, the last one reaching
  furthest back; and whatever is reverted or off is so because of one of them.
  A Redo of all of them therefore leaves nothing behind.
- `Files`: an operation that is on has its message, one that is off has none.
- `Generations` and `Origins`: a call of the current generation is of an
  unfenced session with nothing to redo; and the work dispatched later is
  dispatched from a later prompt, which is why a suffix of the root selects a
  suffix of each child.

The last two need that a prompt of a child is dispatched by a call of the root
that is still current. `NoHeadAbove` is needed too: the run `revealed` refutes
the agreement of messages and files when a child and its root are both reverted.
With it, `Reasons` can name one head for what it explains. The messages a dropped
Redo leaves hidden (`adrift`) are left out of every part, as they are of `Whole`:
for those it fails (section 7).

`HistoryAtomic` follows: with `Markers`, what `AtomicRevert` sees of a session
is what the ledger counts (`ShownIsStanding`), whether the session is fenced or
not. Then the calls to the store, the failures, the crashes and the takeovers
are steps that show nothing; a preparation only fences; a prompt shows one
message more, because what it discards was reverted already (`PromptUnfenced`);
and a commit changes the members of its own transaction, all in one direction
(`CommitPromised`).

`tlapm AutoResumeProofs.tla` proves, for lineages of any number and length, any
number of steps in flight and any limits: `TypeCorrect` (`Spec => []TypeOK`),
`OneFollowUpPerResult` (`Spec => []OneFollowUp`), `OneAttemptAtATime`
(`Spec => []OneAttempt`) and `StaleAttemptsCreateNothing` (`Spec =>
StaleNeverCreates`).

The argument. Everything rests on the generation of a record: it never falls
(`AutoGoes`), and a person who decides about a record raises it. So what is in
flight is never ahead of its record, and what was decided on before a person
spoke is behind it (`StepsKnown`): an attempt that passes the check of the
generation under the lock is not void. An attempt begins only from a record that
waits, and a record whose attempt of the current generation is out does not wait
(`AttemptHoldsRecord`); an answer that makes it wait again ends the only such
attempt, and a restart that gives back one that is still out is what `twice`
notes. A person's first word on a record that does not exist yet begins no
generation, but then nothing is in flight for it either. The actions differ
only in which record, timer or step they move, so each is shown to be a step of
one form (`Moves`) and `MovesInv` is proved once. The envelopes and the tasks are
related by `Linked`, and only a task that stopped on a limit is held by a record,
an envelope or a person (`HeldOnLimit`). An acknowledgement therefore names a task
that is not settled, new or live (`FollowsWith`), while every task whose envelope
names another has settled: so a new name can close no circle
(`AcknowledgeLinks`), which is the third part of `OneFollowUp`.

`tlapm AutoResumePromises.tla` adds, for the same instances, `PromisesDriven`
(`Spec => []Driven`), `LineagesKeepTheirBudget` (`Spec => []LineageBudget`) and
`DispositionsImplemented` (`Spec => DisposesOnce`).

*Driven.* Each record that is active has something that will look at it: a timer
of its generation, a plan or an attempt in flight, or an unsettled follow-up
(`Engaged`). While a restart is rearming that is claimed of the records it has
passed (`RearmedEngaged`). An attempt whose follow-up exists has been told so
(`ToldStarted`), so that its end does not take the record's driver with it; and
an active record whose result is disposed of waits for its own follow-up
(`WaitsForOwn`), whose settlement settles or parks it. `Targeted` and
`Unrecorded` say what a record in these states has. A follow-up that is a stranger
to its result drives the record while it runs; once it has settled the record is
`Collapsed` and stays so (`CollapsedStay`).

*Budget.* `chain` counts automatic follow-ups in a row, an observer the code does
not have; what the code has is `attemptCount`, copied from prior to follow-up.
`Counted` says that the attempts on a record pay for the follow-ups that led to
its task and for the one it is asking for, and stay within the cap; `Inheriting`
that a follow-up which may still be parked will take them over from its prior,
or has used its single transport recovery (`SpentUnrecorded`); `Begotten` that
automatic follow-ups have a prior with a record. When a restart gives back an
attempt that is out (`twice`), one attempt may be counted for two requests, and
both parts are waived, as in `LineageBudget`.

*Dispositions.* An envelope that has been disposed of is never written again
(`EnvelopeKept`), and its record follows no second task (`RecordSteps`), so a
result stays what it became (`ResultKept`). A record that made no follow-up knows
no task but its own (`LastKnown`), which is why a retry by a person, even with the
same task, is not taken for an attempt. Every disposition is of an open result
(`HeldOnLimit`) and names a task that is new or live (`FollowsResult`).

`tlapm BoundedReadPoolProofs.tla` proves, for any callers, keys and limits:
`TypeCorrect`, `OneRunPerKey`, `SlotsCorrect` and `StayersKeepTheirRun`. `OneRun` and
`Slots` are inductive together with what holds inside `pump`: an entry is queued
once, is registered under its key until it has ended, and the count of slots is
the number of runs under way; `Slots` speaks of the moments when `pump` is not
on the stack, so the invariant keeps a weaker bound for those when it is
(`QueueBounded`). The step that
needs care is `Drain`, which ends the queued entries and leaves the running
ones registered.

Only model-checked: the liveness properties `TimedSettles`, `AnswerSettles`,
`WaitEnds`, `Resolves`, `Settles` and `CallsEnd`, which are out of the prover's
reach: fairness is defined by ENABLED. The theorems about executor calls and
`NobodyIsStranded` leave out the steps named in their assumptions, for which
section 7 has the counterexamples or the code has no retry.
`Whole` and `Atomically` are proved for heads of which none is above another;
for others they are not claimed.

## 9. What is not covered

In the scheduler: operator stop, removal and dispatch fences, runtime
replacement, shutdown, admission hooks, cleanup of runs, native jobs and proof
shards, compaction, continue and accept-partial dispositions, the publication
lane and the locks of dispatch groups. A deployment without these features is
what the modules describe; those with state of their own have their place in the
plan. In the ledger file: a second process and the quarantine of an unreadable
file. `ManagedScheduler` and `AutoResume` meet at one point, the settlement of a
task, and are not composed: the first knows nothing of what follows an outcome,
the second takes a locked section as one step because the first shows what a
failed save does to it.

In the session runtime: the contents of files (text merges, conflicts, whole
content revisions), leases of processes, reboot recovery, admission queues and
journals.

The repository holds some 600 000 lines of implementation. Most of it is user
interface, HTTP routes, provider adapters, git and process plumbing: what can go
wrong there is in the services they call or in what is shown, not in an
interleaving of their own state. `PROJECT.json` lists these parts as not
modelled, each with its reason. The modules cover the coordinators in which
state is kept across awaits, crashes and processes; of those, the ones still
missing are in the plan.

Some hazards of `PROJECT.json` have no property, because the code does not
exclude them (section 7), because they concern features left out here, or
because they need failed saves together with a cancellation, for which no
liveness run is bounded.
