----------------------------- MODULE AutoResume ------------------------------
(***************************************************************************)
(* Results of managed tasks and their automatic resume                     *)
(* (orchestration-runtime, scheduler.js and auto-resume-policy.js; the     *)
(* host's attempt in web/server, orchestration/runtime.js).                *)
(*                                                                         *)
(* A task that stops on a provider limit parks its result.  Timers plan    *)
(* and make attempts to continue it; each attempt asks the host, which     *)
(* acknowledges the result as a user's Try Again would.  Users switch the  *)
(* resume off and on, retry by hand or hand the work off at any time.      *)
(*                                                                         *)
(* A locked section is one step, its saves included: a save that fails     *)
(* rolls its own change back.  The tasks are those of one root session:    *)
(* lineages start with task 1 and with each Dispatch; other roots appear   *)
(* only as provider breakers, which may postpone any attempt.  Time is     *)
(* abstract: timers fire at any moment, and "late" says that the six hours *)
(* of a record are over.                                                   *)
(*                                                                         *)
(* A definition whose comment says "Fault" is not the code's, as in        *)
(* ManagedScheduler.                                                       *)
(***************************************************************************)
EXTENDS Naturals

CONSTANTS
  MaxTask,          \* bound: tasks of the root session
  Step,             \* asynchronous steps in flight: plans and attempts
  MaxAttempts,      \* AUTO_RESUME_MAX_ATTEMPTS
  MaxHostFailures,  \* AUTO_RESUME_MAX_HOST_FAILURES
  MaxEvents,        \* bound: uses of the switch, dispatches and faults, together
  MaxFaults         \* bound: crashes and failed saves

ASSUME BoundAssumption ==
  /\ MaxTask \in Nat \ {0}
  /\ MaxAttempts \in Nat \ {0}
  /\ MaxHostFailures \in Nat \ {0}
  /\ MaxEvents \in Nat
  /\ MaxFaults \in Nat

Task == 1..MaxTask

VARIABLES
  task,       \* the task records of the ledger
  action,     \* action of each result envelope
  followUp,   \* followUpTaskId of each result envelope
  auto,       \* autoResume of each result envelope, state "none" for null
  late,       \* records whose expiresAt is past
  timer,      \* autoResumeTimers
  steps,      \* plans and attempts in flight
  acks,       \* acknowledgementPromises: who is acknowledging
  up,         \* "down", "starting" (recovering), "rearming", "running"
  cursor,     \* how far rearmAutoResumeLocked has come
  \* Observation only.
  chain,      \* automatic follow-ups in a row that led to a task
  lost,       \* results whose driver, or whose record, a step gave up
  twice,      \* results whose attempt a restart gave back while it was out
  choices, faults

ledger   == <<task, action, followUp, auto, late>>
volatile == <<timer, steps, acks>>
process  == <<up, cursor>>
history  == <<chain, lost, twice, choices, faults>>
vars     == <<ledger, volatile, process, history>>

-----------------------------------------------------------------------------
NoTask == [status |-> "none", prior |-> 0, by |-> "root", backup |-> FALSE, spent |-> FALSE]
NoAuto == [state |-> "none", enabled |-> FALSE, gen |-> 0, attempts |-> 0,
           failures |-> 0, last |-> 0, target |-> "none"]
NoTimer == [kind |-> "none", gen |-> 0]
NoStep == [pc |-> "idle", task |-> 1, gen |-> 0, void |-> FALSE]

HostAnswer  == {"started", "deferred", "unknown", "rejected", "changed", "unavailable"}
Limits      == {"quota", "transport"}
Settled     == Limits \cup {"completed", "ended"}
Unsettled   == {"queued", "live"}
ActiveState == {"planning", "scheduled", "attempting"}

\* isAutoResumeActive.
Active(t) == auto[t].enabled /\ auto[t].state \in ActiveState
\* A transport record asks for one attempt, on the backup.
Transport(t) == task[t].status = "transport"
AttemptCap(t) == IF Transport(t) THEN 1 ELSE MaxAttempts
\* isAutoResumeEligible, for a task whose status is s.
Eligible(t, s) == s \in Limits /\ action[t] = "none" /\ ~task[t].spent
\* Fault: an attempt is given back twice.
GivenBackTwice(n) == n - 2
\* An attempt the count was taken for did not happen.
GivenBack(n) == IF n = 0 THEN 0 ELSE n - 1

\* A record still waits for attempt steps[d] of generation g.
Current(t, g) == action[t] = "none" /\ Active(t) /\ auto[t].gen = g

LockFree == up \in {"starting", "running"}
Free(d) == steps[d].pc = "idle"
Ended(d) == [steps EXCEPT ![d] = NoStep]
To(d, pc) == [steps EXCEPT ![d].pc = pc]
Cleared(t) == [timer EXCEPT ![t] = NoTimer]
Armed(t, kind) == [timer EXCEPT ![t] = [kind |-> kind, gen |-> auto[t].gen]]
NewTask == {u \in Task : task[u].status = "none" /\ \A s \in 1..(u - 1) : task[s].status # "none"}
Failing == faults < MaxFaults /\ choices + faults < MaxEvents /\ faults' = faults + 1

-----------------------------------------------------------------------------
(* Settling a task and parking its result *)

\* The task is the follow-up of the attempt its prior waits for.
Continues(t) == LET p == task[t].prior
                IN p # 0 /\ auto[p].state \in {"attempting", "superseded"} /\ auto[p].last = t

\* parkAutoResumeLocked, first commit: the prior's attempt is over.
WithPriorSettled(t, s) ==
  IF ~Continues(t) THEN auto
  ELSE [auto EXCEPT ![task[t].prior].state = IF s = "completed" THEN "succeeded"
                                             ELSE IF Eligible(t, s) THEN "superseded" ELSE "ended"]

Inherits(t, s) == Continues(t) /\ (s = "transport" => Transport(task[t].prior))
\* Fault: every record starts with counts of its own.
FreshRecord(t, s) == [NoAuto EXCEPT !.state = "planning", !.enabled = TRUE]
\* initialAutoResumeState: a follow-up continues the counts of its prior.
InitialRecord(t, s) ==
  LET p == task[t].prior
      from == IF Inherits(t, s) THEN [auto[p] EXCEPT !.last = t] ELSE NoAuto
  IN [from EXCEPT !.state = "planning", !.target = "none",
                  !.enabled = IF p # 0 /\ auto[p].state # "none" THEN auto[p].enabled ELSE TRUE]

\* parkAutoResumeLocked, right after task t has settled with status s.
Park(t, s) ==
  LET parks == Eligible(t, s)
      new == InitialRecord(t, s)
      before == WithPriorSettled(t, s)
  IN IF auto[t].state # "none" THEN UNCHANGED <<auto, late, timer>>
     ELSE /\ auto' = IF parks THEN [before EXCEPT ![t] = new] ELSE before
          /\ late' = (late \ {task[t].prior})
                     \cup {u \in {t} : parks /\ Inherits(t, s) /\ task[t].prior \in late}
          /\ timer' = [u \in Task |->
                         IF Continues(t) /\ u = task[t].prior THEN NoTimer
                         ELSE IF u = t /\ parks /\ new.enabled THEN [kind |-> "plan", gen |-> new.gen]
                         ELSE timer[u]]

\* finishTask, every save of it done.
Settle(t, s) ==
  /\ LockFree /\ task[t].status = "live"
  /\ task' = [task EXCEPT ![t].status = s]
  /\ Park(t, s)
  /\ UNCHANGED <<action, followUp, steps, acks, process, history>>

PowerOff == /\ up' = "down" /\ cursor' = 0
            /\ timer' = [t \in Task |-> NoTimer]
            /\ steps' = [d \in Step |-> NoStep]
            /\ acks' = [t \in Task |-> "none"]

\* finishTask, cut short after the task or after its prior was saved: by a
\* crash, or by a failed save, which is only logged.
SettlePartly(t, s, priorSaved) ==
  /\ LockFree /\ task[t].status = "live"
  /\ Continues(t) \/ Eligible(t, s)
  /\ priorSaved => Continues(t) /\ Eligible(t, s)
  /\ Failing
  /\ task' = [task EXCEPT ![t].status = s]
  /\ auto' = IF priorSaved THEN WithPriorSettled(t, s) ELSE auto
  /\ \/ PowerOff /\ UNCHANGED lost
     \/ /\ lost' = lost \cup {t} \cup (IF Continues(t) THEN {task[t].prior} ELSE {})
        /\ UNCHANGED <<volatile, process>>
  /\ UNCHANGED <<action, followUp, late, chain, twice, choices>>

\* submit: the orchestrator dispatches work of its own, the same as what is
\* running (a deliberate duplicate) or not.
Dispatch ==
  /\ up = "running"
  /\ choices + faults < MaxEvents /\ choices' = choices + 1
  /\ \E u \in NewTask : task' = [task EXCEPT ![u] = [NoTask EXCEPT !.status = "queued"]]
  /\ UNCHANGED <<action, followUp, auto, late, volatile, process, chain, lost, twice, faults>>

\* pump starts a queued task.
Launch(t) ==
  /\ LockFree /\ task[t].status = "queued"
  /\ task' = [task EXCEPT ![t].status = "live"]
  /\ UNCHANGED <<action, followUp, auto, late, volatile, process, history>>

\* A queued task is cancelled, or swept by a handoff: nothing parks, and the
\* attempt its prior waits for stays open.
CancelQueued(t) ==
  /\ up = "running" /\ task[t].status = "queued"
  /\ task' = [task EXCEPT ![t].status = "ended"]
  /\ lost' = IF Continues(t) THEN lost \cup {task[t].prior} ELSE lost
  /\ UNCHANGED <<action, followUp, auto, late, volatile, process, chain, twice, choices, faults>>

-----------------------------------------------------------------------------
(* Planning and attempting *)

\* The record of t after a step of its own, and what drives it next.
Goes(t, record, next) ==
  /\ auto' = [auto EXCEPT ![t] = record]
  /\ timer' = IF next = "none" THEN Cleared(t) ELSE Armed(t, next)

Exhausted(t) == [auto[t] EXCEPT !.state = "exhausted", !.target = "none"]

\* The planning timer fires: planAutoResume, which then asks the host.
FirePlan(t, d) ==
  /\ timer[t].kind = "plan" /\ Free(d)
  /\ timer' = Cleared(t)
  /\ steps' = IF Active(t) /\ auto[t].gen = timer[t].gen
              THEN [steps EXCEPT ![d] = [pc |-> "plan", task |-> t, gen |-> timer[t].gen, void |-> FALSE]]
              ELSE steps
  /\ UNCHANGED <<ledger, acks, process, history>>

\* Fault: the age of a record is not looked at.
SpentByCount(t) == auto[t].attempts >= AttemptCap(t)
\* attempt_cap and time_cap.
Spent(t) == auto[t].attempts >= AttemptCap(t) \/ t \in late

\* planAutoResumeAttempt: the backup once per cycle, otherwise the original
\* unless the windows of the provider rule it out.
Plans(t) ==
  IF Spent(t) THEN {"none"}
  ELSE IF Transport(t) THEN {"backup", "none"}
  ELSE {"original", "none"} \cup (IF task[t].backup THEN {} ELSE {"backup"})

\* planAutoResume, the locked section after the host's answers.
MayPlan(d) == LET t == steps[d].task
              IN Current(t, steps[d].gen) /\ auto[t].state \in {"planning", "scheduled"}
Plan(d) ==
  LET t == steps[d].task
  IN /\ steps[d].pc = "plan" /\ LockFree
     /\ steps' = Ended(d)
     /\ IF MayPlan(d)
        THEN \E target \in Plans(t) :
               IF target = "none" THEN Goes(t, Exhausted(t), "none")
               ELSE Goes(t, [auto[t] EXCEPT !.state = "scheduled", !.target = target], "attempt")
        ELSE UNCHANGED <<auto, timer>>
     /\ UNCHANGED <<task, action, followUp, late, acks, process, history>>

\* The attempt timer fires: runAutoResumeAttempt, which looks under the lock.
MayAttempt(t) == Current(t, timer[t].gen) /\ auto[t].state = "scheduled" /\ auto[t].target # "none"

\* A breaker or another probe of the provider postpones the attempt.
Postpone(t) ==
  /\ timer[t].kind = "attempt" /\ LockFree /\ MayAttempt(t)
  /\ \/ /\ auto[t].target = "backup"
        /\ Goes(t, [auto[t] EXCEPT !.state = "planning"], "plan")
     \/ Goes(t, auto[t], "attempt")
  /\ UNCHANGED <<task, action, followUp, late, steps, acks, process, history>>

FireAttempt(t, d) ==
  /\ timer[t].kind = "attempt" /\ LockFree /\ Free(d)
  /\ timer' = Cleared(t)
  /\ IF ~MayAttempt(t) THEN UNCHANGED <<auto, steps>>
     ELSE IF Spent(t) THEN auto' = [auto EXCEPT ![t] = Exhausted(t)] /\ UNCHANGED steps
     ELSE /\ auto' = [auto EXCEPT ![t].state = "attempting", ![t].attempts = @ + 1]
          /\ steps' = [steps EXCEPT ![d] = [pc |-> "asked", task |-> t, gen |-> auto[t].gen,
                                            void |-> FALSE]]
  /\ UNCHANGED <<task, action, followUp, late, acks, process, history>>

\* What attemptAutoResume may answer, and where: without asking for an
\* acknowledgement when work is not admitted now or the backup is not what was
\* planned; otherwise as the acknowledgement ended.
Answers(d) ==
  LET t == steps[d].task
  IN CASE steps[d].pc = "asked" ->
            {"deferred", "rejected"}
              \cup (IF auto[t].target = "backup" THEN {"changed", "unavailable"} ELSE {})
              \cup (IF auto[t].target = "backup" /\ ~Transport(t) THEN {"unknown"} ELSE {})
       [] steps[d].pc = "started" -> {"started"}
       [] steps[d].pc = "refused" -> {"deferred", "rejected"}
       [] OTHER -> {}

\* Fault: an answer is taken for the attempt of a later generation.
AwaitedByAny(d, answer) == /\ auto[steps[d].task].state = "attempting"
                           /\ answer = "started" => action[steps[d].task] = "none"
\* The attempt is still the one its record waits for.
Awaited(d, answer) ==
  LET t == steps[d].task
  IN /\ auto[t].gen = steps[d].gen /\ auto[t].state = "attempting"
     /\ answer = "started" => action[t] = "none"

\* The record after an attempt that made nothing, and what is armed for it.
GivenBackTo(t, state) == [auto[t] EXCEPT !.state = state, !.attempts = GivenBack(@)]
FailedTo(t, state) == [GivenBackTo(t, state) EXCEPT !.failures = @ + 1]

\* runAutoResumeAttempt, last section: the attempt is over, or waits for its
\* follow-up, or is given back and tried again.
Answer(d, answer) ==
  LET t == steps[d].task
  IN /\ answer \in Answers(d) /\ LockFree
     /\ steps' = Ended(d)
     /\ IF ~Awaited(d, answer) THEN UNCHANGED <<auto, timer>>
        ELSE IF Transport(t) /\ answer = "unavailable" THEN Goes(t, Exhausted(t), "none")
        ELSE IF answer \in {"deferred", "unknown"}
        THEN \/ Goes(t, GivenBackTo(t, "scheduled"), "attempt")
             \/ answer = "unknown" /\ Goes(t, GivenBackTo(t, "planning"), "plan")
        ELSE IF auto[t].failures + 1 >= MaxHostFailures THEN Goes(t, FailedTo(t, "exhausted"), "none")
        ELSE IF answer \in {"changed", "unavailable"} THEN Goes(t, FailedTo(t, "planning"), "plan")
        ELSE Goes(t, FailedTo(t, "scheduled"), "attempt")
     /\ UNCHANGED <<task, action, followUp, late, acks, process, history>>

\* The save of a plan or of an attempt fails: the step ends, nothing is armed.
StepFails(d) ==
  /\ LockFree /\ Failing
  /\ \/ steps[d].pc = "plan" /\ MayPlan(d)
     \/ \E answer \in Answers(d) : Awaited(d, answer)
  /\ steps' = Ended(d)
  /\ lost' = lost \cup {steps[d].task}
  /\ UNCHANGED <<ledger, timer, acks, process, chain, twice, choices>>

AttemptFails(t) ==
  /\ timer[t].kind = "attempt" /\ LockFree /\ MayAttempt(t) /\ Failing
  /\ timer' = Cleared(t)
  /\ lost' = lost \cup {t}
  /\ UNCHANGED <<ledger, steps, acks, process, chain, twice, choices>>

-----------------------------------------------------------------------------
(* Acknowledging a result *)

\* Whoever waits for the same acknowledgement learns how it ended.
Told(t, outcome) == [d \in Step |-> IF steps[d].task = t /\ steps[d].pc = "joined"
                                    THEN [steps[d] EXCEPT !.pc = outcome] ELSE steps[d]]

\* acknowledgeResult for an attempt, up to the lock: it joins a retry in
\* flight, and it finds a result that has moved on.
Ask(d) ==
  LET t == steps[d].task
      moved == ~Current(t, steps[d].gen)
  IN /\ steps[d].pc = "asked" /\ up = "running"
     /\ steps' = To(d, IF acks[t] \in {"user", "auto"} THEN "joined"
                       ELSE IF acks[t] = "handoff" \/ moved THEN "started" ELSE "acking")
     /\ acks' = IF acks[t] = "none" /\ ~moved THEN [acks EXCEPT ![t] = "auto"] ELSE acks
     /\ UNCHANGED <<ledger, timer, process, history>>

\* Fault: the attempt is not looked at again under the lock.
AdmitsAll(d) == TRUE
\* prepareSubmissionLocked admits an automatic follow-up.
Admits(d) == LET t == steps[d].task
             IN Current(t, steps[d].gen) /\ auto[t].state = "attempting"

\* prepareSubmissionLocked, the duplicate guard: a follow-up whose work an active
\* task already does is that task, whatever the task continues.  Which tasks do
\* the same work, and which are young enough to count, is left open.
Duplicates == {u \in Task : task[u].status = "live"}

\* Fault: the follow-up is saved before its acknowledgement.
FollowUpFirst(t, u, new, record) ==
  /\ task' = [task EXCEPT ![u] = new]
  /\ auto' = [auto EXCEPT ![t] = record]
  /\ UNCHANGED <<action, followUp, timer>>
\* The follow-up u of t and its acknowledgement are one save.
Acknowledge(t, u, new, record) ==
  /\ task' = [task EXCEPT ![u] = new]
  /\ action' = [action EXCEPT ![t] = "retry"]
  /\ followUp' = [followUp EXCEPT ![t] = u]
  /\ auto' = [auto EXCEPT ![t] = record]
  /\ timer' = Cleared(t)

\* acknowledgeResult for an attempt, under the lock.
AckAuto(d) ==
  LET t == steps[d].task
  IN /\ steps[d].pc = "acking" /\ up = "running"
     /\ acks' = [acks EXCEPT ![t] = "none"]
     /\ steps' = [Told(t, "started") EXCEPT ![d].pc = "started"]
     /\ IF Admits(d)
        THEN \/ \E u \in NewTask :
                  /\ Acknowledge(t, u, [status |-> "queued", prior |-> t, by |-> "auto",
                                        backup |-> auto[t].target = "backup", spent |-> Transport(t)],
                                 [auto[t] EXCEPT !.last = u])
                  /\ chain' = [chain EXCEPT ![u] = chain[t] + 1]
             \/ \E u \in Duplicates : Acknowledge(t, u, task[u], [auto[t] EXCEPT !.last = u])
                                     /\ UNCHANGED chain
        ELSE UNCHANGED <<task, action, followUp, auto, timer, chain>>
     /\ UNCHANGED <<late, process, lost, twice, choices, faults>>

\* The submission is refused (a handoff, the mode lease), or its save fails
\* and rolls it back: the attempt counts as a failure, or is deferred.
AckRefused(d) ==
  LET t == steps[d].task
  IN /\ steps[d].pc = "acking" /\ up = "running"
     /\ acks' = [acks EXCEPT ![t] = "none"]
     /\ steps' = [Told(t, "refused") EXCEPT ![d].pc = "refused"]
     /\ UNCHANGED <<ledger, timer, process, history>>

\* A user asks for a retry in place, or a handoff abandons the result.
Request(t, who) ==
  /\ up = "running" /\ acks[t] = "none"
  /\ task[t].status \in Limits /\ action[t] = "none"
  /\ acks' = [acks EXCEPT ![t] = who]
  /\ UNCHANGED <<ledger, timer, steps, process, history>>

\* A person disposed of the result: a pending attempt is void.
Voided(t) == IF auto[t].state = "none" THEN auto[t]
             ELSE [auto[t] EXCEPT !.state = "acknowledged", !.gen = @ + 1]

\* What is in flight for S was decided on before a person spoke.
Outdated(f, S) == [d \in Step |-> IF f[d].pc # "idle" /\ f[d].task \in S THEN [f[d] EXCEPT !.void = TRUE] ELSE f[d]]

\* acknowledgeResult for a user or a handoff, under the lock.
AckByHand(t) ==
  /\ acks[t] \in {"user", "handoff"} /\ up = "running"
  /\ acks' = [acks EXCEPT ![t] = "none"]
  /\ IF action[t] # "none"
     THEN steps' = Told(t, "started") /\ UNCHANGED <<task, action, followUp, auto, timer>>
     ELSE /\ steps' = Outdated(Told(t, "started"), {t})
          /\ \/ /\ acks[t] = "user"
                /\ \/ \E u \in NewTask :
                        Acknowledge(t, u, [NoTask EXCEPT !.status = "queued", !.prior = t, !.by = "user"],
                                    Voided(t))
                   \/ \E u \in Duplicates : Acknowledge(t, u, task[u], Voided(t))
             \/ /\ acks[t] = "handoff"
                /\ action' = [action EXCEPT ![t] = "drop"]
                /\ auto' = [auto EXCEPT ![t] = Voided(t)]
                /\ timer' = Cleared(t)
                /\ UNCHANGED <<task, followUp>>
  /\ UNCHANGED <<late, process, chain, lost, twice, choices, faults>>

\* The submission is refused, or its save fails and rolls it back.
AckByHandRefused(t) ==
  /\ acks[t] \in {"user", "handoff"} /\ up = "running"
  /\ acks' = [acks EXCEPT ![t] = "none"]
  /\ steps' = Told(t, "refused")
  /\ UNCHANGED <<ledger, timer, process, history>>

-----------------------------------------------------------------------------
(* Switching automatic resume off and on *)

Disabled(t) == [auto[t] EXCEPT !.state = "cancelled", !.enabled = FALSE,
                               !.gen = IF auto[t].state = "none" THEN @ ELSE @ + 1]
Decides(S) == /\ up = "running"
              /\ choices + faults < MaxEvents /\ choices' = choices + 1
              /\ steps' = Outdated(steps, S)

\* A record switched off for S no longer hands its counts to task u.
CutOff(u, S) == \E t \in S : task[u].prior = t \/ (t = u /\ auto[t].state = "none")

\* disableAutoResumeLocked: by setResultAutoResume for an open result, by
\* cancelTask and cancelAutoResumeForSession for active records.
Disable(S) ==
  /\ S # {} /\ Decides(S)
  /\ auto' = [t \in Task |-> IF t \in S THEN Disabled(t) ELSE auto[t]]
  /\ timer' = [t \in Task |-> IF t \in S THEN NoTimer ELSE timer[t]]
  /\ chain' = [u \in Task |-> IF CutOff(u, S) THEN 0 ELSE chain[u]]
  /\ UNCHANGED <<task, action, followUp, late, acks, process, lost, twice, faults>>

SwitchOff(t) == /\ Eligible(t, task[t].status)
                /\ Active(t) \/ auto[t].enabled \/ auto[t].state = "none"
                /\ Disable({t})
Cancel(t) == Active(t) /\ Disable({t})
CancelSession == Disable({t \in Task : Active(t)})

\* Its save fails: the timer was cleared before, the record still says active.
DisableFails(t) ==
  /\ up = "running" /\ Active(t) /\ Failing
  /\ timer' = Cleared(t)
  /\ lost' = lost \cup {t}
  /\ UNCHANGED <<ledger, steps, acks, process, chain, twice, choices>>

\* setResultAutoResume switches it on: a new generation with the old counts.
Enable(t) ==
  LET base == IF auto[t].state = "none" THEN auto[t] ELSE [auto[t] EXCEPT !.gen = @ + 1]
      on == [base EXCEPT !.enabled = TRUE, !.target = "none",
                         !.state = IF t \in late THEN "exhausted" ELSE "planning"]
  IN /\ Eligible(t, task[t].status) /\ ~Active(t)
     /\ Decides({t})
     /\ auto' = [auto EXCEPT ![t] = on]
     /\ timer' = [timer EXCEPT ![t] = IF t \in late THEN NoTimer ELSE [kind |-> "plan", gen |-> on.gen]]
     /\ chain' = IF auto[t].state = "none" THEN [chain EXCEPT ![t] = 0] ELSE chain
     /\ UNCHANGED <<task, action, followUp, late, acks, process, lost, twice, faults>>

\* The six hours of a record are over.
Expire(t) ==
  /\ Active(t) /\ action[t] = "none" /\ t \notin late
  /\ late' = late \cup {t}
  /\ UNCHANGED <<task, action, followUp, auto, volatile, process, history>>

-----------------------------------------------------------------------------
(* Crash and restart *)

Crash == /\ up # "down" /\ Failing
         /\ PowerOff
         /\ UNCHANGED <<ledger, chain, lost, twice, choices>>

Restart == /\ up = "down"
           /\ up' = "starting" /\ lost' = {}
           /\ UNCHANGED <<ledger, volatile, cursor, chain, twice, choices, faults>>

\* recoverTask has seen every active task: what settles meanwhile parks.
BeginRearm == /\ up = "starting"
              /\ up' = "rearming" /\ cursor' = 1
              /\ UNCHANGED <<ledger, volatile, history>>

\* Fault: an attempt that was out is waited for.
RearmPlanned(t) ==
  /\ IF Active(t) /\ auto[t].state \in {"planning", "scheduled"} THEN timer' = Armed(t, "plan") ELSE UNCHANGED timer
  /\ UNCHANGED <<auto, late>>
\* rearmAutoResumeLocked, first loop: a record is driven again.
RearmActive(t) ==
  LET u == followUp[t]
  IN IF ~Active(t) THEN UNCHANGED <<auto, late, timer>>
     ELSE IF auto[t].state = "attempting"
     THEN IF action[t] = "none"
          THEN /\ auto' = [auto EXCEPT ![t].state = "planning", ![t].attempts = GivenBack(@)]
               /\ timer' = Armed(t, "plan")
               /\ UNCHANGED late
          ELSE IF u # 0 /\ task[u].status \in Settled THEN Park(u, task[u].status)
          ELSE UNCHANGED <<auto, late, timer>>
     ELSE /\ \/ timer' = Armed(t, "plan")
             \/ auto[t].state = "scheduled" /\ timer' = Armed(t, "attempt")
          /\ UNCHANGED <<auto, late>>

\* Second loop: a follow-up whose prior was settled but which never parked.
RearmUnparked(t) ==
  IF /\ auto[t].state = "none" /\ action[t] = "none" /\ task[t].status \in Settled
     /\ Transport(t) \/ Continues(t)
  THEN Park(t, task[t].status)
  ELSE UNCHANGED <<auto, late, timer>>

\* The first loop gives back an attempt that this process made while it was
\* recovering, and that is still out.
GivenBackOut(t) == /\ cursor = t /\ Active(t) /\ auto[t].state = "attempting" /\ action[t] = "none"
                   /\ \E d \in Step : steps[d].pc \notin {"idle", "plan"} /\ steps[d].task = t
                                     /\ steps[d].gen = auto[t].gen

Rearm ==
  /\ up = "rearming"
  /\ IF cursor <= MaxTask THEN RearmActive(cursor) ELSE RearmUnparked(cursor - MaxTask)
  /\ IF cursor = 2 * MaxTask THEN up' = "running" /\ cursor' = 0 ELSE up' = up /\ cursor' = cursor + 1
  /\ twice' = twice \cup {t \in Task : GivenBackOut(t)}
  /\ UNCHANGED <<task, action, followUp, steps, acks, chain, lost, choices, faults>>
-----------------------------------------------------------------------------
Init ==
  /\ task = [t \in Task |-> IF t = 1 THEN [NoTask EXCEPT !.status = "live"] ELSE NoTask]
  /\ action = [t \in Task |-> "none"]
  /\ followUp = [t \in Task |-> 0]
  /\ auto = [t \in Task |-> NoAuto]
  /\ late = {}
  /\ timer = [t \in Task |-> NoTimer]
  /\ steps = [d \in Step |-> NoStep]
  /\ acks = [t \in Task |-> "none"]
  /\ up = "running" /\ cursor = 0
  /\ chain = [t \in Task |-> 0]
  /\ lost = {} /\ twice = {} /\ choices = 0 /\ faults = 0

\* Bound: the last task does not stop on a limit, it could not be continued.
Outcomes(t) == IF t = MaxTask THEN Settled \ Limits ELSE Settled
Settles(t) == \E s \in Outcomes(t) : Settle(t, s)
\* An attempt that the host has goes on: it asks for the acknowledgement, or
\* is answered.
Asked(d) == Ask(d) \/ \E answer \in HostAnswer : Answer(d, answer)
Acks(d) == AckAuto(d) \/ AckRefused(d)
AcksByHand(t) == AckByHand(t) \/ AckByHandRefused(t)

People == \E t \in Task :
  \/ Request(t, "user") \/ Request(t, "handoff")
  \/ SwitchOff(t) \/ Cancel(t) \/ Enable(t) \/ CancelQueued(t)

Failures ==
  \/ \E t \in Task, b \in BOOLEAN : \E s \in Outcomes(t) : SettlePartly(t, s, b)
  \/ \E t \in Task : DisableFails(t) \/ AttemptFails(t)
  \/ \E d \in Step : StepFails(d)
  \/ Crash

Next ==
  \/ \E t \in Task : Launch(t) \/ Settles(t) \/ Postpone(t) \/ AcksByHand(t) \/ Expire(t)
  \/ \E t \in Task, d \in Step : FirePlan(t, d) \/ FireAttempt(t, d)
  \/ \E d \in Step : Plan(d) \/ Asked(d) \/ Acks(d)
  \/ People \/ CancelSession \/ Dispatch
  \/ Failures
  \/ Restart \/ BeginRearm \/ Rearm

Spec == Init /\ [][Next]_vars

-----------------------------------------------------------------------------
TaskRecord == [status : Settled \cup Unsettled \cup {"none"}, prior : 0..MaxTask,
               by : {"root", "user", "auto"}, backup : BOOLEAN, spent : BOOLEAN]
AutoRecord == [state : ActiveState \cup {"none", "superseded", "succeeded", "ended",
                                         "acknowledged", "exhausted", "cancelled"},
               enabled : BOOLEAN, gen : Nat, attempts : Nat, failures : Nat,
               last : 0..MaxTask, target : {"none", "backup", "original"}]

TypeOK ==
  /\ task \in [Task -> TaskRecord]
  /\ action \in [Task -> {"none", "retry", "drop"}]
  /\ followUp \in [Task -> 0..MaxTask]
  /\ auto \in [Task -> AutoRecord]
  /\ late \in SUBSET Task
  /\ timer \in [Task -> [kind : {"none", "plan", "attempt"}, gen : Nat]]
  /\ steps \in [Step -> [pc : {"idle", "plan", "asked", "acking", "joined", "started", "refused"},
                          task : Task, gen : Nat, void : BOOLEAN]]
  /\ acks \in [Task -> {"none", "auto", "user", "handoff"}]
  /\ up \in {"down", "starting", "rearming", "running"}
  /\ cursor \in 0..(2 * MaxTask)
  /\ chain \in [Task -> Nat]
  /\ lost \in SUBSET Task /\ twice \in SUBSET Task
  /\ choices \in Nat /\ faults \in Nat

\* One result, one follow-up of its own: whoever acknowledges, and however often
\* a request is repeated or a restart comes between, a task that continues a
\* result is the one its envelope names, so at most one does.  The envelope names
\* another only for the duplicate guard, and then too a task of the ledger; and
\* whoever follows the names from result to result comes to an end.
OneFollowUp ==
  /\ \A t, u \in Task : task[u].status # "none" /\ task[u].prior = t => followUp[t] = u
  /\ \A t \in Task : followUp[t] # 0 => task[followUp[t]].status # "none"
  /\ \A S \in SUBSET Task : S # {} => \E t \in S : followUp[t] \notin S

\* An automatic follow-up is made by an attempt that began after the last thing
\* a person decided about the result: to switch it off, to switch it off and
\* on again, or to dispose of it.
StaleNeverCreates ==
  [][\A u \in Task : task[u].status = "none" /\ task'[u].status # "none" /\ task'[u].by = "auto"
       => \E d \in Step : /\ steps[d].pc = "acking" /\ steps'[d].pc = "started"
                          /\ steps[d].task = task'[u].prior /\ ~steps[d].void]_vars

\* A record that still promises to continue a result has something that will
\* do it: a timer, a step in flight, or a follow-up that has not settled.
Orphaned(t) == followUp[t] # 0 /\ auto[followUp[t]].state # "none"
\* The duplicate guard gave the attempt a task that continues something else and
\* settles without it.
Collapsed(t) == LET u == followUp[t]
                IN u # 0 /\ task[u].prior # t /\ task[u].status \in Settled
GivenUp(t) == t \in lost \cup twice \/ Orphaned(t) \/ Collapsed(t)
Driven ==
  \A t \in Task : up = "running" /\ Active(t) /\ ~GivenUp(t) =>
    \/ followUp[t] # 0 /\ task[followUp[t]].status \in Unsettled
    \/ timer[t].kind # "none" /\ timer[t].gen = auto[t].gen
    \/ \E d \in Step : steps[d].pc # "idle" /\ steps[d].task = t /\ steps[d].gen = auto[t].gen

\* One attempt at a time: two requests of one generation are never out.
Attempting(d) == steps[d].pc \notin {"idle", "plan"}
OneAttempt ==
  \A d, e \in Step : d # e /\ Attempting(d) /\ Attempting(e) /\ steps[d].task = steps[e].task
                     /\ steps[d].task \notin twice => steps[d].gen # steps[e].gen

\* The budget belongs to the lineage: deferrals, crashes, restarts and the
\* switch give no attempt back that made a follow-up.  The backup of a
\* transport incident comes on top, once, and ends the lineage.
LineageBudget ==
  twice = {} => \A t \in Task : /\ chain[t] <= MaxAttempts + 1
                  /\ chain[t] > MaxAttempts => task[t].spent
                  /\ \A u \in Task : task[u].prior = t /\ task[t].spent => task[u].by # "auto"

\* Every result that is waiting to resume itself stops waiting: it is continued,
\* disposed of or given up.
Resolves == \A t \in Task : Active(t) ~> ~Active(t) \/ GivenUp(t)

Once == \/ \E t \in Task : Launch(t) \/ Settles(t) \/ Expire(t)
        \/ Restart \/ BeginRearm \/ Rearm
Fairness ==
  /\ WF_vars(Once)
  /\ \A t \in Task : /\ WF_vars(AcksByHand(t))
                     /\ SF_vars(\E d \in Step : FirePlan(t, d))
                     /\ SF_vars(\E d \in Step : FireAttempt(t, d))
  /\ \A d \in Step : WF_vars(Plan(d) \/ Asked(d) \/ Acks(d))

FairSpec == Spec /\ Fairness

-----------------------------------------------------------------------------
(* The abstract specification *)

Open(t) == task[t].status \in Settled /\ action[t] = "none"
Result(t) == IF task[t].status = "none" THEN "none"
             ELSE IF task[t].status \in Unsettled THEN "pending"
             ELSE IF action[t] = "none" THEN "open"
             ELSE IF action[t] = "drop" THEN "dropped"
             ELSE IF auto[t].last = followUp[t] THEN "resumed" ELSE "retried"

Disposition == INSTANCE ParkedResult WITH
  result <- [t \in Task |-> Result(t)],
  armed <- {t \in Task : Open(t) /\ Active(t)},
  child <- followUp

\* Results are disposed of as ParkedResult says: once, with a follow-up that is
\* new or still unfinished, and by themselves only while the switch is on.
DisposesOnce == Disposition!Spec

-----------------------------------------------------------------------------
(* What the documentation says and the code does not do *)

\* "results must never be attributed to another councillor's model"
\* (DOCUMENTATION.md:273): the retry of a result is a task that continues it, and
\* not one dispatched with the same prompt.
OwnFollowUp == \A t \in Task : followUp[t] # 0 => task[followUp[t]].prior = t

\* "Settles the prior attempt's state when this task was an automatic
\* follow-up" (scheduler.js:1437): an attempt whose follow-up has ended is over.
AttemptEnds == \A t \in Task : auto[t].state = "attempting" /\ followUp[t] # 0
                               => task[followUp[t]].status \in Unsettled

\* "`attempting` states reconciled against the follow-up their idempotency key
\* may already have created" (scheduler.js:2183): OneAttempt, also for what a
\* restart has given back.
OneRequest ==
  \A d, e \in Step : d # e /\ Attempting(d) /\ Attempting(e) /\ steps[d].task = steps[e].task
                     => steps[d].gen # steps[e].gen
=============================================================================
