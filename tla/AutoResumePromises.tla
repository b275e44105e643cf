-------------------------- MODULE AutoResumePromises ---------------------------
(***************************************************************************)
(* What automatic resume promises, for any lineages: a record that says it *)
(* will continue a result is driven by something, the attempts of a        *)
(* lineage stay within its budget, and results are disposed of as          *)
(* ParkedResult says.  The invariants of AutoResumeProofs are taken from   *)
(* there.                                                                  *)
(***************************************************************************)
EXTENDS AutoResumeProofs

\* The step d works for the record of t as it now is.
For(d, t) == steps[d].pc # "idle" /\ steps[d].task = t /\ steps[d].gen = auto[t].gen

\* What is scheduled or attempted has a target.
Targeted == \A t \in Task : auto[t].state \in {"scheduled", "attempting"} => auto[t].target # "none"

\* Once an attempt has its follow-up, the step that made it knows.
ToldStarted ==
    \A d \in Step : LET t == steps[d].task
                    IN /\ Attempting(d) /\ steps[d].gen = auto[t].gen /\ t \notin twice
                       /\ auto[t].state = "attempting" /\ action[t] # "none"
                       => steps[d].pc = "started"

\* A record that is active although its result is disposed of waits for the
\* follow-up of its own attempt.
WaitsForOwn ==
    \A t \in Task : Active(t) /\ action[t] # "none" /\ t \notin twice =>
        auto[t].state = "attempting" /\ followUp[t] # 0 /\ auto[t].last = followUp[t]

\* What drives a record: a record that waits for its turn has a timer that will
\* look at it, or a plan in flight; an attempt is out, or has an unsettled
\* follow-up.
TimerDrives(t) ==
    /\ auto[t].state \in Waiting /\ timer[t].gen = auto[t].gen
    /\ timer[t].kind = "plan" \/ (timer[t].kind = "attempt" /\ auto[t].state = "scheduled")
StepDrives(d, t) ==
    For(d, t) /\ IF auto[t].state \in Waiting THEN steps[d].pc = "plan"
                 ELSE action[t] = "none" /\ Attempting(d)
FollowUpDrives(t) ==
    auto[t].state = "attempting" /\ followUp[t] # 0 /\ task[followUp[t]].status \in Unsettled
Engaged(t) == TimerDrives(t) \/ (\E d \in Step : StepDrives(d, t)) \/ FollowUpDrives(t)

\* Where rearmAutoResumeLocked has been, or need not go.
Rearmed(t) == up = "running" \/ (up = "rearming" /\ t < cursor)
RearmedEngaged == \A t \in Task : Active(t) /\ ~GivenUp(t) /\ Rearmed(t) => Engaged(t)

\* What has no record has made no attempt.
Unrecorded == \A t \in Task : auto[t].state = "none" => auto[t].attempts = 0

\* A record that has made no follow-up of its own names none but its own task,
\* which it takes over with the counts of its prior.
LastKnown == \A t \in Task : action[t] # "retry" => auto[t].last \in {0, t}

PInv == Targeted /\ ToldStarted /\ WaitsForOwn /\ Unrecorded /\ LastKnown /\ RearmedEngaged

-----------------------------------------------------------------------------
(* The budget of a lineage *)

\* An automatic follow-up continues a task that has a record.
Begotten ==
    \A v \in Task : IF task[v].by = "auto"
                    THEN /\ task[v].status # "none" /\ task[v].prior \in Task
                         /\ auto[task[v].prior].state # "none"
                    ELSE ~task[v].spent /\ chain[v] = 0

\* What is spent never has a record.
SpentUnrecorded == \A t \in Task : task[t].spent => auto[t].state = "none"

\* The result of t will never be parked.
Over(t) == task[t].status \in Settled /\ ~Eligible(t, task[t].status)

\* The attempts on a record pay for the automatic follow-ups that led to its
\* task, and one that has no follow-up yet for that one.
Unpaid(t) == IF auto[t].state = "attempting" /\ action[t] = "none" THEN 1 ELSE 0
Counted ==
    \A t \in Task : auto[t].state # "none" =>
        /\ auto[t].attempts <= AttemptCap(t) /\ chain[t] <= MaxAttempts
        /\ ~Transport(t) => chain[t] + Unpaid(t) <= auto[t].attempts

\* A follow-up that may still be parked will take the counts over from the
\* attempts that paid for it.
Inheriting ==
    \A v \in Task : chain[v] # 0 =>
        /\ chain[v] <= MaxAttempts + 1 /\ (chain[v] > MaxAttempts => task[v].spent)
        /\ auto[v].state = "none" /\ ~task[v].spent /\ ~Over(v) =>
               Continues(v) /\ chain[v] <= auto[task[v].prior].attempts

\* A restart that gives back an attempt while it is out leaves the counts open.
BInv == Begotten /\ SpentUnrecorded /\ (twice = {} => Counted /\ Inheriting)

-----------------------------------------------------------------------------
(* Steps in flight that go on *)

\* The steps f are those in flight, each still where it was or further on.
Stays(f) ==
    \A d \in Step : /\ f[d].task = steps[d].task /\ f[d].gen = steps[d].gen
                    /\ f[d].pc = "idle" <=> steps[d].pc = "idle"
                    /\ f[d].pc = "plan" <=> steps[d].pc = "plan"
                    /\ steps[d].pc = "started" => f[d].pc = "started"

LEMMA ToldStays ==
    ASSUME Typed, NEW t \in Task, NEW outcome \in {"started", "refused"}
    PROVE  Stays(Told(t, outcome))
<1>1. PICK f : f = Told(t, outcome)
    OBVIOUS
<1>2. ASSUME NEW d \in Step
      PROVE  /\ f[d].task = steps[d].task /\ f[d].gen = steps[d].gen
             /\ f[d].pc = IF steps[d].task = t /\ steps[d].pc = "joined" THEN outcome ELSE steps[d].pc
    BY <1>1 DEF Told, Typed, StepsTyped, StepRecord
<1> QED BY <1>1, <1>2 DEF Stays

LEMMA MovedStays ==
    ASSUME Typed, NEW d \in Step, steps[d].pc \in {"asked", "acking"},
           NEW pc \in {"acking", "joined", "started", "refused"},
           NEW f, Kept(f), Stays(f)
    PROVE  Stays([f EXCEPT ![d].pc = pc])
<1>1. f \in [Step -> StepRecord] /\ f[d] \in StepRecord
    BY DEF Kept
<1>2. PICK g : g = [f EXCEPT ![d].pc = pc]
    OBVIOUS
<1>3. /\ g[d].task = f[d].task /\ g[d].gen = f[d].gen /\ g[d].pc = pc
      /\ \A e \in Step : e # d => g[e] = f[e]
    BY <1>1, <1>2 DEF StepRecord
<1> QED BY <1>2, <1>3 DEF Stays

LEMMA OutdatedStays ==
    ASSUME NEW S, NEW f, Kept(f), Stays(f)
    PROVE  Stays(Outdated(f, S))
<1>1. PICK g : g = Outdated(f, S)
    OBVIOUS
<1>2. ASSUME NEW d \in Step
      PROVE  g[d].task = f[d].task /\ g[d].gen = f[d].gen /\ g[d].pc = f[d].pc
  <2>1. f[d] \in StepRecord
      BY DEF Kept
  <2> QED BY <1>1, <2>1 DEF Outdated, StepRecord
<1> QED BY <1>1, <1>2 DEF Stays

LEMMA SameStays ==
    ASSUME Typed
    PROVE  Kept(steps) /\ Stays(steps)
BY DEF Kept, Stays, Typed, StepsTyped

\* No step that knows of its follow-up does anything but end.
StartedGoes == \A d \in Step : steps[d].pc = "started" => steps'[d].pc \in {"started", "idle"}

\* One step ends.
LEMMA EndedGoes ==
    ASSUME Typed, NEW d \in Step, steps' = Ended(d)
    PROVE  StartedGoes
BY EndedStep DEF StartedGoes

\* A step begins where none was.
LEMMA BegunGoes ==
    ASSUME Typed, NEW d \in Step, Free(d), NEW x, steps' = [steps EXCEPT ![d] = x]
    PROVE  StartedGoes
BY DEF StartedGoes, Free, Typed, StepsTyped

-----------------------------------------------------------------------------
(* What a step does to a record *)

\* An attempt begins; nobody has disposed of the result.
BeginsAttempt(t) ==
    /\ auto[t].state = "scheduled" /\ auto'[t].state = "attempting" /\ action[t] = "none"
    /\ auto[t].attempts < AttemptCap(t) /\ auto'[t].attempts = auto[t].attempts + 1
    /\ auto'[t].last = auto[t].last /\ auto'[t].target = auto[t].target

\* The attempt gets its follow-up.
MakesFollowUp(t) ==
    /\ auto[t].state = "attempting" /\ auto'[t].state = "attempting"
    /\ action[t] = "none" /\ action'[t] = "retry"
    /\ auto'[t].attempts = auto[t].attempts /\ auto'[t].target = auto[t].target
    /\ auto'[t].last = followUp'[t]

\* No attempt is open any more.  If the result was disposed of the record is
\* closed, and its follow-up takes the counts over, or will never need them.
Closes(t) ==
    /\ auto'[t].state \notin Waiting /\ auto'[t].attempts = auto[t].attempts
    /\ \A v \in Task : task[v].status # "none" /\ task[v].prior = t =>
           \/ chain'[v] = 0
           \/ auto[t].state \in {"attempting", "superseded"} /\ auto'[t].state = "superseded"
           \/ Over(v)'
Rests(t) ==
    /\ auto[t].state # "none" /\ auto'[t].state \notin {"none", "attempting"}
    /\ auto'[t].last = auto[t].last
    /\ auto'[t].state = "scheduled" => auto'[t].target # "none"
    /\ \/ auto'[t].attempts = auto[t].attempts
       \/ auto[t].state = "attempting" /\ auto'[t].attempts = GivenBack(auto[t].attempts)
    /\ action[t] # "none" /\ t \notin twice' => Closes(t)

\* A record begins: with the counts of the prior, or with none.
TakesOver(t) ==
    \/ auto'[t].attempts = 0 /\ (chain'[t] = 0 \/ ~Continues(t) \/ task'[t].status = "transport")
    \/ /\ Continues(t) /\ auto'[t].attempts = auto[task[t].prior].attempts
       /\ task'[t].status = "transport" => Transport(task[t].prior)
StartsRecord(t) ==
    /\ auto[t].state = "none" /\ auto'[t].state \in {"planning", "exhausted", "cancelled"}
    /\ action[t] = "none" /\ ~task[t].spent /\ task'[t].status \in Limits
    /\ auto'[t].last \in {0, t} /\ TakesOver(t)

RecordMoves(t) == \/ auto'[t] = auto[t]
                  \/ BeginsAttempt(t) \/ MakesFollowUp(t) \/ Rests(t) \/ StartsRecord(t)

LEMMA SameRecords ==
    ASSUME UNCHANGED auto
    PROVE  \A t \in Task : RecordMoves(t)
BY DEF RecordMoves

\* Only the record of t changes.
LEMMA OneRecord ==
    ASSUME Typed, NEW t \in Task, NEW r \in AutoRecord, auto' = [auto EXCEPT ![t] = r],
           auto'[t] = r => RecordMoves(t)
    PROVE  \A u \in Task : RecordMoves(u)
<1>1. auto'[t] = r /\ \A u \in Task : u # t => auto'[u] = auto[u]
    BY DEF Typed, RecordsTyped
<1> QED BY <1>1 DEF RecordMoves

\* A result that is open comes to rest, its attempts as they were.
LEMMA OpenRests ==
    ASSUME Typed, NEW t \in Task, NEW r \in AutoRecord, auto' = [auto EXCEPT ![t] = r],
           action[t] = "none", auto[t].state # "none", r.state \notin {"none", "attempting"},
           r.last = auto[t].last, r.state = "scheduled" => r.target # "none",
           \/ r.attempts = auto[t].attempts
           \/ auto[t].state = "attempting" /\ r.attempts = GivenBack(auto[t].attempts)
    PROVE  \A u \in Task : RecordMoves(u)
<1>1. auto'[t] = r => Rests(t)
    BY DEF Rests
<1> QED BY <1>1, OneRecord DEF RecordMoves

LEMMA ExhaustedRecord ==
    ASSUME Typed, NEW t \in Task
    PROVE  /\ Exhausted(t) \in AutoRecord /\ Exhausted(t).state = "exhausted"
           /\ Exhausted(t).last = auto[t].last /\ Exhausted(t).attempts = auto[t].attempts
           /\ Exhausted(t).gen = auto[t].gen /\ Exhausted(t).enabled = auto[t].enabled
BY AutoFields DEF Exhausted, AutoRecord

LEMMA PlanMoves ==
    ASSUME IInv, NEW d \in Step, Plan(d)
    PROVE  \A t \in Task : RecordMoves(t)
<1>1. Typed
    BY DEF IInv
<1>2. PICK t \in Task : t = steps[d].task
    BY <1>1, StepFields
<1>3. CASE ~MayPlan(d)
    BY <1>3, SameRecords DEF Plan
<1>4. CASE MayPlan(d)
  <2>1. PICK target \in Plans(t) :
          IF target = "none" THEN auto' = [auto EXCEPT ![t] = Exhausted(t)]
          ELSE auto' = [auto EXCEPT ![t] = [auto[t] EXCEPT !.state = "scheduled", !.target = target]]
      BY <1>2, <1>4 DEF Plan, Goes
  <2>2. action[t] = "none" /\ auto[t].state # "none" /\ auto[t] \in AutoRecord
      BY <1>1, <1>2, <1>4, AutoFields DEF MayPlan, Current
  <2>3. CASE target = "none"
      BY <1>1, <2>1, <2>2, <2>3, ExhaustedRecord, OpenRests
  <2>4. CASE target # "none"
    <3>1. PICK r : r = [auto[t] EXCEPT !.state = "scheduled", !.target = target]
        OBVIOUS
    <3>2. target \in {"original", "backup"}
        BY <2>4 DEF Plans
    <3>3. /\ r \in AutoRecord /\ r.state = "scheduled" /\ r.target = target
          /\ r.last = auto[t].last /\ r.attempts = auto[t].attempts
        BY <2>2, <3>1, <3>2 DEF AutoRecord, ActiveState
    <3> QED BY <1>1, <2>1, <2>2, <2>4, <3>1, <3>3, OpenRests
  <2> QED BY <2>3, <2>4
<1> QED BY <1>3, <1>4

LEMMA PostponeMoves ==
    ASSUME IInv, NEW t \in Task, Postpone(t)
    PROVE  \A u \in Task : RecordMoves(u)
<1>1. /\ Typed /\ action[t] = "none" /\ auto[t].state # "none" /\ auto[t] \in AutoRecord
      /\ \/ auto' = [auto EXCEPT ![t] = [auto[t] EXCEPT !.state = "planning"]]
         \/ auto' = [auto EXCEPT ![t] = auto[t]]
    BY AutoFields DEF IInv, Postpone, MayAttempt, Current, Goes
<1>2. CASE auto' = [auto EXCEPT ![t] = [auto[t] EXCEPT !.state = "planning"]]
  <2>1. PICK r : r = [auto[t] EXCEPT !.state = "planning"]
      OBVIOUS
  <2>2. r \in AutoRecord /\ r.state = "planning" /\ r.last = auto[t].last /\ r.attempts = auto[t].attempts
      BY <1>1, <2>1 DEF AutoRecord, ActiveState
  <2> QED BY <1>1, <1>2, <2>1, <2>2, OpenRests
<1>3. CASE auto' = [auto EXCEPT ![t] = auto[t]]
  <2>1. auto' = auto
      BY <1>1, <1>3 DEF Typed, RecordsTyped
  <2> QED BY <2>1, SameRecords
<1> QED BY <1>1, <1>2, <1>3

LEMMA FireAttemptMoves ==
    ASSUME IInv, NEW t \in Task, NEW d \in Step, FireAttempt(t, d)
    PROVE  \A u \in Task : RecordMoves(u)
<1>1. Typed /\ auto[t] \in AutoRecord /\ auto[t].attempts \in Nat
    BY AutoFields DEF IInv
<1>2. CASE ~MayAttempt(t)
    BY <1>2, SameRecords DEF FireAttempt
<1>3. CASE MayAttempt(t) /\ Spent(t)
  <2>1. auto' = [auto EXCEPT ![t] = Exhausted(t)] /\ action[t] = "none" /\ auto[t].state # "none"
      BY <1>3 DEF FireAttempt, MayAttempt, Current
  <2> QED BY <1>1, <2>1, ExhaustedRecord, OpenRests
<1>4. CASE MayAttempt(t) /\ ~Spent(t)
  <2>1. PICK r : r = [auto[t] EXCEPT !.state = "attempting", !.attempts = @ + 1]
      OBVIOUS
  <2>2. auto' = [auto EXCEPT ![t] = r]
      BY <1>1, <1>4, <2>1 DEF FireAttempt, Typed, RecordsTyped
  <2>3. auto[t].attempts + 1 \in Nat /\ AttemptCap(t) \in Nat
      BY <1>1, BoundAssumption DEF AttemptCap
  <2>4. /\ r \in AutoRecord /\ r.state = "attempting" /\ r.attempts = auto[t].attempts + 1
        /\ r.last = auto[t].last /\ r.target = auto[t].target
      BY <1>1, <2>1, <2>3 DEF AutoRecord, ActiveState
  <2>5. /\ auto[t].state = "scheduled" /\ action[t] = "none" /\ auto[t].attempts < AttemptCap(t)
      BY <1>1, <1>4, <2>3 DEF MayAttempt, Current, Spent
  <2>6. auto'[t] = r => BeginsAttempt(t)
      BY <2>4, <2>5 DEF BeginsAttempt
  <2> QED BY <1>1, <2>2, <2>4, <2>6, OneRecord DEF RecordMoves
<1> QED BY <1>2, <1>3, <1>4

\* An attempt whose follow-up exists is not given back.
LEMMA AnswerMoves ==
    ASSUME IInv, PInv, NEW d \in Step, NEW answer \in HostAnswer, Answer(d, answer)
    PROVE  \A t \in Task : RecordMoves(t)
<1>1. Typed /\ ToldStarted /\ Targeted
    BY DEF IInv, PInv
<1>2. PICK t \in Task : t = steps[d].task
    BY <1>1, StepFields
<1>3. CASE ~Awaited(d, answer)
    BY <1>3, SameRecords DEF Answer
<1>4. CASE Awaited(d, answer)
  <2>1. /\ auto[t] \in AutoRecord /\ auto[t].state = "attempting" /\ auto[t].gen = steps[d].gen
        /\ auto[t].attempts \in Nat /\ auto[t].failures \in Nat /\ auto[t].target # "none"
      BY <1>1, <1>2, <1>4, AutoFields DEF Awaited, Targeted
  <2>2. GivenBack(auto[t].attempts) \in Nat
      BY <2>1 DEF GivenBack
  <2>3. ASSUME NEW state \in {"planning", "scheduled", "exhausted"}
        PROVE  /\ GivenBackTo(t, state) \in AutoRecord /\ GivenBackTo(t, state).state = state
               /\ GivenBackTo(t, state).last = auto[t].last
               /\ GivenBackTo(t, state).target = auto[t].target
               /\ GivenBackTo(t, state).attempts = GivenBack(auto[t].attempts)
               /\ FailedTo(t, state) \in AutoRecord /\ FailedTo(t, state).state = state
               /\ FailedTo(t, state).last = auto[t].last
               /\ FailedTo(t, state).target = auto[t].target
               /\ FailedTo(t, state).attempts = GivenBack(auto[t].attempts)
    <3>1. PICK r : r = GivenBackTo(t, state)
        OBVIOUS
    <3>2. /\ r \in AutoRecord /\ r.state = state /\ r.failures \in Nat /\ r.last = auto[t].last
          /\ r.target = auto[t].target /\ r.attempts = GivenBack(auto[t].attempts)
        BY <2>1, <2>2, <3>1 DEF GivenBackTo, AutoRecord, ActiveState
    <3>3. PICK q : q = [r EXCEPT !.failures = @ + 1]
        OBVIOUS
    <3>4. /\ q \in AutoRecord /\ q.state = r.state /\ q.last = r.last /\ q.target = r.target
          /\ q.attempts = r.attempts
        BY <3>2, <3>3 DEF AutoRecord
    <3> QED BY <3>1, <3>2, <3>3, <3>4 DEF FailedTo
  <2>4. PICK r \in AutoRecord : /\ auto' = [auto EXCEPT ![t] = r] /\ r.last = auto[t].last
                                /\ r.state \in {"planning", "scheduled", "exhausted"}
                                /\ r.state = "scheduled" => r.target # "none"
                                /\ \/ r.attempts = auto[t].attempts
                                   \/ r.attempts = GivenBack(auto[t].attempts)
    <3>1. \/ auto' = [auto EXCEPT ![t] = Exhausted(t)]
          \/ \E state \in {"planning", "scheduled", "exhausted"} :
                 \/ auto' = [auto EXCEPT ![t] = GivenBackTo(t, state)]
                 \/ auto' = [auto EXCEPT ![t] = FailedTo(t, state)]
        BY <1>2, <1>4 DEF Answer, Goes
    <3> QED BY <1>1, <2>1, <2>3, <3>1, ExhaustedRecord
  <2>5. action[t] = "none" \/ t \in twice'
    <3>1. Attempting(d) /\ answer \in Answers(d) /\ twice' = twice
        BY DEF Answer, Answers, Attempting, history
    <3>2. CASE t \notin twice /\ action[t] # "none"
      <4>1. steps[d].pc = "started"
          BY <1>1, <1>2, <2>1, <3>1, <3>2 DEF ToldStarted
      <4>2. answer = "started"
          BY <3>1, <4>1 DEF Answers
      <4> QED BY <1>2, <1>4, <4>2 DEF Awaited
    <3> QED BY <3>1, <3>2
  <2>6. auto'[t] = r => Rests(t)
      BY <2>1, <2>4, <2>5 DEF Rests
  <2> QED BY <1>1, <2>4, <2>6, OneRecord DEF RecordMoves
<1> QED BY <1>3, <1>4

\* The prior of a follow-up names it.
LEMMA PriorNames ==
    ASSUME IInv, NEW t \in Task, Continues(t), task[t].status # "none"
    PROVE  /\ task[t].prior \in Task /\ followUp[task[t].prior] = t /\ t # 0
           /\ action[task[t].prior] = "retry"
           /\ auto[task[t].prior].state \in {"attempting", "superseded"}
<1>1. task[t].prior \in Task /\ auto[task[t].prior].state \in {"attempting", "superseded"} /\ t # 0
    BY ContinuedPrior, BoundAssumption DEF IInv, Task
<1> QED BY <1>1 DEF IInv, Linked, OneFollowUp

\* The prior is closed by the settlement of its follow-up.
LEMMA PriorMoves ==
    ASSUME IInv, NEW t \in Task, NEW s \in Settled, task[t].status # "none", auto[t].state = "none",
           task'[t].status = s, task'[t].spent = task[t].spent, action' = action,
           NEW p \in Task, Continues(t), p = task[t].prior, NEW x, NEW r \in AutoRecord,
           r = [auto[p] EXCEPT !.state = x],
           x = IF s = "completed" THEN "succeeded" ELSE IF Eligible(t, s) THEN "superseded" ELSE "ended",
           auto'[p] = r
    PROVE  Rests(p)
<1>1. /\ auto[p].state \in {"attempting", "superseded"}
      /\ \A v \in Task : task[v].status # "none" /\ task[v].prior = p => v = t
    BY PriorNames DEF IInv, Linked, OneFollowUp
<1>2. /\ r.state = x /\ r.last = auto[p].last /\ r.attempts = auto[p].attempts
    BY AutoFields DEF IInv, AutoRecord
<1>3. x # "superseded" => Over(t)'
    BY DEF Over, Eligible, Limits
<1>4. Closes(p)
    BY <1>1, <1>2, <1>3 DEF Closes, Waiting
<1> QED BY <1>1, <1>2, <1>4 DEF Rests

\* What WithPriorSettled does to the records.
LEMMA PriorRecords ==
    ASSUME IInv, NEW t \in Task, NEW s \in Settled, task[t].status # "none", auto[t].state = "none",
           task'[t].status = s, task'[t].spent = task[t].spent, action' = action,
           NEW before, before = WithPriorSettled(t, s)
    PROVE  /\ before \in [Task -> AutoRecord] /\ before[t] = auto[t]
           /\ \A u \in Task : auto'[u] = before[u] => RecordMoves(u)
<1>1. Typed /\ before \in [Task -> AutoRecord] /\ before[t] = auto[t]
    BY PriorSettled DEF IInv
<1>2. CASE ~Continues(t)
    BY <1>1, <1>2 DEF WithPriorSettled, RecordMoves
<1>3. CASE Continues(t)
  <2>1. PICK p \in Task : p = task[t].prior
      BY <1>3, PriorNames
  <2>2. PICK x : x = IF s = "completed" THEN "succeeded" ELSE IF Eligible(t, s) THEN "superseded" ELSE "ended"
      OBVIOUS
  <2>3. PICK r : r = [auto[p] EXCEPT !.state = x]
      OBVIOUS
  <2>4. before = [auto EXCEPT ![p] = r] /\ r \in AutoRecord
    <3>1. before = [auto EXCEPT ![p].state = x]
        BY <1>3, <2>1, <2>2 DEF WithPriorSettled
    <3>2. auto \in [Task -> AutoRecord] /\ auto[p] \in AutoRecord
        BY <1>1 DEF Typed, RecordsTyped
    <3>3. x \in AutoState
        BY <2>2 DEF AutoState
    <3> QED BY <2>3, <3>1, <3>2, <3>3 DEF AutoRecord, AutoState
  <2>5. before[p] = r /\ \A u \in Task : u # p => before[u] = auto[u]
      BY <1>1, <2>4 DEF Typed, RecordsTyped
  <2>6. auto'[p] = r => Rests(p)
      BY <1>3, <2>1, <2>2, <2>3, <2>4, PriorMoves
  <2> QED BY <1>1, <2>5, <2>6 DEF RecordMoves
<1> QED BY <1>2, <1>3

LEMMA ParkMoves ==
    ASSUME IInv, NEW t \in Task, NEW s \in Settled, task[t].status # "none", Park(t, s),
           task'[t].status = s, task'[t].spent = task[t].spent, action' = action
    PROVE  \A u \in Task : RecordMoves(u)
<1>1. CASE auto[t].state # "none"
    BY <1>1, SameRecords DEF Park
<1>2. CASE auto[t].state = "none"
  <2>1. PICK before, new : before = WithPriorSettled(t, s) /\ new = InitialRecord(t, s)
      OBVIOUS
  <2>2. /\ before \in [Task -> AutoRecord] /\ before[t] = auto[t]
        /\ \A u \in Task : auto'[u] = before[u] => RecordMoves(u)
      BY <1>2, <2>1, PriorRecords
  <2>3. CASE ~Eligible(t, s)
    <3>1. auto' = before
        BY <1>2, <2>1, <2>3 DEF Park
    <3> QED BY <2>2, <3>1
  <2>4. CASE Eligible(t, s)
    <3>1. auto' = [before EXCEPT ![t] = new]
        BY <1>2, <2>1, <2>4 DEF Park
    <3>2. auto'[t] = new /\ \A u \in Task : u # t => auto'[u] = before[u]
        BY <2>2, <3>1
    <3>3. new.state = "planning"
        BY <2>1, RecordStarts DEF IInv
    <3>4. TakesOver(t)
      <4>1. CASE Inherits(t, s)
        <5>1. PICK from \in AutoRecord : /\ from = [auto[task[t].prior] EXCEPT !.last = t]
                                         /\ from.attempts = auto[task[t].prior].attempts
          <6>1. auto[task[t].prior] \in AutoRecord /\ t \in 0..MaxTask
              BY <4>1, PriorNames, AutoFields, BoundAssumption DEF IInv, Inherits, Task
          <6>2. PICK f : f = [auto[task[t].prior] EXCEPT !.last = t]
              OBVIOUS
          <6>3. f \in AutoRecord /\ f.attempts = auto[task[t].prior].attempts
              BY <6>1, <6>2 DEF AutoRecord
          <6> QED BY <6>2, <6>3
        <5>2. new.attempts = from.attempts
            BY <2>1, <4>1, <5>1 DEF InitialRecord, AutoRecord
        <5> QED BY <3>2, <4>1, <5>1, <5>2 DEF TakesOver, Inherits
      <4>2. CASE ~Inherits(t, s)
        <5>1. new.attempts = 0
            BY <2>1, <4>2 DEF InitialRecord, NoAuto
        <5> QED BY <3>2, <4>2, <5>1 DEF TakesOver, Inherits
      <4> QED BY <4>1, <4>2
    <3>5. new.last \in {0, t}
      <4>1. CASE Inherits(t, s)
        <5>1. auto[task[t].prior] \in AutoRecord
            BY <4>1, PriorNames, AutoFields DEF IInv, Inherits
        <5> QED BY <2>1, <4>1, <5>1 DEF InitialRecord, AutoRecord
      <4>2. CASE ~Inherits(t, s)
          BY <2>1, <4>2 DEF InitialRecord, NoAuto
      <4> QED BY <4>1, <4>2
    <3>6. RecordMoves(t)
        BY <1>2, <2>4, <3>2, <3>3, <3>4, <3>5 DEF RecordMoves, StartsRecord, Eligible
    <3> QED BY <2>2, <3>2, <3>6
  <2> QED BY <2>3, <2>4
<1> QED BY <1>1, <1>2

\* The task t alone changes, and only its status.
LEMMA StatusFields ==
    ASSUME Typed, NEW t \in Task, NEW s, task' = [task EXCEPT ![t].status = s]
    PROVE  /\ task'[t].status = s /\ task'[t].spent = task[t].spent /\ task'[t].by = task[t].by
           /\ task'[t].prior = task[t].prior
           /\ \A u \in Task : u # t => task'[u] = task[u]
BY DEF Typed, LedgerTyped, TaskRecord

LEMMA SettleMoves ==
    ASSUME IInv, NEW t \in Task, NEW s \in Settled, Settle(t, s)
    PROVE  \A u \in Task : RecordMoves(u)
<1>1. task'[t].status = s /\ task'[t].spent = task[t].spent
    BY StatusFields DEF Settle, IInv
<1> QED BY <1>1, ParkMoves DEF Settle

LEMMA SettlePartlyMoves ==
    ASSUME IInv, NEW t \in Task, NEW s \in Settled, NEW b \in BOOLEAN, SettlePartly(t, s, b)
    PROVE  \A u \in Task : RecordMoves(u)
<1>1. /\ task[t].status = "live" /\ action' = action
      /\ auto' = auto \/ auto' = WithPriorSettled(t, s)
      /\ task' = [task EXCEPT ![t].status = s]
    BY DEF SettlePartly
<1>2. task'[t].status = s /\ task'[t].spent = task[t].spent
    BY <1>1, StatusFields DEF IInv
<1>3. auto[t].state = "none"
    BY <1>1 DEF IInv, HeldOnLimit, Held, Limits
<1>4. CASE auto' = WithPriorSettled(t, s)
    BY <1>1, <1>2, <1>3, <1>4, PriorRecords
<1> QED BY <1>1, <1>4, SameRecords

LEMMA RearmMoves ==
    ASSUME IInv, Rearm
    PROVE  \A u \in Task : RecordMoves(u)
<1>1. /\ Typed /\ UNCHANGED <<task, action, followUp>> /\ cursor # 0
      /\ IF cursor <= MaxTask THEN RearmActive(cursor) ELSE RearmUnparked(cursor - MaxTask)
    BY DEF IInv, Rearm, Typed, ProcessTyped
<1>2. ASSUME NEW t \in Task, task[t].status \in Settled, Park(t, task[t].status)
      PROVE  \A u \in Task : RecordMoves(u)
  <2>1. PICK s \in Settled : s = task[t].status
      BY <1>2
  <2>2. s # "none"
      BY DEF Settled, Limits
  <2> QED BY <1>1, <1>2, <2>1, <2>2, ParkMoves
<1>3. CASE cursor > MaxTask
  <2>1. PICK t \in Task : t = cursor - MaxTask
      BY <1>1, <1>3, BoundAssumption DEF Typed, ProcessTyped, Task
  <2>2. RearmUnparked(t)
      BY <1>1, <1>3, <2>1, BoundAssumption DEF Typed, ProcessTyped
  <2> QED BY <1>2, <2>2, SameRecords DEF RearmUnparked
<1>4. CASE cursor <= MaxTask
  <2>1. PICK t \in Task : t = cursor /\ RearmActive(t)
      BY <1>1, <1>4, BoundAssumption DEF Typed, ProcessTyped, Task
  <2>2. CASE UNCHANGED auto
      BY <2>2, SameRecords
  <2>3. CASE LET u == followUp[t] IN u # 0 /\ task[u].status \in Settled /\ Park(u, task[u].status)
    <3>1. followUp[t] \in Task
        BY <1>1, <2>3, BoundAssumption DEF Typed, LedgerTyped, Task
    <3> QED BY <1>2, <2>3, <3>1
  <2>4. CASE /\ auto[t].state = "attempting" /\ action[t] = "none"
             /\ auto' = [auto EXCEPT ![t].state = "planning", ![t].attempts = GivenBack(@)]
    <3>1. PICK r : r = [auto[t] EXCEPT !.state = "planning", !.attempts = GivenBack(@)]
        OBVIOUS
    <3>2. auto[t] \in AutoRecord /\ GivenBack(auto[t].attempts) \in Nat
        BY <1>1, AutoFields DEF GivenBack
    <3>3. /\ r \in AutoRecord /\ r.state = "planning" /\ r.last = auto[t].last
          /\ r.attempts = GivenBack(auto[t].attempts)
        BY <3>1, <3>2 DEF AutoRecord, ActiveState
    <3>4. auto' = [auto EXCEPT ![t] = r]
        BY <1>1, <2>4, <3>1 DEF Typed, RecordsTyped
    <3> QED BY <1>1, <2>4, <3>3, <3>4, OpenRests
  <2> QED BY <2>1, <2>2, <2>3, <2>4 DEF RearmActive
<1> QED BY <1>1, <1>3, <1>4, BoundAssumption DEF Typed, ProcessTyped

\* An attempt that is admitted gets its follow-up, and nothing else changes.
LEMMA AckAutoMakes ==
    ASSUME IInv, NEW d \in Step, AckAuto(d), Admits(d), NEW t \in Task, t = steps[d].task
    PROVE  /\ MakesFollowUp(t) /\ auto'[t].gen = auto[t].gen
           /\ followUp'[t] \in Task /\ followUp'[t] # 0 /\ task'[followUp'[t]].status \in Unsettled
           /\ \A v \in Task : v # t => /\ auto'[v] = auto[v] /\ timer'[v] = timer[v]
                                       /\ action'[v] = action[v] /\ followUp'[v] = followUp[v]
           /\ \A v \in Task : task[v].status \in Unsettled => task'[v] = task[v]
<1>1. Typed
    BY DEF IInv
<1>2. PICK u \in Task, new \in TaskRecord :
        FollowsWith(t, u, new) /\ Acknowledge(t, u, new, [auto[t] EXCEPT !.last = u])
    BY AutoFollows
<1>3. PICK r : r = [auto[t] EXCEPT !.last = u]
    OBVIOUS
<1>4. /\ auto[t] \in AutoRecord /\ auto[t].state = "attempting" /\ action[t] = "none"
      /\ task[t].status \in Limits
    BY <1>1, AutoFields, AutoFollows
<1>5. /\ r.state = "attempting" /\ r.last = u /\ r.gen = auto[t].gen
      /\ r.attempts = auto[t].attempts /\ r.target = auto[t].target
    BY <1>3, <1>4 DEF AutoRecord
<1>6. /\ auto'[t] = r /\ \A v \in Task : v # t => auto'[v] = auto[v] /\ timer'[v] = timer[v]
    BY <1>1, <1>2, <1>3 DEF Acknowledge, Cleared, Typed, RecordsTyped
<1>7. /\ u # 0 /\ task'[u] = new /\ \A v \in Task : v # u => task'[v] = task[v]
      /\ action'[t] = "retry" /\ followUp'[t] = u
      /\ \A v \in Task : v # t => action'[v] = action[v] /\ followUp'[v] = followUp[v]
    BY <1>2, <1>4, AcknowledgeLinks
<1>8. new.status \in Unsettled /\ (task[u].status \in Unsettled => new = task[u])
    BY <1>2 DEF FollowsWith, Unsettled
<1>9. MakesFollowUp(t)
    BY <1>4, <1>5, <1>6, <1>7 DEF MakesFollowUp
<1> QED BY <1>5, <1>6, <1>7, <1>8, <1>9

LEMMA AckAutoMoves ==
    ASSUME IInv, NEW d \in Step, AckAuto(d)
    PROVE  \A t \in Task : RecordMoves(t)
<1>1. PICK t \in Task : t = steps[d].task
    BY StepFields DEF IInv
<1>2. CASE ~Admits(d)
    BY <1>2, SameRecords DEF AckAuto
<1>3. CASE Admits(d)
    BY <1>1, <1>3, AckAutoMakes DEF RecordMoves
<1> QED BY <1>2, <1>3

LEMMA AckByHandMoves ==
    ASSUME IInv, NEW t \in Task, AckByHand(t)
    PROVE  \A u \in Task : RecordMoves(u)
<1>1. Typed /\ auto[t] \in AutoRecord /\ auto[t].gen + 1 \in Nat
    BY AutoFields DEF IInv
<1>2. CASE action[t] # "none"
    BY <1>2, SameRecords DEF AckByHand
<1>3. CASE action[t] = "none"
  <2>1. auto' = [auto EXCEPT ![t] = Voided(t)]
      BY <1>3 DEF AckByHand, Acknowledge
  <2>2. CASE auto[t].state = "none"
    <3>1. auto' = auto
        BY <1>1, <2>1, <2>2 DEF Voided, Typed, RecordsTyped
    <3> QED BY <3>1, SameRecords
  <2>3. CASE auto[t].state # "none"
    <3>1. PICK r : r = [auto[t] EXCEPT !.state = "acknowledged", !.gen = @ + 1]
        OBVIOUS
    <3>2. /\ r \in AutoRecord /\ r.state = "acknowledged" /\ r.last = auto[t].last
          /\ r.attempts = auto[t].attempts
        BY <1>1, <3>1 DEF AutoRecord
    <3> QED BY <1>1, <1>3, <2>1, <2>3, <3>1, <3>2, OpenRests DEF Voided
  <2> QED BY <2>2, <2>3
<1> QED BY <1>2, <1>3

\* What the switch does to a record.
LEMMA DisabledRecord ==
    ASSUME Typed, NEW t \in Task
    PROVE  /\ Disabled(t) \in AutoRecord /\ Disabled(t).state = "cancelled" /\ ~Disabled(t).enabled
           /\ Disabled(t).last = auto[t].last /\ Disabled(t).attempts = auto[t].attempts
<1>1. PICK n \in Nat : n = IF auto[t].state = "none" THEN auto[t].gen ELSE auto[t].gen + 1
    BY AutoFields
<1>2. auto[t] \in AutoRecord
    BY AutoFields
<1>3. Disabled(t) = [auto[t] EXCEPT !.state = "cancelled", !.enabled = FALSE, !.gen = n]
    BY <1>1, <1>2 DEF Disabled, AutoRecord
<1> QED BY <1>2, <1>3 DEF AutoRecord

LEMMA DisableMoves ==
    ASSUME IInv, Unrecorded, LastKnown, NEW S \in SUBSET Task, Disable(S),
           \A t \in S : auto[t].state = "none" => Eligible(t, task[t].status)
    PROVE  \A t \in Task : RecordMoves(t)
<1>1. /\ Typed /\ UNCHANGED <<task, action, followUp>>
      /\ auto' = [t \in Task |-> IF t \in S THEN Disabled(t) ELSE auto[t]]
      /\ chain' = [u \in Task |-> IF CutOff(u, S) THEN 0 ELSE chain[u]]
    BY DEF IInv, Disable
<1>2. ASSUME NEW t \in S, t \in Task
      PROVE  RecordMoves(t)
  <2>1. /\ auto'[t].state = "cancelled" /\ auto'[t].last = auto[t].last
        /\ auto'[t].attempts = auto[t].attempts
      BY <1>1, <1>2, DisabledRecord
  <2>2. CASE auto[t].state # "none"
    <3>1. \A v \in Task : task[v].prior = t => chain'[v] = 0
        BY <1>1, <1>2 DEF CutOff
    <3> QED BY <2>1, <2>2, <3>1 DEF RecordMoves, Rests, Closes, Waiting
  <2>3. CASE auto[t].state = "none"
    <3>1. chain'[t] = 0
        BY <1>1, <1>2, <2>3 DEF CutOff
    <3>2. auto'[t].attempts = 0 /\ auto'[t].last \in {0, t}
        BY <1>2, <2>1, <2>3 DEF Unrecorded, LastKnown, Eligible
    <3> QED BY <1>1, <1>2, <2>1, <2>3, <3>1, <3>2 DEF RecordMoves, StartsRecord, TakesOver, Eligible
  <2> QED BY <2>2, <2>3
<1>3. \A t \in Task \ S : auto'[t] = auto[t]
    BY <1>1
<1> QED BY <1>2, <1>3 DEF RecordMoves

LEMMA SwitchMoves ==
    ASSUME IInv, Unrecorded, LastKnown, CancelSession \/ \E t \in Task : SwitchOff(t) \/ Cancel(t)
    PROVE  \A t \in Task : RecordMoves(t)
<1>1. CASE CancelSession
  <2>1. PICK S \in SUBSET Task : S = {t \in Task : Active(t)} /\ Disable(S)
      BY <1>1 DEF CancelSession
  <2>2. \A t \in S : auto[t].state # "none"
      BY <2>1 DEF Active, ActiveState
  <2> QED BY <2>1, <2>2, DisableMoves
<1>2. ASSUME NEW t \in Task, SwitchOff(t) \/ Cancel(t)
      PROVE  \A u \in Task : RecordMoves(u)
  <2>1. Disable({t}) /\ \A u \in {t} : auto[u].state = "none" => Eligible(u, task[u].status)
      BY <1>2 DEF SwitchOff, Cancel, Active, ActiveState
  <2> QED BY <2>1, DisableMoves
<1> QED BY <1>1, <1>2

LEMMA EnableMoves ==
    ASSUME IInv, Unrecorded, LastKnown, NEW t \in Task, Enable(t)
    PROVE  \A u \in Task : RecordMoves(u)
<1>1. Typed /\ auto[t] \in AutoRecord /\ auto[t].gen \in Nat
    BY AutoFields DEF IInv
<1>2. PICK base : base = IF auto[t].state = "none" THEN auto[t] ELSE [auto[t] EXCEPT !.gen = @ + 1]
    OBVIOUS
<1>3. base \in AutoRecord /\ base.last = auto[t].last /\ base.attempts = auto[t].attempts
  <2>1. auto[t].gen + 1 \in Nat
      BY <1>1
  <2>2. PICK x : x = [auto[t] EXCEPT !.gen = @ + 1]
      OBVIOUS
  <2>3. x \in AutoRecord /\ x.last = auto[t].last /\ x.attempts = auto[t].attempts
      BY <1>1, <2>1, <2>2 DEF AutoRecord
  <2> QED BY <1>1, <1>2, <2>2, <2>3
<1>4. PICK on : on = [base EXCEPT !.enabled = TRUE, !.target = "none",
                                  !.state = IF t \in late THEN "exhausted" ELSE "planning"]
    OBVIOUS
<1>5. /\ on \in AutoRecord /\ on.state \in {"exhausted", "planning"} /\ on.last = auto[t].last
      /\ on.attempts = auto[t].attempts
    BY <1>3, <1>4 DEF AutoRecord, ActiveState
<1>6. /\ auto' = [auto EXCEPT ![t] = on] /\ Eligible(t, task[t].status) /\ task' = task
      /\ chain' = IF auto[t].state = "none" THEN [chain EXCEPT ![t] = 0] ELSE chain
    BY <1>2, <1>4 DEF Enable
<1>7. CASE auto[t].state # "none"
    BY <1>1, <1>5, <1>6, <1>7, OpenRests DEF Eligible
<1>8. CASE auto[t].state = "none"
  <2>1. chain'[t] = 0 /\ auto[t].attempts = 0
      BY <1>1, <1>6, <1>8 DEF Unrecorded, Typed, HistoryTyped
  <2>2. auto[t].last \in {0, t}
      BY <1>6 DEF LastKnown, Eligible
  <2>3. auto'[t] = on => StartsRecord(t)
      BY <1>5, <1>6, <1>8, <2>1, <2>2 DEF StartsRecord, TakesOver, Eligible
  <2> QED BY <1>1, <1>5, <1>6, <2>3, OneRecord DEF RecordMoves
<1> QED BY <1>7, <1>8

\* Every step moves every record as described.
LEMMA RecordSteps ==
    ASSUME IInv, PInv, [Next]_vars
    PROVE  \A u \in Task : RecordMoves(u)
<1> DEFINE Moved == \A u \in Task : RecordMoves(u)
<1>1. Unrecorded /\ LastKnown
    BY DEF PInv
<1>2. ASSUME NEW t \in Task, NEW s \in Outcomes(t), NEW b \in BOOLEAN, Settle(t, s) \/ SettlePartly(t, s, b)
      PROVE  Moved
  <2>1. s \in Settled
      BY DEF Outcomes
  <2> QED BY <1>2, <2>1, SettleMoves, SettlePartlyMoves
<1>3. ASSUME NEW t \in Task, NEW d \in Step, FireAttempt(t, d) PROVE Moved
    BY <1>3, FireAttemptMoves
<1>4. ASSUME NEW t \in Task, Postpone(t) \/ AckByHand(t) \/ SwitchOff(t) \/ Cancel(t) \/ Enable(t)
      PROVE  Moved
    BY <1>1, <1>4, PostponeMoves, AckByHandMoves, SwitchMoves, EnableMoves
<1>5. ASSUME NEW d \in Step, Plan(d) \/ AckAuto(d) PROVE Moved
    BY <1>5, PlanMoves, AckAutoMoves
<1>6. ASSUME NEW d \in Step, NEW answer \in HostAnswer, Answer(d, answer) PROVE Moved
    BY <1>6, AnswerMoves
<1>7. CancelSession \/ Rearm => Moved
    BY <1>1, SwitchMoves, RearmMoves
<1>8. UNCHANGED auto => Moved
    BY SameRecords
<1> HIDE DEF Moved
<1>9. ASSUME NEW t \in Task, \/ Launch(t) \/ AckByHandRefused(t) \/ Expire(t) \/ CancelQueued(t)
                             \/ Request(t, "user") \/ Request(t, "handoff")
                             \/ DisableFails(t) \/ AttemptFails(t)
      PROVE  Moved
    BY <1>8, <1>9 DEF Launch, AckByHandRefused, Expire, CancelQueued, Request, DisableFails, AttemptFails, ledger
<1>10. ASSUME NEW d \in Step, Ask(d) \/ AckRefused(d) \/ StepFails(d) \/ \E t \in Task : FirePlan(t, d)
       PROVE  Moved
    BY <1>8, <1>10 DEF Ask, AckRefused, StepFails, FirePlan, ledger
<1>11. Dispatch \/ Crash \/ Restart \/ BeginRearm \/ UNCHANGED vars => Moved
    BY <1>8 DEF Dispatch, Crash, Restart, BeginRearm, ledger, vars
<1>12. Moved
    BY <1>2, <1>3, <1>4, <1>5, <1>6, <1>7, <1>9, <1>10, <1>11
    DEF Next, Settles, AcksByHand, Asked, Acks, People, Failures
<1> QED BY <1>12 DEF Moved

-----------------------------------------------------------------------------
(* What holds of every record *)

LEMMA StartedSteps ==
    ASSUME Typed, [Next]_vars
    PROVE  StartedGoes
<1>1. UNCHANGED steps => StartedGoes
    BY DEF StartedGoes
<1>2. \A f : Kept(f) /\ Stays(f) /\ steps' = f => StartedGoes
    BY DEF Stays, StartedGoes
<1>3. ASSUME NEW t \in Task, \/ Launch(t) \/ Settles(t) \/ Postpone(t) \/ Expire(t) \/ CancelQueued(t)
                             \/ Request(t, "user") \/ Request(t, "handoff")
                             \/ DisableFails(t) \/ AttemptFails(t)
      PROVE  StartedGoes
    BY <1>1, <1>3 DEF Launch, Settles, Settle, Postpone, Expire, CancelQueued, Request, DisableFails,
                      AttemptFails, volatile
<1>4. ASSUME NEW t \in Task, NEW s \in Outcomes(t), NEW b \in BOOLEAN, SettlePartly(t, s, b)
      PROVE  StartedGoes
  <2>1. PowerOff => StartedGoes
      BY DEF PowerOff, StartedGoes, NoStep
  <2> QED BY <1>1, <1>4, <2>1 DEF SettlePartly, volatile
<1>5. ASSUME NEW t \in Task, NEW d \in Step, FirePlan(t, d) \/ FireAttempt(t, d)
      PROVE  StartedGoes
  <2>1. Free(d) /\ (steps' = steps \/ \E x : steps' = [steps EXCEPT ![d] = x])
      BY <1>5 DEF FirePlan, FireAttempt
  <2> QED BY <1>1, <2>1, BegunGoes
<1>6. ASSUME NEW d \in Step, Plan(d) \/ StepFails(d) \/ \E answer \in HostAnswer : Answer(d, answer)
      PROVE  StartedGoes
    BY <1>6, EndedGoes DEF Plan, StepFails, Answer
<1>7. ASSUME NEW d \in Step, Ask(d) \/ AckAuto(d) \/ AckRefused(d)
      PROVE  StartedGoes
  <2>1. PICK t \in Task : t = steps[d].task
      BY StepFields
  <2>2. CASE Ask(d)
    <3>1. PICK pc \in {"acking", "joined", "started"} : steps' = [steps EXCEPT ![d].pc = pc]
        BY <2>2 DEF Ask, To
    <3> QED BY <1>2, <2>2, <3>1, SameStays, MovedKept, MovedStays DEF Ask
  <2>3. CASE AckAuto(d)
      BY <1>2, <2>1, <2>3, ToldKept, ToldStays, MovedKept, MovedStays DEF AckAuto
  <2>4. CASE AckRefused(d)
      BY <1>2, <2>1, <2>4, ToldKept, ToldStays, MovedKept, MovedStays DEF AckRefused
  <2> QED BY <1>7, <2>2, <2>3, <2>4
<1>8. ASSUME NEW f, NEW S, Kept(f), Stays(f), steps' = Outdated(f, S)
      PROVE  StartedGoes
    BY <1>8, OutdatedStays DEF Stays, StartedGoes
<1>9. ASSUME NEW t \in Task, AckByHand(t) \/ AckByHandRefused(t)
      PROVE  StartedGoes
    BY <1>2, <1>8, <1>9, ToldKept, ToldStays DEF AckByHand, AckByHandRefused
<1>10. ASSUME CancelSession \/ \E t \in Task : SwitchOff(t) \/ Cancel(t) \/ Enable(t)
       PROVE  StartedGoes
    BY <1>8, <1>10, SameStays DEF CancelSession, SwitchOff, Cancel, Disable, Enable, Decides
<1>11. Crash => StartedGoes
    BY DEF Crash, PowerOff, StartedGoes, NoStep
<1>12. Dispatch \/ Restart \/ BeginRearm \/ Rearm \/ UNCHANGED vars => StartedGoes
    BY <1>1 DEF Dispatch, Restart, BeginRearm, Rearm, vars, volatile
<1> HIDE DEF StartedGoes
<1> QED BY <1>3, <1>4, <1>5, <1>6, <1>7, <1>9, <1>10, <1>11, <1>12
    DEF Next, AcksByHand, Asked, Acks, People, Failures

\* An envelope once disposed of stays so, and keeps the follow-up it names.
LEMMA EnvelopeKept ==
    ASSUME IInv, [Next]_vars, NEW t \in Task, action[t] # "none"
    PROVE  action'[t] = action[t] /\ followUp'[t] = followUp[t]
<1>1. Typed
    BY DEF IInv
<1>2. ASSUME NEW d \in Step, AckAuto(d), Admits(d)
      PROVE  action'[t] = action[t] /\ followUp'[t] = followUp[t]
  <2>1. PICK u \in Task : u = steps[d].task
      BY <1>1, StepFields
  <2>2. action[u] = "none" /\ \A v \in Task : v # u => action'[v] = action[v] /\ followUp'[v] = followUp[v]
      BY <1>2, <2>1, AckAutoMakes, AutoFollows
  <2> QED BY <2>2
<1>3. ASSUME NEW u \in Task, AckByHand(u), action[u] = "none"
      PROVE  action'[t] = action[t] /\ followUp'[t] = followUp[t]
  <2>1. /\ \E a : action' = [action EXCEPT ![u] = a]
        /\ followUp' = followUp \/ \E v : followUp' = [followUp EXCEPT ![u] = v]
      BY <1>3, HandFollows DEF Acknowledge
  <2> QED BY <1>1, <1>3, <2>1 DEF Typed, LedgerTyped
<1>4. Dispatch => UNCHANGED <<action, followUp>>
    BY DEF Dispatch
<1> QED BY <1>2, <1>3, <1>4, LedgerSteps

\* A task that has settled does not change any more.
LEMMA SettledKept ==
    ASSUME IInv, [Next]_vars, NEW v \in Task, task[v].status \in Settled
    PROVE  task'[v] = task[v]
<1>1. task \in [Task -> TaskRecord] /\ task[v].status \notin Unsettled \cup {"none"}
    BY DEF IInv, Typed, LedgerTyped, Settled, Limits, Unsettled
<1>2. ASSUME NEW t \in Task, NEW u \in Task, NEW new \in TaskRecord, FollowsWith(t, u, new),
             NEW record, Acknowledge(t, u, new, record)
      PROVE  task'[v] = task[v]
    BY <1>1, <1>2 DEF Acknowledge, FollowsWith
<1>3. ASSUME NEW d \in Step, AckAuto(d), Admits(d)
      PROVE  task'[v] = task[v]
  <2>1. PICK t \in Task : t = steps[d].task
      BY StepFields DEF IInv
  <2>2. PICK u \in Task, new \in TaskRecord :
          FollowsWith(t, u, new) /\ Acknowledge(t, u, new, [auto[t] EXCEPT !.last = u])
      BY <1>3, <2>1, AutoFollows
  <2> QED BY <1>2, <2>2
<1>4. ASSUME NEW t \in Task, AckByHand(t), action[t] = "none"
      PROVE  task'[v] = task[v]
    BY <1>2, <1>4, HandFollows
<1>5. Dispatch => task'[v] = task[v]
    BY <1>1 DEF Dispatch, NewTask
<1>6. ASSUME NEW t \in Task, NEW s, task[t].status \in Unsettled, task' = [task EXCEPT ![t].status = s]
      PROVE  task'[v] = task[v]
    BY <1>1, <1>6
<1> QED BY <1>3, <1>4, <1>5, <1>6, LedgerSteps

\* An envelope is disposed of once: by the attempt whose follow-up it now
\* names, or by a person, and then the record is not active.
LEMMA Disposals ==
    ASSUME IInv, [Next]_vars, NEW t \in Task, action'[t] # "none"
    PROVE  \/ action[t] # "none" /\ action'[t] = action[t] /\ followUp'[t] = followUp[t]
           \/ auto'[t].state \notin ActiveState
           \/ /\ followUp'[t] # 0
              /\ \E d \in Step : AckAuto(d) /\ Admits(d) /\ steps[d].task = t
<1>1. Typed
    BY DEF IInv
<1>2. CASE UNCHANGED <<action, followUp>>
    BY <1>2
<1>3. ASSUME NEW d \in Step, AckAuto(d), Admits(d)
      PROVE  \/ action[t] # "none" /\ action'[t] = action[t] /\ followUp'[t] = followUp[t]
             \/ followUp'[t] # 0 /\ steps[d].task = t
  <2>1. PICK u \in Task : u = steps[d].task
      BY <1>1, StepFields
  <2>2. /\ followUp'[u] # 0
        /\ \A v \in Task : v # u => action'[v] = action[v] /\ followUp'[v] = followUp[v]
      BY <1>3, <2>1, AckAutoMakes
  <2> QED BY <2>1, <2>2
<1>4. ASSUME NEW u \in Task, AckByHand(u), action[u] = "none"
      PROVE  \/ action[t] # "none" /\ action'[t] = action[t] /\ followUp'[t] = followUp[t]
             \/ auto'[t].state \notin ActiveState
  <2>1. /\ auto' = [auto EXCEPT ![u] = Voided(u)]
        /\ \E a : action' = [action EXCEPT ![u] = a]
        /\ followUp' = followUp \/ \E v : followUp' = [followUp EXCEPT ![u] = v]
      BY <1>4, HandFollows DEF Acknowledge
  <2>2. CASE t = u
    <3>1. Voided(t).state \notin ActiveState
      <4>1. auto[t] \in AutoRecord
          BY <1>1, AutoFields
      <4> QED BY <4>1 DEF Voided, ActiveState, AutoRecord
    <3>2. auto'[t] = Voided(t)
        BY <1>1, <2>1, <2>2 DEF Typed, RecordsTyped
    <3> QED BY <3>1, <3>2
  <2>3. CASE t # u
      BY <1>1, <2>1, <2>3 DEF Typed, LedgerTyped
  <2> QED BY <2>2, <2>3
<1>5. Dispatch => UNCHANGED <<action, followUp>>
    BY DEF Dispatch
<1> QED BY <1>2, <1>3, <1>4, <1>5, LedgerSteps

\* The records keep what PInv says of each.
LEMMA RecordsKept ==
    ASSUME IInv, PInv, IInv', [Next]_vars
    PROVE  Targeted' /\ Unrecorded' /\ WaitsForOwn' /\ ToldStarted' /\ LastKnown'
<1>1. /\ Typed /\ Targeted /\ Unrecorded /\ WaitsForOwn /\ ToldStarted /\ LastKnown /\ StepsKnown /\ OneAttempt
      /\ \A t \in Task : RecordMoves(t)
    BY RecordSteps DEF IInv, PInv
<1>2. AutoGoes /\ StepsGo /\ twice \subseteq twice'
    BY StepMoves DEF Moves
<1>3. Targeted'
  <2> SUFFICES ASSUME NEW t \in Task, auto'[t].state \in {"scheduled", "attempting"}
               PROVE  auto'[t].target # "none"
      BY DEF Targeted
  <2>1. RecordMoves(t) /\ (auto[t].state \in {"scheduled", "attempting"} => auto[t].target # "none")
      BY <1>1 DEF Targeted
  <2> QED BY <2>1 DEF RecordMoves, BeginsAttempt, MakesFollowUp, Rests, StartsRecord
<1>4. Unrecorded'
    BY <1>1 DEF Unrecorded, RecordMoves, BeginsAttempt, MakesFollowUp, Rests, StartsRecord
<1>5. ASSUME NEW t \in Task, action[t] # "none", t \notin twice', auto'[t].state \in ActiveState
      PROVE  auto'[t] = auto[t]
  <2>1. RecordMoves(t)
      BY <1>1
  <2> QED BY <1>5, <2>1
      DEF RecordMoves, BeginsAttempt, MakesFollowUp, Rests, Closes, StartsRecord, ActiveState, Waiting
<1>6. ASSUME NEW d \in Step, AckAuto(d), Admits(d), NEW t \in Task, t = steps[d].task
      PROVE  MakesFollowUp(t) /\ auto'[t].gen = auto[t].gen
    BY <1>6, AckAutoMakes
<1>7. WaitsForOwn'
  <2> SUFFICES ASSUME NEW t \in Task, Active(t)', action'[t] # "none", t \notin twice'
               PROVE  auto'[t].state = "attempting" /\ followUp'[t] # 0 /\ auto'[t].last = followUp'[t]
      BY DEF WaitsForOwn
  <2>1. CASE action[t] # "none" /\ action'[t] = action[t] /\ followUp'[t] = followUp[t]
    <3>1. auto'[t] = auto[t] /\ t \notin twice
        BY <1>2, <1>5, <2>1 DEF Active
    <3>2. Active(t)
        BY <3>1, Zenon DEF Active
    <3> QED BY <1>1, <2>1, <3>1, <3>2 DEF WaitsForOwn
  <2>2. CASE /\ followUp'[t] # 0
             /\ \E d \in Step : AckAuto(d) /\ Admits(d) /\ steps[d].task = t
      BY <1>6, <2>2 DEF MakesFollowUp
  <2> QED BY <2>1, <2>2, Disposals DEF Active
<1>8. ToldStarted'
  <2> SUFFICES ASSUME NEW d \in Step, NEW t, t = steps'[d].task, Attempting(d)', steps'[d].gen = auto'[t].gen,
                      t \notin twice', auto'[t].state = "attempting", action'[t] # "none"
               PROVE  steps'[d].pc = "started"
      BY DEF ToldStarted
  <2>1. t \in Task /\ t \notin twice
      BY <1>2 DEF IInv, Typed, StepsTyped, StepRecord
  <2>2. StartedGoes /\ steps'[d].pc # "idle"
      BY <1>1, StartedSteps DEF Attempting
  <2>3. CASE action[t] # "none"
    <3>1. auto'[t] = auto[t]
        BY <1>5, <2>1, <2>3 DEF ActiveState
    <3>2. Continued(d)
      <4>1. ~Begun(d)
          BY <3>1 DEF Begun, Attempting, Waiting
      <4> QED BY <1>2, <4>1 DEF StepsGo
    <3>3. Attempting(d) /\ steps[d].task = t /\ steps[d].gen = auto[t].gen
        BY <3>1, <3>2 DEF Continued, Attempting
    <3>4. steps[d].pc = "started"
        BY <1>1, <2>1, <2>3, <3>1, <3>3 DEF ToldStarted
    <3> QED BY <2>2, <3>4 DEF StartedGoes
  <2>4. ASSUME NEW e \in Step, AckAuto(e), Admits(e), steps[e].task = t
        PROVE  steps'[d].pc = "started"
    <3>1. MakesFollowUp(t) /\ Attempting(e) /\ steps[e].gen = auto[t].gen
        BY <1>6, <2>1, <2>4 DEF AckAuto, Attempting, Admits, Current
    <3>2. PICK f : f = Told(t, "started")
        OBVIOUS
    <3>3. Kept(f) /\ Stays(f) /\ steps' = [f EXCEPT ![e].pc = "started"] /\ steps[e].pc = "acking"
        BY <1>1, <2>1, <2>4, <3>2, ToldKept, ToldStays DEF AckAuto
    <3>4. Kept(steps') /\ Stays(steps')
        BY <1>1, <3>3, MovedKept, MovedStays
    <3>5. Attempting(d) /\ steps[d].task = t /\ steps[d].gen = steps'[d].gen
        BY <3>4 DEF Kept, Stays, Attempting
    <3>6. auto[t].gen = auto'[t].gen
        BY <1>6, <2>1, <2>4
    <3>7. d = e
        BY <1>1, <2>1, <2>4, <3>1, <3>5, <3>6 DEF OneAttempt
    <3>8. steps'[e].pc = "started"
        BY <3>3 DEF Kept, StepRecord
    <3> QED BY <3>7, <3>8
  <2> QED BY <2>1, <2>3, <2>4, Disposals DEF ActiveState
<1>9. LastKnown'
  <2> SUFFICES ASSUME NEW t \in Task, action'[t] # "retry"
               PROVE  auto'[t].last \in {0, t}
      BY DEF LastKnown
  <2>1. action[t] # "retry" /\ auto[t].last \in {0, t}
      BY <1>1, EnvelopeKept DEF LastKnown
  <2>2. RecordMoves(t)
      BY <1>1
  <2> QED BY <2>1, <2>2 DEF RecordMoves, BeginsAttempt, MakesFollowUp, Rests, StartsRecord
<1> QED BY <1>3, <1>4, <1>7, <1>8, <1>9

-----------------------------------------------------------------------------
(* What drives a record goes on *)

Undisturbed(t) ==
    /\ auto'[t] = auto[t] /\ action'[t] = action[t] /\ followUp'[t] = followUp[t]
    /\ TimerDrives(t) => timer'[t] = timer[t]
    /\ \A d \in Step : StepDrives(d, t) => /\ For(d, t)'
                                           /\ steps'[d].pc = "plan" <=> steps[d].pc = "plan"
    /\ FollowUpDrives(t) => task'[followUp[t]].status \in Unsettled

\* Every record that is to be driven was and is left alone, or has a driver.
KeepsPromises ==
    \A t \in Task : Active(t)' /\ ~GivenUp(t)' /\ Rearmed(t)' =>
        Engaged(t)' \/ (Rearmed(t) /\ t \notin lost /\ Undisturbed(t))

LEMMA StaysEngaged ==
    ASSUME NEW t \in Task, Engaged(t), Undisturbed(t)
    PROVE  Engaged(t)'
<1>1. CASE TimerDrives(t)
    BY <1>1 DEF Undisturbed, TimerDrives, Engaged
<1>2. ASSUME NEW d \in Step, StepDrives(d, t)
      PROVE  Engaged(t)'
  <2>1. StepDrives(d, t)'
      BY <1>2 DEF Undisturbed, StepDrives, For, Attempting
  <2> QED BY <2>1 DEF Engaged
<1>3. CASE FollowUpDrives(t)
    BY <1>3 DEF Undisturbed, FollowUpDrives, Engaged
<1> QED BY <1>1, <1>2, <1>3 DEF Engaged

\* An envelope keeps the follow-up it names, and that its record.
LEMMA OrphansStay ==
    ASSUME IInv, [Next]_vars, NEW t \in Task, Orphaned(t)
    PROVE  Orphaned(t)'
<1>1. /\ Typed /\ AutoGoes /\ followUp[t] # 0 /\ auto[followUp[t]].state # "none" /\ action[t] = "retry"
    BY StepMoves DEF IInv, Moves, Orphaned, Linked
<1>2. followUp[t] \in Task /\ followUp'[t] = followUp[t]
    BY <1>1, EnvelopeKept, BoundAssumption DEF Typed, LedgerTyped, Task
<1> QED BY <1>1, <1>2 DEF AutoGoes, Orphaned

LEMMA CollapsedStay ==
    ASSUME IInv, [Next]_vars, NEW t \in Task, Collapsed(t)
    PROVE  Collapsed(t)'
<1>1. /\ Typed /\ followUp[t] # 0 /\ action[t] = "retry" /\ task[followUp[t]].status \in Settled
      /\ task[followUp[t]].prior # t
    BY DEF IInv, Collapsed, Linked
<1>2. followUp[t] \in Task /\ followUp'[t] = followUp[t]
    BY <1>1, EnvelopeKept, BoundAssumption DEF Typed, LedgerTyped, Task
<1>3. task'[followUp[t]] = task[followUp[t]]
    BY <1>1, <1>2, SettledKept
<1> QED BY <1>1, <1>2, <1>3 DEF Collapsed

LEMMA PromisesKept ==
    ASSUME IInv, PInv, [Next]_vars, KeepsPromises
    PROVE  RearmedEngaged'
<1> SUFFICES ASSUME NEW t \in Task, Active(t)', ~GivenUp(t)', Rearmed(t)', ~Engaged(t)'
             PROVE  FALSE
    BY DEF RearmedEngaged
<1>1. Rearmed(t) /\ t \notin lost /\ Undisturbed(t)
    BY DEF KeepsPromises
<1>2. ~GivenUp(t)
  <2>1. t \notin twice
      BY StepMoves DEF Moves, GivenUp
  <2>2. ~Orphaned(t)
      BY OrphansStay DEF GivenUp
  <2>3. ~Collapsed(t)
      BY CollapsedStay DEF GivenUp
  <2> QED BY <1>1, <2>1, <2>2, <2>3 DEF GivenUp
<1>3. Active(t)
    BY <1>1, Zenon DEF Undisturbed, Active
<1>4. Engaged(t)
    BY <1>1, <1>2, <1>3 DEF PInv, RearmedEngaged
<1> QED BY <1>1, <1>4, StaysEngaged

\* While the process goes on it is enough to look at what is not given up.
LEMMA Calmly ==
    ASSUME UNCHANGED process, lost \subseteq lost',
           \A t \in Task : Active(t)' /\ t \notin lost' \cup twice' /\ ~Collapsed(t)'
                             => Engaged(t)' \/ Undisturbed(t)
    PROVE  KeepsPromises
BY DEF KeepsPromises, Rearmed, GivenUp, process

\* Nothing of the record is touched but the place of an attempt.
LEMMA LeftAlone ==
    ASSUME NEW t \in Task, Stays(steps'), timer'[t] = timer[t],
           auto'[t] = auto[t], action'[t] = action[t], followUp'[t] = followUp[t],
           FollowUpDrives(t) => task'[followUp[t]].status \in Unsettled
    PROVE  Undisturbed(t)
BY DEF Undisturbed, Stays, StepDrives, For

LEMMA SameDrivers ==
    ASSUME UNCHANGED <<task, action, followUp, auto, timer, process>>, Stays(steps'), lost \subseteq lost'
    PROVE  KeepsPromises
<1>1. \A t \in Task : Undisturbed(t)
    BY LeftAlone DEF FollowUpDrives
<1> QED BY <1>1, Calmly

\* The task t has settled, and no other task changes.
Ends(t) == /\ task'[t].status \in Settled /\ task'[t].prior = task[t].prior
           /\ \A u \in Task : u # t => task'[u] = task[u]

\* The follow-up of a record goes on unless it is the task t.
LEMMA FollowUpOthers ==
    ASSUME IInv, PInv, NEW t \in Task, Ends(t), UNCHANGED followUp,
           NEW v \in Task, Active(v), v \notin twice, FollowUpDrives(v), ~Collapsed(v)',
           ~(Continues(t) /\ v = task[t].prior)
    PROVE  task'[followUp[v]].status \in Unsettled
<1>1. /\ followUp[v] \in Task /\ action[v] # "none" /\ WaitsForOwn
      /\ auto[v].state = "attempting" /\ task[followUp[v]].status \in Unsettled
    BY BoundAssumption DEF IInv, PInv, Typed, LedgerTyped, Linked, FollowUpDrives, Task
<1>2. CASE followUp[v] = t
  <2>1. t # 0 /\ auto[v].last = t
      BY <1>1, <1>2, BoundAssumption DEF WaitsForOwn, Task
  <2>2. task[t].prior = v /\ v # 0
      BY <1>2, <2>1, BoundAssumption DEF Ends, Collapsed, Task
  <2> QED BY <1>1, <2>1, <2>2 DEF Continues
<1> QED BY <1>1, <1>2 DEF Ends

\* A step that leaves the records and timers of all others alone, while t
\* settles.
LEMMA OthersUndisturbed ==
    ASSUME IInv, PInv, NEW t \in Task, Ends(t), UNCHANGED <<action, followUp, steps>>,
           NEW v \in Task, Active(v)', v \notin twice, auto'[v] = auto[v], timer'[v] = timer[v],
           ~Collapsed(v)', ~(Continues(t) /\ v = task[t].prior)
    PROVE  Undisturbed(v)
<1>1. Active(v)
    BY Zenon DEF Active
<1>2. Stays(steps')
    BY DEF Stays
<1> QED BY <1>1, <1>2, FollowUpOthers, LeftAlone

LEMMA LaunchPromises ==
    ASSUME IInv, PInv, NEW t \in Task, Launch(t)
    PROVE  KeepsPromises
<1>1. /\ Typed /\ UNCHANGED <<action, followUp, auto, timer, steps, process, history>>
      /\ \A u \in Task : task'[u] = task[u] \/ task'[u].status = "live"
    BY DEF IInv, Launch, Typed, LedgerTyped, TaskRecord, volatile
<1>2. ASSUME NEW v \in Task, FollowUpDrives(v)
      PROVE  task'[followUp[v]].status \in Unsettled
  <2>1. followUp[v] \in Task /\ task[followUp[v]].status \in Unsettled
      BY <1>1, <1>2, BoundAssumption DEF Typed, LedgerTyped, Task, FollowUpDrives
  <2> QED BY <1>1, <2>1 DEF Unsettled
<1>3. Stays(steps')
    BY <1>1 DEF Stays
<1>4. \A v \in Task : Undisturbed(v)
    BY <1>1, <1>2, <1>3, LeftAlone
<1> QED BY <1>1, <1>4, Calmly DEF history

\* Parking a result starts its planning timer, and closes the record that
\* waited for it.
LEMMA ParkPromises ==
    ASSUME IInv, PInv, NEW t \in Task, NEW s, Park(t, s), auto[t].state = "none",
           Ends(t), UNCHANGED <<action, followUp, steps>>,
           NEW v \in Task, Active(v)', v \notin twice, ~Collapsed(v)'
    PROVE  \/ Engaged(v)'
           \/ Undisturbed(v) /\ ~(Continues(t) /\ v = task[t].prior)
<1> DEFINE parks == Eligible(t, s)
           new == InitialRecord(t, s)
           before == WithPriorSettled(t, s)
<1>1. /\ auto' = IF parks THEN [before EXCEPT ![t] = new] ELSE before
      /\ timer' = [u \in Task |->
                     IF Continues(t) /\ u = task[t].prior THEN NoTimer
                     ELSE IF u = t /\ parks /\ new.enabled THEN [kind |-> "plan", gen |-> new.gen]
                     ELSE timer[u]]
    BY DEF Park
<1>2. new \in AutoRecord /\ new.state = "planning"
    BY RecordStarts DEF IInv
<1>3. before \in [Task -> AutoRecord] /\ before[t] = auto[t]
    BY PriorSettled DEF IInv
<1>4. Continues(t) => /\ task[t].prior \in Task /\ task[t].prior # t
                      /\ before[task[t].prior].state \in {"succeeded", "superseded", "ended"}
                      /\ \A u \in Task : u # task[t].prior => before[u] = auto[u]
  <2> SUFFICES ASSUME Continues(t), NEW p, p = task[t].prior
               PROVE  /\ p \in Task /\ p # t
                      /\ before[p].state \in {"succeeded", "superseded", "ended"}
                      /\ \A u \in Task : u # p => before[u] = auto[u]
      OBVIOUS
  <2>1. p \in Task /\ p # t
      BY ContinuedPrior DEF IInv
  <2>2. PICK x \in {"succeeded", "superseded", "ended"} : before = [auto EXCEPT ![p].state = x]
      BY DEF WithPriorSettled
  <2> QED BY <2>1, <2>2 DEF IInv, Typed, RecordsTyped, AutoRecord
<1>5. ~Continues(t) => before = auto
    BY DEF WithPriorSettled
<1> HIDE DEF parks, new, before
<1>6. CASE v = t
  <2>1. auto'[t] = new /\ parks
      BY <1>1, <1>2, <1>3, <1>6 DEF Active, ActiveState
  <2>2. new.enabled
      BY <1>6, <2>1, Zenon DEF Active
  <2>3. timer'[t] = [kind |-> "plan", gen |-> new.gen]
      BY <1>1, <1>4, <2>1, <2>2
  <2>4. TimerDrives(t)'
      BY <1>2, <2>1, <2>3 DEF TimerDrives, Waiting
  <2> QED BY <1>6, <2>4 DEF Engaged
<1>7. CASE Continues(t) /\ v = task[t].prior
    BY <1>1, <1>3, <1>4, <1>7 DEF Active, ActiveState
<1>8. CASE v # t /\ ~(Continues(t) /\ v = task[t].prior)
  <2>1. auto'[v] = auto[v] /\ timer'[v] = timer[v]
      BY <1>1, <1>3, <1>4, <1>5, <1>8
  <2> QED BY <1>8, <2>1, OthersUndisturbed
<1> QED BY <1>6, <1>7, <1>8

LEMMA SettlePromises ==
    ASSUME IInv, PInv, NEW t \in Task, NEW s \in Settled, Settle(t, s)
    PROVE  KeepsPromises
<1>1. /\ Park(t, s) /\ UNCHANGED <<action, followUp, steps, process, history>>
      /\ auto[t].state = "none"
    BY DEF Settle, IInv, HeldOnLimit, Held, Limits
<1>2. Ends(t)
    BY StatusFields DEF Settle, IInv, Ends
<1>3. \A v \in Task : Active(v)' /\ v \notin lost' \cup twice' /\ ~Collapsed(v)'
                        => Engaged(v)' \/ Undisturbed(v)
    BY <1>1, <1>2, ParkPromises DEF history
<1> QED BY <1>1, <1>3, Calmly DEF history

LEMMA SettlePartlyPromises ==
    ASSUME IInv, PInv, NEW t \in Task, NEW s \in Settled, NEW b \in BOOLEAN, SettlePartly(t, s, b)
    PROVE  KeepsPromises
<1>1. CASE PowerOff
    BY <1>1 DEF PowerOff, KeepsPromises, Rearmed
<1>2. CASE /\ lost' = lost \cup {t} \cup (IF Continues(t) THEN {task[t].prior} ELSE {})
           /\ UNCHANGED <<volatile, process>>
  <2>1. /\ auto' = auto \/ auto' = WithPriorSettled(t, s)
        /\ UNCHANGED <<action, followUp, timer, steps>> /\ twice' = twice
      BY <1>2 DEF SettlePartly, volatile
  <2>2. Ends(t)
      BY StatusFields DEF SettlePartly, IInv, Ends
  <2>3. ASSUME NEW v \in Task, Active(v)', v \notin lost' \cup twice', ~Collapsed(v)'
        PROVE  Undisturbed(v)
    <3>1. v \notin twice /\ v # t /\ ~(Continues(t) /\ v = task[t].prior)
        BY <1>2, <2>1, <2>3
    <3>2. auto'[v] = auto[v]
      <4>1. CASE Continues(t)
        <5>1. WithPriorSettled(t, s)[v] = auto[v]
            BY <3>1, <4>1, ContinuedPrior DEF IInv, Typed, RecordsTyped, WithPriorSettled
        <5> QED BY <2>1, <5>1
      <4>2. CASE ~Continues(t)
          BY <2>1, <4>2 DEF WithPriorSettled
      <4> QED BY <4>1, <4>2
    <3> QED BY <2>1, <2>2, <2>3, <3>1, <3>2, OthersUndisturbed
  <2> QED BY <1>2, <2>3, Calmly
<1> QED BY <1>1, <1>2 DEF SettlePartly

LEMMA CancelQueuedPromises ==
    ASSUME IInv, PInv, NEW t \in Task, CancelQueued(t)
    PROVE  KeepsPromises
<1>1. /\ UNCHANGED <<action, followUp, auto, timer, steps, process, twice>> /\ lost \subseteq lost'
      /\ Continues(t) => task[t].prior \in lost'
    BY DEF CancelQueued, volatile
<1>2. Ends(t)
  <2>1. "ended" \in Settled
      BY DEF Settled
  <2> QED BY <2>1, StatusFields DEF CancelQueued, IInv, Ends
<1>3. \A v \in Task : Active(v)' /\ v \notin lost' \cup twice' /\ ~Collapsed(v)' => Undisturbed(v)
    BY <1>1, <1>2, OthersUndisturbed
<1> QED BY <1>1, <1>3, Calmly

\* A step of the system that is about the record of t alone.
LEMMA ApartFrom ==
    ASSUME NEW t \in Task, UNCHANGED <<task, action, followUp, process>>, lost \subseteq lost',
           \A u \in Task : u # t => auto'[u] = auto[u] /\ timer'[u] = timer[u],
           \A e \in Step : steps[e].pc # "idle" /\ steps[e].task # t => steps'[e] = steps[e],
           Active(t)' /\ t \notin lost' \cup twice' => Engaged(t)' \/ Undisturbed(t)
    PROVE  KeepsPromises
<1>1. ASSUME NEW v \in Task, v # t
      PROVE  Undisturbed(v)
    BY <1>1 DEF Undisturbed, StepDrives, For, FollowUpDrives
<1> QED BY <1>1, Calmly

\* The record of t takes a step of its own, and a timer is armed for it.
LEMMA GoesPromises ==
    ASSUME Typed, NEW t \in Task, NEW r \in AutoRecord, NEW next, Goes(t, r, next),
           r.gen = auto[t].gen,
           \/ r.state = "exhausted"
           \/ r.state = "planning" /\ next = "plan"
           \/ r.state = "scheduled" /\ next = "attempt",
           UNCHANGED <<task, action, followUp, process, lost>>,
           \A e \in Step : steps[e].pc # "idle" /\ steps[e].task # t => steps'[e] = steps[e]
    PROVE  KeepsPromises
<1>1. /\ auto'[t] = r /\ \A u \in Task : u # t => auto'[u] = auto[u] /\ timer'[u] = timer[u]
      /\ next \in {"plan", "attempt"} => timer'[t] = [kind |-> next, gen |-> auto[t].gen]
    BY DEF Goes, Typed, RecordsTyped, Cleared, Armed
<1>2. CASE r.state = "exhausted"
    BY <1>1, <1>2, ApartFrom DEF Active, ActiveState
<1>3. CASE r.state \in Waiting
  <2>1. TimerDrives(t)'
      BY <1>1, <1>3 DEF TimerDrives, Waiting
  <2> QED BY <1>1, <2>1, ApartFrom DEF Engaged
<1> QED BY <1>2, <1>3 DEF Waiting

\* A step of t ends; the others of t and its timer are left.
LEMMA EndedPromises ==
    ASSUME Typed, NEW d \in Step, NEW t \in Task, t = steps[d].task, steps' = Ended(d),
           UNCHANGED <<task, action, followUp, auto, timer, process>>, lost \subseteq lost',
           Active(t) /\ t \notin lost' \cup twice' => ~StepDrives(d, t)
    PROVE  KeepsPromises
<1>1. \A e \in Step : e # d => steps'[e] = steps[e]
    BY EndedStep
<1>2. Active(t)' => Active(t)
    BY Zenon DEF Active
<1>3. ASSUME ~StepDrives(d, t)
      PROVE  Undisturbed(t)
    BY <1>1, <1>3 DEF Undisturbed, StepDrives, For, FollowUpDrives
<1> QED BY <1>1, <1>2, <1>3, ApartFrom

\* A record that waits and is active is open.
LEMMA WaitingOpen ==
    ASSUME PInv, NEW t \in Task, Active(t), auto[t].state \in Waiting, t \notin twice
    PROVE  action[t] = "none"
BY DEF PInv, WaitsForOwn, Waiting

LEMMA FirePlanPromises ==
    ASSUME IInv, PInv, NEW t \in Task, NEW d \in Step, FirePlan(t, d)
    PROVE  KeepsPromises
<1>1. /\ Typed /\ UNCHANGED <<task, action, followUp, auto, process, history>> /\ Free(d)
      /\ timer' = Cleared(t) /\ timer[t].kind = "plan"
    BY DEF IInv, FirePlan, ledger
<1>2. \A u \in Task : u # t => auto'[u] = auto[u] /\ timer'[u] = timer[u]
    BY <1>1 DEF Cleared, Typed, RecordsTyped
<1>3. \A e \in Step : steps[e].pc # "idle" => steps'[e] = steps[e]
    BY <1>1 DEF FirePlan, Free, Typed, StepsTyped
<1>4. Active(t)' => Active(t)
    BY <1>1, Zenon DEF Active
<1>5. CASE Active(t) /\ auto[t].gen = timer[t].gen /\ auto[t].state \in Waiting
  <2>1. steps'[d].pc = "plan" /\ steps'[d].task = t /\ steps'[d].gen = auto[t].gen
      BY <1>1, <1>5 DEF FirePlan, Typed, StepsTyped
  <2>2. StepDrives(d, t)'
      BY <1>1, <1>5, <2>1 DEF StepDrives, For
  <2> QED BY <1>1, <1>2, <1>3, <2>2, ApartFrom DEF Engaged, history
<1>6. CASE ~(Active(t) /\ auto[t].gen = timer[t].gen /\ auto[t].state \in Waiting)
  <2>1. Active(t) => ~TimerDrives(t)
      BY <1>6 DEF TimerDrives
  <2>2. Active(t) => Undisturbed(t)
      BY <1>1, <1>3, <2>1 DEF Undisturbed, StepDrives, For, FollowUpDrives
  <2> QED BY <1>1, <1>2, <1>3, <1>4, <2>2, ApartFrom DEF history
<1> QED BY <1>5, <1>6

LEMMA PlanPromises ==
    ASSUME IInv, PInv, NEW d \in Step, Plan(d)
    PROVE  KeepsPromises
<1>1. /\ Typed /\ UNCHANGED <<task, action, followUp, process, history>> /\ steps' = Ended(d)
      /\ steps[d].pc = "plan"
    BY DEF IInv, Plan
<1>2. PICK t \in Task : t = steps[d].task
    BY <1>1, StepFields
<1>3. CASE ~MayPlan(d)
  <2>1. ASSUME Active(t), t \notin twice, StepDrives(d, t)
        PROVE  FALSE
    <3>1. auto[t].state \in Waiting /\ steps[d].gen = auto[t].gen
        BY <1>1, <2>1 DEF StepDrives, For, Attempting
    <3> QED BY <1>2, <1>3, <2>1, <3>1, WaitingOpen DEF MayPlan, Current, Waiting
  <2> QED BY <1>1, <1>2, <1>3, <2>1, EndedPromises DEF Plan, history
<1>4. CASE MayPlan(d)
  <2>1. PICK target \in Plans(t) :
          IF target = "none" THEN Goes(t, Exhausted(t), "none")
          ELSE Goes(t, [auto[t] EXCEPT !.state = "scheduled", !.target = target], "attempt")
      BY <1>2, <1>4 DEF Plan
  <2>2. \A e \in Step : e # d => steps'[e] = steps[e]
      BY <1>1, EndedStep
  <2>3. CASE target = "none"
      BY <1>1, <1>2, <2>1, <2>2, <2>3, ExhaustedRecord, GoesPromises DEF history
  <2>4. CASE target # "none"
    <3>1. PICK r : r = [auto[t] EXCEPT !.state = "scheduled", !.target = target]
        OBVIOUS
    <3>2. target \in {"original", "backup"}
        BY <2>4 DEF Plans
    <3>3. r \in AutoRecord /\ r.state = "scheduled" /\ r.gen = auto[t].gen
        BY <1>1, <3>1, <3>2, AutoFields DEF AutoRecord, ActiveState
    <3> QED BY <1>1, <1>2, <2>1, <2>2, <2>4, <3>1, <3>3, GoesPromises DEF history
  <2> QED BY <2>3, <2>4
<1> QED BY <1>3, <1>4

LEMMA PostponePromises ==
    ASSUME IInv, PInv, NEW t \in Task, Postpone(t)
    PROVE  KeepsPromises
<1>1. /\ Typed /\ UNCHANGED <<task, action, followUp, process, history, steps>>
      /\ auto[t] \in AutoRecord /\ auto[t].state = "scheduled"
      /\ \/ Goes(t, [auto[t] EXCEPT !.state = "planning"], "plan")
         \/ Goes(t, auto[t], "attempt")
    BY AutoFields DEF IInv, Postpone, MayAttempt
<1>2. PICK r : r = [auto[t] EXCEPT !.state = "planning"]
    OBVIOUS
<1>3. r \in AutoRecord /\ r.state = "planning" /\ r.gen = auto[t].gen
    BY <1>1, <1>2 DEF AutoRecord, ActiveState
<1> QED BY <1>1, <1>2, <1>3, GoesPromises DEF history

LEMMA FireAttemptPromises ==
    ASSUME IInv, PInv, NEW t \in Task, NEW d \in Step, FireAttempt(t, d)
    PROVE  KeepsPromises
<1>1. /\ Typed /\ UNCHANGED <<task, action, followUp, process, history>> /\ Free(d)
      /\ timer' = Cleared(t) /\ timer[t].kind = "attempt" /\ auto[t] \in AutoRecord
    BY AutoFields DEF IInv, FireAttempt
<1>2. \A u \in Task : u # t => auto'[u] = auto[u] /\ timer'[u] = timer[u]
    BY <1>1 DEF FireAttempt, Cleared, Typed, RecordsTyped
<1>3. \A e \in Step : steps[e].pc # "idle" => steps'[e] = steps[e]
    BY <1>1 DEF FireAttempt, Free, Typed, StepsTyped
<1>4. CASE ~MayAttempt(t)
  <2>1. auto' = auto /\ (Active(t)' => Active(t))
    <3>1. auto' = auto
        BY <1>4 DEF FireAttempt
    <3> QED BY <3>1, Zenon DEF Active
  <2>2. Active(t) /\ t \notin twice => ~TimerDrives(t)
    <3> SUFFICES ASSUME Active(t), t \notin twice, TimerDrives(t)
                 PROVE  MayAttempt(t)
        BY <1>4
    <3>1. auto[t].state = "scheduled" /\ timer[t].gen = auto[t].gen
        BY <1>1 DEF TimerDrives
    <3>2. auto[t].target # "none"
        BY <3>1 DEF PInv, Targeted
    <3> QED BY <3>1, <3>2, WaitingOpen DEF MayAttempt, Current, Waiting
  <2>3. ~TimerDrives(t) => Undisturbed(t)
      BY <1>1, <1>3, <2>1 DEF Undisturbed, StepDrives, For, FollowUpDrives
  <2> QED BY <1>1, <1>2, <1>3, <2>1, <2>2, <2>3, ApartFrom DEF history
<1>5. CASE MayAttempt(t) /\ Spent(t)
  <2>1. auto'[t].state = "exhausted"
      BY <1>1, <1>5, ExhaustedRecord DEF FireAttempt, Typed, RecordsTyped
  <2> QED BY <1>1, <1>2, <1>3, <2>1, ApartFrom DEF Active, ActiveState, history
<1>6. CASE MayAttempt(t) /\ ~Spent(t)
  <2>1. PICK r : r = [auto[t] EXCEPT !.state = "attempting", !.attempts = @ + 1]
      OBVIOUS
  <2>2. auto' = [auto EXCEPT ![t] = r]
      BY <1>1, <1>6, <2>1 DEF FireAttempt, Typed, RecordsTyped
  <2>3. auto'[t].state = "attempting" /\ auto'[t].gen = auto[t].gen
      BY <1>1, <2>1, <2>2 DEF AutoRecord, Typed, RecordsTyped
  <2>4. steps'[d].pc = "asked" /\ steps'[d].task = t /\ steps'[d].gen = auto[t].gen
      BY <1>1, <1>6 DEF FireAttempt, Typed, StepsTyped
  <2>5. action'[t] = "none"
      BY <1>1, <1>6 DEF MayAttempt, Current
  <2>6. StepDrives(d, t)'
      BY <2>3, <2>4, <2>5 DEF StepDrives, For, Attempting, Waiting
  <2> QED BY <1>1, <1>2, <1>3, <2>6, ApartFrom DEF Engaged, history
<1> QED BY <1>4, <1>5, <1>6

LEMMA AnswerPromises ==
    ASSUME IInv, PInv, NEW d \in Step, NEW answer \in HostAnswer, Answer(d, answer)
    PROVE  KeepsPromises
<1>1. /\ Typed /\ UNCHANGED <<task, action, followUp, process, history>> /\ steps' = Ended(d)
      /\ Attempting(d) /\ answer \in Answers(d)
    BY DEF IInv, Answer, Answers, Attempting
<1>2. PICK t \in Task : t = steps[d].task
    BY <1>1, StepFields
<1>3. CASE ~Awaited(d, answer)
  <2>1. ASSUME Active(t), StepDrives(d, t)
        PROVE  FALSE
    <3>1. auto[t].state = "attempting" /\ steps[d].gen = auto[t].gen /\ action[t] = "none"
        BY <1>1, <2>1 DEF StepDrives, For, Attempting, Waiting, Active, ActiveState
    <3> QED BY <1>2, <1>3, <3>1 DEF Awaited
  <2> QED BY <1>1, <1>2, <1>3, <2>1, EndedPromises DEF Answer, history
<1>4. CASE Awaited(d, answer)
  <2>1. PICK r \in AutoRecord, next \in {"none", "plan", "attempt"} :
            /\ Goes(t, r, next) /\ r.gen = auto[t].gen
            /\ \/ r.state = "exhausted"
               \/ r.state = "planning" /\ next = "plan"
               \/ r.state = "scheduled" /\ next = "attempt"
    <3>1. /\ auto[t] \in AutoRecord /\ GivenBack(auto[t].attempts) \in Nat
          /\ auto[t].failures \in Nat
        BY <1>1, AutoFields DEF GivenBack
    <3>2. ASSUME NEW state \in {"planning", "scheduled", "exhausted"}
          PROVE  /\ GivenBackTo(t, state) \in AutoRecord /\ GivenBackTo(t, state).state = state
                 /\ GivenBackTo(t, state).gen = auto[t].gen
                 /\ FailedTo(t, state) \in AutoRecord /\ FailedTo(t, state).state = state
                 /\ FailedTo(t, state).gen = auto[t].gen
      <4>1. PICK q : q = GivenBackTo(t, state)
          OBVIOUS
      <4>2. q \in AutoRecord /\ q.state = state /\ q.failures \in Nat /\ q.gen = auto[t].gen
          BY <3>1, <4>1 DEF GivenBackTo, AutoRecord, ActiveState
      <4>3. PICK f : f = [q EXCEPT !.failures = @ + 1]
          OBVIOUS
      <4>4. f \in AutoRecord /\ f.state = q.state /\ f.gen = q.gen
          BY <4>2, <4>3 DEF AutoRecord
      <4> QED BY <4>1, <4>2, <4>3, <4>4 DEF FailedTo
    <3>3. \/ Goes(t, Exhausted(t), "none")
          \/ Goes(t, GivenBackTo(t, "scheduled"), "attempt")
          \/ Goes(t, GivenBackTo(t, "planning"), "plan")
          \/ Goes(t, FailedTo(t, "exhausted"), "none")
          \/ Goes(t, FailedTo(t, "planning"), "plan")
          \/ Goes(t, FailedTo(t, "scheduled"), "attempt")
        BY <1>2, <1>4 DEF Answer
    <3>4. Exhausted(t) \in AutoRecord /\ Exhausted(t).state = "exhausted" /\ Exhausted(t).gen = auto[t].gen
        BY <1>1, ExhaustedRecord
    <3>5. CASE Goes(t, Exhausted(t), "none") \/ Goes(t, FailedTo(t, "exhausted"), "none")
        BY <3>2, <3>4, <3>5
    <3>6. CASE Goes(t, GivenBackTo(t, "scheduled"), "attempt") \/ Goes(t, FailedTo(t, "scheduled"), "attempt")
        BY <3>2, <3>6
    <3>7. CASE Goes(t, GivenBackTo(t, "planning"), "plan") \/ Goes(t, FailedTo(t, "planning"), "plan")
        BY <3>2, <3>7
    <3> QED BY <3>3, <3>5, <3>6, <3>7
  <2>2. \A e \in Step : e # d => steps'[e] = steps[e]
      BY <1>1, EndedStep
  <2> QED BY <1>1, <1>2, <2>1, <2>2, GoesPromises DEF history
<1> QED BY <1>3, <1>4

LEMMA LosesPromises ==
    ASSUME IInv, NEW t \in Task, DisableFails(t) \/ AttemptFails(t)
    PROVE  KeepsPromises
<1>1. /\ UNCHANGED <<task, action, followUp, auto, process, steps>> /\ timer' = Cleared(t)
      /\ t \in lost' /\ lost \subseteq lost' /\ Typed
    BY DEF DisableFails, AttemptFails, ledger, IInv
<1>2. \A u \in Task : u # t => timer'[u] = timer[u]
    BY <1>1 DEF Cleared, Typed, RecordsTyped
<1> QED BY <1>1, <1>2, ApartFrom

LEMMA StepFailsPromises ==
    ASSUME IInv, NEW d \in Step, StepFails(d)
    PROVE  KeepsPromises
<1>1. PICK t \in Task : t = steps[d].task
    BY StepFields DEF IInv
<1> QED BY <1>1, EndedPromises DEF StepFails, ledger, IInv

\* A result that nobody waits for any more.
LEMMA RestsPromises ==
    ASSUME Typed, NEW S \in SUBSET Task, \A t \in S : ~Active(t)',
           UNCHANGED <<action, followUp, process>>, lost \subseteq lost', Stays(steps'),
           \A t \in Task \ S : auto'[t] = auto[t] /\ timer'[t] = timer[t],
           \A u \in Task : task[u].status \in Unsettled => task'[u] = task[u]
    PROVE  KeepsPromises
<1>1. ASSUME NEW t \in Task, FollowUpDrives(t)
      PROVE  task'[followUp[t]].status \in Unsettled
  <2>1. followUp[t] \in Task /\ task[followUp[t]].status \in Unsettled
      BY <1>1, BoundAssumption DEF Typed, LedgerTyped, Task, FollowUpDrives
  <2> QED BY <2>1
<1>2. \A t \in Task \ S : Undisturbed(t)
    BY <1>1, LeftAlone
<1> QED BY <1>2, Calmly

LEMMA AskPromises ==
    ASSUME IInv, NEW d \in Step, Ask(d) \/ AckRefused(d) \/ (AckAuto(d) /\ ~Admits(d))
    PROVE  KeepsPromises
<1>1. Typed /\ UNCHANGED <<task, action, followUp, auto, timer, process, lost>>
    BY DEF IInv, Ask, AckRefused, AckAuto, ledger, history
<1>2. PICK t \in Task : t = steps[d].task
    BY <1>1, StepFields
<1>3. Stays(steps')
  <2>1. CASE Ask(d)
    <3>1. PICK f : f = steps
        OBVIOUS
    <3>2. PICK pc \in {"acking", "joined", "started"} : steps' = [f EXCEPT ![d].pc = pc]
        BY <2>1, <3>1 DEF Ask, To
    <3>3. Kept(f) /\ Stays(f) /\ steps[d].pc = "asked"
        BY <1>1, <2>1, <3>1, SameStays DEF Ask
    <3> QED BY <1>1, <3>2, <3>3, MovedStays
  <2>2. CASE steps[d].pc = "acking" /\ \E pc \in {"refused", "started"} : steps' = [Told(t, pc) EXCEPT ![d].pc = pc]
    <3>1. PICK pc \in {"refused", "started"} : steps' = [Told(t, pc) EXCEPT ![d].pc = pc]
        BY <2>2
    <3>2. PICK f : f = Told(t, pc)
        OBVIOUS
    <3>3. Kept(f) /\ Stays(f) /\ steps' = [f EXCEPT ![d].pc = pc]
        BY <1>1, <3>1, <3>2, ToldKept, ToldStays
    <3> QED BY <1>1, <2>2, <3>3, MovedStays
  <2> QED BY <1>2, <2>1, <2>2 DEF AckRefused, AckAuto
<1> QED BY <1>1, <1>3, SameDrivers

\* An attempt gets its follow-up, which is queued or live.
LEMMA AckAutoPromises ==
    ASSUME IInv, NEW d \in Step, AckAuto(d), Admits(d)
    PROVE  KeepsPromises
<1>1. Typed /\ UNCHANGED <<process, lost>>
    BY DEF IInv, AckAuto
<1>2. PICK t \in Task : t = steps[d].task
    BY <1>1, StepFields
<1>3. /\ MakesFollowUp(t) /\ followUp'[t] # 0 /\ task'[followUp'[t]].status \in Unsettled
      /\ \A v \in Task : v # t => /\ auto'[v] = auto[v] /\ timer'[v] = timer[v]
                                  /\ action'[v] = action[v] /\ followUp'[v] = followUp[v]
      /\ \A v \in Task : task[v].status \in Unsettled => task'[v] = task[v]
    BY <1>2, AckAutoMakes
<1>4. Engaged(t)'
    BY <1>3 DEF Engaged, FollowUpDrives, MakesFollowUp
<1>5. Stays(steps')
  <2>1. PICK f : f = Told(t, "started")
      OBVIOUS
  <2>2. Kept(f) /\ Stays(f) /\ steps' = [f EXCEPT ![d].pc = "started"] /\ steps[d].pc = "acking"
      BY <1>1, <1>2, <2>1, ToldKept, ToldStays DEF AckAuto
  <2> QED BY <1>1, <2>2, MovedStays
<1>6. ASSUME NEW v \in Task, FollowUpDrives(v)
      PROVE  task'[followUp[v]].status \in Unsettled
  <2>1. followUp[v] \in Task /\ task[followUp[v]].status \in Unsettled
      BY <1>1, <1>6, BoundAssumption DEF Typed, LedgerTyped, Task, FollowUpDrives
  <2> QED BY <1>3, <2>1
<1>7. \A v \in Task : v # t => Undisturbed(v)
    BY <1>3, <1>5, <1>6, LeftAlone
<1> QED BY <1>1, <1>4, <1>7, Calmly

LEMMA AckByHandPromises ==
    ASSUME IInv, NEW t \in Task, AckByHand(t) \/ AckByHandRefused(t)
    PROVE  KeepsPromises
<1>1. Typed /\ UNCHANGED <<process, lost>>
    BY DEF IInv, AckByHand, AckByHandRefused, history
<1>2. \A o \in {"started", "refused"} : Kept(Told(t, o)) /\ Stays(Told(t, o))
    BY <1>1, ToldKept, ToldStays
<1>3. CASE AckByHandRefused(t) \/ (AckByHand(t) /\ action[t] # "none")
    BY <1>2, <1>3, SameDrivers DEF AckByHand, AckByHandRefused, ledger, history
<1>4. CASE AckByHand(t) /\ action[t] = "none"
  <2>1. Stays(steps')
      BY <1>2, <1>4, OutdatedStays DEF AckByHand
  <2>2. /\ auto' = [auto EXCEPT ![t] = Voided(t)] /\ timer' = Cleared(t)
        /\ task' = task \/ \E u, new : FollowsWith(t, u, new) /\ task' = [task EXCEPT ![u] = new]
        /\ \E a : action' = [action EXCEPT ![t] = a]
        /\ followUp' = followUp \/ \E u : followUp' = [followUp EXCEPT ![t] = u]
      BY <1>4, HandFollows DEF Acknowledge
  <2>3. Voided(t).state \notin ActiveState
    <3>1. auto[t] \in AutoRecord
        BY <1>1, AutoFields
    <3> QED BY <3>1 DEF Voided, ActiveState, AutoRecord
  <2>4. /\ ~Active(t)'
        /\ \A v \in Task : v # t => /\ auto'[v] = auto[v] /\ timer'[v] = timer[v]
                                    /\ action'[v] = action[v] /\ followUp'[v] = followUp[v]
      BY <1>1, <2>2, <2>3 DEF Typed, LedgerTyped, RecordsTyped, Cleared, Active
  <2>5. \A u \in Task : task[u].status \in Unsettled => task'[u] = task[u]
      BY <1>1, <2>2 DEF Typed, LedgerTyped, FollowsWith, Unsettled
  <2>6. ASSUME NEW v \in Task, FollowUpDrives(v)
        PROVE  task'[followUp[v]].status \in Unsettled
    <3>1. followUp[v] \in Task /\ task[followUp[v]].status \in Unsettled
        BY <1>1, <2>6, BoundAssumption DEF Typed, LedgerTyped, Task, FollowUpDrives
    <3> QED BY <2>5, <3>1
  <2>7. \A v \in Task : v # t => Undisturbed(v)
      BY <2>1, <2>4, <2>6, LeftAlone
  <2> QED BY <1>1, <2>4, <2>7, Calmly
<1> QED BY <1>3, <1>4

LEMMA DispatchPromises ==
    ASSUME IInv, Dispatch
    PROVE  KeepsPromises
<1>1. Typed /\ UNCHANGED <<action, followUp, auto, timer, steps, process, lost>>
    BY DEF IInv, Dispatch, volatile
<1>2. \A u \in Task : task[u].status \in Unsettled => task'[u] = task[u]
    BY <1>1 DEF Dispatch, Typed, LedgerTyped, NewTask, Unsettled
<1>3. Stays(steps')
    BY <1>1 DEF Stays
<1>4. PICK S \in SUBSET Task : S = {}
    OBVIOUS
<1> QED BY <1>1, <1>2, <1>3, <1>4, RestsPromises

LEMMA SwitchPromises ==
    ASSUME IInv, CancelSession \/ \E t \in Task : SwitchOff(t) \/ Cancel(t)
    PROVE  KeepsPromises
<1>1. PICK S \in SUBSET Task : Disable(S)
    BY DEF CancelSession, SwitchOff, Cancel
<1>2. /\ Typed /\ UNCHANGED <<task, action, followUp, process, lost>>
      /\ auto' = [t \in Task |-> IF t \in S THEN Disabled(t) ELSE auto[t]]
      /\ timer' = [t \in Task |-> IF t \in S THEN NoTimer ELSE timer[t]]
      /\ steps' = Outdated(steps, S)
    BY <1>1 DEF IInv, Disable, Decides
<1>3. Stays(steps')
    BY <1>2, SameStays, OutdatedStays
<1>4. \A t \in S : ~Active(t)'
    BY <1>2, DisabledRecord DEF Active, ActiveState
<1> QED BY <1>2, <1>3, <1>4, RestsPromises

LEMMA EnablePromises ==
    ASSUME IInv, NEW t \in Task, Enable(t)
    PROVE  KeepsPromises
<1>1. /\ Typed /\ UNCHANGED <<task, action, followUp, process, lost>>
      /\ auto[t] \in AutoRecord /\ auto[t].gen + 1 \in Nat
    BY AutoFields DEF IInv, Enable
<1>2. PICK base : base = IF auto[t].state = "none" THEN auto[t] ELSE [auto[t] EXCEPT !.gen = @ + 1]
    OBVIOUS
<1>3. PICK x : x = [auto[t] EXCEPT !.gen = @ + 1]
    OBVIOUS
<1>4. base \in AutoRecord
    BY <1>1, <1>2, <1>3 DEF AutoRecord
<1>5. PICK on : on = [base EXCEPT !.enabled = TRUE, !.target = "none",
                                  !.state = IF t \in late THEN "exhausted" ELSE "planning"]
    OBVIOUS
<1>6. /\ auto' = [auto EXCEPT ![t] = on]
      /\ timer' = [timer EXCEPT ![t] = IF t \in late THEN NoTimer ELSE [kind |-> "plan", gen |-> on.gen]]
      /\ steps' = Outdated(steps, {t})
    BY <1>2, <1>5 DEF Enable, Decides
<1>7. /\ auto'[t] = on /\ t \notin late => timer'[t] = [kind |-> "plan", gen |-> on.gen]
      /\ \A v \in Task : v # t => auto'[v] = auto[v] /\ timer'[v] = timer[v]
    BY <1>1, <1>6 DEF Typed, RecordsTyped
<1>8. Stays(steps')
    BY <1>1, <1>6, SameStays, OutdatedStays
<1>9. CASE t \in late
  <2>1. ~Active(t)'
      BY <1>1, <1>4, <1>5, <1>6, <1>9 DEF Active, ActiveState, AutoRecord, Typed, RecordsTyped
  <2>2. PICK S \in SUBSET Task : S = {t}
      OBVIOUS
  <2> QED BY <1>1, <1>7, <1>8, <2>1, <2>2, RestsPromises
<1>10. CASE t \notin late
  <2>1. on.state = "planning" /\ auto'[t] = on
      BY <1>1, <1>4, <1>5, <1>6, <1>10 DEF AutoRecord, Typed, RecordsTyped
  <2>2. Engaged(t)'
      BY <1>7, <1>10, <2>1 DEF Engaged, TimerDrives, Waiting
  <2>3. \A v \in Task : v # t => Undisturbed(v)
      BY <1>1, <1>7, <1>8, LeftAlone DEF FollowUpDrives
  <2> QED BY <1>1, <2>2, <2>3, Calmly
<1> QED BY <1>9, <1>10

\* Rearming looks at one record; the others keep what drives them.
LEMMA RearmPromises ==
    ASSUME IInv, PInv, Rearm
    PROVE  KeepsPromises
<1>1. /\ Typed /\ UNCHANGED <<task, action, followUp, steps, lost>> /\ twice \subseteq twice'
      /\ up = "rearming" /\ cursor \in Nat /\ MaxTask \in Nat \ {0}
      /\ IF cursor <= MaxTask THEN RearmActive(cursor) ELSE RearmUnparked(cursor - MaxTask)
    BY BoundAssumption DEF IInv, Rearm, Typed, ProcessTyped
<1>2. ASSUME NEW v \in Task, v # cursor, Rearmed(v)'
      PROVE  Rearmed(v)
    BY <1>1, <1>2 DEF Rearmed, Rearm, Task
<1>3. Stays(steps')
    BY <1>1 DEF Stays
<1>4. \A v \in Task : auto'[v] = auto[v] /\ timer'[v] = timer[v] => Undisturbed(v)
    BY <1>1, <1>3, LeftAlone DEF FollowUpDrives
<1>5. SUFFICES ASSUME NEW v \in Task, Active(v)', ~GivenUp(v)'
               PROVE  Engaged(v)' \/ (v # cursor /\ Undisturbed(v))
    BY <1>1, <1>2 DEF KeepsPromises, GivenUp
<1>6. v \notin twice /\ ~Orphaned(v)' /\ ~Collapsed(v)'
    BY <1>1, <1>5 DEF GivenUp
<1>7. ASSUME NEW t \in Task, NEW s, Park(t, s), task[t].status \in Settled
      PROVE  \/ Engaged(v)'
             \/ /\ Undisturbed(v)
                /\ auto[t].state = "none" => ~(Continues(t) /\ v = task[t].prior)
  <2>1. CASE auto[t].state # "none"
      BY <1>4, <1>7, <2>1 DEF Park
  <2>2. CASE auto[t].state = "none"
      BY <1>1, <1>5, <1>6, <1>7, <2>2, ParkPromises DEF Ends
  <2> QED BY <2>1, <2>2
<1>8. CASE cursor > MaxTask
  <2>1. PICK t \in Task : t = cursor - MaxTask
      BY <1>1, <1>8 DEF Typed, ProcessTyped, Task
  <2>2. RearmUnparked(t) /\ v # cursor
      BY <1>1, <1>8, <2>1 DEF Task
  <2> QED BY <1>4, <1>7, <2>2 DEF RearmUnparked
<1>9. CASE cursor <= MaxTask
  <2>1. PICK t \in Task : t = cursor /\ RearmActive(t)
      BY <1>1, <1>9 DEF Typed, ProcessTyped, Task
  <2>2. CASE UNCHANGED <<auto, timer>> /\ ~Active(t)
    <3>1. Active(v) /\ Undisturbed(v)
        BY <1>4, <1>5, <2>2, Zenon DEF Active
    <3> QED BY <2>1, <2>2, <3>1
  <2>3. ASSUME Active(t)
        PROVE  Engaged(v)' \/ (v # t /\ Undisturbed(v))
    <3>1. auto[t] \in AutoRecord
        BY <1>1, AutoFields
    <3>2. CASE auto[t].state = "attempting" /\ action[t] = "none"
      <4>1. /\ auto' = [auto EXCEPT ![t].state = "planning", ![t].attempts = GivenBack(@)]
            /\ timer' = Armed(t, "plan")
          BY <2>1, <2>3, <3>2 DEF RearmActive
      <4>2. /\ auto'[t].state = "planning" /\ auto'[t].gen = auto[t].gen
            /\ timer'[t] = [kind |-> "plan", gen |-> auto[t].gen]
            /\ \A w \in Task : w # t => auto'[w] = auto[w] /\ timer'[w] = timer[w]
          BY <1>1, <3>1, <4>1 DEF Typed, RecordsTyped, Armed, AutoRecord
      <4>3. Engaged(t)'
          BY <4>2 DEF Engaged, TimerDrives, Waiting
      <4> QED BY <1>4, <4>2, <4>3
    <3>3. CASE auto[t].state = "attempting" /\ action[t] # "none"
      <4> DEFINE u == followUp[t]
      <4>1. IF u # 0 /\ task[u].status \in Settled THEN Park(u, task[u].status)
            ELSE UNCHANGED <<auto, late, timer>>
          BY <2>1, <2>3, <3>3 DEF RearmActive
      <4>2. ASSUME t \notin twice
            PROVE  u # 0 /\ auto[t].last = u
          BY <2>3, <3>3, <4>2 DEF PInv, WaitsForOwn
      <4>3. u # 0 => u \in Task /\ task[u].status # "none"
        <5>1. u # 0 => u \in Task
            BY <1>1, BoundAssumption DEF Typed, LedgerTyped, Task
        <5> QED BY <5>1 DEF IInv, Linked, OneFollowUp
      <4>4. CASE u # 0 /\ task[u].status \in Settled
        <5>1. CASE auto[u].state # "none"
          <6>1. UNCHANGED <<auto, timer>>
              BY <4>1, <4>4, <5>1 DEF Park
          <6>2. Orphaned(t)'
              BY <1>1, <4>3, <4>4, <5>1, <6>1 DEF Orphaned
          <6> QED BY <1>4, <1>6, <6>1, <6>2
        <5>2. CASE auto[u].state = "none"
          <6>1. v = t => Continues(u) /\ v = task[u].prior
            <7>1. v = t => task[u].prior = t
                BY <1>1, <1>6, <4>4 DEF Collapsed
            <7> QED BY <1>6, <3>3, <4>2, <4>3, <4>4, <7>1, BoundAssumption DEF Continues, Task
          <6> QED BY <1>7, <4>1, <4>3, <4>4, <5>2, <6>1
        <5> QED BY <5>1, <5>2
      <4>5. CASE ~(u # 0 /\ task[u].status \in Settled)
        <5>1. UNCHANGED <<auto, timer>>
            BY <4>1, <4>5
        <5>2. v = t => Engaged(v)'
          <6> SUFFICES ASSUME v = t PROVE Engaged(v)'
              OBVIOUS
          <6>1. u # 0 /\ u \in Task /\ task[u].status \in Unsettled
            <7>1. u # 0 /\ u \in Task /\ task[u].status # "none" /\ task[u].status \notin Settled
                BY <1>6, <4>2, <4>3, <4>5
            <7> QED BY <1>1, <7>1 DEF Typed, LedgerTyped, TaskRecord
          <6>2. FollowUpDrives(v)'
              BY <1>1, <3>3, <5>1, <6>1 DEF FollowUpDrives
          <6> QED BY <6>2 DEF Engaged
        <5> QED BY <1>4, <5>1, <5>2
      <4> QED BY <4>4, <4>5
    <3>4. CASE auto[t].state \in Waiting
      <4>1. /\ auto' = auto
            /\ \/ timer' = Armed(t, "plan")
               \/ auto[t].state = "scheduled" /\ timer' = Armed(t, "attempt")
          BY <2>1, <2>3, <3>4 DEF RearmActive, Waiting
      <4>2. /\ timer'[t].gen = auto[t].gen
            /\ timer'[t].kind = "plan" \/ (timer'[t].kind = "attempt" /\ auto[t].state = "scheduled")
            /\ \A w \in Task : w # t => timer'[w] = timer[w]
          BY <1>1, <4>1 DEF Typed, RecordsTyped, Armed
      <4>3. Engaged(t)'
          BY <3>4, <4>1, <4>2 DEF Engaged, TimerDrives
      <4> QED BY <1>4, <4>1, <4>2, <4>3
    <3> QED BY <2>3, <3>2, <3>3, <3>4 DEF Active, ActiveState, Waiting
  <2> QED BY <2>1, <2>2, <2>3 DEF RearmActive
<1> QED BY <1>1, <1>8, <1>9

LEMMA PromiseSteps ==
    ASSUME IInv, PInv, [Next]_vars
    PROVE  KeepsPromises
<1>1. ASSUME NEW t \in Task, NEW s \in Outcomes(t), NEW b \in BOOLEAN, Settle(t, s) \/ SettlePartly(t, s, b)
      PROVE  KeepsPromises
    BY <1>1, SettlePromises, SettlePartlyPromises DEF Outcomes
<1>2. ASSUME NEW t \in Task, \/ Launch(t) \/ Postpone(t) \/ AckByHand(t) \/ AckByHandRefused(t)
                             \/ SwitchOff(t) \/ Cancel(t) \/ Enable(t) \/ CancelQueued(t)
                             \/ DisableFails(t) \/ AttemptFails(t)
      PROVE  KeepsPromises
    BY <1>2, LaunchPromises, PostponePromises, AckByHandPromises, SwitchPromises, EnablePromises,
       CancelQueuedPromises, LosesPromises
<1>3. ASSUME NEW t \in Task, NEW d \in Step, FirePlan(t, d) \/ FireAttempt(t, d)
      PROVE  KeepsPromises
    BY <1>3, FirePlanPromises, FireAttemptPromises
<1>4. ASSUME NEW d \in Step, Plan(d) \/ Ask(d) \/ AckAuto(d) \/ AckRefused(d) \/ StepFails(d)
      PROVE  KeepsPromises
    BY <1>4, PlanPromises, AskPromises, AckAutoPromises, StepFailsPromises
<1>5. ASSUME NEW d \in Step, NEW answer \in HostAnswer, Answer(d, answer)
      PROVE  KeepsPromises
    BY <1>5, AnswerPromises
<1>6. CancelSession \/ Rearm \/ Dispatch => KeepsPromises
    BY SwitchPromises, RearmPromises, DispatchPromises
<1>7. Crash \/ Restart \/ BeginRearm => KeepsPromises
  <2> SUFFICES ASSUME NEW t \in Task, Crash \/ Restart \/ BeginRearm
               PROVE  ~Rearmed(t)'
      BY DEF KeepsPromises
  <2> QED BY BoundAssumption DEF Crash, PowerOff, Restart, BeginRearm, Rearmed, Task
<1>8. Stays(steps)
    BY DEF Stays
<1>9. ASSUME UNCHANGED <<task, action, followUp, auto, timer, steps, process, lost>>
      PROVE  KeepsPromises
    BY <1>8, <1>9, SameDrivers
<1>10. ASSUME NEW t \in Task, Request(t, "user") \/ Request(t, "handoff") \/ Expire(t)
       PROVE  KeepsPromises
    BY <1>9, <1>10 DEF Request, Expire, ledger, volatile, history
<1>11. UNCHANGED vars => KeepsPromises
    BY <1>9 DEF vars, ledger, volatile, process, history
<1> QED BY <1>1, <1>2, <1>3, <1>4, <1>5, <1>6, <1>7, <1>10, <1>11
    DEF Next, Settles, AcksByHand, Asked, Acks, People, Failures

-----------------------------------------------------------------------------
(* Every promise has a driver *)

LEMMA PromisesInv == IInv /\ PInv /\ [Next]_vars => PInv'
<1> SUFFICES ASSUME IInv, PInv, [Next]_vars
             PROVE  PInv'
    OBVIOUS
<1>1. Targeted' /\ Unrecorded' /\ WaitsForOwn' /\ ToldStarted' /\ LastKnown'
    BY RecordsKept, StepMoves
<1>2. RearmedEngaged'
    BY PromiseSteps, PromisesKept
<1> QED BY <1>1, <1>2 DEF PInv

LEMMA PromisesInit == Init => PInv
<1> SUFFICES ASSUME Init PROVE PInv
    OBVIOUS
<1>1. \A t \in Task : auto[t].state = "none" /\ auto[t].attempts = 0 /\ auto[t].last = 0
    BY DEF Init, NoAuto
<1>2. ToldStarted
  <2>1. \A d \in Step : ~Attempting(d)
      BY DEF Init, NoStep, Attempting
  <2> QED BY <2>1 DEF ToldStarted
<1> QED BY <1>1, <1>2 DEF PInv, Targeted, WaitsForOwn, Unrecorded, LastKnown, RearmedEngaged, Active, ActiveState

\* A record that still promises to continue a result has a timer, a step in
\* flight or an unsettled follow-up, whatever was cancelled, refused, switched,
\* cut short or restarted before: rearmAutoResumeLocked and every handler leave
\* no promise behind but those they give up.
THEOREM PromisesDriven == Spec => []Driven
<1>1. PInv => Driven
  <2> SUFFICES ASSUME PInv, NEW t \in Task, up = "running", Active(t), ~GivenUp(t)
               PROVE  \/ followUp[t] # 0 /\ task[followUp[t]].status \in Unsettled
                      \/ timer[t].kind # "none" /\ timer[t].gen = auto[t].gen
                      \/ \E d \in Step : steps[d].pc # "idle" /\ steps[d].task = t /\ steps[d].gen = auto[t].gen
      BY DEF Driven
  <2>1. Engaged(t)
      BY DEF PInv, RearmedEngaged, Rearmed
  <2> QED BY <2>1 DEF Engaged, TimerDrives, StepDrives, FollowUpDrives, For
<1>2. Spec => [](IInv /\ PInv)
  <2>1. IInv /\ [Next]_vars => IInv'
      BY StepMoves
  <2> QED BY <2>1, InitInv, PromisesInit, PromisesInv, PTL DEF Spec
<1> QED BY <1>1, <1>2, PTL

-----------------------------------------------------------------------------
(* The budget *)

\* What a step does to a task: it goes on, an attempt makes it, or a person or
\* the orchestrator.
GoesOn(v) ==
    /\ task'[v].by = task[v].by /\ task'[v].spent = task[v].spent /\ task'[v].prior = task[v].prior
    /\ task[v].status \notin Unsettled => task'[v].status = task[v].status
    /\ task[v].status # "none" => task'[v].status # "none"
    /\ chain'[v] \in {chain[v], 0}
BegottenOf(v, t) ==
    /\ task[v].status = "none" /\ task'[v].status = "queued" /\ task'[v].by = "auto"
    /\ task'[v].prior = t /\ MakesFollowUp(t) /\ followUp'[t] = v
    /\ chain'[v] = chain[t] + 1
    /\ task'[v].spent <=> Transport(t)
MadeByHand(v) ==
    /\ task[v].status = "none" /\ task'[v].status = "queued" /\ task'[v].by # "auto"
    /\ ~task'[v].spent /\ chain'[v] = chain[v]

\* Only an attempt adds to a chain, and only the switch cuts one.
LEMMA ChainSteps ==
    ASSUME [Next]_vars
    PROVE  \/ UNCHANGED chain
           \/ \E d \in Step : AckAuto(d) /\ Admits(d)
           \/ UNCHANGED <<task, action, followUp>> /\ \A v \in Task : chain'[v] \in {chain[v], 0}
<1> DEFINE Goal == \/ UNCHANGED chain
                   \/ \E d \in Step : AckAuto(d) /\ Admits(d)
                   \/ UNCHANGED <<task, action, followUp>> /\ \A v \in Task : chain'[v] \in {chain[v], 0}
<1>1. ASSUME NEW t \in Task, \/ Launch(t) \/ Settles(t) \/ Postpone(t) \/ AckByHand(t)
                             \/ AckByHandRefused(t) \/ Expire(t) \/ CancelQueued(t)
                             \/ Request(t, "user") \/ Request(t, "handoff")
                             \/ DisableFails(t) \/ AttemptFails(t)
      PROVE  UNCHANGED chain
    BY <1>1 DEF Launch, Settles, Settle, Postpone, AckByHand, AckByHandRefused, Expire, CancelQueued,
                Request, DisableFails, AttemptFails, history
<1>2. ASSUME NEW t \in Task, NEW b \in BOOLEAN, NEW s \in Outcomes(t), SettlePartly(t, s, b)
      PROVE  UNCHANGED chain
    BY <1>2 DEF SettlePartly
<1>3. ASSUME NEW d \in Step, Plan(d) \/ Asked(d) \/ AckRefused(d) \/ StepFails(d)
                             \/ \E t \in Task : FirePlan(t, d) \/ FireAttempt(t, d)
      PROVE  UNCHANGED chain
    BY <1>3 DEF Plan, Asked, Ask, Answer, AckRefused, StepFails, FirePlan, FireAttempt, history
<1>4. ASSUME NEW d \in Step, AckAuto(d)
      PROVE  UNCHANGED chain \/ Admits(d)
    BY <1>4 DEF AckAuto
<1>5. ASSUME CancelSession \/ \E t \in Task : SwitchOff(t) \/ Cancel(t) \/ Enable(t)
      PROVE  UNCHANGED <<task, action, followUp>> /\ \A v \in Task : chain'[v] \in {chain[v], 0}
  <2>1. ASSUME NEW S, Disable(S)
        PROVE  UNCHANGED <<task, action, followUp>> /\ \A v \in Task : chain'[v] \in {chain[v], 0}
      BY <2>1 DEF Disable
  <2>2. ASSUME NEW t \in Task, Enable(t)
        PROVE  /\ UNCHANGED <<task, action, followUp>>
               /\ chain' = chain \/ chain' = [chain EXCEPT ![t] = 0]
      BY <2>2 DEF Enable
  <2>3. \A t, v \in Task : [chain EXCEPT ![t] = 0][v] \in {chain[v], 0}
      OBVIOUS
  <2> QED BY <1>5, <2>1, <2>2, <2>3 DEF CancelSession, SwitchOff, Cancel
<1>6. Dispatch \/ Crash \/ Restart \/ BeginRearm \/ Rearm \/ UNCHANGED vars => UNCHANGED chain
    BY DEF Dispatch, Crash, Restart, BeginRearm, Rearm, vars, history
<1> HIDE DEF Goal
<1>7. /\ UNCHANGED chain => Goal
      /\ UNCHANGED <<task, action, followUp>> /\ (\A v \in Task : chain'[v] \in {chain[v], 0}) => Goal
      /\ \A d \in Step : AckAuto(d) /\ Admits(d) => Goal
    BY DEF Goal
<1>8. Goal
    BY <1>1, <1>2, <1>3, <1>4, <1>5, <1>6, <1>7 DEF Next, AcksByHand, Acks, People, Failures
<1> QED BY <1>8 DEF Goal

LEMMA TaskMoves ==
    ASSUME IInv, [Next]_vars, NEW v \in Task
    PROVE  GoesOn(v) \/ MadeByHand(v) \/ \E t \in Task : BegottenOf(v, t)
<1>1. Typed /\ task[v] \in TaskRecord /\ task[v].status \in Settled \cup Unsettled \cup {"none"}
    BY DEF IInv, Typed, LedgerTyped, TaskRecord
<1>2. ASSUME NEW d \in Step, AckAuto(d), Admits(d)
      PROVE  GoesOn(v) \/ \E t \in Task : BegottenOf(v, t)
  <2>1. PICK t \in Task : t = steps[d].task
      BY <1>1, StepFields
  <2>2. PICK u \in Task, new \in TaskRecord :
          /\ FollowsWith(t, u, new) /\ Acknowledge(t, u, new, [auto[t] EXCEPT !.last = u])
          /\ \/ /\ task[u].status = "none" /\ new.by = "auto" /\ (new.spent <=> Transport(t))
                /\ chain' = [chain EXCEPT ![u] = chain[t] + 1]
             \/ task[u].status = "live" /\ chain' = chain
      BY <1>2, <2>1, AutoFollows
  <2>3. /\ MakesFollowUp(t) /\ task'[u] = new /\ followUp'[t] = u
        /\ \A w \in Task : w # u => task'[w] = task[w]
      BY <1>2, <2>1, <2>2, AckAutoMakes, AutoFollows, AcknowledgeLinks
  <2>4. CASE task[u].status = "live" /\ chain' = chain
    <3>1. task'[v] = task[v]
        BY <2>2, <2>3, <2>4 DEF FollowsWith
    <3> QED BY <2>4, <3>1 DEF GoesOn
  <2>5. CASE /\ task[u].status = "none" /\ new.by = "auto" /\ (new.spent <=> Transport(t))
             /\ chain' = [chain EXCEPT ![u] = chain[t] + 1]
    <3>1. chain'[u] = chain[t] + 1 /\ \A w \in Task : w # u => chain'[w] = chain[w]
        BY <1>1, <2>5 DEF Typed, HistoryTyped
    <3>2. new.status = "queued" /\ new.prior = t
        BY <2>2, <2>5 DEF FollowsWith
    <3>3. CASE v = u
      <4>1. task'[v].spent <=> Transport(t)
          BY <2>3, <2>5, <3>3, Zenon
      <4> QED BY <2>3, <2>5, <3>1, <3>2, <3>3, <4>1 DEF BegottenOf
    <3>4. CASE v # u
        BY <2>3, <3>1, <3>4 DEF GoesOn
    <3> QED BY <3>3, <3>4
  <2> QED BY <2>2, <2>4, <2>5
<1>3. CASE UNCHANGED <<task, action, followUp>> /\ chain'[v] \in {chain[v], 0}
    BY <1>3 DEF GoesOn
<1>4. ASSUME NEW t \in Task, NEW s \in Settled \cup {"live"}, task[t].status \in Unsettled,
             task' = [task EXCEPT ![t].status = s], UNCHANGED chain
      PROVE  GoesOn(v)
  <2>1. /\ task'[t].status = s /\ task'[t].spent = task[t].spent /\ task'[t].by = task[t].by
        /\ task'[t].prior = task[t].prior /\ \A u \in Task : u # t => task'[u] = task[u]
      BY <1>1, <1>4, StatusFields
  <2> QED BY <1>4, <2>1 DEF GoesOn, Settled, Limits
<1>5. ASSUME NEW t \in Task, AckByHand(t), action[t] = "none", UNCHANGED chain
      PROVE  GoesOn(v) \/ MadeByHand(v)
  <2>1. CASE UNCHANGED task
      BY <1>5, <2>1 DEF GoesOn
  <2>2. ASSUME NEW u \in Task, NEW new \in TaskRecord, FollowsWith(t, u, new),
               Acknowledge(t, u, new, Voided(t)), task[u].status = "none" => new.by = "user" /\ ~new.spent
        PROVE  GoesOn(v) \/ MadeByHand(v)
    <3>1. task'[u] = new /\ \A w \in Task : w # u => task'[w] = task[w]
        BY <1>1, <2>2 DEF Acknowledge, Typed, LedgerTyped
    <3>2. CASE task'[v] = task[v]
        BY <1>5, <3>2 DEF GoesOn
    <3>3. CASE v = u /\ task[u].status = "none"
      <4>1. task'[v].status = "queued" /\ task'[v].by = "user" /\ ~task'[v].spent
          BY <2>2, <3>1, <3>3 DEF FollowsWith
      <4> QED BY <1>5, <3>3, <4>1 DEF MadeByHand
    <3> QED BY <2>2, <3>1, <3>2, <3>3 DEF FollowsWith
  <2> QED BY <1>5, <2>1, <2>2, HandFollows
<1>8. CASE Dispatch
  <2>1. PICK u \in NewTask : task' = [task EXCEPT ![u] = [NoTask EXCEPT !.status = "queued"]]
      BY <1>8 DEF Dispatch
  <2>2. PICK new : new = [NoTask EXCEPT !.status = "queued"]
      OBVIOUS
  <2>3. new.status = "queued" /\ new.by = "root" /\ ~new.spent
      BY <2>2 DEF NoTask
  <2>4. /\ u \in Task /\ task[u].status = "none" /\ task'[u] = new /\ \A w \in Task : w # u => task'[w] = task[w]
        /\ chain' = chain
      BY <1>1, <1>8, <2>1, <2>2 DEF Dispatch, NewTask, Typed, LedgerTyped
  <2>5. v = u => MadeByHand(v)
      BY <2>3, <2>4 DEF MadeByHand
  <2> QED BY <2>4, <2>5 DEF GoesOn
<1>6. CASE UNCHANGED chain
    BY <1>2, <1>3, <1>4, <1>5, <1>6, <1>8, LedgerSteps
<1>7. CASE UNCHANGED <<task, action, followUp>> /\ \A w \in Task : chain'[w] \in {chain[w], 0}
    BY <1>3, <1>7
<1> QED BY <1>2, <1>6, <1>7, ChainSteps

LEMMA BegottenKept ==
    ASSUME IInv, IInv', Begotten, [Next]_vars
    PROVE  Begotten'
<1> SUFFICES ASSUME NEW v \in Task
             PROVE  IF task'[v].by = "auto"
                    THEN /\ task'[v].status # "none" /\ task'[v].prior \in Task
                         /\ auto'[task'[v].prior].state # "none"
                    ELSE ~task'[v].spent /\ chain'[v] = 0
    BY DEF Begotten
<1>1. CASE GoesOn(v)
  <2>1. CASE task[v].by = "auto"
    <3>1. PICK p \in Task : p = task[v].prior /\ auto[p].state # "none" /\ task[v].status # "none"
        BY <2>1 DEF Begotten
    <3>2. auto'[p].state # "none"
        BY <3>1, StepMoves DEF Moves, AutoGoes
    <3> QED BY <1>1, <2>1, <3>1, <3>2 DEF GoesOn
  <2>2. CASE task[v].by # "auto"
    <3>1. ~task[v].spent /\ chain[v] = 0
        BY <2>2 DEF Begotten
    <3> QED BY <1>1, <2>2, <3>1 DEF GoesOn
  <2> QED BY <2>1, <2>2
<1>2. CASE MadeByHand(v)
  <2>1. task[v].status = "none"
      BY <1>2 DEF MadeByHand
  <2>2. chain[v] = 0
      BY <2>1 DEF Begotten
  <2> QED BY <1>2, <2>2 DEF MadeByHand
<1>3. ASSUME NEW t \in Task, BegottenOf(v, t)
      PROVE  /\ task'[v].by = "auto" /\ task'[v].status # "none" /\ task'[v].prior = t
             /\ auto'[t].state # "none"
    BY <1>3 DEF BegottenOf, MakesFollowUp
<1> QED BY <1>1, <1>2, <1>3, TaskMoves

LEMMA SpentKept ==
    ASSUME IInv, PInv, SpentUnrecorded, [Next]_vars
    PROVE  SpentUnrecorded'
<1> SUFFICES ASSUME NEW v \in Task, task'[v].spent
             PROVE  auto'[v].state = "none"
    BY DEF SpentUnrecorded
<1>1. RecordMoves(v)
    BY RecordSteps
<1>2. CASE GoesOn(v)
  <2>1. task[v].spent
      BY <1>2, Zenon DEF GoesOn
  <2>2. auto[v].state = "none"
      BY <2>1 DEF SpentUnrecorded
  <2> QED BY <1>1, <2>1, <2>2 DEF RecordMoves, BeginsAttempt, MakesFollowUp, Rests, StartsRecord
<1>3. CASE MadeByHand(v)
    BY <1>3 DEF MadeByHand
<1>4. ASSUME NEW t \in Task, BegottenOf(v, t)
      PROVE  auto'[v].state = "none"
  <2>1. auto[v].state = "none" /\ task'[v].status = "queued"
      BY <1>4 DEF BegottenOf, IInv, HeldOnLimit, Held, Limits
  <2> QED BY <1>1, <2>1 DEF RecordMoves, BeginsAttempt, MakesFollowUp, Rests, StartsRecord, Limits
<1> QED BY <1>2, <1>3, <1>4, TaskMoves

\* What is over stays so, and what has a record keeps its status.
LEMMA OverStays ==
    ASSUME IInv, [Next]_vars, NEW v \in Task, GoesOn(v)
    PROVE  /\ Over(v) => Over(v)'
           /\ auto[v].state # "none" => task'[v].status = task[v].status
<1>1. auto[v].state # "none" => task[v].status \in Limits
    BY DEF IInv, HeldOnLimit, Held
<1>2. task[v].status \in Settled => task'[v].status = task[v].status
    BY DEF GoesOn, Settled, Limits, Unsettled
<1>3. ASSUME Over(v)
      PROVE  Over(v)'
  <2>1. /\ task'[v].status = task[v].status /\ task[v].status \in Settled
        /\ task[v].status \notin Limits \/ action[v] # "none" \/ task[v].spent
      BY <1>2, <1>3 DEF Over, Eligible
  <2>2. action[v] # "none" => action'[v] # "none"
      BY EnvelopeKept
  <2>3. task[v].spent => task'[v].spent
      BY Zenon DEF GoesOn
  <2> QED BY <2>1, <2>2, <2>3 DEF Over, Eligible
<1> QED BY <1>1, <1>2, <1>3 DEF Settled

LEMMA CountedKept ==
    ASSUME IInv, PInv, IInv', Begotten, Counted, Inheriting, twice' = {}, [Next]_vars
    PROVE  Counted'
<1> SUFFICES ASSUME NEW t \in Task, auto'[t].state # "none"
             PROVE  /\ auto'[t].attempts <= AttemptCap(t)' /\ chain'[t] <= MaxAttempts
                    /\ ~Transport(t)' => chain'[t] + Unpaid(t)' <= auto'[t].attempts
    BY DEF Counted
<1>1. /\ Typed /\ RecordMoves(t) /\ MaxAttempts \in Nat \ {0}
      /\ auto[t].attempts \in Nat /\ chain[t] \in Nat /\ auto'[t].attempts \in Nat /\ chain'[t] \in Nat
    BY RecordSteps, AutoFields, BoundAssumption DEF IInv, Typed, HistoryTyped, RecordsTyped, AutoRecord
<1>2. GoesOn(t)
  <2>1. task'[t].status \in Limits
      BY DEF IInv, HeldOnLimit, Held
  <2> QED BY <2>1, TaskMoves DEF MadeByHand, BegottenOf, Limits
<1>3. chain'[t] <= chain[t]
    BY <1>1, <1>2 DEF GoesOn
<1>4. CASE auto[t].state # "none"
  <2>1. /\ auto[t].attempts <= AttemptCap(t) /\ chain[t] <= MaxAttempts
        /\ ~Transport(t) => chain[t] + Unpaid(t) <= auto[t].attempts
      BY <1>4 DEF Counted
  <2>2. (Transport(t)' <=> Transport(t)) /\ AttemptCap(t)' = AttemptCap(t)
      BY <1>2, <1>4, OverStays DEF Transport, AttemptCap
  <2>3. AttemptCap(t) \in Nat /\ Unpaid(t) \in 0..1 /\ Unpaid(t)' \in 0..1
      BY <1>1 DEF AttemptCap, Unpaid
  <2>4. CASE auto'[t] = auto[t]
    <3>1. Unpaid(t)' <= Unpaid(t)
        BY <2>4, EnvelopeKept DEF Unpaid
    <3> QED BY <1>1, <1>3, <2>1, <2>2, <2>3, <2>4, <3>1
  <2>5. CASE BeginsAttempt(t)
    <3>1. Unpaid(t) = 0 /\ auto'[t].attempts = auto[t].attempts + 1 /\ auto[t].attempts < AttemptCap(t)
        BY <2>5 DEF BeginsAttempt, Unpaid
    <3> QED BY <1>1, <1>3, <2>1, <2>2, <2>3, <3>1
  <2>6. CASE MakesFollowUp(t)
    <3>1. Unpaid(t)' = 0 /\ auto'[t].attempts = auto[t].attempts
        BY <2>6 DEF MakesFollowUp, Unpaid
    <3> QED BY <1>1, <1>3, <2>1, <2>2, <2>3, <3>1
  <2>7. CASE Rests(t)
    <3>1. Unpaid(t)' = 0
        BY <2>7 DEF Rests, Unpaid
    <3>2. CASE auto'[t].attempts = auto[t].attempts
        BY <1>1, <1>3, <2>1, <2>2, <2>3, <3>1, <3>2
    <3>3. CASE auto'[t].attempts # auto[t].attempts
      <4>1. /\ auto[t].state = "attempting" /\ auto'[t].attempts = GivenBack(auto[t].attempts)
            /\ action[t] = "none"
          BY <2>7, <3>3 DEF Rests, Closes
      <4>2. Unpaid(t) = 1
          BY <4>1 DEF Unpaid
      <4>3. auto'[t].attempts = IF auto[t].attempts = 0 THEN 0 ELSE auto[t].attempts - 1
          BY <4>1 DEF GivenBack
      <4> QED BY <1>1, <1>3, <2>1, <2>2, <2>3, <3>1, <4>2, <4>3
    <3> QED BY <3>2, <3>3
  <2> QED BY <1>1, <1>4, <2>4, <2>5, <2>6, <2>7 DEF RecordMoves, StartsRecord
<1>5. CASE auto[t].state = "none"
  <2>1. StartsRecord(t)
      BY <1>1, <1>5 DEF RecordMoves, BeginsAttempt, MakesFollowUp, Rests
  <2>2. Unpaid(t)' = 0
      BY <2>1 DEF StartsRecord, Unpaid
  <2>3. ~Over(t)
    <3>1. Over(t) => task'[t].status = task[t].status
        BY <1>2 DEF GoesOn, Over, Settled, Limits, Unsettled
    <3> QED BY <2>1, <3>1 DEF StartsRecord, Over, Eligible
  <2>4. chain[t] # 0 => /\ chain[t] <= MaxAttempts
                        /\ Continues(t) /\ chain[t] <= auto[task[t].prior].attempts
      BY <1>1, <1>5, <2>1, <2>3 DEF Inheriting, StartsRecord
  <2>5. AttemptCap(t)' \in {1, MaxAttempts} /\ (~Transport(t)' => AttemptCap(t)' = MaxAttempts)
      BY DEF AttemptCap, Transport
  <2>6. CASE auto'[t].attempts = 0 /\ (chain'[t] = 0 \/ ~Continues(t) \/ task'[t].status = "transport")
    <3>1. ~Transport(t)' => chain'[t] = 0
        BY <1>1, <1>3, <2>4, <2>6 DEF Transport
    <3> QED BY <1>1, <1>3, <2>2, <2>4, <2>5, <2>6, <3>1
  <2>7. CASE /\ Continues(t) /\ auto'[t].attempts = auto[task[t].prior].attempts
             /\ task'[t].status = "transport" => Transport(task[t].prior)
    <3>1. PICK p \in Task : p = task[t].prior /\ auto[p].state # "none"
        BY <1>1, <2>7, ContinuedPrior
    <3>2. auto[p].attempts <= AttemptCap(p) /\ auto[p].attempts \in Nat
        BY <1>1, <3>1, AutoFields DEF Counted
    <3>3. AttemptCap(p) \in {1, MaxAttempts} /\ (Transport(t)' => AttemptCap(p) = 1)
        BY <2>7, <3>1 DEF AttemptCap, Transport
    <3>4. Transport(t)' => AttemptCap(t)' = 1
        BY DEF AttemptCap
    <3>5. auto'[t].attempts <= AttemptCap(t)'
        BY <1>1, <2>5, <2>7, <3>1, <3>2, <3>3, <3>4
    <3> QED BY <1>1, <1>3, <2>2, <2>4, <2>7, <3>5
  <2> QED BY <2>1, <2>6, <2>7 DEF StartsRecord, TakesOver
<1> QED BY <1>4, <1>5

LEMMA InheritingKept ==
    ASSUME IInv, PInv, IInv', Begotten, Counted, Inheriting, twice' = {}, [Next]_vars
    PROVE  Inheriting'
<1> SUFFICES ASSUME NEW v \in Task, chain'[v] # 0
             PROVE  /\ chain'[v] <= MaxAttempts + 1 /\ (chain'[v] > MaxAttempts => task'[v].spent)
                    /\ auto'[v].state = "none" /\ ~task'[v].spent /\ ~Over(v)' =>
                           Continues(v)' /\ chain'[v] <= auto'[task'[v].prior].attempts
    BY DEF Inheriting
<1>1. Typed /\ MaxAttempts \in Nat \ {0} /\ \A t \in Task : RecordMoves(t)
    BY RecordSteps, BoundAssumption DEF IInv
<1>2. CASE GoesOn(v)
  <2>1. /\ chain'[v] = chain[v] /\ chain[v] # 0 /\ task'[v].prior = task[v].prior
        /\ chain[v] <= MaxAttempts + 1 /\ (chain[v] > MaxAttempts => task[v].spent)
      BY <1>2 DEF GoesOn, Inheriting
  <2>2. task'[v].spent <=> task[v].spent
      BY <1>2, Zenon DEF GoesOn
  <2>3. ASSUME auto'[v].state = "none", ~task[v].spent, ~Over(v)'
        PROVE  Continues(v)' /\ chain'[v] <= auto'[task'[v].prior].attempts
    <3>1. auto[v].state = "none"
        BY <2>3, StepMoves DEF Moves, AutoGoes
    <3>2. Continues(v) /\ chain[v] <= auto[task[v].prior].attempts
        BY <1>2, <2>1, <2>3, <3>1, OverStays DEF Inheriting
    <3>3. task[v].status # "none"
        BY <2>1 DEF Begotten
    <3>4. PICK p \in Task : /\ p = task[v].prior /\ action[p] # "none" /\ v # 0
                            /\ auto[p].state \in {"attempting", "superseded"} /\ auto[p].last = v
        BY <3>2, <3>3, PriorNames DEF Continues
    <3>5. /\ auto'[p].state \in {"attempting", "superseded"} /\ auto'[p].last = v
          /\ auto'[p].attempts = auto[p].attempts
      <4>1. CASE auto'[p] = auto[p]
          BY <3>4, <4>1
      <4>2. CASE Rests(p)
        <5>1. Closes(p) /\ auto'[p].last = auto[p].last
            BY <3>4, <4>2 DEF Rests
        <5> QED BY <2>1, <2>3, <3>3, <3>4, <5>1 DEF Closes
      <4> QED BY <1>1, <3>4, <4>1, <4>2 DEF RecordMoves, BeginsAttempt, MakesFollowUp, StartsRecord
    <3>6. p # 0
        BY BoundAssumption DEF Task
    <3> QED BY <2>1, <3>2, <3>4, <3>5, <3>6 DEF Continues
  <2> QED BY <2>1, <2>2, <2>3
<1>3. CASE MadeByHand(v)
  <2>1. chain'[v] = chain[v] /\ chain[v] = 0
      BY <1>3 DEF MadeByHand, Begotten
  <2> QED BY <2>1
<1>4. ASSUME NEW t \in Task, BegottenOf(v, t)
      PROVE  /\ chain'[v] <= MaxAttempts + 1 /\ (chain'[v] > MaxAttempts => task'[v].spent)
             /\ ~task'[v].spent => Continues(v)' /\ chain'[v] <= auto'[task'[v].prior].attempts
  <2>1. /\ auto[t].state = "attempting" /\ action[t] = "none" /\ auto'[t].state = "attempting"
        /\ auto'[t].attempts = auto[t].attempts /\ auto'[t].last = v /\ task'[v].prior = t
        /\ chain'[v] = chain[t] + 1 /\ (task'[v].spent <=> Transport(t))
      BY <1>4 DEF BegottenOf, MakesFollowUp
  <2>2. /\ auto[t].attempts <= AttemptCap(t) /\ chain[t] <= MaxAttempts
        /\ ~Transport(t) => chain[t] + 1 <= auto[t].attempts
      BY <2>1 DEF Counted, Unpaid
  <2>3. auto[t].attempts \in Nat /\ chain[t] \in Nat /\ (~Transport(t) => AttemptCap(t) = MaxAttempts)
      BY <1>1, AutoFields DEF Typed, HistoryTyped, AttemptCap
  <2>4. Continues(v)'
      BY <2>1, BoundAssumption DEF Continues, Task
  <2> QED BY <1>1, <2>1, <2>2, <2>3, <2>4
<1> QED BY <1>2, <1>3, <1>4, TaskMoves

LEMMA BudgetInv == IInv /\ PInv /\ BInv /\ [Next]_vars => BInv'
<1> SUFFICES ASSUME IInv, PInv, BInv, [Next]_vars
             PROVE  BInv'
    OBVIOUS
<1>1. IInv' /\ twice \subseteq twice'
    BY StepMoves DEF Moves
<1>2. Begotten' /\ SpentUnrecorded'
    BY <1>1, BegottenKept, SpentKept DEF BInv
<1>3. ASSUME twice' = {}
      PROVE  Counted' /\ Inheriting'
  <2>1. Counted /\ Inheriting /\ Begotten
      BY <1>1, <1>3 DEF BInv
  <2> QED BY <1>1, <1>3, <2>1, CountedKept, InheritingKept
<1> QED BY <1>2, <1>3 DEF BInv

LEMMA BudgetInit == Init => BInv
<1> SUFFICES ASSUME Init PROVE BInv
    OBVIOUS
<1>1. \A t \in Task : /\ auto[t].state = "none" /\ chain[t] = 0
                      /\ task[t].by # "auto" /\ ~task[t].spent
    BY DEF Init, NoAuto, NoTask
<1> QED BY <1>1 DEF BInv, Begotten, SpentUnrecorded, Counted, Inheriting

\* The budget belongs to the lineage: over restarts, deferrals, the switch and
\* people, the automatic follow-ups in a row never outnumber the attempts a
\* lineage has, and the one of a transport incident ends it.
THEOREM LineagesKeepTheirBudget == Spec => []LineageBudget
<1>1. IInv /\ BInv => LineageBudget
  <2> SUFFICES ASSUME IInv, BInv, twice = {}, NEW t \in Task
               PROVE  /\ chain[t] <= MaxAttempts + 1
                      /\ chain[t] > MaxAttempts => task[t].spent
                      /\ \A u \in Task : task[u].prior = t /\ task[t].spent => task[u].by # "auto"
      BY DEF LineageBudget
  <2>1. ASSUME NEW u \in Task, task[u].prior = t, task[t].spent
        PROVE  task[u].by # "auto"
      BY <2>1 DEF BInv, Begotten, SpentUnrecorded
  <2>2. chain[t] <= MaxAttempts + 1 /\ (chain[t] > MaxAttempts => task[t].spent)
    <3>1. chain[t] = 0 => ~(chain[t] > MaxAttempts) /\ chain[t] <= MaxAttempts + 1
        BY BoundAssumption
    <3>2. chain[t] # 0 => chain[t] <= MaxAttempts + 1 /\ (chain[t] > MaxAttempts => task[t].spent)
        BY DEF BInv, Inheriting
    <3> QED BY <3>1, <3>2
  <2> QED BY <2>1, <2>2
<1>2. Spec => [](IInv /\ PInv /\ BInv)
  <2>1. IInv /\ [Next]_vars => IInv'
      BY StepMoves
  <2> QED BY <2>1, InitInv, PromisesInit, PromisesInv, BudgetInit, BudgetInv, PTL DEF Spec
<1> QED BY <1>1, <1>2, PTL

-----------------------------------------------------------------------------
(* The refinement *)

\* What ParkedResult sees.
Results == [t \in Task |-> Result(t)]

\* The task of v is as much finished as it was.
SameStage(v) == \/ task'[v].status = task[v].status
                \/ task[v].status \in Unsettled /\ task'[v].status \in Unsettled

\* The result of v stays what it is: a record follows no second task.
LEMMA ResultKept ==
    ASSUME IInv, PInv, [Next]_vars, NEW v \in Task,
           action'[v] = action[v], followUp'[v] = followUp[v], SameStage(v)
    PROVE  Result(v)' = Result(v)
<1>1. action[v] = "retry" => auto'[v].last = auto[v].last
  <2>1. RecordMoves(v)
      BY RecordSteps
  <2> QED BY <2>1 DEF RecordMoves, BeginsAttempt, MakesFollowUp, Rests, StartsRecord
<1>2. action[v] \in {"none", "retry", "drop"}
    BY DEF IInv, Typed, LedgerTyped
<1>3. /\ task'[v].status = "none" <=> task[v].status = "none"
      /\ task'[v].status \in Unsettled <=> task[v].status \in Unsettled
    BY DEF SameStage, Unsettled
<1> QED BY <1>1, <1>2, <1>3 DEF Result

\* The envelope of t names the follow-up u, and no other result changes.
LEMMA FollowsResult ==
    ASSUME IInv, PInv, [Next]_vars, NEW t \in Task, action[t] = "none", task[t].status \in Limits,
           NEW u \in Task, NEW new \in TaskRecord, FollowsWith(t, u, new),
           NEW record, Acknowledge(t, u, new, record)
    PROVE  /\ Results[t] = "open"
           /\ Disposition!Follow(t, IF auto'[t].last = u THEN "resumed" ELSE "retried")
<1>1. /\ u # t /\ u # 0 /\ task'[u] = new /\ \A v \in Task : v # u => task'[v] = task[v]
      /\ action'[t] = "retry" /\ followUp'[t] = u
      /\ \A v \in Task : v # t => action'[v] = action[v] /\ followUp'[v] = followUp[v]
    BY AcknowledgeLinks
<1>2. PICK how : how = IF auto'[t].last = u THEN "resumed" ELSE "retried"
    OBVIOUS
<1>3. Result(t)' = how /\ Result(t) = "open"
  <2>1. task'[t].status = task[t].status /\ task[t].status \notin Unsettled \cup {"none"}
      BY <1>1 DEF Limits, Unsettled
  <2> QED BY <1>1, <1>2, <2>1 DEF Result
<1>4. Result(u) \in {"none", "pending"} /\ Result(u)' = "pending"
    BY <1>1 DEF FollowsWith, Result, Unsettled
<1>5. ASSUME NEW v \in Task, v # t, v # u
      PROVE  Result(v)' = Result(v)
    BY <1>1, <1>5, ResultKept DEF SameStage
<1>6. Results' = [Results EXCEPT ![t] = how, ![u] = "pending"]
    BY <1>1, <1>3, <1>4, <1>5 DEF Results
<1>7. followUp' = [followUp EXCEPT ![t] = u]
    BY DEF Acknowledge
<1>8. Results[t] = "open" /\ Results[u] \in {"none", "pending"}
    BY <1>3, <1>4 DEF Results
<1> QED BY <1>2, <1>6, <1>7, <1>8 DEF Disposition!Follow, Results

\* One result changes.
LEMMA OneResult ==
    ASSUME IInv, PInv, [Next]_vars, NEW t \in Task,
           \A v \in Task : v # t => /\ action'[v] = action[v] /\ followUp'[v] = followUp[v]
                                    /\ SameStage(v)
    PROVE  Results' = [Results EXCEPT ![t] = Result(t)']
<1>1. ASSUME NEW v \in Task, v # t
      PROVE  Result(v)' = Result(v)
    BY <1>1, ResultKept
<1> QED BY <1>1 DEF Results

\* A result is disposed of once, with a follow-up that the same save creates or
\* that the duplicate guard found unfinished, and resumes by itself only while
\* the switch is on (acknowledgeResult, prepareSubmissionLocked,
\* parkAutoResumeLocked).
THEOREM DispositionsImplemented == Spec => DisposesOnce
<1>1. Init => Disposition!Init
  <2> SUFFICES ASSUME Init PROVE Disposition!Init
      OBVIOUS
  <2>1. \A t \in Task : task[t].status \in {"none", "live"}
      BY DEF Init, NoTask
  <2>2. \A t \in Task : Result(t) \in {"none", "pending"} /\ ~Open(t)
      BY <2>1 DEF Result, Open, Settled, Limits, Unsettled
  <2> QED BY <2>2 DEF Init, Disposition!Init
<1>2. IInv /\ PInv /\ [Next]_vars => Disposition!Next
  <2> SUFFICES ASSUME IInv, PInv, [Next]_vars PROVE Disposition!Next
      OBVIOUS
  <2>1. \A t \in {u \in Task : Open(u)' /\ Active(u)'} : Result(t)' = "open"
      BY DEF Open, Result, Settled, Limits, Unsettled
  <2>2. /\ task \in [Task -> TaskRecord] /\ action \in [Task -> {"none", "retry", "drop"}]
        /\ followUp \in [Task -> 0..MaxTask]
      BY DEF IInv, Typed, LedgerTyped
  <2>3. CASE UNCHANGED <<task, action, followUp>>
    <3>1. Results' = Results
        BY <2>3, ResultKept DEF Results, SameStage
    <3> QED BY <2>1, <2>3, <3>1 DEF Disposition!Next, Results
  <2>4. ASSUME NEW t \in Task, NEW s \in Settled \cup {"live"},
               task[t].status \in Unsettled, task' = [task EXCEPT ![t].status = s],
               UNCHANGED <<action, followUp>>
        PROVE  Disposition!Next
    <3>1. task'[t].status = s /\ \A v \in Task : v # t => task'[v] = task[v]
        BY <2>2, <2>4 DEF TaskRecord
    <3>2. action[t] = "none"
        BY <2>4 DEF IInv, HeldOnLimit, Held, Unsettled, Limits
    <3>3. Result(t) = "pending" /\ Results[t] = "pending"
        BY <2>4 DEF Results, Result, Unsettled
    <3>4. Results' = [Results EXCEPT ![t] = Result(t)']
        BY <2>4, <3>1, OneResult DEF SameStage
    <3>5. CASE s = "live"
      <4>1. Result(t)' = "pending"
          BY <3>1, <3>5 DEF Result, Unsettled
      <4>2. Results' = Results
          BY <3>3, <3>4, <4>1 DEF Results
      <4> QED BY <2>1, <2>4, <4>2 DEF Disposition!Next, Results
    <3>6. CASE s \in Settled
      <4>1. Result(t)' = "open"
          BY <2>4, <3>1, <3>2, <3>6 DEF Result, Unsettled, Settled, Limits
      <4>2. Disposition!Settle(t)
          BY <2>4, <3>3, <3>4, <4>1 DEF Disposition!Settle, Results
      <4> QED BY <2>1, <4>2 DEF Disposition!Next
    <3> QED BY <3>5, <3>6
  <2>5. ASSUME NEW d \in Step, AckAuto(d), Admits(d)
        PROVE  Disposition!Next
    <3>1. PICK t \in Task : t = steps[d].task
        BY StepFields DEF IInv
    <3>2. action[t] = "none" /\ Active(t) /\ task[t].status \in Limits
        BY <2>5, <3>1, AutoFollows
    <3>3. PICK u \in Task, new \in TaskRecord :
            FollowsWith(t, u, new) /\ Acknowledge(t, u, new, [auto[t] EXCEPT !.last = u])
        BY <2>5, <3>1, AutoFollows
    <3>4. auto'[t].last = u
      <4>1. followUp'[t] = u
          BY <3>2, <3>3, AcknowledgeLinks
      <4> QED BY <2>5, <3>1, <4>1, AckAutoMakes DEF MakesFollowUp
    <3>5. Disposition!Follow(t, "resumed")
        BY <3>2, <3>3, <3>4, FollowsResult
    <3>6. t \in {v \in Task : Open(v) /\ Active(v)}
        BY <3>2 DEF Open, Settled
    <3> QED BY <2>1, <3>5, <3>6 DEF Disposition!Next
  <2>6. ASSUME NEW t \in Task, AckByHand(t), action[t] = "none"
        PROVE  Disposition!Next
    <3>1. task[t].status \in Limits
        BY <2>6, HandFollows
    <3>2. ASSUME NEW u \in Task, NEW new \in TaskRecord,
                 FollowsWith(t, u, new), Acknowledge(t, u, new, Voided(t))
          PROVE  Disposition!Next
      <4>1. u # t /\ u # 0
          BY <2>6, <3>1, <3>2, AcknowledgeLinks
      <4>2. auto[t].last \in {0, t} /\ auto[t] \in AutoRecord
          BY <2>6, AutoFields DEF PInv, LastKnown, IInv
      <4>3. auto'[t] = Voided(t)
          BY <3>2 DEF Acknowledge, IInv, Typed, RecordsTyped
      <4>4. Voided(t).last = auto[t].last
          BY <4>2 DEF Voided, AutoRecord
      <4>5. Disposition!Follow(t, "retried")
          BY <2>6, <3>1, <3>2, <4>1, <4>2, <4>3, <4>4, FollowsResult
      <4> QED BY <2>1, <4>5 DEF Disposition!Next
    <3>3. CASE action' = [action EXCEPT ![t] = "drop"] /\ UNCHANGED <<task, followUp>>
      <4>1. action'[t] = "drop" /\ \A v \in Task : v # t => action'[v] = action[v]
          BY <2>2, <3>3
      <4>2. Result(t)' = "dropped" /\ Results[t] = "open"
          BY <2>6, <3>1, <3>3, <4>1 DEF Result, Results, Limits, Unsettled
      <4>3. Results' = [Results EXCEPT ![t] = "dropped"]
          BY <3>3, <4>1, <4>2, OneResult DEF SameStage
      <4>4. Disposition!Drop(t)
          BY <3>3, <4>2, <4>3 DEF Disposition!Drop, Results
      <4> QED BY <2>1, <4>4 DEF Disposition!Next
    <3> QED BY <2>6, <3>2, <3>3, HandFollows
  <2>7. CASE Dispatch
    <3>1. PICK u \in NewTask : task' = [task EXCEPT ![u] = [NoTask EXCEPT !.status = "queued"]]
        BY <2>7 DEF Dispatch
    <3>2. /\ UNCHANGED <<action, followUp>> /\ u \in Task /\ task[u].status = "none"
          /\ task'[u].status = "queued" /\ \A v \in Task : v # u => task'[v] = task[v]
        BY <2>2, <2>7, <3>1 DEF Dispatch, NewTask, NoTask
    <3>3. Result(u) = "none" /\ Result(u)' = "pending"
        BY <3>2 DEF Result, Unsettled
    <3>4. Results' = [Results EXCEPT ![u] = "pending"]
        BY <3>2, <3>3, OneResult DEF SameStage
    <3>5. Disposition!Create(u)
        BY <3>2, <3>3, <3>4 DEF Disposition!Create, Results
    <3> QED BY <2>1, <3>2, <3>5 DEF Disposition!Next
  <2> QED BY <2>3, <2>4, <2>5, <2>6, <2>7, LedgerSteps
<1>3. Spec => [](IInv /\ PInv)
  <2>1. IInv /\ [Next]_vars => IInv'
      BY StepMoves
  <2> QED BY <2>1, InitInv, PromisesInit, PromisesInv, PTL DEF Spec
<1> QED BY <1>1, <1>2, <1>3, PTL DEF Spec, DisposesOnce, Disposition!Spec

=============================================================================
