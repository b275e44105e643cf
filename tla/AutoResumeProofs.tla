--------------------------- MODULE AutoResumeProofs ---------------------------
(***************************************************************************)
(* The invariants of automatic resume, for any lineages, any number of     *)
(* steps in flight and any limits.                                         *)
(***************************************************************************)
EXTENDS AutoResume, TLAPS

AutoState == ActiveState \cup {"none", "superseded", "succeeded", "ended",
                               "acknowledged", "exhausted", "cancelled"}
TimerRecord == [kind : {"none", "plan", "attempt"}, gen : Nat]
StepPc == {"idle", "plan", "asked", "acking", "joined", "started", "refused"}
StepRecord == [pc : StepPc, task : Task, gen : Nat, void : BOOLEAN]

\* The parts of TypeOK, by what changes together.
LedgerTyped ==
    /\ task \in [Task -> TaskRecord]
    /\ action \in [Task -> {"none", "retry", "drop"}]
    /\ followUp \in [Task -> 0..MaxTask]
RecordsTyped ==
    /\ auto \in [Task -> AutoRecord]
    /\ late \in SUBSET Task
    /\ timer \in [Task -> TimerRecord]
StepsTyped ==
    /\ steps \in [Step -> StepRecord]
    /\ acks \in [Task -> {"none", "auto", "user", "handoff"}]
ProcessTyped ==
    /\ up \in {"down", "starting", "rearming", "running"}
    /\ cursor \in 0..(2 * MaxTask)
    /\ up = "rearming" => cursor # 0
HistoryTyped ==
    /\ chain \in [Task -> Nat]
    /\ lost \in SUBSET Task /\ twice \in SUBSET Task
    /\ choices \in Nat /\ faults \in Nat

Typed == LedgerTyped /\ RecordsTyped /\ StepsTyped /\ ProcessTyped /\ HistoryTyped

\* A result is retried exactly if its envelope names a follow-up.
Linked == OneFollowUp /\ \A t \in Task : action[t] = "retry" <=> followUp[t] # 0

\* Somebody has something to do with the result of t.
Held(t) == auto[t].state # "none" \/ action[t] # "none" \/ acks[t] \in {"user", "handoff"}
\* Only a task that stopped on a limit is held.
HeldOnLimit == \A t \in Task : Held(t) => task[t].status \in Limits

\* What is armed or in flight belongs to a record and is not ahead of it.
TimersKnown == \A t \in Task : timer[t].kind # "none" =>
                   auto[t].state # "none" /\ timer[t].gen <= auto[t].gen
StepsKnown == \A d \in Step : steps[d].pc # "idle" =>
                  LET t == steps[d].task
                  IN /\ auto[t].state # "none" /\ steps[d].gen <= auto[t].gen
                     /\ steps[d].void => steps[d].gen < auto[t].gen

\* While an attempt of the current generation is out, no other can begin.
Waiting == {"planning", "scheduled"}
AttemptHoldsRecord ==
    \A d \in Step : LET t == steps[d].task
                    IN Attempting(d) /\ t \notin twice /\ steps[d].gen = auto[t].gen
                       => auto[t].state \notin Waiting

IInv == Typed /\ Linked /\ HeldOnLimit /\ TimersKnown /\ StepsKnown /\ AttemptHoldsRecord /\ OneAttempt

-----------------------------------------------------------------------------
(* What every step does *)

\* A task that stopped on a limit stays so.
StatusGoes == \A t \in Task : task[t].status \in Limits => task'[t].status \in Limits

\* What was not held becomes so only after a limit.
HeldGoes == \A t \in Task : Held(t)' => Held(t) \/ task'[t].status \in Limits

\* A record is never forgotten, and its generation never falls.
AutoGoes == \A t \in Task : auto[t].state # "none" =>
                auto'[t].state # "none" /\ auto[t].gen <= auto'[t].gen

\* A record that waits again has a new generation or no attempt out.
Reopens ==
    \A t \in Task : auto'[t].state \in Waiting =>
        \/ auto[t].state \in Waiting \cup {"none"}
        \/ auto[t].gen < auto'[t].gen
        \/ t \in twice'
        \/ \A d \in Step : steps'[d].pc \in {"idle", "plan"} \/ steps'[d].task # t
                           \/ steps'[d].gen # auto'[t].gen

TimersGo == \A t \in Task : timer'[t].kind # "none" =>
                \/ timer'[t] = timer[t]
                \/ auto'[t].state # "none" /\ timer'[t].gen = auto'[t].gen

\* A step goes on with the generation it has; it becomes void when a person
\* speaks, which begins another one.
Continued(d) ==
    steps'[d].pc # "idle" =>
        /\ steps[d].pc # "idle"
        /\ steps'[d].task = steps[d].task /\ steps'[d].gen = steps[d].gen
        /\ steps'[d].void => steps[d].void \/ steps[d].gen < auto'[steps[d].task].gen
        /\ steps'[d].pc # "plan" => steps[d].pc # "plan"
\* Or it begins with that of its record.
Begun(d) ==
    LET t == steps'[d].task
    IN /\ auto[t].state # "none" /\ auto'[t].state # "none"
       /\ auto'[t].gen = auto[t].gen /\ ~steps'[d].void
       /\ steps'[d].gen <= auto'[t].gen
       /\ \/ steps'[d].pc = "plan"
          \/ /\ auto[t].state \in Waiting /\ auto'[t].state = "attempting"
             /\ steps'[d].gen = auto[t].gen
StepsGo == /\ \A d \in Step : Continued(d) \/ Begun(d)
           /\ \A d, e \in Step : d # e => Continued(d) \/ Continued(e)

Moves == /\ StatusGoes /\ HeldGoes /\ AutoGoes /\ Reopens /\ TimersGo /\ StepsGo
         /\ twice \subseteq twice'

\* What holds of a step, whichever it is.
LEMMA StepFields ==
    ASSUME Typed, NEW d \in Step
    PROVE  /\ steps[d].pc \in StepPc /\ steps[d].task \in Task
           /\ steps[d].gen \in Nat /\ steps[d].void \in BOOLEAN
BY DEF Typed, StepsTyped, StepRecord

LEMMA AutoFields ==
    ASSUME Typed, NEW t \in Task
    PROVE  /\ auto[t] \in AutoRecord
           /\ auto[t].state \in AutoState /\ auto[t].gen \in Nat
           /\ auto[t].attempts \in Nat /\ auto[t].failures \in Nat
           /\ auto[t].last \in 0..MaxTask /\ auto[t].enabled \in BOOLEAN
           /\ auto[t].target \in {"none", "backup", "original"}
BY DEF Typed, RecordsTyped, AutoRecord, AutoState

\* A step of the system that moves as described keeps the invariant.
LEMMA MovesInv ==
    ASSUME IInv, Typed', Linked', Moves
    PROVE  IInv' /\ Moves
<1>1. Typed /\ HeldOnLimit /\ TimersKnown /\ StepsKnown /\ AttemptHoldsRecord /\ OneAttempt
    BY DEF IInv
<1>2. StatusGoes /\ HeldGoes /\ AutoGoes /\ Reopens /\ TimersGo /\ StepsGo /\ twice \subseteq twice'
    BY DEF Moves
<1>3. \A t \in Task : auto[t].gen \in Nat /\ auto'[t].gen \in Nat
    BY <1>1, AutoFields DEF Typed, RecordsTyped, AutoRecord
<1>4. \A d \in Step : steps[d].task \in Task /\ steps[d].gen \in Nat
                      /\ steps'[d].task \in Task /\ steps'[d].gen \in Nat
    BY <1>1 DEF Typed, StepsTyped, StepRecord
<1>5. HeldOnLimit'
    BY <1>1, <1>2 DEF HeldOnLimit, HeldGoes, StatusGoes
<1>6. TimersKnown'
  <2> SUFFICES ASSUME NEW t \in Task, timer'[t].kind # "none"
               PROVE  auto'[t].state # "none" /\ timer'[t].gen <= auto'[t].gen
      BY DEF TimersKnown
  <2>1. CASE timer'[t] = timer[t]
    <3>1. timer[t].gen \in Nat /\ auto[t].state # "none" /\ timer[t].gen <= auto[t].gen
        BY <1>1, <2>1 DEF TimersKnown, Typed, RecordsTyped, TimerRecord
    <3> QED BY <1>2, <1>3, <2>1, <3>1 DEF AutoGoes
  <2>2. CASE auto'[t].state # "none" /\ timer'[t].gen = auto'[t].gen
      BY <1>3, <2>2
  <2> QED BY <1>2, <2>1, <2>2 DEF TimersGo
<1>7. StepsKnown'
  <2> SUFFICES ASSUME NEW d \in Step, steps'[d].pc # "idle", NEW t, t = steps'[d].task
               PROVE  /\ auto'[t].state # "none" /\ steps'[d].gen <= auto'[t].gen
                      /\ steps'[d].void => steps'[d].gen < auto'[t].gen
      BY DEF StepsKnown
  <2>1. CASE Continued(d)
    <3>1. /\ steps[d].pc # "idle" /\ t = steps[d].task /\ steps'[d].gen = steps[d].gen
          /\ steps'[d].void => steps[d].void \/ steps[d].gen < auto'[t].gen
        BY <2>1 DEF Continued
    <3>2. /\ auto[t].state # "none" /\ steps[d].gen <= auto[t].gen
          /\ steps[d].void => steps[d].gen < auto[t].gen
        BY <1>1, <3>1 DEF StepsKnown
    <3>3. auto'[t].state # "none" /\ auto[t].gen <= auto'[t].gen
        BY <1>2, <1>4, <3>2 DEF AutoGoes
    <3> QED BY <1>3, <1>4, <3>1, <3>2, <3>3
  <2>2. CASE Begun(d)
      BY <2>2 DEF Begun
  <2> QED BY <1>2, <2>1, <2>2 DEF StepsGo
<1>8. \A d \in Step : Continued(d) /\ Attempting(d)' /\ steps'[d].task \notin twice'
                      /\ steps'[d].gen = auto'[steps'[d].task].gen
                      => /\ Attempting(d) /\ steps[d].task = steps'[d].task
                         /\ steps[d].gen = steps'[d].gen /\ steps[d].task \notin twice
                         /\ auto[steps[d].task].state \notin Waiting \cup {"none"}
                         /\ auto[steps[d].task].gen = auto'[steps[d].task].gen
  <2> SUFFICES ASSUME NEW d \in Step, Continued(d), Attempting(d)', NEW t, t = steps'[d].task,
                      t \notin twice', steps'[d].gen = auto'[t].gen
               PROVE  /\ Attempting(d) /\ steps[d].task = t
                      /\ steps[d].gen = steps'[d].gen /\ t \notin twice
                      /\ auto[t].state \notin Waiting \cup {"none"}
                      /\ auto[t].gen = auto'[t].gen
      OBVIOUS
  <2>1. /\ steps[d].pc # "idle" /\ t = steps[d].task /\ steps'[d].gen = steps[d].gen
        /\ Attempting(d) /\ t \notin twice
      BY <1>2 DEF Continued, Attempting
  <2>2. auto[t].state # "none" /\ steps[d].gen <= auto[t].gen
      BY <1>1, <2>1 DEF StepsKnown
  <2>3. auto[t].gen <= auto'[t].gen
      BY <1>2, <1>4, <2>2 DEF AutoGoes
  <2>4. auto[t].gen = steps[d].gen /\ auto[t].gen = auto'[t].gen
      BY <1>3, <1>4, <2>1, <2>2, <2>3
  <2> QED BY <1>1, <2>1, <2>2, <2>4 DEF AttemptHoldsRecord
<1>9. AttemptHoldsRecord'
  <2> SUFFICES ASSUME NEW d \in Step, Attempting(d)', NEW t, t = steps'[d].task,
                      t \notin twice', steps'[d].gen = auto'[t].gen
               PROVE  auto'[t].state \notin Waiting
      BY DEF AttemptHoldsRecord
  <2>1. CASE Continued(d)
    <3>1. auto[t].state \notin Waiting \cup {"none"} /\ auto[t].gen = auto'[t].gen
        BY <1>8, <2>1
    <3>2. t \in Task /\ ~(auto[t].gen < auto'[t].gen) /\ steps'[d].pc \notin {"idle", "plan"}
        BY <1>3, <1>4, <3>1 DEF Attempting
    <3> QED BY <1>2, <3>1, <3>2 DEF Reopens
  <2>2. CASE Begun(d)
      BY <2>2 DEF Begun, Attempting, Waiting
  <2> QED BY <1>2, <2>1, <2>2 DEF StepsGo
<1>10. OneAttempt'
  <2> SUFFICES ASSUME NEW d \in Step, NEW e \in Step, d # e, Attempting(d)', Attempting(e)',
                      NEW t, t = steps'[d].task, t = steps'[e].task, t \notin twice',
                      steps'[d].gen = steps'[e].gen, Continued(d)
               PROVE  FALSE
      BY <1>2 DEF OneAttempt, StepsGo
  <2>1. CASE Continued(e)
    <3>1. /\ Attempting(d) /\ Attempting(e) /\ steps[d].task = t /\ steps[e].task = t
          /\ steps[d].gen = steps[e].gen /\ t \notin twice
        BY <1>2, <2>1 DEF Continued, Attempting
    <3> QED BY <1>1, <3>1 DEF OneAttempt
  <2>2. CASE Begun(e)
    <3>1. /\ auto[t].state \in Waiting /\ auto'[t].gen = auto[t].gen /\ steps'[e].gen = auto[t].gen
        BY <2>2 DEF Begun, Attempting
    <3> QED BY <1>8, <3>1
  <2> QED BY <1>2, <2>1, <2>2 DEF StepsGo
<1> QED BY <1>5, <1>6, <1>7, <1>9, <1>10 DEF IInv

-----------------------------------------------------------------------------
(* Parts of a step *)

\* A task is launched or settles: nothing links or unlinks.
LEMMA StatusStep ==
    ASSUME IInv, NEW t \in Task, NEW s \in Settled \cup {"live"}, task[t].status \in Unsettled,
           task' = [task EXCEPT ![t].status = s], UNCHANGED <<action, followUp>>
    PROVE  LedgerTyped' /\ Linked' /\ StatusGoes /\ task'[t].status = s
<1>1. Typed /\ OneFollowUp /\ \A u \in Task : action[u] = "retry" <=> followUp[u] # 0
    BY DEF IInv, Linked
<1>2. task \in [Task -> TaskRecord]
    BY <1>1 DEF Typed, LedgerTyped
<1>3. /\ [task[t] EXCEPT !.status = s] \in TaskRecord
      /\ [task[t] EXCEPT !.status = s].status = s
      /\ [task[t] EXCEPT !.status = s].prior = task[t].prior
    BY <1>2 DEF TaskRecord, Unsettled
<1>4. /\ task' \in [Task -> TaskRecord] /\ task'[t].status = s /\ task'[t].prior = task[t].prior
      /\ \A u \in Task : u # t => task'[u] = task[u]
    BY <1>2, <1>3
<1>5. LedgerTyped'
    BY <1>1, <1>4 DEF Typed, LedgerTyped
<1>6. \A u \in Task : task'[u].prior = task[u].prior /\ (task'[u].status = "none" <=> task[u].status = "none")
    BY <1>4 DEF Unsettled, Settled, Limits
<1>7. Linked'
    BY <1>1, <1>6 DEF Linked, OneFollowUp
<1>8. StatusGoes
    BY <1>4 DEF StatusGoes, Unsettled, Limits
<1> QED BY <1>4, <1>5, <1>7, <1>8

\* The ledger's tasks and envelopes are left alone.
LEMMA SameLedger ==
    ASSUME IInv, UNCHANGED <<task, action, followUp>>
    PROVE  LedgerTyped' /\ Linked' /\ StatusGoes
BY DEF IInv, Typed, LedgerTyped, Linked, OneFollowUp, StatusGoes

LEMMA SameAuto ==
    ASSUME Typed, UNCHANGED auto
    PROVE  AutoGoes /\ Reopens
<1>1. \A t \in Task : auto[t].gen \in Nat
    BY AutoFields
<1> QED BY <1>1 DEF AutoGoes, Reopens

LEMMA SameSteps ==
    ASSUME UNCHANGED steps
    PROVE  StepsGo
BY DEF StepsGo, Continued

\* One record changes.
LEMMA OneAuto ==
    ASSUME Typed, NEW t \in Task, NEW r \in AutoRecord, auto' = [auto EXCEPT ![t] = r],
           r.state # "none", auto[t].gen <= r.gen
    PROVE  /\ auto' \in [Task -> AutoRecord] /\ AutoGoes /\ auto'[t] = r
           /\ \A u \in Task : u # t => auto'[u] = auto[u]
<1>1. auto \in [Task -> AutoRecord] /\ \A u \in Task : auto[u].gen \in Nat
    BY AutoFields DEF Typed, RecordsTyped
<1>2. auto' \in [Task -> AutoRecord] /\ auto'[t] = r /\ \A u \in Task : u # t => auto'[u] = auto[u]
    BY <1>1
<1> QED BY <1>1, <1>2 DEF AutoGoes

\* It waits again only if it did before.
LEMMA OneReopens ==
    ASSUME Typed, NEW t \in Task, \A u \in Task : u # t => auto'[u] = auto[u],
           auto'[t].state \in Waiting => auto[t].state \in Waiting \cup {"none"} \/ auto[t].gen < auto'[t].gen
    PROVE  Reopens
BY DEF Reopens

\* Timers are cleared or left.
LEMMA FewerTimers ==
    ASSUME Typed, timer' \in [Task -> TimerRecord], \A t \in Task : timer'[t] \in {timer[t], NoTimer}
    PROVE  TimersGo
BY DEF TimersGo, NoTimer

LEMMA ClearedTimer ==
    ASSUME Typed, NEW t \in Task, timer' = Cleared(t)
    PROVE  timer' \in [Task -> TimerRecord] /\ TimersGo
<1>1. NoTimer \in TimerRecord
    BY DEF NoTimer, TimerRecord
<1>2. timer' \in [Task -> TimerRecord] /\ \A u \in Task : timer'[u] \in {timer[u], NoTimer}
    BY <1>1 DEF Typed, RecordsTyped, Cleared
<1> QED BY <1>2, FewerTimers

\* A timer is armed for the record as it now is.
LEMMA ArmedTimer ==
    ASSUME Typed, NEW t \in Task, NEW kind \in {"plan", "attempt"}, timer' = Armed(t, kind),
           auto'[t].state # "none", auto'[t].gen = auto[t].gen
    PROVE  timer' \in [Task -> TimerRecord] /\ TimersGo
<1>1. [kind |-> kind, gen |-> auto[t].gen] \in TimerRecord
    BY AutoFields DEF TimerRecord
<1>2. /\ timer' \in [Task -> TimerRecord]
      /\ \A u \in Task : u # t => timer'[u] = timer[u]
      /\ timer'[t].gen = auto[t].gen
    BY <1>1 DEF Typed, RecordsTyped, Armed
<1> QED BY <1>2 DEF TimersGo

\* A step of t goes to a record that keeps its generation.
LEMMA GoesStep ==
    ASSUME Typed, NEW t \in Task, NEW r \in AutoRecord, r.state # "none", r.gen = auto[t].gen,
           NEW next \in {"none", "plan", "attempt"}, Goes(t, r, next), UNCHANGED late
    PROVE  /\ RecordsTyped' /\ AutoGoes /\ TimersGo /\ auto'[t] = r
           /\ \A u \in Task : u # t => auto'[u] = auto[u]
<1>1. auto' = [auto EXCEPT ![t] = r] /\ auto[t].gen <= r.gen
    BY AutoFields DEF Goes
<1>2. /\ auto' \in [Task -> AutoRecord] /\ AutoGoes /\ auto'[t] = r
      /\ \A u \in Task : u # t => auto'[u] = auto[u]
    BY <1>1, OneAuto
<1>3. timer' \in [Task -> TimerRecord] /\ TimersGo
  <2>1. CASE next = "none"
      BY <2>1, ClearedTimer DEF Goes
  <2>2. CASE next # "none"
      BY <1>2, <2>2, ArmedTimer DEF Goes
  <2> QED BY <2>1, <2>2
<1> QED BY <1>2, <1>3 DEF Typed, RecordsTyped

\* A step in flight is over.
LEMMA EndedStep ==
    ASSUME Typed, NEW d \in Step, steps' = Ended(d)
    PROVE  /\ steps' \in [Step -> StepRecord] /\ StepsGo
           /\ steps'[d].pc = "idle" /\ \A e \in Step : e # d => steps'[e] = steps[e]
<1>1. NoStep \in StepRecord /\ NoStep.pc = "idle"
    BY BoundAssumption DEF NoStep, StepRecord, StepPc, Task
<1>2. /\ steps' \in [Step -> StepRecord]
      /\ steps'[d].pc = "idle" /\ \A e \in Step : e # d => steps'[e] = steps[e]
    BY <1>1 DEF Typed, StepsTyped, Ended
<1>3. StepsGo
    BY <1>2 DEF StepsGo, Continued
<1> QED BY <1>2, <1>3

\* The process goes down with its timers and steps.
LEMMA PowerOffStep ==
    ASSUME Typed, PowerOff
    PROVE  StepsTyped' /\ ProcessTyped' /\ StepsGo /\ timer' \in [Task -> TimerRecord] /\ TimersGo
           /\ acks' = [t \in Task |-> "none"]
<1>1. NoStep \in StepRecord /\ NoStep.pc = "idle" /\ NoTimer \in TimerRecord
    BY BoundAssumption DEF NoStep, StepRecord, StepPc, Task, NoTimer, TimerRecord
<1>2. steps' \in [Step -> StepRecord] /\ \A d \in Step : steps'[d].pc = "idle"
    BY <1>1 DEF PowerOff
<1>3. timer' \in [Task -> TimerRecord] /\ \A t \in Task : timer'[t] \in {timer[t], NoTimer}
    BY <1>1 DEF PowerOff
<1>4. StepsTyped' /\ ProcessTyped'
    BY <1>2, BoundAssumption DEF PowerOff, StepsTyped, ProcessTyped
<1>5. StepsGo
    BY <1>2 DEF StepsGo, Continued
<1> QED BY <1>3, <1>4, <1>5, FewerTimers DEF PowerOff

\* Nobody holds anything new.
LEMMA NobodyNew ==
    ASSUME UNCHANGED action, \A t \in Task : acks'[t] \in {"user", "handoff"} => acks'[t] = acks[t],
           \A t \in Task : auto'[t].state # "none" => auto[t].state # "none" \/ task'[t].status \in Limits
    PROVE  HeldGoes
BY DEF HeldGoes, Held

-----------------------------------------------------------------------------
(* Parking *)

\* The prior of a follow-up is a task of the lineage with a record.
LEMMA ContinuedPrior ==
    ASSUME Typed, NEW t \in Task, Continues(t)
    PROVE  /\ task[t].prior \in Task
           /\ auto[task[t].prior].state \in {"attempting", "superseded"}
BY BoundAssumption DEF Typed, LedgerTyped, TaskRecord, Continues, Task

\* The first commit of parkAutoResumeLocked closes the prior's attempt.
LEMMA PriorSettled ==
    ASSUME Typed, NEW t \in Task, NEW s, NEW before, before = WithPriorSettled(t, s)
    PROVE  /\ before \in [Task -> AutoRecord]
           /\ \A u \in Task : \/ before[u] = auto[u]
                              \/ /\ auto[u].state # "none" /\ before[u].gen = auto[u].gen
                                 /\ before[u].state \notin Waiting \cup {"none"}
           /\ auto[t].state = "none" => before[t] = auto[t]
<1>1. auto \in [Task -> AutoRecord]
    BY DEF Typed, RecordsTyped
<1>2. CASE ~Continues(t)
    BY <1>1, <1>2 DEF WithPriorSettled
<1>3. CASE Continues(t)
  <2>1. PICK p \in Task : p = task[t].prior /\ auto[p].state \in {"attempting", "superseded"}
      BY <1>3, ContinuedPrior
  <2>2. PICK x \in {"succeeded", "superseded", "ended"} : before = [auto EXCEPT ![p].state = x]
      BY <1>3, <2>1 DEF WithPriorSettled
  <2>3. /\ [auto[p] EXCEPT !.state = x] \in AutoRecord
        /\ [auto[p] EXCEPT !.state = x].state = x
        /\ [auto[p] EXCEPT !.state = x].gen = auto[p].gen
      BY <1>1 DEF AutoRecord
  <2>4. /\ before \in [Task -> AutoRecord] /\ before[p] = [auto[p] EXCEPT !.state = x]
        /\ \A u \in Task : u # p => before[u] = auto[u]
      BY <1>1, <2>2, <2>3
  <2> QED BY <2>1, <2>3, <2>4 DEF Waiting
<1> QED BY <1>2, <1>3

LEMMA RecordStarts ==
    ASSUME Typed, NEW t \in Task, NEW s
    PROVE  InitialRecord(t, s) \in AutoRecord /\ InitialRecord(t, s).state = "planning"
<1> DEFINE p == task[t].prior
           from == IF Inherits(t, s) THEN [auto[p] EXCEPT !.last = t] ELSE NoAuto
           on == IF p # 0 /\ auto[p].state # "none" THEN auto[p].enabled ELSE TRUE
<1>1. p \in 0..MaxTask /\ t \in 0..MaxTask
    BY BoundAssumption DEF Typed, LedgerTyped, TaskRecord, Task
<1>2. on \in BOOLEAN
  <2>1. p # 0 => p \in Task
      BY <1>1, BoundAssumption DEF Task
  <2>2. p # 0 => auto[p].enabled \in BOOLEAN
      BY <2>1, AutoFields
  <2> QED BY <2>2, Zenon
<1>3. from \in AutoRecord
  <2>1. CASE Inherits(t, s)
    <3>1. auto[p] \in AutoRecord
        BY <2>1, ContinuedPrior, AutoFields DEF Inherits
    <3>2. [auto[p] EXCEPT !.last = t] \in AutoRecord
        BY <1>1, <3>1 DEF AutoRecord
    <3> QED BY <2>1, <3>2
  <2>2. CASE ~Inherits(t, s)
    <3>1. NoAuto \in AutoRecord
        BY BoundAssumption DEF NoAuto, AutoRecord
    <3> QED BY <2>2, <3>1
  <2> QED BY <2>1, <2>2
<1>4. InitialRecord(t, s) = [from EXCEPT !.state = "planning", !.target = "none", !.enabled = on]
    BY DEF InitialRecord
<1> HIDE DEF from, on
<1> QED BY <1>2, <1>3, <1>4 DEF AutoRecord, ActiveState

\* Parking begins one record, for a task that has none and stopped on a limit,
\* and closes that of the prior.
LEMMA ParkStep ==
    ASSUME Typed, NEW t \in Task, NEW s, Park(t, s)
    PROVE  /\ RecordsTyped' /\ AutoGoes /\ Reopens /\ TimersGo
           /\ \A u \in Task : auto'[u].state # "none" =>
                  auto[u].state # "none" \/ (u = t /\ s \in Limits)
<1>1. CASE auto[t].state # "none"
  <2>1. UNCHANGED <<auto, late, timer>>
      BY <1>1 DEF Park
  <2> QED BY <2>1, SameAuto DEF Typed, RecordsTyped, TimersGo
<1>2. CASE auto[t].state = "none"
  <2> DEFINE parks == Eligible(t, s)
             new == InitialRecord(t, s)
             before == WithPriorSettled(t, s)
  <2>1. /\ auto' = IF parks THEN [before EXCEPT ![t] = new] ELSE before
        /\ late' = (late \ {task[t].prior})
                   \cup {u \in {t} : parks /\ Inherits(t, s) /\ task[t].prior \in late}
        /\ timer' = [u \in Task |->
                       IF Continues(t) /\ u = task[t].prior THEN NoTimer
                       ELSE IF u = t /\ parks /\ new.enabled THEN [kind |-> "plan", gen |-> new.gen]
                       ELSE timer[u]]
      BY <1>2 DEF Park
  <2>2. new \in AutoRecord /\ new.state = "planning" /\ new.gen \in Nat
      BY RecordStarts DEF AutoRecord
  <2>3. /\ before \in [Task -> AutoRecord] /\ before[t] = auto[t]
        /\ \A u \in Task : \/ before[u] = auto[u]
                           \/ /\ auto[u].state # "none" /\ before[u].gen = auto[u].gen
                              /\ before[u].state \notin Waiting \cup {"none"}
      BY <1>2, PriorSettled
  <2>4. parks => s \in Limits
      BY DEF Eligible
  <2> HIDE DEF parks, new, before
  <2>5. /\ auto' \in [Task -> AutoRecord]
        /\ auto'[t] = IF parks THEN new ELSE auto[t]
        /\ \A u \in Task : u # t => auto'[u] = before[u]
      BY <2>1, <2>2, <2>3
  <2>6. \A u \in Task : auto[u].gen \in Nat
      BY AutoFields
  <2>7. AutoGoes
    <3>1. ASSUME NEW u \in Task, auto[u].state # "none"
          PROVE  auto'[u].state # "none" /\ auto'[u].gen = auto[u].gen
        BY <1>2, <2>3, <2>5, <3>1
    <3> QED BY <2>6, <3>1 DEF AutoGoes
  <2>8. Reopens
    <3>1. ASSUME NEW u \in Task, auto'[u].state \in Waiting
          PROVE  auto[u].state \in Waiting \cup {"none"}
        BY <1>2, <2>3, <2>5, <3>1
    <3> QED BY <3>1 DEF Reopens
  <2>9. \A u \in Task : auto'[u].state # "none" => auto[u].state # "none" \/ (u = t /\ s \in Limits)
      BY <1>2, <2>3, <2>4, <2>5
  <2>10. /\ timer' \in [Task -> TimerRecord]
         /\ \A u \in Task : \/ timer'[u] \in {timer[u], NoTimer}
                            \/ u = t /\ parks /\ timer'[u].gen = new.gen
    <3>1. NoTimer \in TimerRecord /\ [kind |-> "plan", gen |-> new.gen] \in TimerRecord
        BY <2>2 DEF NoTimer, TimerRecord
    <3> QED BY <2>1, <3>1 DEF Typed, RecordsTyped
  <2>11. TimersGo
      BY <2>2, <2>5, <2>10 DEF TimersGo, NoTimer
  <2>12. late' \in SUBSET Task
      BY <2>1 DEF Typed, RecordsTyped
  <2> QED BY <2>5, <2>7, <2>8, <2>9, <2>10, <2>11, <2>12 DEF RecordsTyped
<1> QED BY <1>1, <1>2

-----------------------------------------------------------------------------
(* Tasks *)

LEMMA LaunchInv ==
    ASSUME IInv, NEW t \in Task, Launch(t)
    PROVE  IInv' /\ Moves
<1>1. Typed /\ UNCHANGED <<action, followUp, auto, late, volatile, process, history>>
    BY DEF IInv, Launch
<1>2. LedgerTyped' /\ Linked' /\ StatusGoes
    BY <1>1, StatusStep DEF Launch, Unsettled
<1>3. Typed'
    BY <1>1, <1>2 DEF Typed, RecordsTyped, StepsTyped, ProcessTyped, HistoryTyped, volatile, process, history
<1>4. AutoGoes /\ Reopens /\ StepsGo /\ TimersGo /\ HeldGoes /\ twice \subseteq twice'
    BY <1>1, SameAuto, SameSteps, NobodyNew DEF TimersGo, volatile, history
<1> QED BY <1>2, <1>3, <1>4, MovesInv DEF Moves

LEMMA SettleInv ==
    ASSUME IInv, NEW t \in Task, NEW s \in Settled, Settle(t, s)
    PROVE  IInv' /\ Moves
<1>1. Typed /\ Park(t, s) /\ UNCHANGED <<action, followUp, steps, acks, process, history>>
    BY DEF IInv, Settle
<1>2. LedgerTyped' /\ Linked' /\ StatusGoes /\ task'[t].status = s
    BY <1>1, StatusStep DEF Settle, Unsettled
<1>3. /\ RecordsTyped' /\ AutoGoes /\ Reopens /\ TimersGo
      /\ \A u \in Task : auto'[u].state # "none" => auto[u].state # "none" \/ (u = t /\ s \in Limits)
    BY <1>1, ParkStep
<1>4. Typed'
    BY <1>1, <1>2, <1>3 DEF Typed, StepsTyped, ProcessTyped, HistoryTyped, process, history
<1>5. StepsGo /\ HeldGoes /\ twice \subseteq twice'
    BY <1>1, <1>2, <1>3, SameSteps, NobodyNew DEF history
<1> QED BY <1>2, <1>3, <1>4, <1>5, MovesInv DEF Moves

LEMMA SettlePartlyInv ==
    ASSUME IInv, NEW t \in Task, NEW s \in Settled, NEW b \in BOOLEAN, SettlePartly(t, s, b)
    PROVE  IInv' /\ Moves
<1>1. /\ Typed /\ UNCHANGED <<action, followUp, late, chain, twice, choices>>
      /\ Continues(t) \/ Eligible(t, s)
      /\ auto' = WithPriorSettled(t, s) \/ auto' = auto
      /\ \/ PowerOff /\ UNCHANGED lost
         \/ /\ lost' = lost \cup {t} \cup (IF Continues(t) THEN {task[t].prior} ELSE {})
            /\ UNCHANGED <<volatile, process>>
      /\ faults' = faults + 1
    BY DEF IInv, SettlePartly, Failing
<1>2. LedgerTyped' /\ Linked' /\ StatusGoes /\ task'[t].status = s
    BY <1>1, StatusStep DEF SettlePartly, Unsettled
<1>3. /\ auto' \in [Task -> AutoRecord] /\ AutoGoes /\ Reopens
      /\ \A u \in Task : auto'[u].state # "none" => auto[u].state # "none"
  <2>1. CASE auto' = auto
      BY <1>1, <2>1, SameAuto DEF Typed, RecordsTyped
  <2>2. CASE auto' = WithPriorSettled(t, s)
    <3>1. /\ auto' \in [Task -> AutoRecord]
          /\ \A u \in Task : \/ auto'[u] = auto[u]
                             \/ /\ auto[u].state # "none" /\ auto'[u].gen = auto[u].gen
                                /\ auto'[u].state \notin Waiting \cup {"none"}
        BY <1>1, <2>2, PriorSettled
    <3>2. \A u \in Task : auto[u].gen \in Nat
        BY <1>1, AutoFields
    <3> QED BY <3>1, <3>2 DEF AutoGoes, Reopens
  <2> QED BY <1>1, <2>1, <2>2
<1>4. /\ StepsTyped' /\ ProcessTyped' /\ StepsGo /\ timer' \in [Task -> TimerRecord] /\ TimersGo
      /\ \A u \in Task : acks'[u] \in {"user", "handoff"} => acks'[u] = acks[u]
  <2>1. CASE PowerOff
      BY <1>1, <2>1, PowerOffStep
  <2>2. CASE UNCHANGED <<volatile, process>>
      BY <1>1, <2>2, SameSteps DEF Typed, RecordsTyped, StepsTyped, ProcessTyped, TimersGo, volatile, process
  <2> QED BY <1>1, <2>1, <2>2
<1>5. lost' \in SUBSET Task
    BY <1>1, ContinuedPrior DEF Typed, HistoryTyped
<1>6. Typed'
    BY <1>1, <1>2, <1>3, <1>4, <1>5 DEF Typed, RecordsTyped, HistoryTyped
<1>7. HeldGoes /\ twice \subseteq twice'
    BY <1>1, <1>3, <1>4, NobodyNew
<1> QED BY <1>2, <1>3, <1>4, <1>6, <1>7, MovesInv DEF Moves

LEMMA CancelQueuedInv ==
    ASSUME IInv, NEW t \in Task, CancelQueued(t)
    PROVE  IInv' /\ Moves
<1>1. /\ Typed /\ UNCHANGED <<action, followUp, auto, late, volatile, process, chain, twice, choices, faults>>
      /\ lost' = IF Continues(t) THEN lost \cup {task[t].prior} ELSE lost
    BY DEF IInv, CancelQueued
<1>2. LedgerTyped' /\ Linked' /\ StatusGoes
    BY <1>1, StatusStep DEF CancelQueued, Unsettled, Settled
<1>3. lost' \in SUBSET Task
    BY <1>1, ContinuedPrior DEF Typed, HistoryTyped
<1>4. Typed'
    BY <1>1, <1>2, <1>3 DEF Typed, RecordsTyped, StepsTyped, ProcessTyped, HistoryTyped, volatile, process
<1>5. AutoGoes /\ Reopens /\ StepsGo /\ TimersGo /\ HeldGoes /\ twice \subseteq twice'
    BY <1>1, SameAuto, SameSteps, NobodyNew DEF TimersGo, volatile
<1> QED BY <1>2, <1>4, <1>5, MovesInv DEF Moves

-----------------------------------------------------------------------------
(* Plans and attempts *)

LEMMA FirePlanInv ==
    ASSUME IInv, NEW t \in Task, NEW d \in Step, FirePlan(t, d)
    PROVE  IInv' /\ Moves
<1>1. /\ Typed /\ TimersKnown /\ UNCHANGED <<ledger, acks, process, history>>
      /\ timer' = Cleared(t) /\ timer[t].kind = "plan"
    BY DEF IInv, FirePlan
<1>2. LedgerTyped' /\ Linked' /\ StatusGoes /\ AutoGoes /\ Reopens /\ HeldGoes
    BY <1>1, SameLedger, SameAuto, NobodyNew DEF ledger
<1>3. timer' \in [Task -> TimerRecord] /\ TimersGo
    BY <1>1, ClearedTimer
<1>4. steps' \in [Step -> StepRecord] /\ StepsGo
  <2>1. CASE UNCHANGED steps
      BY <1>1, <2>1, SameSteps DEF Typed, StepsTyped
  <2>2. CASE steps' # steps
    <3>1. /\ Active(t) /\ auto[t].gen = timer[t].gen
          /\ steps' = [steps EXCEPT ![d] = [pc |-> "plan", task |-> t, gen |-> timer[t].gen, void |-> FALSE]]
        BY <2>2 DEF FirePlan
    <3>2. [pc |-> "plan", task |-> t, gen |-> timer[t].gen, void |-> FALSE] \in StepRecord
        BY <1>1 DEF Typed, RecordsTyped, TimerRecord, StepRecord, StepPc
    <3>3. /\ steps' \in [Step -> StepRecord] /\ \A e \in Step : e # d => steps'[e] = steps[e]
          /\ steps'[d] = [pc |-> "plan", task |-> t, gen |-> timer[t].gen, void |-> FALSE]
        BY <1>1, <3>1, <3>2 DEF Typed, StepsTyped
    <3>4. /\ auto[t].state # "none" /\ auto' = auto /\ auto[t].gen \in Nat
        BY <1>1, AutoFields DEF TimersKnown, ledger
    <3>5. Begun(d)
        BY <3>1, <3>3, <3>4 DEF Begun
    <3>6. \A e \in Step : e # d => Continued(e)
        BY <3>3 DEF Continued
    <3> QED BY <3>3, <3>5, <3>6 DEF StepsGo
  <2> QED BY <2>1, <2>2
<1>5. Typed'
    BY <1>1, <1>2, <1>3, <1>4 DEF Typed, RecordsTyped, StepsTyped, ProcessTyped, HistoryTyped, ledger, process, history
<1> QED BY <1>1, <1>2, <1>3, <1>4, <1>5, MovesInv DEF Moves, history

LEMMA PlanInv ==
    ASSUME IInv, NEW d \in Step, Plan(d)
    PROVE  IInv' /\ Moves
<1>1. /\ Typed /\ UNCHANGED <<task, action, followUp, late, acks, process, history>> /\ steps' = Ended(d)
    BY DEF IInv, Plan
<1>2. PICK t \in Task : t = steps[d].task
    BY <1>1, StepFields
<1>3. LedgerTyped' /\ Linked' /\ StatusGoes
    BY <1>1, SameLedger
<1>4. steps' \in [Step -> StepRecord] /\ StepsGo
    BY <1>1, EndedStep
<1>5. /\ RecordsTyped' /\ AutoGoes /\ Reopens /\ TimersGo
      /\ \A u \in Task : auto'[u].state # "none" => auto[u].state # "none"
  <2>1. CASE UNCHANGED <<auto, timer>>
      BY <1>1, <2>1, SameAuto DEF Typed, RecordsTyped, TimersGo
  <2>2. CASE MayPlan(d)
    <3>1. PICK target \in Plans(t) :
            IF target = "none" THEN Goes(t, Exhausted(t), "none")
            ELSE Goes(t, [auto[t] EXCEPT !.state = "scheduled", !.target = target], "attempt")
        BY <1>2, <2>2 DEF Plan
    <3>2. auto[t] \in AutoRecord /\ auto[t].state \in Waiting
        BY <1>1, <1>2, <2>2, AutoFields DEF MayPlan, Waiting
    <3>3. CASE target = "none"
      <4>1. /\ Exhausted(t) \in AutoRecord /\ Exhausted(t).state = "exhausted"
            /\ Exhausted(t).gen = auto[t].gen
          BY <3>2 DEF Exhausted, AutoRecord
      <4>2. /\ RecordsTyped' /\ AutoGoes /\ TimersGo /\ auto'[t] = Exhausted(t)
            /\ \A u \in Task : u # t => auto'[u] = auto[u]
          BY <1>1, <3>1, <3>3, <4>1, GoesStep
      <4> QED BY <1>1, <3>2, <4>1, <4>2, OneReopens DEF Waiting
    <3>4. CASE target # "none"
      <4>1. target \in {"original", "backup"}
          BY <3>4 DEF Plans
      <4>2. PICK r : r = [auto[t] EXCEPT !.state = "scheduled", !.target = target]
          OBVIOUS
      <4>3. r \in AutoRecord /\ r.state = "scheduled" /\ r.gen = auto[t].gen
          BY <3>2, <4>1, <4>2 DEF AutoRecord, ActiveState
      <4>4. /\ RecordsTyped' /\ AutoGoes /\ TimersGo /\ auto'[t] = r
            /\ \A u \in Task : u # t => auto'[u] = auto[u]
          BY <1>1, <3>1, <3>4, <4>2, <4>3, GoesStep
      <4> QED BY <1>1, <3>2, <4>3, <4>4, OneReopens DEF Waiting
    <3> QED BY <3>3, <3>4
  <2> QED BY <2>1, <2>2 DEF Plan
<1>6. Typed' /\ twice \subseteq twice'
    BY <1>1, <1>3, <1>4, <1>5 DEF Typed, StepsTyped, ProcessTyped, HistoryTyped, process, history
<1>7. HeldGoes
    BY <1>1, <1>5, NobodyNew
<1> QED BY <1>3, <1>4, <1>5, <1>6, <1>7, MovesInv DEF Moves

LEMMA PostponeInv ==
    ASSUME IInv, NEW t \in Task, Postpone(t)
    PROVE  IInv' /\ Moves
<1>1. /\ Typed /\ UNCHANGED <<task, action, followUp, late, steps, acks, process, history>>
      /\ MayAttempt(t)
      /\ \/ Goes(t, [auto[t] EXCEPT !.state = "planning"], "plan")
         \/ Goes(t, auto[t], "attempt")
    BY DEF IInv, Postpone
<1>2. auto[t] \in AutoRecord /\ auto[t].state = "scheduled"
    BY <1>1, AutoFields DEF MayAttempt
<1>3. LedgerTyped' /\ Linked' /\ StatusGoes /\ StepsGo
    BY <1>1, SameLedger, SameSteps
<1>4. PICK r \in AutoRecord, next \in {"plan", "attempt"} :
        Goes(t, r, next) /\ r.state # "none" /\ r.gen = auto[t].gen
  <2>1. PICK r : r = [auto[t] EXCEPT !.state = "planning"]
      OBVIOUS
  <2>2. r \in AutoRecord /\ r.state = "planning" /\ r.gen = auto[t].gen
      BY <1>2, <2>1 DEF AutoRecord, ActiveState
  <2> QED BY <1>1, <1>2, <2>1, <2>2
<1>5. /\ RecordsTyped' /\ AutoGoes /\ TimersGo /\ auto'[t] = r
      /\ \A u \in Task : u # t => auto'[u] = auto[u]
    BY <1>1, <1>4, GoesStep
<1>6. Reopens
    BY <1>1, <1>2, <1>5, OneReopens DEF Waiting
<1>7. Typed' /\ twice \subseteq twice'
    BY <1>1, <1>3, <1>5 DEF Typed, StepsTyped, ProcessTyped, HistoryTyped, process, history
<1>8. HeldGoes
    BY <1>1, <1>2, <1>5, NobodyNew
<1> QED BY <1>3, <1>5, <1>6, <1>7, <1>8, MovesInv DEF Moves

LEMMA FireAttemptInv ==
    ASSUME IInv, NEW t \in Task, NEW d \in Step, FireAttempt(t, d)
    PROVE  IInv' /\ Moves
<1>1. /\ Typed /\ UNCHANGED <<task, action, followUp, late, acks, process, history>>
      /\ timer' = Cleared(t)
    BY DEF IInv, FireAttempt
<1>2. LedgerTyped' /\ Linked' /\ StatusGoes
    BY <1>1, SameLedger
<1>3. timer' \in [Task -> TimerRecord] /\ TimersGo
    BY <1>1, ClearedTimer
<1>4. /\ auto' \in [Task -> AutoRecord] /\ AutoGoes /\ Reopens
      /\ \A u \in Task : auto'[u].state # "none" => auto[u].state # "none"
      /\ steps' \in [Step -> StepRecord] /\ StepsGo
  <2>1. CASE ~MayAttempt(t)
    <3>1. UNCHANGED <<auto, steps>>
        BY <2>1 DEF FireAttempt
    <3> QED BY <1>1, <3>1, SameAuto, SameSteps DEF Typed, RecordsTyped, StepsTyped
  <2>2. CASE MayAttempt(t)
    <3>1. /\ auto[t] \in AutoRecord /\ auto[t].state = "scheduled" /\ auto[t].gen \in Nat
          /\ auto[t].attempts \in Nat
        BY <1>1, <2>2, AutoFields DEF MayAttempt
    <3>2. CASE Spent(t)
      <4>1. auto' = [auto EXCEPT ![t] = Exhausted(t)] /\ UNCHANGED steps
          BY <2>2, <3>2 DEF FireAttempt
      <4>2. Exhausted(t) \in AutoRecord /\ Exhausted(t).state = "exhausted" /\ Exhausted(t).gen = auto[t].gen
          BY <3>1 DEF Exhausted, AutoRecord
      <4>. auto[t].gen <= Exhausted(t).gen /\ Exhausted(t).state # "none"
          BY <3>1, <4>2
      <4>3. /\ auto' \in [Task -> AutoRecord] /\ AutoGoes /\ auto'[t] = Exhausted(t)
            /\ \A u \in Task : u # t => auto'[u] = auto[u]
          BY <1>1, <4>1, <4>2, OneAuto
      <4> QED BY <1>1, <3>1, <4>1, <4>2, <4>3, OneReopens, SameSteps DEF Waiting, Typed, StepsTyped
    <3>3. CASE ~Spent(t)
      <4>1. PICK r, x : /\ r = [auto[t] EXCEPT !.state = "attempting", !.attempts = @ + 1]
                        /\ x = [pc |-> "asked", task |-> t, gen |-> auto[t].gen, void |-> FALSE]
          OBVIOUS
      <4>2. auto' = [auto EXCEPT ![t] = r] /\ steps' = [steps EXCEPT ![d] = x]
          BY <1>1, <2>2, <3>3, <4>1 DEF FireAttempt, Typed, RecordsTyped
      <4>3. r \in AutoRecord /\ r.state = "attempting" /\ r.gen = auto[t].gen
        <5>1. auto[t].attempts + 1 \in Nat /\ "attempting" \in AutoState
            BY <3>1 DEF AutoState, ActiveState
        <5>2. r \in AutoRecord
            BY <3>1, <4>1, <5>1 DEF AutoRecord, AutoState
        <5> QED BY <3>1, <4>1, <5>2 DEF AutoRecord
      <4>. auto[t].gen <= r.gen /\ r.state # "none"
          BY <3>1, <4>3
      <4>4. x \in StepRecord /\ x.pc = "asked" /\ x.task = t /\ x.gen = auto[t].gen /\ ~x.void
          BY <3>1, <4>1 DEF StepRecord, StepPc
      <4>5. /\ auto' \in [Task -> AutoRecord] /\ AutoGoes /\ auto'[t] = r
            /\ \A u \in Task : u # t => auto'[u] = auto[u]
          BY <1>1, <4>2, <4>3, OneAuto
      <4>6. /\ steps' \in [Step -> StepRecord] /\ steps'[d] = x
            /\ \A e \in Step : e # d => steps'[e] = steps[e]
          BY <1>1, <4>2, <4>4 DEF Typed, StepsTyped
      <4>7. Begun(d)
          BY <3>1, <4>3, <4>4, <4>5, <4>6 DEF Begun, Waiting
      <4>8. \A e \in Step : e # d => Continued(e)
          BY <4>6 DEF Continued
      <4>9. StepsGo
          BY <4>7, <4>8 DEF StepsGo
      <4> QED BY <1>1, <3>1, <4>3, <4>5, <4>6, <4>9, OneReopens DEF Waiting
    <3> QED BY <3>2, <3>3
  <2> QED BY <2>1, <2>2
<1>5. Typed' /\ twice \subseteq twice'
    BY <1>1, <1>2, <1>3, <1>4 DEF Typed, RecordsTyped, StepsTyped, ProcessTyped, HistoryTyped, process, history
<1>6. HeldGoes
    BY <1>1, <1>4, NobodyNew
<1> QED BY <1>2, <1>3, <1>4, <1>5, <1>6, MovesInv DEF Moves

\* An attempt that is given back was the only one of its generation.
LEMMA AnswerInv ==
    ASSUME IInv, NEW d \in Step, NEW answer \in HostAnswer, Answer(d, answer)
    PROVE  IInv' /\ Moves
<1>1. /\ Typed /\ OneAttempt /\ UNCHANGED <<task, action, followUp, late, acks, process, history>>
      /\ steps' = Ended(d) /\ answer \in Answers(d)
    BY DEF IInv, Answer
<1>2. PICK t \in Task : t = steps[d].task
    BY <1>1, StepFields
<1>3. LedgerTyped' /\ Linked' /\ StatusGoes
    BY <1>1, SameLedger
<1>4. /\ steps' \in [Step -> StepRecord] /\ StepsGo
      /\ steps'[d].pc = "idle" /\ \A e \in Step : e # d => steps'[e] = steps[e]
    BY <1>1, EndedStep
<1>5. Attempting(d)
    BY <1>1 DEF Answers, Attempting
<1>6. /\ RecordsTyped' /\ AutoGoes /\ Reopens /\ TimersGo
      /\ \A u \in Task : auto'[u].state # "none" => auto[u].state # "none"
  <2>1. CASE ~Awaited(d, answer)
    <3>1. UNCHANGED <<auto, timer>>
        BY <2>1 DEF Answer
    <3> QED BY <1>1, <3>1, SameAuto DEF Typed, RecordsTyped, TimersGo
  <2>2. CASE Awaited(d, answer)
    <3>1. /\ auto[t] \in AutoRecord /\ auto[t].state = "attempting" /\ auto[t].gen = steps[d].gen
          /\ auto[t].attempts \in Nat /\ auto[t].failures \in Nat
        BY <1>1, <1>2, <2>2, AutoFields DEF Awaited
    <3>2. GivenBack(auto[t].attempts) \in Nat
        BY <3>1 DEF GivenBack
    <3>3. ASSUME NEW state \in ActiveState \cup {"exhausted"}
          PROVE  /\ GivenBackTo(t, state) \in AutoRecord /\ GivenBackTo(t, state).state = state
                 /\ GivenBackTo(t, state).gen = auto[t].gen
                 /\ FailedTo(t, state) \in AutoRecord /\ FailedTo(t, state).state = state
                 /\ FailedTo(t, state).gen = auto[t].gen
      <4>1. PICK r : r = GivenBackTo(t, state)
          OBVIOUS
      <4>2. r \in AutoRecord /\ r.state = state /\ r.gen = auto[t].gen /\ r.failures \in Nat
          BY <3>1, <3>2, <4>1 DEF GivenBackTo, AutoRecord
      <4>3. [r EXCEPT !.failures = @ + 1] \in AutoRecord
          BY <4>2 DEF AutoRecord
      <4>4. [r EXCEPT !.failures = @ + 1].state = state /\ [r EXCEPT !.failures = @ + 1].gen = auto[t].gen
          BY <4>2 DEF AutoRecord
      <4> QED BY <4>1, <4>2, <4>3, <4>4 DEF FailedTo
    <3>4. /\ Exhausted(t) \in AutoRecord /\ Exhausted(t).state = "exhausted"
          /\ Exhausted(t).gen = auto[t].gen
        BY <3>1 DEF Exhausted, AutoRecord
    <3>5. PICK r \in AutoRecord, next \in {"none", "plan", "attempt"} :
            Goes(t, r, next) /\ r.state # "none" /\ r.gen = auto[t].gen
      <4>1. \/ Goes(t, Exhausted(t), "none")
            \/ Goes(t, GivenBackTo(t, "scheduled"), "attempt")
            \/ Goes(t, GivenBackTo(t, "planning"), "plan")
            \/ Goes(t, FailedTo(t, "exhausted"), "none")
            \/ Goes(t, FailedTo(t, "planning"), "plan")
            \/ Goes(t, FailedTo(t, "scheduled"), "attempt")
          BY <1>2, <2>2 DEF Answer
      <4> QED BY <3>3, <3>4, <4>1 DEF ActiveState
    <3>6. /\ RecordsTyped' /\ AutoGoes /\ TimersGo /\ auto'[t] = r
          /\ \A u \in Task : u # t => auto'[u] = auto[u]
        BY <1>1, <3>5, GoesStep
    <3>7. \/ t \in twice'
          \/ \A e \in Step : \/ steps'[e].pc \in {"idle", "plan"} \/ steps'[e].task # t
                             \/ steps'[e].gen # auto'[t].gen
        BY <1>1, <1>2, <1>4, <1>5, <3>1, <3>5, <3>6 DEF OneAttempt, Attempting, history
    <3>8. Reopens
        BY <3>6, <3>7 DEF Reopens
    <3> QED BY <3>1, <3>6, <3>8
  <2> QED BY <2>1, <2>2
<1>7. Typed' /\ twice \subseteq twice'
    BY <1>1, <1>3, <1>4, <1>6 DEF Typed, StepsTyped, ProcessTyped, HistoryTyped, process, history
<1>8. HeldGoes
    BY <1>1, <1>6, NobodyNew
<1> QED BY <1>3, <1>4, <1>6, <1>7, <1>8, MovesInv DEF Moves

LEMMA StepFailsInv ==
    ASSUME IInv, NEW d \in Step, StepFails(d)
    PROVE  IInv' /\ Moves
<1>1. /\ Typed /\ UNCHANGED <<ledger, timer, acks, process, chain, twice, choices>>
      /\ steps' = Ended(d) /\ lost' = lost \cup {steps[d].task} /\ faults' = faults + 1
    BY DEF IInv, StepFails, Failing
<1>2. LedgerTyped' /\ Linked' /\ StatusGoes /\ AutoGoes /\ Reopens /\ HeldGoes
    BY <1>1, SameLedger, SameAuto, NobodyNew DEF ledger
<1>3. steps' \in [Step -> StepRecord] /\ StepsGo
    BY <1>1, EndedStep
<1>4. lost' \in SUBSET Task
    BY <1>1, StepFields DEF Typed, HistoryTyped
<1>5. Typed' /\ TimersGo
    BY <1>1, <1>2, <1>3, <1>4 DEF Typed, RecordsTyped, StepsTyped, ProcessTyped, HistoryTyped, ledger, process, TimersGo
<1> QED BY <1>1, <1>2, <1>3, <1>5, MovesInv DEF Moves

\* A timer is lost with a save that failed.
LEMMA TimerLost ==
    ASSUME IInv, NEW t \in Task, timer' = Cleared(t), lost' = lost \cup {t}, Failing,
           UNCHANGED <<ledger, steps, acks, process, chain, twice, choices>>
    PROVE  IInv' /\ Moves
<1>1. Typed /\ faults' = faults + 1
    BY DEF IInv, Failing
<1>2. /\ LedgerTyped' /\ Linked' /\ StatusGoes /\ AutoGoes /\ Reopens /\ HeldGoes /\ StepsGo
    BY <1>1, SameLedger, SameAuto, SameSteps, NobodyNew DEF ledger
<1>3. timer' \in [Task -> TimerRecord] /\ TimersGo
    BY <1>1, ClearedTimer
<1>4. Typed'
    BY <1>1, <1>2, <1>3 DEF Typed, RecordsTyped, StepsTyped, ProcessTyped, HistoryTyped, ledger, process
<1> QED BY <1>2, <1>3, <1>4, MovesInv DEF Moves

-----------------------------------------------------------------------------
(* Acknowledgements *)

\* The steps f are those in flight, in other places of an attempt.
Kept(f) == /\ f \in [Step -> StepRecord]
           /\ \A d \in Step :
                  /\ f[d].task = steps[d].task /\ f[d].gen = steps[d].gen
                  /\ f[d].void = steps[d].void
                  /\ f[d].pc # "idle" => steps[d].pc # "idle"
                  /\ f[d].pc # "plan" => steps[d].pc # "plan"

LEMMA KeptSteps ==
    ASSUME Typed, NEW f, Kept(f), steps' = f
    PROVE  steps' \in [Step -> StepRecord] /\ StepsGo
<1>1. ASSUME NEW d \in Step
      PROVE  /\ steps'[d].task = steps[d].task /\ steps'[d].gen = steps[d].gen
             /\ steps'[d].void = steps[d].void
             /\ steps'[d].pc # "idle" => steps[d].pc # "idle"
             /\ steps'[d].pc # "plan" => steps[d].pc # "plan"
    BY Zenon DEF Kept
<1>2. \A d \in Step : Continued(d)
    BY <1>1, Zenon DEF Continued
<1>3. steps' \in [Step -> StepRecord]
    BY DEF Kept
<1> QED BY <1>2, <1>3 DEF StepsGo

LEMMA ToldKept ==
    ASSUME Typed, NEW t \in Task, NEW outcome \in {"started", "refused"}
    PROVE  Kept(Told(t, outcome))
<1>1. PICK f : f = Told(t, outcome)
    OBVIOUS
<1>2. ASSUME NEW d \in Step
      PROVE  /\ f[d] = IF steps[d].task = t /\ steps[d].pc = "joined"
                       THEN [steps[d] EXCEPT !.pc = outcome] ELSE steps[d]
             /\ steps[d] \in StepRecord
             /\ [steps[d] EXCEPT !.pc = outcome] \in StepRecord
    BY <1>1 DEF Told, Typed, StepsTyped, StepRecord, StepPc
<1>3. f \in [Step -> StepRecord]
    BY <1>1, <1>2 DEF Told
<1>4. ASSUME NEW d \in Step
      PROVE  /\ f[d].task = steps[d].task /\ f[d].gen = steps[d].gen /\ f[d].void = steps[d].void
             /\ f[d].pc # "idle" => steps[d].pc # "idle"
             /\ f[d].pc # "plan" => steps[d].pc # "plan"
    BY <1>2 DEF StepRecord
<1> QED BY <1>1, <1>3, <1>4 DEF Kept

\* One more goes to another place.
LEMMA MovedKept ==
    ASSUME Typed, NEW d \in Step, NEW pc \in {"acking", "joined", "started", "refused"},
           steps[d].pc \in {"asked", "acking"}, NEW f, Kept(f)
    PROVE  Kept([f EXCEPT ![d].pc = pc])
<1>1. f \in [Step -> StepRecord] /\ f[d] \in StepRecord
    BY DEF Kept
<1>2. PICK x : x = [f[d] EXCEPT !.pc = pc]
    OBVIOUS
<1>3. /\ x \in StepRecord /\ x.task = f[d].task /\ x.gen = f[d].gen /\ x.void = f[d].void
      /\ x.pc = pc
    BY <1>1, <1>2 DEF StepRecord, StepPc
<1>4. PICK g : g = [f EXCEPT ![d].pc = pc]
    OBVIOUS
<1>5. g \in [Step -> StepRecord] /\ g[d] = x /\ \A e \in Step : e # d => g[e] = f[e]
    BY <1>1, <1>2, <1>3, <1>4
<1>6. Kept(g)
    BY <1>3, <1>5 DEF Kept
<1> QED BY <1>4, <1>6

\* A person speaks: what is in flight for the results S is void, and their
\* records have a new generation.
LEMMA OutdatedSteps ==
    ASSUME IInv, NEW S \in SUBSET Task, NEW f, Kept(f), steps' = Outdated(f, S),
           auto' \in [Task -> AutoRecord],
           \A t \in S : auto[t].state # "none" => auto[t].gen < auto'[t].gen
    PROVE  steps' \in [Step -> StepRecord] /\ StepsGo
<1>1. Typed /\ StepsKnown
    BY DEF IInv
<1>2. ASSUME NEW d \in Step
      PROVE  /\ f[d] \in StepRecord /\ [f[d] EXCEPT !.void = TRUE] \in StepRecord
             /\ [f[d] EXCEPT !.void = TRUE].pc = f[d].pc
             /\ [f[d] EXCEPT !.void = TRUE].task = f[d].task
             /\ [f[d] EXCEPT !.void = TRUE].gen = f[d].gen
             /\ steps'[d] = IF f[d].pc # "idle" /\ f[d].task \in S
                            THEN [f[d] EXCEPT !.void = TRUE] ELSE f[d]
  <2>1. f[d] \in StepRecord
      BY DEF Kept
  <2> QED BY <2>1 DEF Outdated, StepRecord
<1>3. steps' \in [Step -> StepRecord]
    BY <1>2 DEF Outdated
<1>4. ASSUME NEW d \in Step, steps'[d].pc # "idle"
      PROVE  /\ steps[d].pc # "idle"
             /\ steps'[d].task = steps[d].task /\ steps'[d].gen = steps[d].gen
             /\ steps'[d].void => steps[d].void \/ steps[d].task \in S
             /\ steps'[d].pc # "plan" => steps[d].pc # "plan"
  <2>1. /\ f[d].task = steps[d].task /\ f[d].gen = steps[d].gen /\ f[d].void = steps[d].void
        /\ f[d].pc # "idle" => steps[d].pc # "idle"
        /\ f[d].pc # "plan" => steps[d].pc # "plan"
      BY Zenon DEF Kept
  <2>2. steps'[d].pc = f[d].pc /\ steps'[d].task = f[d].task /\ steps'[d].gen = f[d].gen
      BY <1>2
  <2>3. CASE steps[d].task \in S
      BY <1>4, <2>1, <2>2, <2>3
  <2>4. CASE steps[d].task \notin S
    <3>1. steps'[d].void = steps[d].void
        BY <1>2, <2>1, <2>4
    <3>2. steps'[d].void => steps[d].void
        BY <3>1, Zenon
    <3> QED BY <1>4, <2>1, <2>2, <3>2
  <2> QED BY <2>3, <2>4
<1>5. \A d \in Step : steps[d].pc # "idle" /\ steps[d].task \in S =>
          steps[d].gen < auto'[steps[d].task].gen
  <2> SUFFICES ASSUME NEW d \in Step, steps[d].pc # "idle", NEW t \in S, t = steps[d].task
               PROVE  steps[d].gen < auto'[t].gen
      OBVIOUS
  <2>1. auto[t].state # "none" /\ steps[d].gen <= auto[t].gen /\ auto[t].gen < auto'[t].gen
      BY <1>1 DEF StepsKnown
  <2>2. steps[d].gen \in Nat /\ auto[t].gen \in Nat /\ auto'[t].gen \in Nat
      BY <1>1, StepFields, AutoFields DEF AutoRecord
  <2> QED BY <2>1, <2>2
<1> QED BY <1>3, <1>4, <1>5 DEF StepsGo, Continued

\* The follow-up u of t: a task that is new in the ledger, or for the duplicate
\* guard a task that is live and stays as it is.
FollowsWith(t, u, new) ==
    \/ task[u].status = "none" /\ new.status = "queued" /\ new.prior = t
    \/ task[u].status = "live" /\ new = task[u]

\* The follow-up and its acknowledgement are one save.
LEMMA AcknowledgeLinks ==
    ASSUME IInv, NEW t \in Task, action[t] = "none", task[t].status \in Limits,
           NEW u \in Task, NEW new \in TaskRecord, FollowsWith(t, u, new),
           NEW record, Acknowledge(t, u, new, record)
    PROVE  /\ LedgerTyped' /\ Linked' /\ StatusGoes /\ u # t /\ u # 0
           /\ task'[u] = new /\ \A v \in Task : v # u => task'[v] = task[v]
           /\ action'[t] = "retry" /\ followUp'[t] = u
           /\ \A v \in Task : v # t => action'[v] = action[v] /\ followUp'[v] = followUp[v]
<1>1. /\ Typed /\ OneFollowUp /\ HeldOnLimit /\ \A v \in Task : action[v] = "retry" <=> followUp[v] # 0
    BY DEF IInv, Linked
<1>2. u # 0 /\ u \in 0..MaxTask /\ u # t /\ task[u].status \notin Limits /\ new.status # "none"
    BY BoundAssumption DEF FollowsWith, Task, Limits
<1>3. /\ task \in [Task -> TaskRecord] /\ action \in [Task -> {"none", "retry", "drop"}]
      /\ followUp \in [Task -> 0..MaxTask]
    BY <1>1 DEF Typed, LedgerTyped
<1>4. /\ task' \in [Task -> TaskRecord] /\ task'[u] = new
      /\ \A v \in Task : v # u => task'[v] = task[v]
    BY <1>3 DEF Acknowledge
<1>5. /\ action' \in [Task -> {"none", "retry", "drop"}] /\ followUp' \in [Task -> 0..MaxTask]
      /\ action'[t] = "retry" /\ followUp'[t] = u
      /\ \A v \in Task : v # t => action'[v] = action[v] /\ followUp'[v] = followUp[v]
    BY <1>2, <1>3 DEF Acknowledge
<1>6. followUp[t] = 0 /\ followUp[u] = 0
  <2>1. action[u] = "none"
      BY <1>1, <1>2 DEF HeldOnLimit, Held
  <2> QED BY <1>1, <2>1
<1>7. ASSUME NEW v \in Task, NEW w \in Task, task'[w].status # "none", task'[w].prior = v
      PROVE  followUp'[v] = w
  <2>1. w # 0
      BY BoundAssumption DEF Task
  <2>2. CASE task'[w] = task[w]
    <3>1. followUp[v] = w
        BY <1>1, <1>7, <2>2 DEF OneFollowUp
    <3> QED BY <1>5, <1>6, <2>1, <3>1
  <2>3. CASE w = u /\ new.prior = t
      BY <1>4, <1>5, <1>7, <2>3
  <2> QED BY <1>4, <2>2, <2>3 DEF FollowsWith
<1>8. ASSUME NEW v \in Task, followUp'[v] # 0
      PROVE  task'[followUp'[v]].status # "none"
  <2>1. CASE v = t
      BY <1>2, <1>4, <1>5, <2>1
  <2>2. CASE v # t
    <3>1. followUp[v] \in Task /\ task[followUp[v]].status # "none" /\ followUp'[v] = followUp[v]
        BY <1>1, <1>3, <1>5, <1>8, <2>2, BoundAssumption DEF OneFollowUp, Task
    <3> QED BY <1>2, <1>4, <3>1
  <2> QED BY <2>1, <2>2
<1>9. ASSUME NEW S \in SUBSET Task, S # {}
      PROVE  \E v \in S : followUp'[v] \notin S
  <2>1. CASE u \in S
    <3>1. followUp'[u] \notin S
        BY <1>2, <1>5, <1>6, BoundAssumption DEF Task
    <3> QED BY <2>1, <3>1
  <2>2. CASE u \notin S /\ t \in S
      BY <1>5, <2>2
  <2>3. CASE t \notin S
    <3>1. PICK v \in S : followUp[v] \notin S
        BY <1>1, <1>9 DEF OneFollowUp
    <3> QED BY <1>5, <2>3, <3>1
  <2> QED BY <2>1, <2>2, <2>3
<1>10. Linked'
  <2>1. OneFollowUp'
      BY <1>7, <1>8, <1>9 DEF OneFollowUp
  <2>2. \A v \in Task : action'[v] = "retry" <=> followUp'[v] # 0
      BY <1>1, <1>2, <1>5
  <2> QED BY <2>1, <2>2 DEF Linked
<1>11. LedgerTyped' /\ StatusGoes
    BY <1>2, <1>4, <1>5 DEF LedgerTyped, StatusGoes
<1> QED BY <1>2, <1>4, <1>5, <1>10, <1>11

\* What an attempt acknowledges its result with.
LEMMA AutoFollows ==
    ASSUME IInv, NEW d \in Step, AckAuto(d), Admits(d), NEW t \in Task, t = steps[d].task
    PROVE  /\ action[t] = "none" /\ Active(t) /\ auto[t].state = "attempting" /\ auto[t].gen = steps[d].gen
           /\ task[t].status \in Limits
           /\ \E u \in Task, new \in TaskRecord :
                /\ FollowsWith(t, u, new) /\ Acknowledge(t, u, new, [auto[t] EXCEPT !.last = u])
                /\ \/ /\ task[u].status = "none" /\ new.by = "auto" /\ (new.spent <=> Transport(t))
                      /\ chain' = [chain EXCEPT ![u] = chain[t] + 1]
                   \/ task[u].status = "live" /\ chain' = chain
<1>1. /\ Typed /\ HeldOnLimit /\ action[t] = "none" /\ Active(t) /\ auto[t].gen = steps[d].gen
      /\ auto[t].state = "attempting" /\ task \in [Task -> TaskRecord]
    BY DEF IInv, Admits, Current, Typed, LedgerTyped
<1>2. task[t].status \in Limits
    BY <1>1 DEF HeldOnLimit, Held
<1>3. CASE \E u \in NewTask :
             /\ Acknowledge(t, u, [status |-> "queued", prior |-> t, by |-> "auto",
                                   backup |-> auto[t].target = "backup", spent |-> Transport(t)],
                            [auto[t] EXCEPT !.last = u])
             /\ chain' = [chain EXCEPT ![u] = chain[t] + 1]
  <2>1. PICK u \in NewTask :
             /\ Acknowledge(t, u, [status |-> "queued", prior |-> t, by |-> "auto",
                                   backup |-> auto[t].target = "backup", spent |-> Transport(t)],
                            [auto[t] EXCEPT !.last = u])
             /\ chain' = [chain EXCEPT ![u] = chain[t] + 1]
      BY <1>3
  <2>2. (auto[t].target = "backup") \in BOOLEAN /\ Transport(t) \in BOOLEAN
      BY DEF Transport
  <2>3. PICK x \in BOOLEAN, y \in BOOLEAN : x = (auto[t].target = "backup") /\ y = Transport(t)
      BY <2>2, Zenon
  <2>4. PICK new : new = [status |-> "queued", prior |-> t, by |-> "auto", backup |-> x, spent |-> y]
      OBVIOUS
  <2>5. Acknowledge(t, u, new, [auto[t] EXCEPT !.last = u])
      BY <2>1, <2>3, <2>4, Zenon
  <2>6. new \in TaskRecord /\ new.status = "queued" /\ new.prior = t /\ new.by = "auto" /\ new.spent = y
      BY <2>4, BoundAssumption DEF TaskRecord, Unsettled, Task
  <2>7. new.spent <=> Transport(t)
      BY <2>3, <2>6, Zenon
  <2>8. u \in Task /\ task[u].status = "none"
      BY DEF NewTask
  <2> QED BY <1>1, <1>2, <2>1, <2>5, <2>6, <2>7, <2>8 DEF FollowsWith
<1>4. ASSUME NEW u \in Duplicates, Acknowledge(t, u, task[u], [auto[t] EXCEPT !.last = u]), UNCHANGED chain
      PROVE  /\ u \in Task /\ task[u] \in TaskRecord /\ task[u].status = "live"
             /\ FollowsWith(t, u, task[u])
    BY <1>1 DEF Duplicates, FollowsWith
<1>5. \/ \E u \in NewTask :
             /\ Acknowledge(t, u, [status |-> "queued", prior |-> t, by |-> "auto",
                                   backup |-> auto[t].target = "backup", spent |-> Transport(t)],
                            [auto[t] EXCEPT !.last = u])
             /\ chain' = [chain EXCEPT ![u] = chain[t] + 1]
      \/ \E u \in Duplicates : Acknowledge(t, u, task[u], [auto[t] EXCEPT !.last = u]) /\ UNCHANGED chain
    BY DEF AckAuto
<1> QED BY <1>1, <1>2, <1>3, <1>4, <1>5

\* What a person disposes of the result with.
LEMMA HandFollows ==
    ASSUME IInv, NEW t \in Task, AckByHand(t), action[t] = "none"
    PROVE  /\ task[t].status \in Limits /\ chain' = chain
           /\ \/ \E u \in Task, new \in TaskRecord :
                    /\ FollowsWith(t, u, new) /\ Acknowledge(t, u, new, Voided(t))
                    /\ task[u].status = "none" => new.by = "user" /\ ~new.spent
              \/ /\ action' = [action EXCEPT ![t] = "drop"] /\ auto' = [auto EXCEPT ![t] = Voided(t)]
                 /\ timer' = Cleared(t) /\ UNCHANGED <<task, followUp>>
<1>1. task \in [Task -> TaskRecord] /\ task[t].status \in Limits /\ chain' = chain
    BY DEF IInv, Typed, LedgerTyped, HeldOnLimit, Held, AckByHand
<1>2. ASSUME NEW u \in NewTask,
             Acknowledge(t, u, [NoTask EXCEPT !.status = "queued", !.prior = t, !.by = "user"], Voided(t))
      PROVE  \E v \in Task, new \in TaskRecord :
                /\ FollowsWith(t, v, new) /\ Acknowledge(t, v, new, Voided(t))
                /\ task[v].status = "none" => new.by = "user" /\ ~new.spent
  <2>1. PICK new : new = [NoTask EXCEPT !.status = "queued", !.prior = t, !.by = "user"]
      OBVIOUS
  <2>2. new = [status |-> "queued", prior |-> t, by |-> "user", backup |-> FALSE, spent |-> FALSE]
      BY <2>1 DEF NoTask
  <2>3. new \in TaskRecord /\ new.status = "queued" /\ new.prior = t /\ new.by = "user" /\ ~new.spent
      BY <2>2, BoundAssumption DEF TaskRecord, Unsettled, Task
  <2>4. Acknowledge(t, u, new, Voided(t)) /\ u \in Task /\ task[u].status = "none"
      BY <1>2, <2>1, Zenon DEF NewTask
  <2> QED BY <2>3, <2>4 DEF FollowsWith
<1>3. ASSUME NEW u \in Duplicates, Acknowledge(t, u, task[u], Voided(t))
      PROVE  u \in Task /\ task[u] \in TaskRecord /\ FollowsWith(t, u, task[u]) /\ task[u].status # "none"
    BY <1>1 DEF Duplicates, FollowsWith
<1>4. \/ \E u \in NewTask :
             Acknowledge(t, u, [NoTask EXCEPT !.status = "queued", !.prior = t, !.by = "user"], Voided(t))
      \/ \E u \in Duplicates : Acknowledge(t, u, task[u], Voided(t))
      \/ /\ action' = [action EXCEPT ![t] = "drop"] /\ auto' = [auto EXCEPT ![t] = Voided(t)]
         /\ timer' = Cleared(t) /\ UNCHANGED <<task, followUp>>
    BY DEF AckByHand
<1> QED BY <1>1, <1>2, <1>3, <1>4

LEMMA AskInv ==
    ASSUME IInv, NEW d \in Step, Ask(d)
    PROVE  IInv' /\ Moves
<1>1. Typed /\ UNCHANGED <<ledger, timer, process, history>> /\ steps[d].pc = "asked"
    BY DEF IInv, Ask
<1>2. PICK t \in Task : t = steps[d].task
    BY <1>1, StepFields
<1>3. PICK pc \in {"acking", "joined", "started"} : steps' = To(d, pc)
  <2>1. steps' = To(d, IF acks[t] \in {"user", "auto"} THEN "joined"
                       ELSE IF acks[t] = "handoff" \/ ~Current(t, steps[d].gen) THEN "started" ELSE "acking")
      BY <1>2 DEF Ask
  <2> QED BY <2>1
<1>4. LedgerTyped' /\ Linked' /\ StatusGoes /\ AutoGoes /\ Reopens
    BY <1>1, SameLedger, SameAuto DEF ledger
<1>5. steps' \in [Step -> StepRecord] /\ StepsGo
  <2>1. Kept(steps)
      BY <1>1 DEF Kept, Typed, StepsTyped
  <2>2. Kept(steps')
      BY <1>1, <1>3, <2>1, MovedKept DEF To
  <2> QED BY <1>1, <2>2, KeptSteps
<1>6. /\ acks' \in [Task -> {"none", "auto", "user", "handoff"}]
      /\ \A u \in Task : acks'[u] \in {"user", "handoff"} => acks'[u] = acks[u]
    BY <1>1, <1>2 DEF Ask, Typed, StepsTyped
<1>7. Typed' /\ TimersGo /\ twice \subseteq twice'
    BY <1>1, <1>4, <1>5, <1>6
    DEF Typed, RecordsTyped, StepsTyped, ProcessTyped, HistoryTyped, ledger, process, history, TimersGo
<1>8. HeldGoes
    BY <1>1, <1>6, NobodyNew DEF ledger
<1> QED BY <1>4, <1>5, <1>7, <1>8, MovesInv DEF Moves

\* An acknowledgement ends without a change of the ledger.
LEMMA RefusedInv ==
    ASSUME IInv, NEW t \in Task, NEW f, Kept(f), steps' = f,
           acks' = [acks EXCEPT ![t] = "none"], UNCHANGED <<ledger, timer, process, history>>
    PROVE  IInv' /\ Moves
<1>1. Typed
    BY DEF IInv
<1>2. LedgerTyped' /\ Linked' /\ StatusGoes /\ AutoGoes /\ Reopens
    BY <1>1, SameLedger, SameAuto DEF ledger
<1>3. steps' \in [Step -> StepRecord] /\ StepsGo
    BY <1>1, KeptSteps
<1>4. /\ acks' \in [Task -> {"none", "auto", "user", "handoff"}]
      /\ \A u \in Task : acks'[u] \in {"user", "handoff"} => acks'[u] = acks[u]
    BY <1>1 DEF Typed, StepsTyped
<1>5. Typed' /\ TimersGo /\ twice \subseteq twice'
    BY <1>1, <1>2, <1>3, <1>4
    DEF Typed, RecordsTyped, StepsTyped, ProcessTyped, HistoryTyped, ledger, process, history, TimersGo
<1>6. HeldGoes
    BY <1>4, NobodyNew DEF ledger
<1> QED BY <1>2, <1>3, <1>5, <1>6, MovesInv DEF Moves

LEMMA AckRefusedInv ==
    ASSUME IInv, NEW d \in Step, AckRefused(d)
    PROVE  IInv' /\ Moves
<1>1. Typed /\ steps[d].pc = "acking"
    BY DEF IInv, AckRefused
<1>2. PICK t \in Task : t = steps[d].task
    BY <1>1, StepFields
<1>3. /\ acks' = [acks EXCEPT ![t] = "none"] /\ UNCHANGED <<ledger, timer, process, history>>
      /\ steps' = [Told(t, "refused") EXCEPT ![d].pc = "refused"]
    BY <1>2 DEF AckRefused
<1>4. Kept(steps')
    BY <1>1, <1>3, ToldKept, MovedKept
<1> QED BY <1>3, <1>4, RefusedInv

LEMMA AckByHandRefusedInv ==
    ASSUME IInv, NEW t \in Task, AckByHandRefused(t)
    PROVE  IInv' /\ Moves
<1>1. Typed
    BY DEF IInv
<1> QED BY <1>1, ToldKept, RefusedInv DEF AckByHandRefused

LEMMA AckAutoInv ==
    ASSUME IInv, NEW d \in Step, AckAuto(d)
    PROVE  IInv' /\ Moves
<1>1. Typed /\ steps[d].pc = "acking"
    BY DEF IInv, AckAuto
<1>2. PICK t \in Task : t = steps[d].task
    BY <1>1, StepFields
<1>3. /\ acks' = [acks EXCEPT ![t] = "none"] /\ UNCHANGED <<late, process, lost, twice, choices, faults>>
      /\ steps' = [Told(t, "started") EXCEPT ![d].pc = "started"]
    BY <1>2 DEF AckAuto
<1>4. Kept(steps')
    BY <1>1, <1>3, ToldKept, MovedKept
<1>5. CASE ~Admits(d)
  <2>1. UNCHANGED <<task, action, followUp, auto, timer, chain>>
      BY <1>5 DEF AckAuto
  <2> QED BY <1>3, <1>4, <2>1, RefusedInv DEF ledger, history
<1>6. CASE Admits(d)
  <2>1. PICK u \in Task, new \in TaskRecord :
          /\ FollowsWith(t, u, new) /\ Acknowledge(t, u, new, [auto[t] EXCEPT !.last = u])
          /\ \/ task[u].status = "none" /\ chain' = [chain EXCEPT ![u] = chain[t] + 1]
             \/ chain' = chain
      BY <1>2, <1>6, AutoFollows
  <2>2. PICK r : r = [auto[t] EXCEPT !.last = u]
      OBVIOUS
  <2>3. /\ auto[t] \in AutoRecord /\ auto[t].state = "attempting" /\ action[t] = "none"
        /\ auto[t].gen \in Nat /\ u \in 0..MaxTask /\ task[t].status \in Limits
      BY <1>1, <1>2, <1>6, AutoFields, AutoFollows, BoundAssumption DEF Task
  <2>5. /\ r \in AutoRecord /\ r.state = "attempting" /\ r.gen = auto[t].gen
      BY <2>2, <2>3 DEF AutoRecord
  <2>6. Acknowledge(t, u, new, r)
      BY <2>1, <2>2, Zenon
  <2>7. LedgerTyped' /\ Linked' /\ StatusGoes
      BY <1>2, <2>1, <2>3, <2>6, AcknowledgeLinks
  <2>. auto[t].gen <= r.gen /\ r.state # "none" /\ auto' = [auto EXCEPT ![t] = r] /\ timer' = Cleared(t)
      BY <2>3, <2>5, <2>6 DEF Acknowledge
  <2>8. /\ auto' \in [Task -> AutoRecord] /\ AutoGoes /\ auto'[t] = r
        /\ \A v \in Task : v # t => auto'[v] = auto[v]
      BY <1>1, <2>5, OneAuto
  <2>9. Reopens /\ timer' \in [Task -> TimerRecord] /\ TimersGo
      BY <1>1, <2>5, <2>8, OneReopens, ClearedTimer DEF Waiting
  <2>10. steps' \in [Step -> StepRecord] /\ StepsGo
      BY <1>1, <1>4, KeptSteps
  <2>11. acks' \in [Task -> {"none", "auto", "user", "handoff"}]
      BY <1>1, <1>3 DEF Typed, StepsTyped
  <2>12. chain' \in [Task -> Nat]
      BY <1>1, <1>2, <2>1 DEF Typed, HistoryTyped
  <2>13. Typed' /\ twice \subseteq twice'
      BY <1>1, <1>3, <2>7, <2>8, <2>9, <2>10, <2>11, <2>12
      DEF Typed, RecordsTyped, StepsTyped, ProcessTyped, HistoryTyped, process
  <2>14. HeldGoes
    <3>1. ASSUME NEW v \in Task, Held(v)' PROVE Held(v)
      <4>1. CASE v = t
          BY <2>3, <4>1 DEF Held
      <4>2. CASE v # t
        <5>1. auto'[v] = auto[v] /\ action'[v] = action[v] /\ acks'[v] = acks[v]
            BY <1>1, <1>2, <1>3, <2>6, <2>8, <4>2 DEF Acknowledge, Typed, StepsTyped, LedgerTyped
        <5> QED BY <3>1, <5>1 DEF Held
      <4> QED BY <4>1, <4>2
    <3> QED BY <3>1 DEF HeldGoes
  <2> QED BY <2>7, <2>8, <2>9, <2>10, <2>13, <2>14, MovesInv DEF Moves
<1> QED BY <1>5, <1>6

LEMMA RequestInv ==
    ASSUME IInv, NEW t \in Task, NEW who \in {"user", "handoff"}, Request(t, who)
    PROVE  IInv' /\ Moves
<1>1. /\ Typed /\ UNCHANGED <<ledger, timer, steps, process, history>> /\ task[t].status \in Limits
      /\ acks' = [acks EXCEPT ![t] = who]
    BY DEF IInv, Request
<1>2. LedgerTyped' /\ Linked' /\ StatusGoes /\ AutoGoes /\ Reopens /\ StepsGo
    BY <1>1, SameLedger, SameAuto, SameSteps DEF ledger
<1>3. acks' \in [Task -> {"none", "auto", "user", "handoff"}] /\ \A u \in Task : u # t => acks'[u] = acks[u]
    BY <1>1 DEF Typed, StepsTyped
<1>4. Typed' /\ TimersGo /\ twice \subseteq twice'
    BY <1>1, <1>2, <1>3
    DEF Typed, RecordsTyped, StepsTyped, ProcessTyped, HistoryTyped, ledger, process, history, TimersGo
<1>5. HeldGoes
    BY <1>1, <1>3 DEF HeldGoes, Held, ledger
<1> QED BY <1>2, <1>4, <1>5, MovesInv DEF Moves

\* What a person's disposition does to the record of t.
LEMMA VoidedRecord ==
    ASSUME Typed, NEW t \in Task, auto' = [auto EXCEPT ![t] = Voided(t)]
    PROVE  /\ auto' \in [Task -> AutoRecord] /\ AutoGoes /\ Reopens
           /\ \A u \in Task : auto'[u].state # "none" => auto[u].state # "none"
           /\ auto[t].state # "none" => auto[t].gen < auto'[t].gen
<1>1. /\ auto \in [Task -> AutoRecord] /\ auto[t] \in AutoRecord /\ auto[t].gen \in Nat
      /\ \A u \in Task : auto[u].gen \in Nat
    BY AutoFields DEF Typed, RecordsTyped
<1>2. PICK r : r = Voided(t)
    OBVIOUS
<1>3. CASE auto[t].state = "none"
  <2>1. auto' = auto
      BY <1>1, <1>3 DEF Voided
  <2> QED BY <1>1, <1>3, <2>1, SameAuto
<1>4. CASE auto[t].state # "none"
  <2>1. r = [auto[t] EXCEPT !.state = "acknowledged", !.gen = @ + 1]
      BY <1>2, <1>4 DEF Voided
  <2>2. auto[t].gen + 1 \in Nat
      BY <1>1
  <2>3. r \in AutoRecord
      BY <1>1, <2>1, <2>2 DEF AutoRecord
  <2>4. r.state = "acknowledged" /\ r.gen = auto[t].gen + 1
      BY <1>1, <2>1 DEF AutoRecord
  <2>. auto[t].gen <= r.gen /\ auto[t].gen < r.gen /\ r.state # "none"
      BY <1>1, <2>4
  <2>5. /\ auto' \in [Task -> AutoRecord] /\ AutoGoes /\ auto'[t] = r
        /\ \A u \in Task : u # t => auto'[u] = auto[u]
      BY <1>2, <2>3, OneAuto
  <2> QED BY <1>4, <2>4, <2>5, OneReopens DEF Waiting
<1> QED BY <1>3, <1>4

LEMMA AckByHandInv ==
    ASSUME IInv, NEW t \in Task, AckByHand(t)
    PROVE  IInv' /\ Moves
<1>1. /\ Typed /\ acks[t] \in {"user", "handoff"} /\ acks' = [acks EXCEPT ![t] = "none"]
      /\ UNCHANGED <<late, process, chain, lost, twice, choices, faults>>
    BY DEF IInv, AckByHand
<1>2. Kept(Told(t, "started"))
    BY <1>1, ToldKept
<1>3. CASE action[t] # "none"
  <2>1. steps' = Told(t, "started") /\ UNCHANGED <<task, action, followUp, auto, timer>>
      BY <1>3 DEF AckByHand
  <2> QED BY <1>1, <1>2, <2>1, RefusedInv DEF ledger, history
<1>4. CASE action[t] = "none"
  <2>1. steps' = Outdated(Told(t, "started"), {t})
      BY <1>4 DEF AckByHand
  <2>2. /\ LedgerTyped' /\ Linked' /\ StatusGoes
        /\ \A v \in Task : v # t => action'[v] = action[v]
        /\ auto' = [auto EXCEPT ![t] = Voided(t)] /\ timer' = Cleared(t)
    <3>1. ASSUME NEW u \in Task, NEW new \in TaskRecord, FollowsWith(t, u, new),
                 Acknowledge(t, u, new, Voided(t)), task[t].status \in Limits
          PROVE  /\ LedgerTyped' /\ Linked' /\ StatusGoes
                 /\ \A v \in Task : v # t => action'[v] = action[v]
                 /\ auto' = [auto EXCEPT ![t] = Voided(t)] /\ timer' = Cleared(t)
      <4>1. /\ LedgerTyped' /\ Linked' /\ StatusGoes
            /\ \A v \in Task : v # t => action'[v] = action[v]
          BY <1>4, <3>1, AcknowledgeLinks
      <4> QED BY <3>1, <4>1 DEF Acknowledge
    <3>2. CASE /\ action' = [action EXCEPT ![t] = "drop"] /\ auto' = [auto EXCEPT ![t] = Voided(t)]
               /\ timer' = Cleared(t) /\ UNCHANGED <<task, followUp>>
      <4>1. /\ action' \in [Task -> {"none", "retry", "drop"}] /\ action'[t] = "drop"
            /\ \A v \in Task : v # t => action'[v] = action[v]
          BY <1>1, <3>2 DEF Typed, LedgerTyped
      <4>2. LedgerTyped' /\ Linked' /\ StatusGoes
          BY <1>1, <1>4, <3>2, <4>1 DEF IInv, Typed, LedgerTyped, Linked, OneFollowUp, StatusGoes
      <4> QED BY <3>2, <4>1, <4>2
    <3> QED BY <1>4, <3>1, <3>2, HandFollows
  <2>3. /\ auto' \in [Task -> AutoRecord] /\ AutoGoes /\ Reopens
        /\ \A u \in Task : auto'[u].state # "none" => auto[u].state # "none"
        /\ auto[t].state # "none" => auto[t].gen < auto'[t].gen
      BY <1>1, <2>2, VoidedRecord
  <2>4. steps' \in [Step -> StepRecord] /\ StepsGo
    <3>1. {t} \in SUBSET Task /\ \A v \in {t} : auto[v].state # "none" => auto[v].gen < auto'[v].gen
        BY <2>3
    <3> QED BY <1>2, <2>1, <2>3, <3>1, OutdatedSteps
  <2>5. timer' \in [Task -> TimerRecord] /\ TimersGo
      BY <1>1, <2>2, ClearedTimer
  <2>6. /\ acks' \in [Task -> {"none", "auto", "user", "handoff"}]
        /\ \A u \in Task : u # t => acks'[u] = acks[u]
      BY <1>1 DEF Typed, StepsTyped
  <2>7. Typed' /\ twice \subseteq twice'
      BY <1>1, <2>2, <2>3, <2>4, <2>5, <2>6
      DEF Typed, RecordsTyped, StepsTyped, ProcessTyped, HistoryTyped, process
  <2>8. HeldGoes
    <3>1. ASSUME NEW v \in Task, Held(v)' PROVE Held(v)
      <4>1. CASE v = t
          BY <1>1, <4>1 DEF Held
      <4>2. CASE v # t
          BY <2>2, <2>3, <2>6, <3>1, <4>2 DEF Held
      <4> QED BY <4>1, <4>2
    <3> QED BY <3>1 DEF HeldGoes
  <2> QED BY <2>2, <2>3, <2>4, <2>5, <2>7, <2>8, MovesInv DEF Moves
<1> QED BY <1>3, <1>4

\* Work that is dispatched has no prior.
LEMMA DispatchInv ==
    ASSUME IInv, Dispatch
    PROVE  IInv' /\ Moves
<1>1. PICK u \in NewTask : task' = [task EXCEPT ![u] = [NoTask EXCEPT !.status = "queued"]]
    BY DEF Dispatch
<1>2. /\ Typed /\ OneFollowUp /\ choices' = choices + 1
      /\ UNCHANGED <<action, followUp, auto, late, volatile, process, chain, lost, twice, faults>>
    BY DEF IInv, Linked, Dispatch
<1>3. PICK new : new = [NoTask EXCEPT !.status = "queued"]
    OBVIOUS
<1>4. new \in TaskRecord /\ new.status = "queued" /\ new.prior = 0
  <2>1. new = [status |-> "queued", prior |-> 0, by |-> "root", backup |-> FALSE, spent |-> FALSE]
      BY <1>3 DEF NoTask
  <2> QED BY <2>1, BoundAssumption DEF TaskRecord, Unsettled
<1>5. /\ u \in Task /\ task[u].status = "none" /\ task' \in [Task -> TaskRecord]
      /\ task'[u] = new /\ \A v \in Task : v # u => task'[v] = task[v]
    BY <1>1, <1>2, <1>3, <1>4 DEF NewTask, Typed, LedgerTyped
<1>6. LedgerTyped' /\ StatusGoes
    BY <1>2, <1>5 DEF Typed, LedgerTyped, StatusGoes, Limits
<1>7. Linked'
  <2>1. 0 \notin Task /\ \A t \in Task : followUp[t] # 0 => followUp[t] \in Task
      BY <1>2, BoundAssumption DEF Typed, LedgerTyped, Task
  <2>2. \A t, v \in Task : task'[v].status # "none" /\ task'[v].prior = t => followUp'[t] = v
      BY <1>2, <1>4, <1>5, <2>1 DEF OneFollowUp
  <2>3. \A t \in Task : followUp'[t] # 0 => task'[followUp'[t]].status # "none"
      BY <1>2, <1>4, <1>5, <2>1 DEF OneFollowUp
  <2> QED BY <1>2, <2>2, <2>3 DEF IInv, Linked, OneFollowUp
<1>8. AutoGoes /\ Reopens /\ StepsGo
    BY <1>2, SameAuto, SameSteps DEF volatile
<1>9. Typed' /\ TimersGo /\ HeldGoes /\ twice \subseteq twice'
    BY <1>2, <1>6, NobodyNew
    DEF Typed, RecordsTyped, StepsTyped, ProcessTyped, HistoryTyped, volatile, process, TimersGo
<1> QED BY <1>6, <1>7, <1>8, <1>9, MovesInv DEF Moves

-----------------------------------------------------------------------------
(* The switch *)

LEMMA DisableInv ==
    ASSUME IInv, NEW S \in SUBSET Task, Disable(S), \A t \in S : task[t].status \in Limits
    PROVE  IInv' /\ Moves
<1>1. /\ Typed /\ UNCHANGED <<task, action, followUp, late, acks, process, lost, twice, faults>>
      /\ steps' = Outdated(steps, S) /\ choices' = choices + 1
      /\ auto' = [t \in Task |-> IF t \in S THEN Disabled(t) ELSE auto[t]]
      /\ timer' = [t \in Task |-> IF t \in S THEN NoTimer ELSE timer[t]]
      /\ chain' = [u \in Task |-> IF CutOff(u, S) THEN 0 ELSE chain[u]]
    BY DEF IInv, Disable, Decides
<1>2. LedgerTyped' /\ Linked' /\ StatusGoes
    BY <1>1, SameLedger
<1>3. \A t \in Task : auto[t] \in AutoRecord /\ auto[t].gen \in Nat
    BY <1>1, AutoFields
<1>4. ASSUME NEW t \in Task
      PROVE  /\ Disabled(t) \in AutoRecord /\ Disabled(t).state = "cancelled"
             /\ auto[t].state # "none" => Disabled(t).gen = auto[t].gen + 1
  <2>1. PICK n \in Nat : n = IF auto[t].state = "none" THEN auto[t].gen ELSE auto[t].gen + 1
      BY <1>3
  <2>2. Disabled(t) = [auto[t] EXCEPT !.state = "cancelled", !.enabled = FALSE, !.gen = n]
      BY <1>3, <2>1 DEF Disabled, AutoRecord
  <2> QED BY <1>3, <2>1, <2>2 DEF AutoRecord
<1>5. /\ auto' \in [Task -> AutoRecord]
      /\ \A t \in Task : auto'[t] = IF t \in S THEN Disabled(t) ELSE auto[t]
    BY <1>1, <1>3, <1>4
<1>6. AutoGoes
  <2>1. ASSUME NEW t \in Task, auto[t].state # "none"
        PROVE  auto'[t].state # "none" /\ auto[t].gen <= auto'[t].gen
    <3>1. CASE t \in S
        BY <1>3, <1>4, <1>5, <2>1, <3>1
    <3>2. CASE t \notin S
        BY <1>3, <1>5, <2>1, <3>2
    <3> QED BY <3>1, <3>2
  <2> QED BY <2>1 DEF AutoGoes
<1>7. Reopens
    BY <1>4, <1>5 DEF Reopens, Waiting
<1>8. steps' \in [Step -> StepRecord] /\ StepsGo
  <2>1. Kept(steps)
      BY <1>1 DEF Kept, Typed, StepsTyped
  <2>2. \A t \in S : auto[t].state # "none" => auto[t].gen < auto'[t].gen
      BY <1>3, <1>4, <1>5
  <2> QED BY <1>1, <1>5, <2>1, <2>2, OutdatedSteps
<1>9. timer' \in [Task -> TimerRecord] /\ TimersGo
  <2>1. NoTimer \in TimerRecord
      BY DEF NoTimer, TimerRecord
  <2>2. timer' \in [Task -> TimerRecord] /\ \A t \in Task : timer'[t] \in {timer[t], NoTimer}
      BY <1>1, <2>1 DEF Typed, RecordsTyped
  <2> QED BY <1>1, <2>2, FewerTimers
<1>10. chain' \in [Task -> Nat]
    BY <1>1 DEF Typed, HistoryTyped
<1>11. Typed' /\ twice \subseteq twice'
    BY <1>1, <1>2, <1>5, <1>8, <1>9, <1>10
    DEF Typed, RecordsTyped, StepsTyped, ProcessTyped, HistoryTyped, process
<1>12. HeldGoes
    BY <1>1, <1>5, NobodyNew
<1> QED BY <1>2, <1>6, <1>7, <1>8, <1>9, <1>11, <1>12, MovesInv DEF Moves

\* A record that is driven is that of a task that stopped on a limit.
LEMMA ActiveOnLimit ==
    ASSUME IInv, NEW t \in Task, Active(t)
    PROVE  task[t].status \in Limits
BY DEF IInv, HeldOnLimit, Held, Active, ActiveState

LEMMA SwitchInv ==
    ASSUME IInv, CancelSession \/ \E t \in Task : SwitchOff(t) \/ Cancel(t)
    PROVE  IInv' /\ Moves
<1>1. CASE CancelSession
  <2>1. {t \in Task : Active(t)} \in SUBSET Task /\ \A t \in {u \in Task : Active(u)} : task[t].status \in Limits
      BY ActiveOnLimit
  <2> QED BY <1>1, <2>1, DisableInv DEF CancelSession
<1>2. ASSUME NEW t \in Task, SwitchOff(t) \/ Cancel(t)
      PROVE  IInv' /\ Moves
  <2>1. {t} \in SUBSET Task /\ \A u \in {t} : task[u].status \in Limits
      BY <1>2, ActiveOnLimit DEF SwitchOff, Cancel, Eligible
  <2> QED BY <1>2, <2>1, DisableInv DEF SwitchOff, Cancel
<1> QED BY <1>1, <1>2

LEMMA EnableInv ==
    ASSUME IInv, NEW t \in Task, Enable(t)
    PROVE  IInv' /\ Moves
<1> DEFINE base == IF auto[t].state = "none" THEN auto[t] ELSE [auto[t] EXCEPT !.gen = @ + 1]
           on == [base EXCEPT !.enabled = TRUE, !.target = "none",
                              !.state = IF t \in late THEN "exhausted" ELSE "planning"]
<1>1. /\ Typed /\ UNCHANGED <<task, action, followUp, late, acks, process, lost, twice, faults>>
      /\ steps' = Outdated(steps, {t}) /\ choices' = choices + 1 /\ task[t].status \in Limits
      /\ auto' = [auto EXCEPT ![t] = on]
      /\ timer' = [timer EXCEPT ![t] = IF t \in late THEN NoTimer ELSE [kind |-> "plan", gen |-> on.gen]]
      /\ chain' = IF auto[t].state = "none" THEN [chain EXCEPT ![t] = 0] ELSE chain
    BY DEF IInv, Enable, Decides, Eligible
<1>2. LedgerTyped' /\ Linked' /\ StatusGoes
    BY <1>1, SameLedger
<1>3. auto[t] \in AutoRecord /\ auto[t].gen \in Nat
    BY <1>1, AutoFields
<1>4. base \in AutoRecord /\ base.gen = IF auto[t].state = "none" THEN auto[t].gen ELSE auto[t].gen + 1
  <2>1. auto[t].gen + 1 \in Nat
      BY <1>3
  <2>2. /\ [auto[t] EXCEPT !.gen = @ + 1] \in AutoRecord
        /\ [auto[t] EXCEPT !.gen = @ + 1].gen = auto[t].gen + 1
      BY <1>3, <2>1 DEF AutoRecord
  <2> QED BY <1>3, <2>2
<1> HIDE DEF base
<1>5. on \in AutoRecord /\ on.state \in {"exhausted", "planning"} /\ on.gen = base.gen
    BY <1>4 DEF AutoRecord, ActiveState
<1> HIDE DEF on
<1>. auto[t].gen <= on.gen /\ on.state # "none" /\ (auto[t].state # "none" => auto[t].gen < on.gen)
    BY <1>3, <1>4, <1>5
<1>6. /\ auto' \in [Task -> AutoRecord] /\ AutoGoes /\ auto'[t] = on
      /\ \A u \in Task : u # t => auto'[u] = auto[u]
    BY <1>1, <1>5, OneAuto
<1>7. Reopens
    BY <1>1, <1>6, OneReopens
<1>8. steps' \in [Step -> StepRecord] /\ StepsGo
  <2>1. Kept(steps)
      BY <1>1 DEF Kept, Typed, StepsTyped
  <2>2. {t} \in SUBSET Task /\ \A u \in {t} : auto[u].state # "none" => auto[u].gen < auto'[u].gen
      BY <1>6
  <2> QED BY <1>1, <1>6, <2>1, <2>2, OutdatedSteps
<1>9. timer' \in [Task -> TimerRecord] /\ TimersGo
  <2>1. NoTimer \in TimerRecord /\ [kind |-> "plan", gen |-> on.gen] \in TimerRecord
      BY <1>5 DEF NoTimer, TimerRecord, AutoRecord
  <2>2. /\ timer' \in [Task -> TimerRecord] /\ \A u \in Task : u # t => timer'[u] = timer[u]
        /\ timer'[t].kind = "none" \/ timer'[t].gen = on.gen
      BY <1>1, <2>1 DEF Typed, RecordsTyped, NoTimer
  <2> QED BY <1>6, <2>2 DEF TimersGo
<1>10. chain' \in [Task -> Nat]
    BY <1>1 DEF Typed, HistoryTyped
<1>11. Typed' /\ twice \subseteq twice'
  <2>1. RecordsTyped' /\ StepsTyped' /\ ProcessTyped'
      BY <1>1, <1>6, <1>8, <1>9 DEF Typed, RecordsTyped, StepsTyped, ProcessTyped, process
  <2>2. lost' = lost /\ twice' = twice /\ faults' = faults /\ choices' = choices + 1
      BY <1>1
  <2>3. HistoryTyped'
      BY <1>1, <1>10, <2>2 DEF Typed, HistoryTyped
  <2> QED BY <1>2, <2>1, <2>2, <2>3 DEF Typed
<1>12. HeldGoes
    BY <1>1, <1>6, NobodyNew
<1> QED BY <1>2, <1>6, <1>7, <1>8, <1>9, <1>11, <1>12, MovesInv DEF Moves

-----------------------------------------------------------------------------
(* Time, crash and restart *)

LEMMA ExpireInv ==
    ASSUME IInv, NEW t \in Task, Expire(t)
    PROVE  IInv' /\ Moves
<1>1. Typed /\ late' = late \cup {t} /\ UNCHANGED <<task, action, followUp, auto, volatile, process, history>>
    BY DEF IInv, Expire
<1>2. LedgerTyped' /\ Linked' /\ StatusGoes /\ AutoGoes /\ Reopens /\ StepsGo
    BY <1>1, SameLedger, SameAuto, SameSteps DEF volatile
<1>3. Typed' /\ TimersGo /\ HeldGoes /\ twice \subseteq twice'
    BY <1>1, <1>2, NobodyNew
    DEF Typed, RecordsTyped, StepsTyped, ProcessTyped, HistoryTyped, volatile, process, history, TimersGo
<1> QED BY <1>2, <1>3, MovesInv DEF Moves

LEMMA CrashInv ==
    ASSUME IInv, Crash
    PROVE  IInv' /\ Moves
<1>1. Typed /\ PowerOff /\ faults' = faults + 1 /\ UNCHANGED <<ledger, chain, lost, twice, choices>>
    BY DEF IInv, Crash, Failing
<1>2. LedgerTyped' /\ Linked' /\ StatusGoes /\ AutoGoes /\ Reopens
    BY <1>1, SameLedger, SameAuto DEF ledger
<1>3. /\ StepsTyped' /\ ProcessTyped' /\ StepsGo /\ timer' \in [Task -> TimerRecord] /\ TimersGo
      /\ acks' = [t \in Task |-> "none"]
    BY <1>1, PowerOffStep
<1>4. Typed' /\ HeldGoes /\ twice \subseteq twice'
    BY <1>1, <1>2, <1>3, NobodyNew DEF Typed, RecordsTyped, HistoryTyped, ledger
<1> QED BY <1>2, <1>3, <1>4, MovesInv DEF Moves

LEMMA RestartInv ==
    ASSUME IInv, Restart \/ BeginRearm
    PROVE  IInv' /\ Moves
<1>1. /\ Typed /\ UNCHANGED <<ledger, volatile, chain, twice, choices, faults>>
      /\ (up' = "starting" /\ cursor' = cursor) \/ (up' = "rearming" /\ cursor' = 1)
      /\ lost' \in {lost, {}}
    BY DEF IInv, Restart, BeginRearm, history
<1>2. LedgerTyped' /\ Linked' /\ StatusGoes /\ AutoGoes /\ Reopens /\ StepsGo
    BY <1>1, SameLedger, SameAuto, SameSteps DEF ledger, volatile
<1>3. Typed' /\ TimersGo /\ HeldGoes /\ twice \subseteq twice'
    BY <1>1, <1>2, NobodyNew, BoundAssumption
    DEF Typed, RecordsTyped, StepsTyped, ProcessTyped, HistoryTyped, ledger, volatile, TimersGo
<1> QED BY <1>2, <1>3, MovesInv DEF Moves

\* What either loop of rearmAutoResumeLocked does to the records.  Only the
\* first gives an attempt back, and one that is still out is noted in twice.
LEMMA RearmActiveStep ==
    ASSUME IInv, NEW t \in Task, RearmActive(t), UNCHANGED steps,
           \A u \in Task : GivenBackOut(u) => u \in twice', cursor = t
    PROVE  /\ RecordsTyped' /\ AutoGoes /\ Reopens /\ TimersGo
           /\ \A u \in Task : auto'[u].state # "none" => auto[u].state # "none" \/ task[u].status \in Limits
<1>1. Typed /\ auto[t] \in AutoRecord /\ auto[t].gen \in Nat /\ auto[t].attempts \in Nat
    BY AutoFields DEF IInv
<1>2. CASE UNCHANGED <<auto, late, timer>>
    BY <1>1, <1>2, SameAuto DEF Typed, RecordsTyped, TimersGo
<1>3. CASE /\ Active(t) /\ auto[t].state = "attempting" /\ action[t] = "none"
           /\ auto' = [auto EXCEPT ![t].state = "planning", ![t].attempts = GivenBack(@)]
           /\ timer' = Armed(t, "plan") /\ UNCHANGED late
  <2>1. PICK r : r = [auto[t] EXCEPT !.state = "planning", !.attempts = GivenBack(@)]
      OBVIOUS
  <2>2. GivenBack(auto[t].attempts) \in Nat
      BY <1>1 DEF GivenBack
  <2>3. r \in AutoRecord /\ r.state = "planning" /\ r.gen = auto[t].gen
      BY <1>1, <2>1, <2>2 DEF AutoRecord, ActiveState
  <2>4. auto' = [auto EXCEPT ![t] = r]
      BY <1>1, <1>3, <2>1 DEF Typed, RecordsTyped
  <2>. auto[t].gen <= r.gen /\ r.state # "none"
      BY <1>1, <2>3
  <2>5. /\ auto' \in [Task -> AutoRecord] /\ AutoGoes /\ auto'[t] = r
        /\ \A u \in Task : u # t => auto'[u] = auto[u]
      BY <1>1, <2>3, <2>4, OneAuto
  <2>6. timer' \in [Task -> TimerRecord] /\ TimersGo
      BY <1>1, <1>3, <2>3, <2>5, ArmedTimer
  <2>7. \/ t \in twice'
        \/ \A d \in Step : \/ steps'[d].pc \in {"idle", "plan"} \/ steps'[d].task # t
                           \/ steps'[d].gen # auto'[t].gen
      BY <1>3, <2>3, <2>5 DEF GivenBackOut
  <2>8. Reopens
      BY <2>5, <2>7 DEF Reopens
  <2> QED BY <1>1, <1>3, <2>5, <2>6, <2>8 DEF Typed, RecordsTyped
<1>4. CASE LET u == followUp[t] IN u # 0 /\ task[u].status \in Settled /\ Park(u, task[u].status)
  <2>1. followUp[t] \in Task
      BY <1>1, <1>4, BoundAssumption DEF Typed, LedgerTyped, Task
  <2> QED BY <1>1, <1>4, <2>1, ParkStep
<1>5. CASE /\ Active(t) /\ UNCHANGED <<auto, late>>
           /\ timer' = Armed(t, "plan") \/ timer' = Armed(t, "attempt")
  <2>1. auto'[t].state # "none" /\ auto'[t].gen = auto[t].gen
      BY <1>5 DEF Active, ActiveState
  <2>2. timer' \in [Task -> TimerRecord] /\ TimersGo
      BY <1>1, <1>5, <2>1, ArmedTimer
  <2> QED BY <1>1, <1>5, <2>2, SameAuto DEF Typed, RecordsTyped
<1> QED BY <1>2, <1>3, <1>4, <1>5 DEF RearmActive

LEMMA RearmInv ==
    ASSUME IInv, Rearm
    PROVE  IInv' /\ Moves
<1>1. /\ Typed /\ UNCHANGED <<task, action, followUp, steps, acks, chain, lost, choices, faults>>
      /\ IF cursor <= MaxTask THEN RearmActive(cursor) ELSE RearmUnparked(cursor - MaxTask)
      /\ twice' = twice \cup {t \in Task : GivenBackOut(t)}
    BY DEF IInv, Rearm
<1>2. LedgerTyped' /\ Linked' /\ StatusGoes /\ StepsGo
    BY <1>1, SameLedger, SameSteps
<1>3. cursor \in 0..(2 * MaxTask) /\ MaxTask \in Nat
    BY <1>1, BoundAssumption DEF Typed, ProcessTyped
<1>4. ProcessTyped'
    BY <1>1, <1>3 DEF Rearm, Typed, ProcessTyped
<1>5. /\ RecordsTyped' /\ AutoGoes /\ Reopens /\ TimersGo
      /\ \A u \in Task : auto'[u].state # "none" => auto[u].state # "none" \/ task[u].status \in Limits
  <2>1. CASE cursor <= MaxTask /\ cursor # 0
    <3>1. cursor \in Task
        BY <1>3, <2>1 DEF Task
    <3>2. \A u \in Task : GivenBackOut(u) => u \in twice'
        BY <1>1
    <3> QED BY <1>1, <2>1, <3>1, <3>2, RearmActiveStep
  <2>2. CASE cursor > MaxTask
    <3>1. PICK t \in Task : t = cursor - MaxTask
        BY <1>3, <2>2 DEF Task
    <3>2. RearmUnparked(t)
        BY <1>1, <1>3, <2>2, <3>1
    <3>3. CASE UNCHANGED <<auto, late, timer>>
        BY <1>1, <3>3, SameAuto DEF Typed, RecordsTyped, TimersGo
    <3>4. CASE Park(t, task[t].status)
        BY <1>1, <3>4, ParkStep
    <3> QED BY <3>2, <3>3, <3>4 DEF RearmUnparked
  <2>3. cursor # 0
      BY <1>1 DEF Typed, ProcessTyped, Rearm
  <2> QED BY <1>3, <2>1, <2>2, <2>3
<1>6. Typed' /\ HeldGoes /\ twice \subseteq twice'
    BY <1>1, <1>2, <1>4, <1>5, NobodyNew DEF Typed, StepsTyped, HistoryTyped
<1> QED BY <1>2, <1>5, <1>6, MovesInv DEF Moves

-----------------------------------------------------------------------------
(* The invariant and the properties *)

LEMMA InitInv == Init => IInv
<1> SUFFICES ASSUME Init PROVE IInv
    OBVIOUS
<1>1. LedgerTyped
  <2>1. NoTask \in TaskRecord /\ [NoTask EXCEPT !.status = "live"] \in TaskRecord
    <3>1. 0 \in 0..MaxTask
        BY BoundAssumption
    <3>2. NoTask \in TaskRecord
        BY <3>1 DEF NoTask, TaskRecord
    <3>3. "live" \in Unsettled
        BY DEF Unsettled
    <3>4. \A x \in TaskRecord : [x EXCEPT !.status = "live"] \in TaskRecord
        BY <3>3 DEF TaskRecord
    <3> QED BY <3>2, <3>4
  <2> QED BY <2>1, BoundAssumption DEF Init, LedgerTyped
<1>2. RecordsTyped
  <2>1. NoAuto \in AutoRecord /\ NoTimer \in TimerRecord
      BY BoundAssumption DEF NoAuto, AutoRecord, NoTimer, TimerRecord
  <2> QED BY <2>1 DEF Init, RecordsTyped
<1>3. StepsTyped
  <2>1. NoStep \in StepRecord
      BY BoundAssumption DEF NoStep, StepRecord, StepPc, Task
  <2> QED BY <2>1 DEF Init, StepsTyped
<1>4. ProcessTyped /\ HistoryTyped
    BY BoundAssumption DEF Init, ProcessTyped, HistoryTyped
<1>5. \A t \in Task :
          /\ action[t] = "none" /\ followUp[t] = 0 /\ auto[t].state = "none"
          /\ acks[t] = "none" /\ timer[t].kind = "none" /\ task[t].prior = 0
    BY DEF Init, NoAuto, NoTimer, NoTask
<1>6. Linked
  <2>1. 0 \notin Task
      BY DEF Task
  <2>2. \A S \in SUBSET Task : S # {} => \E t \in S : followUp[t] \notin S
      BY <1>5, <2>1
  <2> QED BY <1>5, <2>1, <2>2 DEF Linked, OneFollowUp
<1>7. HeldOnLimit /\ TimersKnown
    BY <1>5 DEF HeldOnLimit, Held, TimersKnown
<1>8. \A d \in Step : steps[d].pc = "idle"
    BY DEF Init, NoStep
<1>9. StepsKnown /\ AttemptHoldsRecord /\ OneAttempt
    BY <1>8 DEF StepsKnown, AttemptHoldsRecord, OneAttempt, Attempting
<1> QED BY <1>1, <1>2, <1>3, <1>4, <1>6, <1>7, <1>9 DEF IInv, Typed

LEMMA StutterInv ==
    ASSUME IInv, UNCHANGED vars
    PROVE  IInv' /\ Moves
<1>1. Typed /\ UNCHANGED <<ledger, volatile, process, history>>
    BY DEF IInv, vars
<1>2. LedgerTyped' /\ Linked' /\ StatusGoes /\ AutoGoes /\ Reopens /\ StepsGo
    BY <1>1, SameLedger, SameAuto, SameSteps DEF ledger, volatile
<1>3. Typed' /\ TimersGo /\ HeldGoes /\ twice \subseteq twice'
    BY <1>1, <1>2, NobodyNew
    DEF Typed, RecordsTyped, StepsTyped, ProcessTyped, HistoryTyped, ledger, volatile, process, history, TimersGo
<1> QED BY <1>2, <1>3, MovesInv DEF Moves

\* Every step keeps the invariant, and moves as described.
LEMMA StepMoves == IInv /\ [Next]_vars => IInv' /\ Moves
<1> SUFFICES ASSUME IInv, [Next]_vars PROVE IInv' /\ Moves
    OBVIOUS
<1>1. ASSUME NEW t \in Task, Launch(t) \/ Settles(t) \/ Postpone(t) \/ AcksByHand(t) \/ Expire(t)
      PROVE  IInv' /\ Moves
  <2>1. CASE Settles(t)
    <3>1. PICK s \in Settled : Settle(t, s)
        BY <2>1 DEF Settles, Outcomes
    <3> QED BY <3>1, SettleInv
  <2> QED BY <1>1, <2>1, LaunchInv, PostponeInv, AckByHandInv, AckByHandRefusedInv, ExpireInv DEF AcksByHand
<1>2. ASSUME NEW t \in Task, NEW d \in Step, FirePlan(t, d) \/ FireAttempt(t, d)
      PROVE  IInv' /\ Moves
    BY <1>2, FirePlanInv, FireAttemptInv
<1>3. ASSUME NEW d \in Step, Plan(d) \/ Asked(d) \/ Acks(d)
      PROVE  IInv' /\ Moves
    BY <1>3, PlanInv, AskInv, AnswerInv, AckAutoInv, AckRefusedInv DEF Asked, Acks
<1>4. CASE People \/ CancelSession \/ Dispatch
  <2>1. CASE CancelSession
      BY <2>1, SwitchInv
  <2>2. ASSUME NEW t \in Task, Request(t, "user") \/ Request(t, "handoff")
        PROVE  IInv' /\ Moves
      BY <2>2, RequestInv
  <2>3. ASSUME NEW t \in Task, SwitchOff(t) \/ Cancel(t) \/ Enable(t) \/ CancelQueued(t)
        PROVE  IInv' /\ Moves
      BY <2>3, SwitchInv, EnableInv, CancelQueuedInv
  <2> QED BY <1>4, <2>1, <2>2, <2>3, DispatchInv DEF People
<1>5. CASE Failures
  <2>1. ASSUME NEW t \in Task, NEW b \in BOOLEAN, NEW s \in Outcomes(t), SettlePartly(t, s, b)
        PROVE  IInv' /\ Moves
    <3>1. s \in Settled
        BY DEF Outcomes
    <3> QED BY <2>1, <3>1, SettlePartlyInv
  <2>2. ASSUME NEW t \in Task, DisableFails(t) \/ AttemptFails(t)
        PROVE  IInv' /\ Moves
      BY <2>2, TimerLost DEF DisableFails, AttemptFails
  <2> QED BY <1>5, <2>1, <2>2, StepFailsInv, CrashInv DEF Failures
<1>6. CASE Restart \/ BeginRearm \/ Rearm
    BY <1>6, RestartInv, RearmInv
<1>7. CASE UNCHANGED vars
    BY <1>7, StutterInv
<1> QED BY <1>1, <1>2, <1>3, <1>4, <1>5, <1>6, <1>7 DEF Next

\* Who changes the tasks and envelopes of the ledger: a launch or a settlement,
\* an attempt that is admitted, a person, and the orchestrator.
LEMMA LedgerSteps ==
    ASSUME IInv, [Next]_vars
    PROVE  \/ UNCHANGED <<task, action, followUp>>
           \/ \E t \in Task, s \in Settled \cup {"live"} :
                  /\ task[t].status \in Unsettled /\ task' = [task EXCEPT ![t].status = s]
                  /\ UNCHANGED <<action, followUp>>
           \/ \E d \in Step : AckAuto(d) /\ Admits(d)
           \/ \E t \in Task : AckByHand(t) /\ action[t] = "none"
           \/ Dispatch
<1> DEFINE Changed == \/ UNCHANGED <<task, action, followUp>>
                      \/ \E t \in Task, s \in Settled \cup {"live"} :
                             /\ task[t].status \in Unsettled /\ task' = [task EXCEPT ![t].status = s]
                             /\ UNCHANGED <<action, followUp>>
                      \/ \E d \in Step : AckAuto(d) /\ Admits(d)
                      \/ \E t \in Task : AckByHand(t) /\ action[t] = "none"
                      \/ Dispatch
<1>1. ASSUME NEW t \in Task, Launch(t) \/ Settles(t) \/ CancelQueued(t)
      PROVE  Changed
  <2>1. \E s \in Settled \cup {"live"} :
           /\ task[t].status \in Unsettled /\ task' = [task EXCEPT ![t].status = s]
           /\ UNCHANGED <<action, followUp>>
      BY <1>1 DEF Launch, Settles, Outcomes, Settle, CancelQueued, Unsettled, Settled
  <2> QED BY <2>1
<1>2. ASSUME NEW t \in Task, NEW b \in BOOLEAN, NEW s \in Outcomes(t), SettlePartly(t, s, b)
      PROVE  Changed
  <2>1. /\ task[t].status \in Unsettled /\ task' = [task EXCEPT ![t].status = s]
        /\ UNCHANGED <<action, followUp>> /\ s \in Settled \cup {"live"}
      BY <1>2 DEF SettlePartly, Unsettled, Outcomes
  <2> QED BY <2>1
<1>3. ASSUME NEW d \in Step, AckAuto(d) PROVE Changed
    BY <1>3 DEF AckAuto
<1>4. ASSUME NEW t \in Task, AckByHand(t) PROVE Changed
    BY <1>4 DEF AckByHand
<1>5. ASSUME NEW t \in Task,
             \/ Postpone(t) \/ AckByHandRefused(t) \/ Expire(t)
             \/ Request(t, "user") \/ Request(t, "handoff")
             \/ SwitchOff(t) \/ Cancel(t) \/ Enable(t) \/ DisableFails(t) \/ AttemptFails(t)
      PROVE  UNCHANGED <<task, action, followUp>>
    BY <1>5 DEF Postpone, AckByHandRefused, Expire, Request, SwitchOff, Cancel, Disable, Enable,
                DisableFails, AttemptFails, ledger
<1>6. ASSUME NEW t \in Task, NEW d \in Step, FirePlan(t, d) \/ FireAttempt(t, d)
      PROVE  UNCHANGED <<task, action, followUp>>
    BY <1>6 DEF FirePlan, FireAttempt, ledger
<1>7. ASSUME NEW d \in Step, Plan(d) \/ Asked(d) \/ AckRefused(d) \/ StepFails(d)
      PROVE  UNCHANGED <<task, action, followUp>>
    BY <1>7 DEF Plan, Asked, Ask, Answer, AckRefused, StepFails, ledger
<1>8. ASSUME CancelSession \/ Crash \/ Restart \/ BeginRearm \/ Rearm \/ UNCHANGED vars
      PROVE  UNCHANGED <<task, action, followUp>>
    BY <1>8 DEF CancelSession, Disable, Crash, Restart, BeginRearm, Rearm, ledger, vars
<1> HIDE DEF Changed
<1>9. (UNCHANGED <<task, action, followUp>> => Changed) /\ (Dispatch => Changed)
    BY DEF Changed
<1>10. Changed
    BY <1>1, <1>2, <1>3, <1>4, <1>5, <1>6, <1>7, <1>8, <1>9
    DEF Next, AcksByHand, Acks, People, Failures
<1> QED BY <1>10 DEF Changed

-----------------------------------------------------------------------------
(* The theorems *)

\* The inductive invariant holds in every state the scheduler can reach.
THEOREM Invariance == Spec => []IInv
<1>1. IInv /\ [Next]_vars => IInv'
    BY StepMoves
<1> QED BY <1>1, InitInv, PTL DEF Spec

\* Results, records, timers and steps keep their shape.
THEOREM TypeCorrect == Spec => []TypeOK
<1>1. IInv => TypeOK
  <2> SUFFICES ASSUME IInv PROVE TypeOK
      OBVIOUS
  <2>1. LedgerTyped /\ RecordsTyped /\ StepsTyped /\ ProcessTyped /\ HistoryTyped
      BY DEF IInv, Typed
  <2> QED BY <2>1, Zenon DEF TypeOK, LedgerTyped, RecordsTyped, TimerRecord, StepsTyped, StepRecord,
                             StepPc, ProcessTyped, HistoryTyped
<1> QED BY <1>1, Invariance, PTL

\* A task that continues a result is the one its envelope names, an envelope
\* names a task of the ledger, and the names go round in no circle: for any
\* lineages, crashes and people, and also when the duplicate guard hands a retry
\* a task that continues something else (acknowledgeResult and
\* prepareSubmissionLocked are one save).
THEOREM OneFollowUpPerResult == Spec => []OneFollowUp
<1>1. IInv => OneFollowUp
    BY DEF IInv, Linked
<1> QED BY <1>1, Invariance, PTL

\* Two requests of one generation are never out, save for an attempt that a
\* restart gave back while it was out (runAutoResumeAttempt).
THEOREM OneAttemptAtATime == Spec => []OneAttempt
<1>1. IInv => OneAttempt
    BY DEF IInv
<1> QED BY <1>1, Invariance, PTL

\* No follow-up is made by an attempt that began before a person switched the
\* resume off or disposed of the result (prepareSubmissionLocked looks at the
\* generation).
THEOREM StaleAttemptsCreateNothing == Spec => StaleNeverCreates
<1> DEFINE Fresh == \A u \in Task : task[u].status = "none" /\ task'[u].status # "none" /\ task'[u].by = "auto"
                       => \E d \in Step : /\ steps[d].pc = "acking" /\ steps'[d].pc = "started"
                                          /\ steps[d].task = task'[u].prior /\ ~steps[d].void
<1>1. IInv /\ [Next]_vars => Fresh
  <2> SUFFICES ASSUME IInv, [Next]_vars, NEW u \in Task, task[u].status = "none",
                      task'[u].status # "none", task'[u].by = "auto"
               PROVE  \E d \in Step : /\ steps[d].pc = "acking" /\ steps'[d].pc = "started"
                                      /\ steps[d].task = task'[u].prior /\ ~steps[d].void
      OBVIOUS
  <2>1. /\ Typed /\ StepsKnown /\ task \in [Task -> TaskRecord]
      BY DEF IInv, Typed, LedgerTyped
  <2>2. CASE UNCHANGED <<task, action, followUp>>
      BY <2>2
  <2>3. CASE \E t \in Task, s \in Settled \cup {"live"} :
                /\ task[t].status \in Unsettled /\ task' = [task EXCEPT ![t].status = s]
                /\ UNCHANGED <<action, followUp>>
    <3>1. task'[u] = task[u]
        BY <2>1, <2>3 DEF Unsettled
    <3> QED BY <3>1
  <2>4. ASSUME NEW d \in Step, AckAuto(d), Admits(d)
        PROVE  /\ steps[d].pc = "acking" /\ steps'[d].pc = "started"
               /\ steps[d].task = task'[u].prior /\ ~steps[d].void
    <3>1. PICK t \in Task : t = steps[d].task
        BY <2>1, StepFields
    <3>2. /\ steps[d].pc = "acking" /\ steps' = [Told(t, "started") EXCEPT ![d].pc = "started"]
          /\ auto[t].gen = steps[d].gen
        BY <2>4, <3>1 DEF AckAuto, Admits, Current
    <3>3. PICK v \in Task, x \in TaskRecord :
            FollowsWith(t, v, x) /\ Acknowledge(t, v, x, [auto[t] EXCEPT !.last = v])
        BY <2>4, <3>1, AutoFollows
    <3>4. task'[u].prior = t
        BY <2>1, <3>3 DEF FollowsWith, Acknowledge
    <3>5. steps'[d].pc = "started"
      <4>1. Told(t, "started") \in [Step -> StepRecord]
          BY <2>1, ToldKept DEF Kept
      <4>2. [Told(t, "started")[d] EXCEPT !.pc = "started"].pc = "started"
          BY <4>1 DEF StepRecord
      <4> QED BY <3>2, <4>1, <4>2
    <3>6. ~steps[d].void
      <4>1. steps[d].gen \in Nat /\ ~(steps[d].gen < auto[t].gen)
          BY <2>1, <3>2, StepFields
      <4> QED BY <2>1, <3>1, <3>2, <4>1 DEF StepsKnown
    <3> QED BY <3>1, <3>2, <3>4, <3>5, <3>6
  <2>5. ASSUME NEW t \in Task, AckByHand(t), action[t] = "none"
        PROVE  task'[u].by # "auto"
    <3>1. CASE task' = task
        BY <3>1
    <3>2. ASSUME NEW v \in Task, NEW x \in TaskRecord, FollowsWith(t, v, x), Acknowledge(t, v, x, Voided(t)),
                 task[v].status = "none" => x.by = "user"
          PROVE  task'[u].by # "auto"
        BY <2>1, <3>2 DEF FollowsWith, Acknowledge
    <3> QED BY <2>5, <3>1, <3>2, HandFollows
  <2>6. CASE Dispatch
    <3>1. PICK v \in NewTask : task' = [task EXCEPT ![v] = [NoTask EXCEPT !.status = "queued"]]
        BY <2>6 DEF Dispatch
    <3>2. PICK x : x = [NoTask EXCEPT !.status = "queued"]
        OBVIOUS
    <3>3. x.by = "root"
        BY <3>2 DEF NoTask
    <3>4. task'[u] = IF u = v THEN x ELSE task[u]
        BY <2>1, <3>1, <3>2
    <3> QED BY <3>3, <3>4
  <2> QED BY <2>2, <2>3, <2>4, <2>5, <2>6, LedgerSteps
<1>2. IInv /\ [Next]_vars => [Fresh]_vars
    BY <1>1
<1>3. Spec => [][Fresh]_vars
    BY <1>2, Invariance, PTL DEF Spec
<1> QED BY <1>3 DEF StaleNeverCreates

=============================================================================
