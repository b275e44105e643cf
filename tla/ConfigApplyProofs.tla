-------------------------- MODULE ConfigApplyProofs --------------------------
(***************************************************************************)
(* Proofs about ConfigApply, for any set of promises and any number of     *)
(* changes.  Each invariant is inductive; the last two rest on the first.  *)
(***************************************************************************)
EXTENDS ConfigApply, TLAPS

-----------------------------------------------------------------------------
\* The parts of the type that actions change together.
CallsTyped == calls \in [Call -> [pc : CallPc, rev : 0..revision]]
HostTyped ==
  /\ restart \in [phase : {"none", "closing", "starting"}, read : 0..revision]
  /\ runtime \in [up : BOOLEAN, loaded : 0..revision]
FlagsTyped == mode \in {"managed", "external"} /\ failed \in BOOLEAN /\ busy \in BOOLEAN
MarksTyped ==
  /\ revision \in Nat /\ applied \in 0..revision /\ changes \subseteq 1..revision
  /\ waiting \in 0..revision /\ timer \in 0..revision /\ inFlight \in 0..revision

LEMMA TypeParts == TypeOK <=> FlagsTyped /\ MarksTyped /\ CallsTyped /\ HostTyped
BY DEF TypeOK, FlagsTyped, MarksTyped, CallsTyped, HostTyped

\* A saved change widens the range of revisions.
LEMMA MarkTyped == ASSUME TypeOK, MarkChanged PROVE TypeOK'
<1>1. FlagsTyped /\ MarksTyped /\ CallsTyped /\ HostTyped
  BY TypeParts
<1>2. revision' \in Nat /\ revision' = revision + 1
  BY <1>1 DEF MarkChanged, MarksTyped
<1>3. 0..revision \subseteq 0..revision'
  BY <1>1, <1>2 DEF MarksTyped
<1>4. MarksTyped'
  <2>1. waiting' \in 0..revision' /\ timer' \in 0..revision'
    BY <1>1, <1>2 DEF MarkChanged, MarksTyped, watch
  <2>2. changes' \subseteq 1..revision' /\ applied' \in 0..revision' /\ inFlight' \in 0..revision'
    BY <1>1, <1>2 DEF MarkChanged, MarksTyped
  <2> QED BY <1>1, <1>2, <2>1, <2>2 DEF MarkChanged, MarksTyped
<1>5. CallsTyped'
  BY <1>1, <1>3 DEF MarkChanged, CallsTyped
<1>6. FlagsTyped'
  BY <1>1, Zenon DEF MarkChanged, FlagsTyped
<1>7. HostTyped'
  <2>1. restart' = restart /\ runtime' = runtime
    BY DEF MarkChanged, host
  <2> QED BY <1>1, <1>3, <2>1 DEF HostTyped
<1> QED BY <1>4, <1>5, <1>6, <1>7 DEF TypeOK, FlagsTyped, MarksTyped, CallsTyped, HostTyped

\* What an apply of a revision leaves behind has its type.
LEMMA EndTyped ==
  ASSUME MarksTyped, NEW rev \in 0..revision
  PROVE  /\ Landed(rev) \in 0..revision
         /\ Reported(rev) \in 0..revision
         /\ Remaining(rev) \subseteq 1..revision
<1>1. Landed(rev) \in 0..revision
  BY DEF MarksTyped, Landed
<1>2. Reported(rev) \in 0..revision
  BY DEF MarksTyped, Reported
<1>3. Remaining(rev) \subseteq 1..revision
  BY DEF MarksTyped, Remaining
<1> QED BY <1>1, <1>2, <1>3

\* Every other action leaves the last revision alone and keeps each part.
LEMMA CallTyped == ASSUME TypeOK, NEW c \in Call, CallNext(c) PROVE TypeOK'
<1>1. FlagsTyped /\ MarksTyped /\ CallsTyped /\ HostTyped
  BY TypeParts
<1>2. revision' = revision /\ calls[c].rev \in 0..revision /\ calls[c].pc \in CallPc
  <2>1. calls[c] \in [pc : CallPc, rev : 0..revision]
    BY <1>1 DEF CallsTyped
  <2>2. revision' = revision
    BY DEF CallNext, ApplyWhenIdle, ApplyForce, CountedIdle, CountedBusy, IdleTimer, Forced,
      ApplySucceeds, ApplyFails, Acknowledge, Acknowledged, pending
  <2> QED BY <2>1, <2>2
<1> USE DEF pending, watch, host
<1>3. MarksTyped'
  <2> USE <1>1, <1>2 DEF MarksTyped
  <2>1. CASE ApplyWhenIdle(c) BY <2>1 DEF ApplyWhenIdle, Watched
  <2>2. CASE ApplyForce(c) BY <2>2 DEF ApplyForce, Capture
  <2>3. CASE CountedIdle(c) BY <2>3 DEF CountedIdle, Capture, Share
  <2>4. CASE CountedBusy(c)
    <3>1. waiting' \in 0..revision BY <2>4 DEF CountedBusy
    <3>2. timer' \in 0..revision BY <2>4, <3>1 DEF CountedBusy, Watched
    <3> QED BY <2>4, <3>1, <3>2 DEF CountedBusy
  <2>5. CASE IdleTimer(c) BY <2>5 DEF IdleTimer
  <2>6. CASE Forced(c) BY <2>6, EndTyped DEF Forced
  <2>7. CASE ApplySucceeds(c) BY <2>7, EndTyped DEF ApplySucceeds
  <2>8. CASE ApplyFails(c) BY <2>8 DEF ApplyFails, Landed
  <2>9. CASE Acknowledge(c) BY <2>9 DEF Acknowledge
  <2>10. CASE Acknowledged(c)
    <3>1. revision' = revision /\ inFlight' = inFlight
      BY <2>10 DEF Acknowledged
    <3>2. changes' \in {changes, Remaining(calls[c].rev)} /\ applied' \in {applied, Reported(calls[c].rev)}
      BY <2>10 DEF Acknowledged
    <3>3. waiting' \in {waiting, 0} /\ timer' \in {timer, 0}
      BY <2>10 DEF Acknowledged
    <3>4. changes' \subseteq 1..revision /\ applied' \in 0..revision
      BY <3>2, EndTyped
    <3> QED BY <3>1, <3>3, <3>4
  <2> QED BY <2>1, <2>2, <2>3, <2>4, <2>5, <2>6, <2>7, <2>8, <2>9, <2>10 DEF CallNext
<1>4. CallsTyped'
  <2>1. ASSUME NEW pc \in CallPc, NEW rev \in 0..revision, calls' = [calls EXCEPT ![c] = [pc |-> pc, rev |-> rev]]
        PROVE  CallsTyped'
    BY <1>1, <1>2, <2>1 DEF CallsTyped
  <2>2. ASSUME calls' = [calls EXCEPT ![c] = NoCall] PROVE CallsTyped'
    <3>1. "idle" \in CallPc /\ 0 \in 0..revision
      BY <1>1 DEF CallPc, MarksTyped
    <3>2. calls' = [calls EXCEPT ![c] = [pc |-> "idle", rev |-> 0]]
      BY <2>2 DEF NoCall
    <3> QED BY <2>1, <3>1, <3>2
  <2>3. CASE calls' = calls
    BY <1>1, <1>2, <2>3 DEF CallsTyped
  <2>4. CASE ApplyWhenIdle(c) BY <1>1, <2>1, <2>3, <2>4 DEF ApplyWhenIdle, MarksTyped, CallPc
  <2>5. CASE ApplyForce(c)
    <3>1. calls' = [calls EXCEPT ![c] = [pc |-> "forcing", rev |-> revision]]
      BY <2>5 DEF ApplyForce, Capture
    <3>2. "forcing" \in CallPc /\ revision \in 0..revision
      BY <1>1 DEF CallPc, MarksTyped
    <3> QED BY <2>1, <3>1, <3>2
  <2>6. CASE CountedIdle(c) BY <1>2, <2>1, <2>2, <2>6 DEF CountedIdle, Capture, Share, CallPc
  <2>7. CASE CountedBusy(c) BY <2>2, <2>7 DEF CountedBusy
  <2>8. CASE IdleTimer(c) BY <1>1, <2>1, <2>3, <2>8 DEF IdleTimer, MarksTyped, CallPc
  <2>9. CASE Forced(c)
    <3>1. CASE calls' = [calls EXCEPT ![c].pc = "restarting"]
      <4>1. calls' = [calls EXCEPT ![c] = [pc |-> "restarting", rev |-> calls[c].rev]]
        <5>1. calls \in [Call -> [pc : CallPc, rev : 0..revision]]
          BY <1>1 DEF CallsTyped
        <5>2. [calls[c] EXCEPT !.pc = "restarting"] = [pc |-> "restarting", rev |-> calls[c].rev]
          BY <5>1
        <5> QED BY <3>1, <5>1, <5>2
      <4> QED BY <1>2, <2>1, <4>1 DEF CallPc
    <3> QED BY <2>2, <2>9, <3>1 DEF Forced
  <2>10. CASE ApplySucceeds(c) BY <2>2, <2>10 DEF ApplySucceeds
  <2>11. CASE ApplyFails(c) BY <2>2, <2>11 DEF ApplyFails
  <2>12. CASE Acknowledge(c)
    <3>1. calls' = [calls EXCEPT ![c] = [pc |-> "refreshing", rev |-> revision]]
      BY <2>12 DEF Acknowledge
    <3>2. "refreshing" \in CallPc /\ revision \in 0..revision
      BY <1>1 DEF CallPc, MarksTyped
    <3> QED BY <2>1, <3>1, <3>2
  <2>13. CASE Acknowledged(c) BY <2>2, <2>13 DEF Acknowledged
  <2> QED BY <2>4, <2>5, <2>6, <2>7, <2>8, <2>9, <2>10, <2>11, <2>12, <2>13 DEF CallNext
<1>5. HostTyped'
  <2>1. runtime' = runtime /\ (restart' = restart \/ restart' = [NoRestart EXCEPT !.phase = "closing"])
    BY DEF CallNext, ApplyWhenIdle, ApplyForce, CountedIdle, CountedBusy, IdleTimer, Forced, Share,
      ApplySucceeds, ApplyFails, Acknowledge, Acknowledged, Capture, JoinRestart
  <2> QED BY <1>1, <1>2, <2>1 DEF HostTyped, NoRestart, MarksTyped
<1>6. FlagsTyped'
  <2>1. mode' = mode /\ busy' = busy
    BY DEF CallNext, ApplyWhenIdle, ApplyForce, CountedIdle, CountedBusy, IdleTimer, Forced,
      ApplySucceeds, ApplyFails, Acknowledge, Acknowledged
  <2>2. failed' = failed \/ failed' = TRUE \/ failed' = FALSE
    BY DEF CallNext, ApplyWhenIdle, ApplyForce, CountedIdle, CountedBusy, IdleTimer, Forced, Share,
      ApplySucceeds, ApplyFails, Acknowledge, Acknowledged, Capture
  <2> QED BY <1>1, <2>1, <2>2, Zenon DEF FlagsTyped
<1> QED BY <1>3, <1>4, <1>5, <1>6 DEF TypeOK, FlagsTyped, MarksTyped, CallsTyped, HostTyped

\* A runtime that goes down keeps what it has loaded.
LEMMA DownTyped ==
  HostTyped => [runtime EXCEPT !.up = FALSE] \in [up : BOOLEAN, loaded : 0..revision]
<1> SUFFICES ASSUME HostTyped
             PROVE  [runtime EXCEPT !.up = FALSE] \in [up : BOOLEAN, loaded : 0..revision]
  OBVIOUS
<1>1. FALSE \in BOOLEAN
  OBVIOUS
<1> QED BY <1>1 DEF HostTyped

\* The steps of the host keep the types.
LEMMA HostStepTyped == ASSUME TypeOK, HostNext PROVE TypeOK'
<1>1. FlagsTyped /\ MarksTyped /\ CallsTyped /\ HostTyped
  BY TypeParts
<1> USE DEF pending, watch, host
<1>2. UNCHANGED <<mode, revision, applied, changes, waiting, timer, inFlight, failed>>
  BY DEF HostNext, HealthRestart, RestartReads, RestartReady, RestartFails, RestartEnds, ChatChanges
<1>5. FlagsTyped' /\ MarksTyped'
  <2>1. busy' = busy \/ busy' = ~busy
    BY DEF HostNext, HealthRestart, RestartReads, RestartReady, RestartFails, RestartEnds, ChatChanges
  <2>2. FlagsTyped'
    BY <1>1, <1>2, <2>1, Zenon DEF FlagsTyped
  <2> QED BY <1>1, <1>2, <2>2 DEF MarksTyped
<1>3. CallsTyped'
  <2>1. CASE calls' = calls
    BY <1>1, <1>2, <2>1 DEF CallsTyped
  <2>2. ASSUME NEW pc \in {"restarted", "refused"}, RestartEnds(pc) PROVE CallsTyped'
    BY <1>1, <1>2, <2>2 DEF RestartEnds, CallsTyped, CallPc
  <2> QED BY <2>1, <2>2 DEF HostNext, HealthRestart, RestartReads, RestartReady, RestartFails, ChatChanges
<1>4. HostTyped'
  <2> USE <1>1, <1>2 DEF HostTyped, NoRestart, MarksTyped
  <2>1. CASE HealthRestart BY <2>1 DEF HealthRestart
  <2>2. CASE RestartReads
    <3>1. restart' \in [phase : {"none", "closing", "starting"}, read : 0..revision]
      BY <2>2 DEF RestartReads
    <3>2. runtime' \in [up : BOOLEAN, loaded : 0..revision]
      BY <2>2, DownTyped DEF RestartReads
    <3> QED BY <3>1, <3>2
  <2>3. CASE RestartReady BY <2>3 DEF RestartReady, RestartEnds
  <2>4. CASE RestartFails BY <2>4, DownTyped DEF RestartFails, RestartEnds
  <2>5. CASE ChatChanges BY <2>5 DEF ChatChanges
  <2> QED BY <2>1, <2>2, <2>3, <2>4, <2>5 DEF HostNext
<1> QED BY <1>3, <1>4, <1>5 DEF TypeOK, FlagsTyped, MarksTyped, CallsTyped, HostTyped

\* Every variable of the coordinator has its type in every reachable state.
THEOREM TypeCorrect == Spec => []TypeOK
<1>1. Init => TypeOK
  <2> SUFFICES ASSUME Init PROVE TypeOK
    OBVIOUS
  <2>1. CallsTyped
    BY DEF Init, CallsTyped, NoCall, CallPc
  <2>2. HostTyped
    BY DEF Init, HostTyped, NoRestart
  <2>3. MarksTyped
    BY DEF Init, MarksTyped
  <2>4. FlagsTyped
    BY Zenon DEF Init, FlagsTyped
  <2> QED BY <2>1, <2>2, <2>3, <2>4, TypeParts
<1>2. TypeOK /\ [Next]_vars => TypeOK'
  <2>1. TypeOK /\ UNCHANGED vars => TypeOK'
    BY DEF TypeOK, vars, pending, watch, host
  <2> QED BY <2>1, MarkTyped, CallTyped, HostStepTyped DEF Next
<1> QED BY <1>1, <1>2, PTL DEF Spec

-----------------------------------------------------------------------------
\* What an apply or an acknowledgement of rev leaves pending is what was saved
\* after the revision it reports.
LEMMA RemainingIsRest ==
  ASSUME TypeOK, PendingIsRest, NEW rev \in 0..revision
  PROVE  Remaining(rev) = {r \in 1..revision : r > Reported(rev)}
BY DEF TypeOK, PendingIsRest, Remaining, Reported

\* Applies, failures and acknowledgements of any revisions, overlapping in any
\* way, leave exactly the changes after the reported revision pending
\* (runCapturedApply, acknowledgeExternal).
THEOREM PendingCorrect == Spec => []PendingIsRest
<1>1. Init => PendingIsRest
  BY DEF Init, PendingIsRest
<1>2. TypeOK /\ PendingIsRest /\ [Next]_vars => PendingIsRest'
  <2> SUFFICES ASSUME TypeOK, PendingIsRest, [Next]_vars PROVE PendingIsRest'
    OBVIOUS
  <2>1. CASE MarkChanged
    BY <2>1 DEF MarkChanged, PendingIsRest, TypeOK
  <2>2. CASE UNCHANGED pending
    BY <2>2 DEF pending, PendingIsRest
  <2>3. ASSUME NEW c \in Call, ApplySucceeds(c) \/ Acknowledged(c) PROVE PendingIsRest'
    <3>1. calls[c].rev \in 0..revision
      BY DEF TypeOK
    <3>2. \/ UNCHANGED pending
          \/ /\ revision' = revision /\ changes' = Remaining(calls[c].rev)
             /\ applied' = Reported(calls[c].rev)
      BY <2>3 DEF ApplySucceeds, Acknowledged
    <3> QED BY <2>2, <3>1, <3>2, RemainingIsRest DEF PendingIsRest
  <2>4. \/ MarkChanged \/ UNCHANGED pending
        \/ \E c \in Call : ApplySucceeds(c) \/ Acknowledged(c)
    <3>1. CASE HostNext
      BY <3>1 DEF HostNext, HealthRestart, RestartReads, RestartReady, RestartFails, RestartEnds, ChatChanges
    <3>2. CASE \E c \in Call : CallNext(c)
      BY <3>2 DEF CallNext, ApplyWhenIdle, ApplyForce, CountedIdle, CountedBusy, IdleTimer, Forced,
        ApplyFails, Acknowledge
    <3>3. CASE UNCHANGED vars
      BY <3>3 DEF vars
    <3> QED BY <3>1, <3>2, <3>3 DEF Next
  <2> QED BY <2>1, <2>2, <2>3, <2>4
<1> QED BY <1>1, <1>2, TypeCorrect, PTL DEF Spec

-----------------------------------------------------------------------------
\* An apply that is shown as in flight is running, whatever overlaps it
\* (runCapturedApply).
THEOREM ApplyingCorrect == Spec => []ApplyingIsRunning
<1>1. Init => ApplyingIsRunning
  BY DEF Init, ApplyingIsRunning
<1>2. TypeOK /\ ApplyingIsRunning /\ [Next]_vars => ApplyingIsRunning'
  <2> SUFFICES ASSUME TypeOK, ApplyingIsRunning, [Next]_vars PROVE ApplyingIsRunning'
    OBVIOUS
  <2> USE DEF ApplyingIsRunning, Running
  <2>1. CASE UNCHANGED <<inFlight, calls>>
    BY <2>1
  <2>2. CASE \E c \in Call : CallNext(c)
    <3>1. PICK c \in Call : CallNext(c)
      BY <2>2
    <3>2. ASSUME calls[c].pc \notin Running, inFlight' = inFlight,
                 \A d \in Call \ {c} : calls'[d] = calls[d]
          PROVE  ApplyingIsRunning'
      BY <3>2
    <3>3. ASSUME inFlight' = Landed(calls[c].rev), \A d \in Call \ {c} : calls'[d] = calls[d]
          PROVE  ApplyingIsRunning'
      BY <3>3 DEF Landed
    <3>4. ASSUME NEW rev, NEW forced \in BOOLEAN, Capture(c, rev, forced) PROVE ApplyingIsRunning'
      BY <3>4 DEF Capture, TypeOK
    <3>5. CASE ApplyWhenIdle(c) BY <3>2, <3>5 DEF ApplyWhenIdle, Idle, TypeOK
    <3>6. CASE ApplyForce(c) BY <3>4, <3>6 DEF ApplyForce
    <3>7. CASE CountedIdle(c) BY <3>2, <3>4, <3>7 DEF CountedIdle, Share, TypeOK
    <3>8. CASE CountedBusy(c) BY <3>2, <3>8 DEF CountedBusy, TypeOK
    <3>9. CASE IdleTimer(c) BY <3>2, <3>9 DEF IdleTimer, Idle, TypeOK
    <3>10. CASE Forced(c)
      <4>1. CASE inFlight' = Landed(calls[c].rev) BY <3>3, <3>10, <4>1 DEF Forced, TypeOK
      <4>2. CASE inFlight' = inFlight /\ calls' = [calls EXCEPT ![c].pc = "restarting"]
        BY <4>2 DEF TypeOK
      <4> QED BY <3>10, <4>1, <4>2 DEF Forced
    <3>11. CASE ApplySucceeds(c) BY <3>3, <3>11 DEF ApplySucceeds, TypeOK
    <3>12. CASE ApplyFails(c) BY <3>3, <3>12 DEF ApplyFails, TypeOK
    <3>13. CASE Acknowledge(c) BY <3>2, <3>13 DEF Acknowledge, Idle, TypeOK
    <3>14. CASE Acknowledged(c) BY <3>2, <3>14 DEF Acknowledged, TypeOK
    <3> QED BY <3>1, <3>5, <3>6, <3>7, <3>8, <3>9, <3>10, <3>11, <3>12, <3>13, <3>14 DEF CallNext
  <2>3. CASE RestartReady \/ RestartFails
    <3>1. PICK pc \in {"restarted", "refused"} : RestartEnds(pc)
      BY <2>3 DEF RestartReady, RestartFails
    <3>2. inFlight' = inFlight /\ \A c \in Call : calls[c].pc \in Running =>
            calls'[c].pc \in Running /\ calls'[c].rev = calls[c].rev
      BY <3>1 DEF RestartEnds, TypeOK
    <3> QED BY <3>2
  <2>4. CASE MarkChanged \/ HealthRestart \/ RestartReads \/ ChatChanges \/ UNCHANGED vars
    BY <2>1, <2>4 DEF MarkChanged, HealthRestart, RestartReads, ChatChanges, vars
  <2> QED BY <2>2, <2>3, <2>4 DEF Next, HostNext
<1> QED BY <1>1, <1>2, TypeCorrect, PTL DEF Spec
=============================================================================
