----------------------------- MODULE ConfigApply -----------------------------
(***************************************************************************)
(* The configuration apply coordinator (shared-runtime,                    *)
(* config-apply-coordinator.js) and the restart of the OpenCode runtime it *)
(* shares with the health monitor (web/server, opencode/lifecycle.js).     *)
(*                                                                         *)
(* Saved configuration is counted by revisions.  Callers ask for a         *)
(* revision to be applied at once, when no chat is active, or by force; an *)
(* apply is a restart of the runtime, which reads the configuration files  *)
(* once on its way.  Every await is a point where anything else may        *)
(* happen.                                                                 *)
(*                                                                         *)
(* A definition whose comment says "Fault" is not the code's, as in        *)
(* ManagedScheduler.                                                       *)
(***************************************************************************)
EXTENDS Naturals

CONSTANTS
  Call,        \* promises in flight: applies, idle checks, acknowledgements
  MaxRevision  \* bound: configuration changes

ASSUME RevisionAssumption == MaxRevision \in Nat

VARIABLES
  mode,      \* runtimeMode: managed, or external (fixed at start-up)
  revision,  \* the last saved change
  applied,   \* appliedRevision
  changes,   \* revisions recorded as pending
  waiting,   \* waitingRevision: 0 for null
  timer,     \* the revision the armed idle timer was set for, 0 for none
  inFlight,  \* the revision of inFlight, 0 for null
  failed,    \* lastError is set
  calls,     \* promises in flight
  restart,   \* currentRestartPromise, and the configuration it has read
  runtime,   \* the OpenCode process, and the configuration it has
  busy       \* some chat is active in the host's activity snapshot

pending == <<revision, applied, changes>>
watch   == <<waiting, timer>>
host    == <<restart, runtime>>
vars    == <<mode, pending, watch, inFlight, failed, calls, host, busy>>

-----------------------------------------------------------------------------
NoCall == [pc |-> "idle", rev |-> 0]
NoRestart == [phase |-> "none", read |-> 0]

Managed == mode = "managed"
Idle(c) == calls[c].pc = "idle"

\* Fault: an apply ends without leaving inFlight.
KeepsInFlight(rev) == inFlight
\* inFlight once an apply of rev has ended.
Landed(rev) == IF inFlight = rev THEN 0 ELSE inFlight

\* Fault: an apply drops what was saved while it ran.
DropsAll(rev) == {}
\* The changes an apply of rev leaves pending.
Remaining(rev) == {r \in changes : r > rev}

\* Fault: the revision after the applied one is reported.
ReportsNext(rev) == rev + 1
\* appliedRevision once rev is applied.
Reported(rev) == IF rev > applied THEN rev ELSE applied

\* Fault: an idle check that must wait is not repeated.
WatchedOnce(waits, rev) == timer
\* scheduleIdleCheck: one timer at a time, for the revision that waits.
Watched(waits, rev) == IF timer = 0 /\ waits = rev THEN rev ELSE timer

-----------------------------------------------------------------------------
(* Saved changes *)

\* markChanged: a wait for an earlier revision is cancelled.
MarkChanged ==
  /\ revision < MaxRevision
  /\ revision' = revision + 1
  /\ changes' = changes \cup {revision + 1}
  /\ failed' = FALSE
  /\ IF waiting # 0 THEN waiting' = 0 /\ timer' = 0 ELSE UNCHANGED watch
  /\ UNCHANGED <<mode, applied, inFlight, calls, host, busy>>

-----------------------------------------------------------------------------
(* Applying *)

\* restartOpenCode: a restart in progress is joined, whatever it has read.
JoinRestart ==
  /\ restart' = IF restart.phase = "none" THEN [NoRestart EXCEPT !.phase = "closing"] ELSE restart
  /\ UNCHANGED runtime

\* runCapturedApply on behalf of call c.
Capture(c, rev, forced) ==
  /\ waiting' = 0 /\ timer' = 0
  /\ failed' = FALSE
  /\ inFlight' = rev
  /\ calls' = [calls EXCEPT ![c] = [pc |-> IF forced THEN "forcing" ELSE "restarting", rev |-> rev]]
  /\ IF forced THEN UNCHANGED host ELSE JoinRestart

\* An apply of the same revision in flight is shared.
Share(c) == /\ calls' = [calls EXCEPT ![c] = NoCall]
            /\ UNCHANGED <<watch, failed, inFlight, host>>

\* apply checks the revision, that something is pending and that the runtime
\* is its own.
MayApply == Managed /\ changes # {} /\ inFlight # revision

\* "when-idle": active chats make it wait, otherwise the authoritative count
\* is asked for.
ApplyWhenIdle(c) ==
  /\ Idle(c) /\ MayApply
  /\ IF busy
     THEN /\ waiting' = revision
          /\ timer' = Watched(revision, revision)
          /\ UNCHANGED calls
     ELSE /\ calls' = [calls EXCEPT ![c] = [pc |-> "counting", rev |-> revision]]
          /\ UNCHANGED watch
  /\ UNCHANGED <<mode, pending, inFlight, failed, host, busy>>

ApplyForce(c) ==
  /\ Idle(c) /\ MayApply
  /\ Capture(c, revision, TRUE)
  /\ UNCHANGED <<mode, pending, busy>>

\* The authoritative count is zero, and so is the host's own.
CountedIdle(c) ==
  /\ calls[c].pc \in {"counting", "checking"} /\ ~busy
  /\ IF inFlight = calls[c].rev THEN Share(c) ELSE Capture(c, calls[c].rev, FALSE)
  /\ UNCHANGED <<mode, pending, busy>>

\* It is positive or unavailable: the call of apply waits for its revision,
\* the idle check is repeated while its revision waits.
CountedBusy(c) ==
  /\ calls[c].pc \in {"counting", "checking"}
  /\ waiting' = IF calls[c].pc = "counting" THEN calls[c].rev ELSE waiting
  /\ timer' = Watched(waiting', calls[c].rev)
  /\ calls' = [calls EXCEPT ![c] = NoCall]
  /\ UNCHANGED <<mode, pending, inFlight, failed, host, busy>>

\* The idle timer fires: it gives up when its revision no longer waits, is
\* repeated while a chat or an apply is active, and asks for the count
\* otherwise.
IdleTimer(c) ==
  /\ timer # 0 /\ Idle(c)
  /\ IF waiting # timer \/ revision # timer \/ changes = {}
     THEN timer' = 0 /\ UNCHANGED calls
     ELSE IF busy \/ inFlight # 0
     THEN UNCHANGED <<timer, calls>>
     ELSE timer' = 0 /\ calls' = [calls EXCEPT ![c] = [pc |-> "checking", rev |-> timer]]
  /\ UNCHANGED <<mode, pending, waiting, inFlight, failed, host, busy>>

\* A forced apply has counted, audited, asked the chats to abort and waited
\* for them, or could not count, or could not audit or abort.
Forced(c) ==
  /\ calls[c].pc = "forcing"
  /\ \/ /\ calls' = [calls EXCEPT ![c].pc = "restarting"]
        /\ JoinRestart
        /\ UNCHANGED <<failed, inFlight>>
     \/ /\ calls' = [calls EXCEPT ![c] = NoCall]
        /\ inFlight' = Landed(calls[c].rev)
        /\ failed' \in {failed, TRUE}
        /\ UNCHANGED host
  /\ UNCHANGED <<mode, pending, watch, busy>>

\* applyChanges resolves: the captured changes are applied.
ApplySucceeds(c) ==
  /\ calls[c].pc = "restarted"
  /\ changes' = Remaining(calls[c].rev)
  /\ applied' = Reported(calls[c].rev)
  /\ failed' = FALSE
  /\ inFlight' = Landed(calls[c].rev)
  /\ calls' = [calls EXCEPT ![c] = NoCall]
  /\ UNCHANGED <<mode, revision, watch, host, busy>>

\* The restart failed, or the restarted runtime is not ready.
ApplyFails(c) ==
  /\ calls[c].pc \in {"restarted", "refused"}
  /\ failed' = TRUE
  /\ inFlight' = Landed(calls[c].rev)
  /\ calls' = [calls EXCEPT ![c] = NoCall]
  /\ UNCHANGED <<mode, pending, watch, host, busy>>

-----------------------------------------------------------------------------
(* An external runtime: the user has restarted it and says so. *)

Acknowledge(c) ==
  /\ Idle(c) /\ ~Managed
  /\ calls' = [calls EXCEPT ![c] = [pc |-> "refreshing", rev |-> revision]]
  /\ UNCHANGED <<mode, pending, watch, inFlight, failed, host, busy>>

Acknowledged(c) ==
  /\ calls[c].pc = "refreshing"
  /\ calls' = [calls EXCEPT ![c] = NoCall]
  /\ \/ /\ changes' = Remaining(calls[c].rev)
        /\ applied' = Reported(calls[c].rev)
        /\ failed' = FALSE /\ waiting' = 0 /\ timer' = 0
        /\ UNCHANGED revision
     \/ UNCHANGED <<pending, watch, failed>>
  /\ UNCHANGED <<mode, inFlight, host, busy>>

-----------------------------------------------------------------------------
(* The runtime *)

\* The health monitor restarts a runtime that has exited or does not answer.
HealthRestart ==
  /\ Managed /\ restart.phase = "none"
  /\ restart' = [NoRestart EXCEPT !.phase = "closing"]
  /\ UNCHANGED <<mode, pending, watch, inFlight, failed, calls, runtime, busy>>

\* The old process is gone; the new one is configured from the files as they
\* are now.
RestartReads ==
  /\ restart.phase = "closing"
  /\ restart' = [phase |-> "starting", read |-> revision]
  /\ runtime' = [runtime EXCEPT !.up = FALSE]
  /\ UNCHANGED <<mode, pending, watch, inFlight, failed, calls, busy>>

\* Everybody who awaits the restart learns its outcome.
RestartEnds(pc) ==
  /\ restart' = NoRestart
  /\ calls' = [c \in Call |-> IF calls[c].pc = "restarting" THEN [calls[c] EXCEPT !.pc = pc] ELSE calls[c]]
  /\ UNCHANGED <<mode, pending, watch, inFlight, failed, busy>>

RestartReady ==
  /\ restart.phase = "starting"
  /\ runtime' = [up |-> TRUE, loaded |-> restart.read]
  /\ RestartEnds("restarted")

RestartFails ==
  /\ restart.phase # "none"
  /\ runtime' = [runtime EXCEPT !.up = FALSE]
  /\ RestartEnds("refused")

ChatChanges ==
  /\ busy' = ~busy
  /\ UNCHANGED <<mode, pending, watch, inFlight, failed, calls, host>>

-----------------------------------------------------------------------------
Init ==
  /\ mode \in {"managed", "external"}
  /\ revision = 0 /\ applied = 0 /\ changes = {}
  /\ waiting = 0 /\ timer = 0 /\ inFlight = 0 /\ failed = FALSE
  /\ calls = [c \in Call |-> NoCall]
  /\ restart = NoRestart /\ runtime = [up |-> TRUE, loaded |-> 0]
  /\ busy = FALSE

CallNext(c) ==
  \/ ApplyWhenIdle(c) \/ ApplyForce(c) \/ CountedIdle(c) \/ CountedBusy(c) \/ IdleTimer(c)
  \/ Forced(c) \/ ApplySucceeds(c) \/ ApplyFails(c) \/ Acknowledge(c) \/ Acknowledged(c)

HostNext == HealthRestart \/ RestartReads \/ RestartReady \/ RestartFails \/ ChatChanges

Next == MarkChanged \/ HostNext \/ \E c \in Call : CallNext(c)

Spec == Init /\ [][Next]_vars

\* Timers fire, counts, aborts and restarts answer (each has a timeout), and
\* when the chats stay idle a count that is asked for again and again is zero
\* at some time.
Answers(c) == Forced(c) \/ ApplySucceeds(c) \/ ApplyFails(c) \/ CountedIdle(c) \/ CountedBusy(c)
Fairness ==
  /\ WF_vars(\E c \in Call : IdleTimer(c))
  /\ WF_vars(RestartReads) /\ WF_vars(RestartReady \/ RestartFails)
  /\ \A c \in Call : WF_vars(Answers(c)) /\ SF_vars(CountedIdle(c))

FairSpec == Spec /\ Fairness

-----------------------------------------------------------------------------
(* Properties *)

CallPc == {"idle", "counting", "checking", "forcing", "restarting", "restarted", "refused", "refreshing"}
Running == {"forcing", "restarting", "restarted", "refused"}

\* Every variable has its type, and no revision is ahead of the last saved.
TypeOK ==
  /\ mode \in {"managed", "external"}
  /\ revision \in Nat /\ applied \in 0..revision /\ changes \subseteq 1..revision
  /\ waiting \in 0..revision /\ timer \in 0..revision /\ inFlight \in 0..revision
  /\ failed \in BOOLEAN /\ busy \in BOOLEAN
  /\ calls \in [Call -> [pc : CallPc, rev : 0..revision]]
  /\ restart \in [phase : {"none", "closing", "starting"}, read : 0..revision]
  /\ runtime \in [up : BOOLEAN, loaded : 0..revision]

\* The changes that are pending are those saved after the last one reported
\* as applied, however applies of different revisions, failures and
\* acknowledgements overlap ("Concurrent mutations are retained").
PendingIsRest == changes = {r \in 1..revision : r > applied}

\* While a revision is shown as being applied, an apply of it is running:
\* nothing waits for an apply that has ended (runCapturedApply).
ApplyingIsRunning ==
  inFlight # 0 => \E c \in Call : calls[c].pc \in Running /\ calls[c].rev = inFlight

\* A revision that waits for idle chats does not wait for ever once they stay
\* idle, unless an earlier call has put its own revision in its place
\* (scheduleIdleCheck).
WaitEnds ==
  <>[]~busy /\ [](waiting \in {0, revision}) =>
     \A r \in 1..MaxRevision : (waiting = r /\ changes # {}) ~> (waiting # r \/ changes = {})

-----------------------------------------------------------------------------
(* What the documentation says and the code does not do *)

\* "OpenCode will restart after active chats finish": a pending change that is
\* shown as waiting has an idle check ahead of it.
WaitingIsWatched ==
  waiting # 0 /\ changes # {} /\ inFlight = 0 =>
    timer # 0 \/ \E c \in Call : calls[c].pc = "checking" /\ calls[c].rev = waiting

\* "Concurrent mutations are retained for a later revision": a change is only
\* reported as applied to a runtime that has read it.
AppliedIsLoaded == Managed /\ runtime.up => applied <= runtime.loaded
=============================================================================
