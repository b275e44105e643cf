--------------------------- MODULE BoundedReadPool ---------------------------
(***************************************************************************)
(* packages/harness-runtime/lib/bounded-read-pool.js: readers of one key   *)
(* share one run, at most Concurrency runs are under way and at most       *)
(* MaxQueued wait, and a run all of whose readers have left is aborted.    *)
(*                                                                         *)
(* One action is one synchronous stretch of the module, but pump, whose    *)
(* loop takes one action per turn: nothing else acts while it is running.  *)
(***************************************************************************)
EXTENDS Naturals, Sequences, FiniteSets

CONSTANTS Caller,       \* the calls' places: each makes one call at a time
          Key,
          Concurrency,  \* concurrency
          MaxQueued,    \* maxQueued
          MaxSubs,      \* 128 subscribers of one entry
          MaxRun        \* bound on the entries created

ASSUME PoolAssumption ==
    /\ Concurrency \in Nat \ {0} /\ MaxQueued \in Nat
    /\ MaxSubs \in Nat \ {0} /\ MaxRun \in Nat

VARIABLES
    runs,     \* every entry created: key, progress, controller.signal.aborted
    entries,  \* [Key -> the entry it is registered under, or 0]
    queue,    \* the entries that wait for a slot
    active,
    closed,
    pumping,  \* pump is on the stack
    caller,   \* [Caller -> the entry its call is waiting on, or 0]
    drained   \* the promise of drain has been fulfilled

vars == <<runs, entries, queue, active, closed, pumping, caller, drained>>

Entry == DOMAIN runs
Subscribers(i) == {c \in Caller : caller[c] = i}
Unsettled == {"queued", "running"}
Running == {i \in Entry : runs[i].pc = "running"}

Init ==
    /\ runs = <<>> /\ queue = <<>>
    /\ entries = [k \in Key |-> 0]
    /\ active = 0
    /\ closed = FALSE /\ pumping = FALSE /\ drained = FALSE
    /\ caller = [c \in Caller |-> 0]

-----------------------------------------------------------------------------
(* run(key, run, signal) *)

Full == Len(queue) >= MaxQueued /\ active >= Concurrency
On(c, i) == [caller EXCEPT ![c] = i]
Free(c) == ~pumping /\ ~closed /\ caller[c] = 0

\* A call that is refused (the pool is closed or full, the entry is aborted or
\* has all its subscribers) changes nothing.
Join(c, k) ==
    /\ Free(c)
    /\ entries[k] # 0 /\ ~runs[entries[k]].aborted
    /\ Cardinality(Subscribers(entries[k])) < MaxSubs
    /\ caller' = On(c, entries[k])
    /\ UNCHANGED <<runs, entries, queue, active, closed, pumping, drained>>

Open(c, k) ==
    LET i == Len(runs) + 1 IN
    /\ Free(c)
    /\ entries[k] = 0 /\ ~Full
    /\ Len(runs) < MaxRun
    /\ runs' = Append(runs, [key |-> k, pc |-> "queued", aborted |-> FALSE])
    /\ entries' = [entries EXCEPT ![k] = i]
    /\ queue' = Append(queue, i)
    /\ pumping' = TRUE
    /\ caller' = On(c, i)
    /\ UNCHANGED <<active, closed, drained>>

\* Fault: any subscriber that leaves aborts the run.
LeaveAborts(c) ==
    LET i == caller[c] IN
    /\ ~pumping /\ i # 0
    /\ caller' = On(c, 0)
    /\ runs' = [runs EXCEPT ![i].aborted = TRUE]
    /\ UNCHANGED <<entries, queue, active, closed, pumping, drained>>

\* The caller's signal: the last subscriber to leave aborts the run.
Leave(c) ==
    LET i == caller[c] IN
    /\ ~pumping /\ i # 0
    /\ caller' = On(c, 0)
    /\ runs' = IF Subscribers(i) = {c} THEN [runs EXCEPT ![i].aborted = TRUE] ELSE runs
    /\ UNCHANGED <<entries, queue, active, closed, pumping, drained>>

-----------------------------------------------------------------------------
(* pump *)

Turn == pumping /\ ~closed /\ active < Concurrency /\ queue # <<>>

\* Fault: an entry dropped from the queue stays registered.
DropRegistered ==
    LET i == Head(queue) IN
    /\ Turn /\ runs[i].aborted
    /\ queue' = Tail(queue)
    /\ runs' = [runs EXCEPT ![i].pc = "ended"]
    /\ UNCHANGED <<entries, active, closed, pumping, caller, drained>>

\* An entry nobody waits for any more is dropped from the queue.
PumpDrop ==
    LET i == Head(queue) IN
    /\ Turn /\ runs[i].aborted
    /\ queue' = Tail(queue)
    /\ runs' = [runs EXCEPT ![i].pc = "ended"]
    /\ entries' = [entries EXCEPT ![runs[i].key] = 0]
    /\ UNCHANGED <<active, closed, pumping, caller, drained>>

PumpStart ==
    LET i == Head(queue) IN
    /\ Turn /\ ~runs[i].aborted
    /\ queue' = Tail(queue)
    /\ runs' = [runs EXCEPT ![i].pc = "running"]
    /\ active' = active + 1
    /\ UNCHANGED <<entries, closed, pumping, caller, drained>>

PumpEnd ==
    /\ pumping /\ ~Turn
    /\ pumping' = FALSE
    /\ UNCHANGED <<runs, entries, queue, active, closed, caller, drained>>

\* Fault: a run that ends does not start the next one.
SettleQuiet(i) ==
    /\ ~pumping /\ runs[i].pc = "running"
    /\ runs' = [runs EXCEPT ![i].pc = "ended"]
    /\ entries' = [entries EXCEPT ![runs[i].key] = 0]
    /\ active' = active - 1
    /\ UNCHANGED <<queue, closed, pumping, caller, drained>>

\* A run ends, as it was asked to or not: release, then pump.
Settle(i) ==
    /\ ~pumping /\ runs[i].pc = "running"
    /\ runs' = [runs EXCEPT ![i].pc = "ended"]
    /\ entries' = [entries EXCEPT ![runs[i].key] = 0]
    /\ active' = active - 1
    /\ pumping' = TRUE
    /\ UNCHANGED <<queue, closed, caller, drained>>

\* A subscriber gets what its entry came to, a value or an error, in a later
\* turn of the event loop.
Answer(c) ==
    LET i == caller[c] IN
    /\ ~pumping /\ i # 0 /\ runs[i].pc \notin Unsettled
    /\ caller' = On(c, 0)
    /\ UNCHANGED <<runs, entries, queue, active, closed, pumping, drained>>

-----------------------------------------------------------------------------
(* drain *)

Registered(i) == entries[runs[i].key] = i
Queued(i) == \E j \in DOMAIN queue : queue[j] = i

\* Fault: drain forgets the runs under way.
DrainResets ==
    /\ ~pumping /\ ~closed
    /\ closed' = TRUE
    /\ runs' = [i \in Entry |->
                  [runs[i] EXCEPT !.aborted = @ \/ Registered(i),
                                  !.pc = IF Queued(i) THEN "ended" ELSE @]]
    /\ entries' = [k \in Key |-> 0]
    /\ queue' = <<>>
    /\ active' = 0
    /\ UNCHANGED <<pumping, caller, drained>>

\* Fault: drain aborts the queued entries and leaves them to pump.
DrainQueued ==
    /\ ~pumping /\ ~closed
    /\ closed' = TRUE
    /\ runs' = [i \in Entry |-> [runs[i] EXCEPT !.aborted = @ \/ Registered(i)]]
    /\ UNCHANGED <<entries, queue, active, pumping, caller, drained>>

Drain ==
    /\ ~pumping /\ ~closed
    /\ closed' = TRUE
    /\ runs' = [i \in Entry |->
                  [runs[i] EXCEPT !.aborted = @ \/ Registered(i),
                                  !.pc = IF Queued(i) THEN "ended" ELSE @]]
    /\ entries' = [k \in Key |-> IF entries[k] # 0 /\ Queued(entries[k]) THEN 0 ELSE entries[k]]
    /\ queue' = <<>>
    /\ UNCHANGED <<active, pumping, caller, drained>>

Drained ==
    /\ closed /\ ~drained /\ ~pumping
    /\ \A k \in Key : entries[k] = 0
    /\ drained' = TRUE
    /\ UNCHANGED <<runs, entries, queue, active, closed, pumping, caller>>

-----------------------------------------------------------------------------
Call(c) == \E k \in Key : Join(c, k) \/ Open(c, k)
Pump == PumpDrop \/ PumpStart \/ PumpEnd

Next ==
    \/ \E c \in Caller : Call(c) \/ Leave(c) \/ Answer(c)
    \/ Pump
    \/ \E i \in Entry : Settle(i)
    \/ Drain \/ Drained

Spec == Init /\ [][Next]_vars

\* The event loop runs what is queued on it, and every run ends: a read has a
\* time limit of its own.
FairSpec ==
    /\ Spec
    /\ WF_vars(Pump) /\ WF_vars(Drained)
    /\ \A c \in Caller : WF_vars(Answer(c))
    /\ \A i \in 1 .. MaxRun : WF_vars(i \in Entry /\ Settle(i))

-----------------------------------------------------------------------------
(* Properties *)

\* The shape of the pool.
TypeOK ==
    /\ runs \in Seq([key : Key, pc : {"queued", "running", "ended"}, aborted : BOOLEAN])
    /\ entries \in [Key -> {0} \cup Entry]
    /\ queue \in Seq(Entry)
    /\ active \in Nat
    /\ closed \in BOOLEAN /\ pumping \in BOOLEAN /\ drained \in BOOLEAN
    /\ caller \in [Caller -> {0} \cup Entry]

\* A key has at most one run that has not ended, it is the one new readers
\* join, and it is in the queue exactly while it has not started.
OneRun ==
    /\ \A i \in Entry : runs[i].pc \in Unsettled <=> Registered(i)
    /\ \A i \in Entry : runs[i].pc = "queued" <=> Queued(i)
    /\ \A j, l \in DOMAIN queue : queue[j] = queue[l] => j = l

\* The slots are counted rightly whatever ends, fails or is abandoned: never
\* more runs than slots, no slot idle while a run waits, and a bounded queue.
Slots ==
    /\ active = Cardinality(Running)
    /\ active <= Concurrency
    /\ ~pumping => /\ queue = <<>> \/ active = Concurrency
                   /\ Len(queue) <= MaxQueued

\* No reader that stays loses its run to those who leave.
NeverAborted ==
    ~closed => \A c \in Caller :
        caller[c] # 0 /\ runs[caller[c]].pc \in Unsettled => ~runs[caller[c]].aborted

\* Every call is answered, drain returns, and a key whose readers all left can
\* be read again.
CallsEnd ==
    /\ \A c \in Caller : (caller[c] # 0) ~> (caller[c] = 0)
    /\ closed ~> drained
    /\ \A k \in Key : (entries[k] # 0 /\ runs[entries[k]].aborted) ~> (entries[k] = 0)
=============================================================================
