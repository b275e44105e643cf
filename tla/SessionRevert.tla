---------------------------- MODULE SessionRevert ----------------------------
(***************************************************************************)
(* Revert, Redo and file restore of a conversation tree: the coordinator   *)
(* of packages/harness-runtime/lib/session-revert-coordinator.js over the  *)
(* ledger sections of session-mutations.js it calls.  A request is fenced  *)
(* and recorded by one ledger section, then carried out phase by phase     *)
(* under a lock between processes, and any process may take it up again    *)
(* after a crash.                                                          *)
(*                                                                         *)
(* One action is one locked ledger section (which is durable when it       *)
(* returns, its file writes included: they are an intent of the same       *)
(* commit that every later section finishes first) or one call to the      *)
(* conversation store.  A prompt makes one call, so a sequence number      *)
(* names the prompt, the call's lease and the operation it publishes.      *)
(***************************************************************************)
EXTENDS Naturals, Sequences, FiniteSets

CONSTANTS Root,        \* the conversation
          Children,    \* the sessions it dispatches
          Heads,       \* the sessions whose Revert, Redo or restore is asked for
          Host,        \* the processes that carry requests out, one each
          MaxSeq,      \* bound on prompts
          MaxTx,       \* bound on transactions
          MaxFaults,   \* bound on crashes and failed calls
          FileOnly     \* whether file-only restores are asked for

Session == {Root} \cup Children

ASSUME TreeAssumption == Root \notin Children /\ Heads \subseteq Session
ASSUME BoundAssumption == {MaxSeq, MaxTx, MaxFaults} \subseteq Nat /\ FileOnly \in BOOLEAN

VARIABLES
    log,      \* the ledger's prompts, leases and operations, by sequence number
    gen,      \* sessions/<id>.generation
    pending,  \* sessions/<id>.pending: the transaction that fences it, or 0
    txs,      \* transactions/<id>
    reverts,  \* last-reverts/<id>: the transactions a Redo would undo
    kept,     \* the messages the conversation store still has
    adrift,   \* observation only: messages that stay hidden after their Redo
              \* was dropped
    marker,   \* where the store hides the rest of a session, or 0
    host,     \* what each process is doing
    told,     \* the pending transactions whose caller got an error, or that a
              \* recovery which failed has left
    faults

ledger == <<log, gen, pending, txs, reverts>>
store  == <<kept, adrift, marker>>
vars   == <<log, gen, pending, txs, reverts, kept, adrift, marker, host, told, faults>>

-----------------------------------------------------------------------------
(* Selections *)

Seqs == 1 .. Len(log)
Of(s) == {n \in Seqs : log[n].session = s}
Ancestors(s) == {s, Root}

\* Where a prompt or an operation stands in the history of a head.
Place(s, n) == IF log[n].session = s THEN n ELSE log[n].origin

Tree(s) == IF s = Root THEN Session ELSE {s}
Members(s, scope) == IF scope = "session" THEN {s} ELSE Tree(s)
Selected(members, s, b) == {n \in Seqs : log[n].session \in members /\ Place(s, n) >= b}

First(S) == CHOOSE n \in S : \A m \in S : n <= m
\* The message each session is rewound to: the one asked for, and the first
\* prompt selected in every other member.
Targets(members, s, b) ==
    LET in == {m \in members : m = s \/ Selected(members, s, b) \cap Of(m) # {}}
    IN  [m \in in |-> IF m = s THEN b ELSE First(Selected(members, s, b) \cap Of(m))]

\* nativeAdmission: the session or an ancestor is being reverted.
Fenced(s) == \E a \in Ancestors(s) : pending[a] # 0

Hidden(s) == IF marker[s] = 0 THEN {} ELSE {n \in Of(s) : n >= marker[s]}
Visible(s) == (kept \cap Of(s)) \ Hidden(s)
\* What the ledger counts of the messages the store still has.
Live(s) == {n \in kept \cap Of(s) : ~log[n].reverted}

Up(h) == host[h].pc # "down"
Working(h) == host[h].pc \notin {"down", "idle", "wait"}
\* withCrossProcessFileLock on the transaction's own file.
Held(t) == \E h \in Host : Working(h) /\ host[h].tx = t
Pending == {t \in DOMAIN txs : txs[t].state = "prepared"}

Put(h, pc, t, todo, list) ==
    [host EXCEPT ![h] = [pc |-> pc, tx |-> t, todo |-> todo, list |-> list]]
At(h, pc) == Put(h, pc, host[h].tx, host[h].todo, host[h].list)
\* A call that ends: a startup recovery goes on to the rest of its list.
Done(h) == Put(h, "idle", 0, {}, host[h].list)
\* A call that throws: a startup recovery leaves the rest of its list.
Thrown(h) == Put(h, "idle", 0, {}, {})
Phase(t, phase) == [txs EXCEPT ![t].phase = phase]

-----------------------------------------------------------------------------
Init ==
    /\ log = <<>> /\ txs = <<>>
    /\ gen = [s \in Session |-> 0]
    /\ pending = [s \in Session |-> 0]
    /\ reverts = [s \in Session |-> <<>>]
    /\ kept = {} /\ adrift = {}
    /\ marker = [s \in Session |-> 0]
    /\ host = [h \in Host |-> [pc |-> "idle", tx |-> 0, todo |-> {}, list |-> {}]]
    /\ told = {}
    /\ faults = 0

-----------------------------------------------------------------------------
(* The work that Revert rewinds *)

\* The root's call a child is dispatched from: registerChild, then register.
Calls == {n \in Live(Root) : log[n].op \in {"open", "on"} /\ log[n].gen = gen[Root]}
Latest(S) == CHOOSE n \in S : \A m \in S : m <= n

\* Fault: register keeps every Redo.
NeverLost(s, a) == FALSE
\* register drops the Redo of every head whose hidden suffix the conversation
\* store is about to discard.
RedoLost(s, a) == \E i \in DOMAIN reverts[a] : s \in DOMAIN txs[reverts[a][i]].targets

\* Message n was reverted with a head whose Redo goes.
RedoDropped(s, n) == \E a \in Ancestors(s) : RedoLost(s, a) /\ log[n].session \in Tree(a)

\* A prompt is registered and its call reserved, as one section; the store
\* takes the message and discards what its marker hid.
Prompt(s) ==
    /\ \E h \in Host : Up(h)
    /\ Len(log) < MaxSeq
    /\ ~Fenced(s)
    /\ s = Root \/ Calls # {}
    /\ log' = Append(log, [session |-> s, origin |-> IF s = Root THEN 0 ELSE Latest(Calls),
                           gen |-> gen[s], op |-> "open", reverted |-> FALSE, undone |-> FALSE])
    /\ reverts' = [a \in Session |-> IF a \in Ancestors(s) /\ RedoLost(s, a) THEN <<>> ELSE reverts[a]]
    /\ kept' = (kept \ Hidden(s)) \cup {Len(log) + 1}
    /\ adrift' = adrift \cup {n \in kept \ Hidden(s) : log[n].reverted /\ RedoDropped(s, n)}
    /\ marker' = [marker EXCEPT ![s] = 0]
    /\ UNCHANGED <<gen, pending, txs, host, told, faults>>

\* finish: the call's changes are published only in the generation it was
\* reserved in, by a session that nothing fences.
MayPublish(n) == log[n].gen = gen[log[n].session] /\ ~Fenced(log[n].session)

Publish(n) ==
    /\ \E h \in Host : Up(h)
    /\ log[n].op = "open" /\ MayPublish(n)
    /\ log' = [log EXCEPT ![n].op = "on"]
    /\ UNCHANGED <<gen, pending, txs, reverts, store, host, told, faults>>

-----------------------------------------------------------------------------
(* Requests: prepareRevert, prepareRedo, prepareFileRestore *)

Join(h, t) ==
    /\ host' = Put(h, "wait", t, {}, host[h].list)
    /\ UNCHANGED <<ledger, store, told, faults>>

\* The section that fences the members and records the transaction.
Prepare(h, tx) ==
    LET t == Len(txs) + 1 IN
    /\ Len(txs) < MaxTx
    /\ \A m \in tx.members : pending[m] = 0
    /\ txs' = Append(txs, tx)
    /\ gen' = [s \in Session |-> IF s \in tx.members THEN gen[s] + 1 ELSE gen[s]]
    /\ pending' = [s \in Session |-> IF s \in tx.members THEN t ELSE pending[s]]
    /\ host' = Put(h, "wait", t, {}, host[h].list)
    /\ UNCHANGED <<log, reverts, store, told, faults>>

NewTx(s, scope, redo, b, members, targets, ops) ==
    [root |-> s, scope |-> scope, redo |-> redo, boundary |-> b, members |-> members,
     targets |-> targets, ops |-> ops, state |-> "prepared", phase |-> "prepared",
     before |-> <<>>]

\* Fault: the boundaries are not compared.
WidensAny(s, n, scope) ==
    /\ reverts[s] # <<>> /\ scope = "tree"
    /\ txs[reverts[s][Len(reverts[s])]].scope = "session"

\* A message an earlier Revert already took is not reverted again, unless a
\* Revert of this session alone is widened to its tree.
Widens(s, n, scope) ==
    /\ reverts[s] # <<>> /\ scope = "tree"
    /\ LET last == txs[reverts[s][Len(reverts[s])]]
       IN  last.boundary = n /\ last.scope = "session"

AskRevert(h, n, scope) ==
    LET s == log[n].session
        members == Members(s, scope) IN
    /\ host[h].pc = "idle" /\ s \in Heads
    /\ \/ /\ pending[s] # 0
          /\ LET tx == txs[pending[s]]
             IN  ~tx.redo /\ tx.boundary = n /\ tx.scope = scope
          /\ Join(h, pending[s])
       \/ /\ pending[s] = 0
          /\ log[n].reverted => Widens(s, n, scope)
          /\ Prepare(h, NewTx(s, scope, FALSE, n, members, Targets(members, s, n),
                              {m \in Selected(members, s, n) : log[m].op = "on"}))

AskRedo(h, s) ==
    LET ids == {reverts[s][i] : i \in DOMAIN reverts[s]}
        from(m) == {t \in ids : m \in DOMAIN txs[t].targets} IN
    /\ host[h].pc = "idle" /\ s \in Heads
    /\ \/ /\ pending[s] # 0
          /\ txs[pending[s]].redo /\ txs[pending[s]].root = s /\ txs[pending[s]].scope # "files"
          /\ Join(h, pending[s])
       \/ /\ pending[s] = 0 /\ ids # {}
          /\ Prepare(h, NewTx(s, "tree", TRUE, First({txs[t].boundary : t \in ids}),
                              UNION {txs[t].members : t \in ids},
                              [m \in {k \in Session : from(k) # {}} |->
                                  txs[Latest(from(m))].targets[m]],
                              UNION {txs[t].ops : t \in ids}))

\* One published call is undone, or an undone one put back, in the files only.
AskFiles(h, n) ==
    LET s == log[n].session IN
    /\ FileOnly /\ host[h].pc = "idle" /\ s \in Heads /\ log[n].op = "on"
    /\ Prepare(h, NewTx(s, "files", log[n].undone, 0, Tree(s), <<>>, {n}))

-----------------------------------------------------------------------------
(* resume: the phases of one transaction *)

TakenUp(phase) ==
    CASE phase = "prepared"     -> "stop"
      [] phase = "stopped"      -> "turn"
      [] phase = "conversation" -> "rewind"
      [] phase = "files"        -> "commit"
      [] phase = "restoring"    -> "restore"

\* Under the transaction's lock the record says where to go on.
Take(h) ==
    LET t == host[h].tx
        tx == txs[t] IN
    /\ host[h].pc = "wait" /\ ~Held(t)
    /\ \/ /\ tx.state # "prepared"
          /\ host' = Done(h)
          /\ UNCHANGED told
       \/ /\ tx.state = "prepared"
          /\ host' = Put(h, TakenUp(tx.phase), t, DOMAIN tx.targets, host[h].list)
          /\ told' = told \ {t}
    /\ UNCHANGED <<ledger, store, faults>>

\* The lock is not free in time: the call fails, its holder goes on.
LockTimeout(h) ==
    /\ host[h].pc = "wait" /\ Held(host[h].tx)
    /\ host' = Thrown(h)
    /\ told' = told \cup host[h].list
    /\ UNCHANGED <<ledger, store, faults>>

Open(t) == {n \in Seqs : log[n].op = "open" /\ log[n].session \in txs[t].members}
Cancelled(S) == [n \in Seqs |-> IF n \in S THEN [log[n] EXCEPT !.op = "cancelled"] ELSE log[n]]

\* Fault: the cancellation is requested and not awaited.
StopRequested(h) ==
    /\ host[h].pc = "stop"
    /\ host' = At(h, "mark")
    /\ UNCHANGED <<ledger, store, told, faults>>

\* cancelAndWait: every call of every member has ended and its lease is
\* cancelled; anything less is no receipt.
Stop(h) ==
    LET t == host[h].tx IN
    /\ host[h].pc = "stop"
    /\ log' = Cancelled(Open(t))
    /\ host' = At(h, "mark")
    /\ UNCHANGED <<gen, pending, txs, reverts, store, told, faults>>

\* The provider acknowledges only some of them: the request fails, fenced.
StopUnconfirmed(h, S) ==
    LET t == host[h].tx IN
    /\ host[h].pc = "stop" /\ faults < MaxFaults
    /\ S \subseteq Open(t)
    /\ log' = Cancelled(S)
    /\ host' = Thrown(h)
    /\ told' = told \cup {t} \cup host[h].list
    /\ faults' = faults + 1
    /\ UNCHANGED <<gen, pending, txs, reverts, store>>

\* The markers as they are now are what a failed request puts back.
Mark(h) ==
    LET t == host[h].tx IN
    /\ host[h].pc = "mark"
    /\ txs' = [txs EXCEPT ![t].phase = "stopped",
                          ![t].before = [s \in DOMAIN txs[t].targets |-> marker[s]]]
    /\ host' = At(h, "turn")
    /\ UNCHANGED <<log, gen, pending, reverts, store, told, faults>>

Turn(h) ==
    /\ host[h].pc = "turn"
    /\ txs' = Phase(host[h].tx, "conversation")
    /\ host' = At(h, "rewind")
    /\ UNCHANGED <<log, gen, pending, reverts, store, told, faults>>

\* The targets in reverse: the root of the request is the last one.
NextOf(h, s) == s \in host[h].todo /\ (s = Root => host[h].todo = {Root})
Through(h, s) == Put(h, host[h].pc, host[h].tx, host[h].todo \ {s}, host[h].list)

\* conversation.revert to the target, or unrevert.
Rewind(h, s) ==
    LET tx == txs[host[h].tx] IN
    /\ host[h].pc = "rewind" /\ NextOf(h, s)
    /\ tx.redo \/ tx.targets[s] \in kept
    /\ marker' = [marker EXCEPT ![s] = IF tx.redo THEN 0 ELSE tx.targets[s]]
    /\ host' = Through(h, s)
    /\ UNCHANGED <<ledger, kept, adrift, told, faults>>

\* The store has no such message.
Unknown(h, s) ==
    LET tx == txs[host[h].tx] IN
    /\ host[h].pc = "rewind" /\ NextOf(h, s)
    /\ ~tx.redo /\ tx.targets[s] \notin kept
    /\ host' = At(h, "giveback")
    /\ UNCHANGED <<ledger, store, told, faults>>

\* Fault: the decision is recorded after the first session.
DecideEarly(h) ==
    /\ host[h].pc = "rewind" /\ host[h].todo # DOMAIN txs[host[h].tx].targets
    /\ txs' = Phase(host[h].tx, "files")
    /\ host' = At(h, "commit")
    /\ UNCHANGED <<log, gen, pending, reverts, store, told, faults>>

\* The decision: from this record on the request is only carried forward.
Decide(h) ==
    /\ host[h].pc = "rewind" /\ host[h].todo = {}
    /\ txs' = Phase(host[h].tx, "files")
    /\ host' = At(h, "commit")
    /\ UNCHANGED <<log, gen, pending, reverts, store, told, faults>>

GiveBack(h) ==
    LET t == host[h].tx IN
    /\ host[h].pc = "giveback"
    /\ txs' = Phase(t, "restoring")
    /\ host' = Put(h, "putback", t, DOMAIN txs[t].before, host[h].list)
    /\ UNCHANGED <<log, gen, pending, reverts, store, told, faults>>

\* Fault: the marker an earlier Revert had left is not put back.
RestoreCleared(h, s) ==
    /\ host[h].pc \in {"restore", "putback"} /\ NextOf(h, s)
    /\ marker' = [marker EXCEPT ![s] = 0]
    /\ host' = Through(h, s)
    /\ UNCHANGED <<ledger, kept, adrift, told, faults>>

Restore(h, s) ==
    /\ host[h].pc \in {"restore", "putback"} /\ NextOf(h, s)
    /\ marker' = [marker EXCEPT ![s] = txs[host[h].tx].before[s]]
    /\ host' = Through(h, s)
    /\ UNCHANGED <<ledger, kept, adrift, told, faults>>

\* Fault: the members stay fenced.
SettledFenced(t, state) ==
    /\ txs' = [txs EXCEPT ![t].state = state, ![t].phase = state]
    /\ UNCHANGED pending

\* Fault: the phase of a settled transaction still asks to be carried out.
SettledInPhase(t, state) ==
    /\ txs' = [txs EXCEPT ![t].state = state]
    /\ pending' = [s \in Session |-> IF pending[s] = t THEN 0 ELSE pending[s]]

\* settleRevert: the fence is lifted with the decision.
Settled(t, state) ==
    /\ txs' = [txs EXCEPT ![t].state = state, ![t].phase = state]
    /\ pending' = [s \in Session |-> IF pending[s] = t THEN 0 ELSE pending[s]]

\* Before the decision: nothing of the files has changed.  Whoever finds the
\* request already failing is answered revert_cancelled, which a startup
\* recovery takes as done.
Abandon(h) ==
    /\ \/ host[h].pc = "abandon"
       \/ host[h].pc \in {"restore", "putback"} /\ host[h].todo = {}
    /\ Settled(host[h].tx, "cancelled")
    /\ IF host[h].pc = "restore"
       THEN host' = Done(h) /\ UNCHANGED told
       ELSE host' = Thrown(h) /\ told' = told \cup host[h].list
    /\ UNCHANGED <<log, gen, reverts, store, faults>>

\* After it: the selected operations and prompts change sides.
Projected(tx) ==
    LET chat == tx.scope # "files" IN
    [n \in Seqs |->
        [log[n] EXCEPT
            !.op = IF chat /\ n \in tx.ops THEN IF tx.redo THEN "on" ELSE "off" ELSE @,
            !.undone = IF ~chat /\ n \in tx.ops THEN ~tx.redo ELSE @,
            !.reverted = IF chat /\ n \in Selected(tx.members, tx.root, tx.boundary)
                         THEN ~tx.redo ELSE @]]

Commit(h) ==
    LET t == host[h].tx
        tx == txs[t] IN
    /\ host[h].pc = "commit"
    /\ log' = Projected(tx)
    /\ Settled(t, "committed")
    /\ reverts' = IF tx.scope = "files" THEN reverts
                  ELSE [reverts EXCEPT ![tx.root] = IF tx.redo THEN <<>> ELSE Append(@, t)]
    /\ host' = Done(h)
    /\ UNCHANGED <<gen, store, told, faults>>

-----------------------------------------------------------------------------
(* Failures *)

\* A failed step that makes the call change course.
Turns(h, pc) ==
    /\ faults < MaxFaults
    /\ faults' = faults + 1
    /\ host' = At(h, pc)
    /\ UNCHANGED <<ledger, store, told>>

\* A session cannot be read, or its markers cannot be recorded.
MarkFails(h) == host[h].pc = "mark" /\ Turns(h, "abandon")
\* A call to the store fails, with or without effect, or the decision cannot
\* be recorded.
RewindFails(h) == host[h].pc = "rewind" /\ Turns(h, "giveback")
\* Fault: any failed commit gives the request up.
RefuseAny(h) == host[h].pc = "commit" /\ Turns(h, "abandon")
\* The files are no longer those the restore was reviewed on.
Refuse(h) == host[h].pc = "commit" /\ txs[host[h].tx].scope = "files" /\ Turns(h, "abandon")

\* A failed step that ends the call and leaves the transaction where it is.
Drop(h) ==
    /\ host[h].pc \in {"turn", "giveback", "restore", "putback", "abandon", "commit"}
    /\ faults < MaxFaults
    /\ faults' = faults + 1
    /\ host' = Thrown(h)
    /\ told' = told \cup {host[h].tx} \cup host[h].list
    /\ UNCHANGED <<ledger, store>>

Crash(h) ==
    /\ Up(h) /\ faults < MaxFaults
    /\ faults' = faults + 1
    /\ host' = Put(h, "down", 0, {}, {})
    /\ UNCHANGED <<ledger, store, told>>

\* Fault: a restarted host leaves pending transactions to their callers.
StartIdle(h) ==
    /\ host[h].pc = "down"
    /\ host' = Put(h, "idle", 0, {}, {})
    /\ UNCHANGED <<ledger, store, told, faults>>

\* recover: the pending transactions are taken up one after the other.
Start(h) ==
    /\ host[h].pc = "down"
    /\ host' = Put(h, "idle", 0, {}, Pending)
    /\ UNCHANGED <<ledger, store, told, faults>>

Resume(h, t) ==
    /\ host[h].pc = "idle" /\ t \in host[h].list
    /\ host' = Put(h, "wait", t, {}, host[h].list \ {t})
    /\ UNCHANGED <<ledger, store, told, faults>>

\* Before any host of the store runs, a cold start cancels the leases left
\* open and the fences that have recorded no marker.
ColdCancel(t) ==
    /\ \A h \in Host : ~Up(h)
    /\ t \in Pending /\ txs[t].phase = "prepared" /\ txs[t].scope # "files"
    /\ log' = Cancelled({n \in Seqs : log[n].op = "open"})
    /\ Settled(t, "cancelled")
    /\ UNCHANGED <<gen, reverts, store, host, told, faults>>

-----------------------------------------------------------------------------
Work == \/ \E s \in Session : Prompt(s)
        \/ \E n \in Seqs : Publish(n)

Ask(h) == /\ host[h].list = {}
          /\ \/ \E n \in Seqs, scope \in {"tree", "session"} : AskRevert(h, n, scope)
             \/ \E s \in Heads : AskRedo(h, s)
             \/ \E n \in Seqs : AskFiles(h, n)

\* What a running call does by itself.
Step(h) ==
    \/ Take(h) \/ LockTimeout(h)
    \/ Stop(h) \/ Mark(h) \/ Turn(h) \/ Decide(h) \/ GiveBack(h) \/ Abandon(h) \/ Commit(h)
    \/ \E s \in Session : Rewind(h, s) \/ Unknown(h, s) \/ Restore(h, s)
    \/ \E t \in DOMAIN txs : Resume(h, t)

Fail(h) ==
    \/ \E S \in SUBSET Seqs : StopUnconfirmed(h, S)
    \/ MarkFails(h) \/ RewindFails(h) \/ Refuse(h) \/ Drop(h) \/ Crash(h)

Next ==
    \/ Work
    \/ \E h \in Host : Ask(h) \/ Step(h) \/ Fail(h) \/ Start(h)
    \/ \E t \in DOMAIN txs : ColdCancel(t)

Spec == Init /\ [][Next]_vars

\* A host that was restarted recovers, and a call that can go on does.
FairSpec == Spec /\ \A h \in Host : WF_vars(Step(h)) /\ WF_vars(Start(h))

-----------------------------------------------------------------------------
(* Properties *)

\* The shape of the ledger, the store and the hosts.
TypeOK ==
    /\ \A n \in Seqs : log[n] \in
          [session : Session, origin : 0 .. MaxSeq, gen : 0 .. MaxTx,
           op : {"open", "cancelled", "on", "off"}, reverted : BOOLEAN, undone : BOOLEAN]
    /\ gen \in [Session -> 0 .. MaxTx]
    /\ pending \in [Session -> 0 .. Len(txs)]
    /\ kept \subseteq Seqs /\ adrift \subseteq Seqs
    /\ marker \in [Session -> 0 .. MaxSeq]
    /\ \A t \in DOMAIN txs :
          /\ txs[t].phase \in IF txs[t].state = "prepared"
                              THEN {"prepared", "stopped", "conversation", "files", "restoring"}
                              ELSE {txs[t].state}
          /\ txs[t].state \in {"prepared", "committed", "cancelled"}
    /\ told \subseteq DOMAIN txs

FilesAgree(s, S) == \A n \in Of(s) \cap S : /\ log[n].op = "on"  => n \in Visible(s)
                                            /\ log[n].op = "off" => n \notin Visible(s)

\* A conversation that nothing reverts shows exactly the messages the ledger
\* counts, and has exactly their file contributions: no phase, failure or
\* crash leaves a message without its files or files without their message.
\* Messages adrift are left out: what a later Redo makes of them is
\* FilesFollowChat.
Whole ==
    \A s \in Session : pending[s] = 0 =>
        Visible(s) \ adrift = Live(s) \ adrift /\ FilesAgree(s, Seqs \ adrift)

\* The half of Whole a user meets in the files, for every message
\* (docs/CONCURRENT_REVERT.md:3).
FilesFollowChat == \A s \in Session : pending[s] = 0 => FilesAgree(s, Seqs)

\* When history is being rewritten, no call of a session it belongs to is
\* still running.
Quiet ==
    \A t \in Pending : txs[t].phase # "prepared" => Open(t) = {}

\* One transaction fences a session, and every fence has its transaction: no
\* crash leaves a conversation locked with nothing to settle it.
FencesOwned ==
    /\ \A s \in Session : pending[s] # 0 => txs[pending[s]].state = "prepared"
                                            /\ s \in txs[pending[s]].members
    /\ \A t \in Pending : \A s \in txs[t].members : pending[s] = t

\* The decision is final: a request whose markers were given up is cancelled,
\* and one recorded as decided is committed, whoever carries it on.  Only a
\* file restore may still be refused.
Final ==
    [][\A t \in Pending :
          /\ txs[t].phase = "files" /\ txs[t].scope # "files"
                => /\ txs'[t].phase \in {"files", "committed"}
                   /\ \A s \in txs[t].members : marker'[s] = marker[s]
          /\ txs[t].phase = "restoring" => txs'[t].phase \in {"restoring", "cancelled"}]_vars

Atomic == INSTANCE AtomicRevert WITH
    Message <- 1 .. MaxSeq,
    shown  <- [s \in Session |-> (IF pending[s] = 0 THEN Visible(s) ELSE Live(s)) \ adrift],
    fenced <- {s \in Session : pending[s] # 0}

\* The phases together are one step: messages and files of all the sessions
\* of a request go, or come back, at its settlement.
Atomically == Atomic!Spec

\* Every request is settled, or its caller is told that it is not, or a
\* recovery has reported that it left it (recover, 208).
Settles ==
    \A t \in 1 .. MaxTx :
        (t \in DOMAIN txs) ~> (t \in DOMAIN txs /\ (txs[t].state # "prepared" \/ t \in told))
=============================================================================
