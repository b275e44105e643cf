------------------------- MODULE SessionRevertProofs -------------------------
(***************************************************************************)
(* What the fences and the phases of a revert guarantee, for every tree of *)
(* sessions, any number of hosts and any number of requests and failures.  *)
(***************************************************************************)
EXTENDS SessionRevert, WellFoundedInduction, TLAPS

-----------------------------------------------------------------------------
(* The inductive invariant *)

LogRec == [session : Session, origin : 0 .. MaxSeq, gen : 0 .. MaxTx,
           op : {"open", "cancelled", "on", "off"}, reverted : BOOLEAN, undone : BOOLEAN]

LogTyped == log \in Seq(LogRec) /\ Len(log) <= MaxSeq

TxFields == {"root", "scope", "redo", "boundary", "members", "targets", "ops",
             "state", "phase", "before"}
Advanced == {"stopped", "conversation", "files", "restoring"}

\* A transaction rewinds members only, and remembers their markers once its
\* writers have stopped.
TxOK(tx) ==
    /\ DOMAIN tx = TxFields
    /\ tx.members \subseteq Session
    /\ DOMAIN tx.targets \subseteq tx.members
    /\ tx.state \in {"prepared", "committed", "cancelled"}
    /\ tx.phase \in IF tx.state = "prepared" THEN {"prepared"} \cup Advanced ELSE {tx.state}
    /\ tx.phase \in Advanced => tx.before \in [DOMAIN tx.targets -> 0 .. MaxSeq]

TxsTyped ==
    /\ Len(txs) \in 0 .. MaxTx
    /\ txs = [t \in 1 .. Len(txs) |-> txs[t]]
    /\ \A t \in 1 .. Len(txs) : TxOK(txs[t])

LedgerTyped ==
    /\ gen \in [Session -> 0 .. Len(txs)]
    /\ pending \in [Session -> 0 .. Len(txs)]
    /\ reverts \in [Session -> Seq(1 .. Len(txs))]

StoreTyped ==
    /\ kept \subseteq 1 .. Len(log) /\ adrift \subseteq 1 .. Len(log)
    /\ marker \in [Session -> 0 .. MaxSeq]

PC == {"down", "idle", "wait", "stop", "mark", "turn", "rewind", "giveback",
       "restore", "putback", "abandon", "commit"}

HostRec(n) == [pc : PC, tx : 0 .. n, todo : SUBSET Session, list : SUBSET (1 .. n)]

HostTyped ==
    /\ host \in [Host -> HostRec(Len(txs))]
    /\ \A h \in Host : host[h].pc \notin {"down", "idle"} => host[h].tx # 0
    /\ told \subseteq 1 .. Len(txs)

\* A host that carries a transaction is where its phase says.
Fits(pc, tx) ==
    /\ pc \in {"stop", "mark"} => tx.phase = "prepared"
    /\ pc = "turn" => tx.phase = "stopped"
    /\ pc \in {"rewind", "giveback"} => tx.phase = "conversation"
    /\ pc \in {"restore", "putback"} => tx.phase = "restoring"
    /\ pc = "commit" => tx.phase = "files"
    /\ pc = "abandon" => tx.phase = "prepared" \/ (tx.phase = "files" /\ tx.scope = "files")

InPhase ==
    \A h \in Host : Working(h) =>
        /\ txs[host[h].tx].state = "prepared"
        /\ Fits(host[h].pc, txs[host[h].tx])
        /\ host[h].todo \subseteq DOMAIN txs[host[h].tx].targets

\* The lock on a transaction has one holder.
OneHolder ==
    \A g, h \in Host : Working(g) /\ Working(h) /\ host[g].tx = host[h].tx => g = h

\* A transaction whose writers were seen to stop has none again.
StillQuiet ==
    \A h \in Host : host[h].pc = "mark" => Open(host[h].tx) = {}

Typed == LogTyped /\ TxsTyped /\ LedgerTyped /\ StoreTyped /\ HostTyped
IInv == Typed /\ FencesOwned /\ InPhase /\ OneHolder /\ Quiet /\ StillQuiet

-----------------------------------------------------------------------------
(* Sequences *)

LEMMA ElementTyped ==
    ASSUME NEW S, NEW s \in Seq(S), NEW i \in DOMAIN s
    PROVE  s[i] \in S
OBVIOUS

LEMMA Appended ==
    ASSUME NEW S, NEW s \in Seq(S), NEW x \in S
    PROVE  /\ Append(s, x) \in Seq(S)
           /\ Len(Append(s, x)) = Len(s) + 1
           /\ Append(s, x)[Len(s) + 1] = x
           /\ \A j \in 1 .. Len(s) : Append(s, x)[j] = s[j]
OBVIOUS

LEMMA Widened ==
    ASSUME NEW S, NEW T, S \subseteq T, NEW s \in Seq(S)
    PROVE  s \in Seq(T)
OBVIOUS

LEMMA FunctionIsSequence ==
    ASSUME NEW S, NEW n \in Nat, NEW f, f = [i \in 1 .. n |-> f[i]], \A i \in 1 .. n : f[i] \in S
    PROVE  f \in Seq(S) /\ Len(f) = n /\ DOMAIN f = 1 .. n
OBVIOUS

\* A set of numbers with an upper bound has a greatest one.
LEMMA GreatestExists ==
    ASSUME NEW N \in Nat, NEW S \in SUBSET (0 .. N), S # {}
    PROVE  \E n \in S : \A m \in S : m <= n
<1> DEFINE R == OpToRel(<, Nat)
           T == {N - n : n \in S}
<1>1. IsWellFoundedOn(R, Nat)
    BY NatLessThanWellFounded
<1>3. \A x, y \in Nat : <<y, x>> \in R <=> y < x
    BY DEF OpToRel
<1> HIDE DEF R
<1>2. T \subseteq Nat /\ T # {}
  <2>1. ASSUME NEW n \in S PROVE N - n \in Nat
      <3>1. n \in 0 .. N
          OBVIOUS
      <3> QED BY <3>1
  <2>2. PICK n : n \in S
      OBVIOUS
  <2>3. N - n \in T
      BY <2>2
  <2> QED BY <2>1, <2>3
<1>4. PICK x \in T : \A y \in T : ~(<<y, x>> \in R)
    BY <1>1, <1>2, WFMin
<1>5. PICK n \in S : x = N - n
    BY <1>4
<1>6. \A m \in S : ~(N - m < N - n)
    BY <1>2, <1>3, <1>4, <1>5
<1> QED BY <1>6

\* The transactions, numbered from 1.
LEMMA TxNumbers ==
    ASSUME TxsTyped
    PROVE  /\ DOMAIN txs = 1 .. Len(txs) /\ Len(txs) \in Nat /\ MaxTx \in Nat
           /\ Pending = {t \in 1 .. Len(txs) : txs[t].state = "prepared"}
           /\ \A t \in DOMAIN txs : TxOK(txs[t])
<1>1. MaxTx \in Nat
    BY BoundAssumption
<1>2. DOMAIN txs = 1 .. Len(txs) /\ Len(txs) \in Nat
    BY <1>1 DEF TxsTyped
<1>3. Pending = {t \in 1 .. Len(txs) : txs[t].state = "prepared"}
    BY <1>2 DEF Pending
<1> QED BY <1>1, <1>2, <1>3 DEF TxsTyped

LEMMA TypeFromParts == IInv => TypeOK
<1> SUFFICES ASSUME IInv PROVE TypeOK
    OBVIOUS
<1>1. /\ MaxTx \in Nat /\ MaxSeq \in Nat
      /\ DOMAIN txs = 1 .. Len(txs) /\ Len(txs) \in 0 .. MaxTx
      /\ \A t \in DOMAIN txs : TxOK(txs[t])
    BY BoundAssumption, TxNumbers DEF IInv, Typed, TxsTyped
<1>2. \A n \in Seqs : log[n] \in LogRec
    BY ElementTyped DEF IInv, Typed, LogTyped, Seqs
<1>3. gen \in [Session -> 0 .. MaxTx] /\ pending \in [Session -> 0 .. Len(txs)]
    BY <1>1 DEF IInv, Typed, LedgerTyped
<1>4. kept \subseteq Seqs /\ adrift \subseteq Seqs /\ marker \in [Session -> 0 .. MaxSeq] /\ told \subseteq DOMAIN txs
    BY <1>1 DEF IInv, Typed, StoreTyped, HostTyped, Seqs
<1>5. \A t \in DOMAIN txs :
          /\ txs[t].phase \in IF txs[t].state = "prepared"
                              THEN {"prepared", "stopped", "conversation", "files", "restoring"}
                              ELSE {txs[t].state}
          /\ txs[t].state \in {"prepared", "committed", "cancelled"}
    BY <1>1 DEF TxOK, Advanced
<1> QED BY <1>2, <1>3, <1>4, <1>5, Zenon DEF TypeOK, LogRec

\* Nothing has been asked for yet.
LEMMA InitInv == Init => IInv
<1> SUFFICES ASSUME Init PROVE IInv
    OBVIOUS
<1>1. log = <<>> /\ txs = <<>> /\ Len(log) = 0 /\ Len(txs) = 0 /\ DOMAIN txs = {}
    BY DEF Init
<1>2. MaxTx \in Nat /\ MaxSeq \in Nat
    BY BoundAssumption
<1>3. LogTyped
    BY <1>1, <1>2 DEF LogTyped
<1>4. TxsTyped
    BY <1>1, <1>2 DEF TxsTyped
<1>5. LedgerTyped
    BY <1>1 DEF Init, LedgerTyped
<1>6. StoreTyped
    BY <1>1, <1>2 DEF Init, StoreTyped
<1>7. HostTyped
    BY <1>1 DEF Init, HostTyped, HostRec, PC
<1>8. \A h \in Host : host[h].pc = "idle"
    BY DEF Init
<1>9. FencesOwned /\ Quiet
    BY <1>1 DEF Init, FencesOwned, Quiet, Pending
<1>10. InPhase /\ OneHolder /\ StillQuiet
    BY <1>8 DEF InPhase, OneHolder, StillQuiet, Working
<1> QED BY <1>3, <1>4, <1>5, <1>6, <1>7, <1>9, <1>10 DEF IInv, Typed

-----------------------------------------------------------------------------
(* Steps of one host *)

LEMMA HostChange ==
    ASSUME NEW n, host \in [Host -> HostRec(n)], NEW h \in Host, NEW r \in HostRec(n),
           host' = [host EXCEPT ![h] = r]
    PROVE  /\ host' \in [Host -> HostRec(n)]
           /\ host'[h] = r
           /\ \A g \in Host : g # h => host'[g] = host[g]
OBVIOUS

\* What a host may hold after a step of its own.
MayHold(h, r) ==
    /\ r.pc \notin {"down", "idle"} => r.tx # 0
    /\ r.pc \notin {"down", "idle", "wait"} =>
          /\ txs[r.tx].state = "prepared"
          /\ r.todo \subseteq DOMAIN txs[r.tx].targets
          /\ (Working(h) /\ host[h].tx = r.tx) \/ ~Held(r.tx)

\* No call is opened, and none changes session.
NoneOpened ==
    \A n \in 1 .. Len(log') : log'[n].op = "open" =>
        n \in 1 .. Len(log) /\ log[n].op = "open" /\ log[n].session = log'[n].session

\* The transactions are the same but for the phase of one.
SameTxs ==
    /\ Len(txs') = Len(txs)
    /\ \A u \in 1 .. Len(txs) :
          /\ txs'[u].members = txs[u].members /\ txs'[u].targets = txs[u].targets
          /\ txs'[u].state = txs[u].state /\ txs'[u].scope = txs[u].scope

LEMMA OpenShrinks ==
    ASSUME NoneOpened, SameTxs, TxsTyped, NEW u \in 1 .. Len(txs)
    PROVE  Open(u)' \subseteq Open(u)
BY DEF NoneOpened, SameTxs, Open, Seqs

\* A step of one host that opens no call, settles nothing and moves at most
\* the transaction it holds keeps the invariant.
LEMMA Moves ==
    ASSUME IInv, NEW h \in Host, NEW r \in HostRec(Len(txs)),
           host' = [host EXCEPT ![h] = r], MayHold(h, r),
           UNCHANGED <<gen, pending, reverts>>, told' \subseteq 1 .. Len(txs),
           LogTyped', StoreTyped', TxsTyped', NoneOpened, SameTxs,
           \A u \in 1 .. Len(txs) :
              \/ txs'[u].phase = txs[u].phase
              \/ Working(h) /\ host[h].tx = u /\ r.tx = u /\ Open(u) = {},
           r.pc \notin {"down", "idle", "wait"} => Fits(r.pc, txs'[r.tx]),
           r.pc = "mark" => Open(r.tx)' = {}
    PROVE  IInv'
<1>1. /\ Typed /\ Len(txs') = Len(txs) /\ Len(txs) \in Nat
      /\ DOMAIN txs = 1 .. Len(txs) /\ DOMAIN txs' = 1 .. Len(txs)
      /\ Pending = {t \in 1 .. Len(txs) : txs[t].state = "prepared"}
    BY TxNumbers DEF IInv, SameTxs, Typed, TxsTyped
<1>2. /\ host \in [Host -> HostRec(Len(txs))]
      /\ host' \in [Host -> HostRec(Len(txs))] /\ host'[h] = r
      /\ \A g \in Host : g # h => host'[g] = host[g]
    BY <1>1, HostChange DEF Typed, HostTyped
<1>3. Pending' = Pending
    BY <1>1 DEF Pending, SameTxs
<1>4. \A g \in Host : Working(g) => host[g].tx \in 1 .. Len(txs)
  <2> SUFFICES ASSUME NEW g \in Host, Working(g) PROVE host[g].tx \in 1 .. Len(txs)
      OBVIOUS
  <2>1. host[g].tx \in 0 .. Len(txs) /\ host[g].tx # 0
      BY <1>1, <1>2 DEF Typed, HostTyped, HostRec, Working
  <2> QED BY <2>1, <1>1
<1>5. r.pc \notin {"down", "idle", "wait"} => r.tx \in 1 .. Len(txs)
  <2>1. r.tx \in 0 .. Len(txs)
      BY DEF HostRec
  <2> QED BY <2>1, <1>1 DEF MayHold
<1>6. Typed'
  <2>1. LedgerTyped'
      BY <1>1 DEF Typed, LedgerTyped
  <2>2. HostTyped'
      BY <1>1, <1>2 DEF Typed, HostTyped, MayHold
  <2> QED BY <2>1, <2>2 DEF Typed
<1>7. FencesOwned'
  <2>1. \A x \in Session : pending[x] # 0 => pending[x] \in 1 .. Len(txs)
      BY <1>1 DEF Typed, LedgerTyped
  <2>2. \A x \in Session : pending'[x] # 0 => /\ txs'[pending'[x]].state = "prepared"
                                             /\ x \in txs'[pending'[x]].members
      BY <2>1 DEF IInv, FencesOwned, SameTxs
  <2>3. \A t \in Pending' : \A x \in txs'[t].members : pending'[x] = t
      BY <1>1, <1>3 DEF IInv, FencesOwned, SameTxs
  <2> QED BY <2>2, <2>3 DEF FencesOwned
<1>8. InPhase'
  <2> SUFFICES ASSUME NEW g \in Host, Working(g)'
               PROVE  /\ txs'[host'[g].tx].state = "prepared"
                      /\ Fits(host'[g].pc, txs'[host'[g].tx])
                      /\ host'[g].todo \subseteq DOMAIN txs'[host'[g].tx].targets
      BY DEF InPhase, Fits
  <2>1. CASE g = h
      BY <2>1, <1>2, <1>5 DEF Working, MayHold, SameTxs
  <2>2. CASE g # h
    <3> DEFINE u == host[g].tx
    <3>1. host'[g] = host[g] /\ Working(g) /\ u \in 1 .. Len(txs)
        BY <2>2, <1>2, <1>4 DEF Working
    <3>2. /\ txs[u].state = "prepared" /\ Fits(host[g].pc, txs[u])
          /\ host[g].todo \subseteq DOMAIN txs[u].targets
        BY <3>1 DEF IInv, InPhase
    <3>3. txs'[u].phase = txs[u].phase
        BY <2>2, <3>1 DEF IInv, OneHolder
    <3>4. Fits(host[g].pc, txs'[u])
        BY <3>1, <3>2, <3>3 DEF Fits, SameTxs
    <3> QED BY <3>1, <3>2, <3>4 DEF SameTxs
  <2> QED BY <2>1, <2>2
<1>9. OneHolder'
  <2> SUFFICES ASSUME NEW f \in Host, NEW g \in Host, Working(f)', Working(g)', host'[f].tx = host'[g].tx
               PROVE  f = g
      BY DEF OneHolder
  <2>1. ASSUME NEW k \in Host, k # h, Working(k)', Working(h)', host'[k].tx = host'[h].tx PROVE FALSE
    <3>1. Working(k) /\ host[k].tx = r.tx /\ r.pc \notin {"down", "idle", "wait"}
        BY <2>1, <1>2 DEF Working
    <3>2. Held(r.tx)
        BY <3>1 DEF Held
    <3>3. Working(h) /\ host[h].tx = r.tx
        BY <3>1, <3>2 DEF MayHold
    <3> QED BY <3>1, <3>3, <2>1 DEF IInv, OneHolder
  <2>2. CASE f # h /\ g # h
      BY <2>2, <1>2 DEF IInv, OneHolder, Working
  <2> QED BY <2>1, <2>2
<1>10. Quiet'
  <2> SUFFICES ASSUME NEW u \in Pending', txs'[u].phase # "prepared" PROVE Open(u)' = {}
      BY DEF Quiet
  <2>1. u \in Pending /\ u \in 1 .. Len(txs) /\ Open(u)' \subseteq Open(u)
      BY <1>1, <1>3, OpenShrinks DEF Typed
  <2>2. Open(u) = {}
      BY <2>1 DEF IInv, Quiet
  <2> QED BY <2>1, <2>2
<1>11. StillQuiet'
  <2> SUFFICES ASSUME NEW g \in Host, host'[g].pc = "mark", NEW u, u = host'[g].tx
               PROVE  Open(u)' = {}
      BY DEF StillQuiet
  <2>1. CASE g = h
      BY <2>1, <1>2
  <2>2. CASE g # h
    <3>1. host'[g] = host[g] /\ Working(g) /\ u = host[g].tx /\ u \in 1 .. Len(txs)
        BY <2>2, <1>2, <1>4 DEF Working
    <3>2. Open(u) = {}
        BY <3>1 DEF IInv, StillQuiet
    <3>3. Open(u)' \subseteq Open(u)
        BY <1>1, <3>1, OpenShrinks DEF Typed
    <3> QED BY <3>2, <3>3
  <2> QED BY <2>1, <2>2
<1> QED BY <1>6, <1>7, <1>8, <1>9, <1>10, <1>11 DEF IInv

-----------------------------------------------------------------------------
(* The steps of a host, from the lemma above *)

LEMMA HostFields ==
    ASSUME Typed, NEW h \in Host
    PROVE  /\ host[h] \in HostRec(Len(txs))
           /\ host[h].pc \in PC /\ host[h].tx \in 0 .. Len(txs)
           /\ host[h].todo \in SUBSET Session /\ host[h].list \in SUBSET (1 .. Len(txs))
           /\ host[h].pc \notin {"down", "idle"} => host[h].tx \in 1 .. Len(txs)
<1>1. host[h] \in HostRec(Len(txs))
    BY DEF Typed, HostTyped
<1>2. Len(txs) \in Nat
    BY TxNumbers DEF Typed
<1>3. host[h].pc \notin {"down", "idle"} => host[h].tx # 0
    BY DEF Typed, HostTyped
<1>4. /\ host[h].pc \in PC /\ host[h].tx \in 0 .. Len(txs)
      /\ host[h].todo \in SUBSET Session /\ host[h].list \in SUBSET (1 .. Len(txs))
    BY <1>1 DEF HostRec
<1> QED BY <1>1, <1>2, <1>3, <1>4

LEMMA SameLog == Typed /\ UNCHANGED log => LogTyped' /\ NoneOpened
<1> SUFFICES ASSUME Typed, UNCHANGED log PROVE LogTyped' /\ NoneOpened
    OBVIOUS
<1>1. Len(log') = Len(log)
    OBVIOUS
<1> QED BY <1>1 DEF Typed, LogTyped, NoneOpened

LEMMA SameStore == Typed /\ UNCHANGED store /\ Len(log') = Len(log) => StoreTyped'
BY DEF Typed, StoreTyped, store

LEMMA SameTransactions == Typed /\ UNCHANGED txs => TxsTyped' /\ SameTxs
<1> SUFFICES ASSUME Typed, UNCHANGED txs PROVE TxsTyped' /\ SameTxs
    OBVIOUS
<1>1. TxsTyped'
    BY DEF Typed, TxsTyped
<1> QED BY <1>1 DEF SameTxs

\* A host that is at work goes on with the transaction it holds.
LEMMA Carries ==
    ASSUME IInv, NEW h \in Host, Working(h), NEW t, t = host[h].tx,
           NEW p \in PC \ {"down", "idle", "wait"},
           NEW d \in SUBSET DOMAIN txs[t].targets,
           host' = Put(h, p, t, d, host[h].list),
           UNCHANGED <<gen, pending, reverts>>, told' \subseteq 1 .. Len(txs),
           LogTyped', StoreTyped', TxsTyped', NoneOpened, SameTxs,
           \A u \in 1 .. Len(txs) :
              txs'[u].phase = txs[u].phase \/ (t = u /\ Open(u) = {}),
           Fits(p, txs'[t]),
           p = "mark" => Open(t)' = {}
    PROVE  IInv'
<1>1. /\ Typed /\ t \in 1 .. Len(txs) /\ t \in 0 .. Len(txs) /\ t # 0
      /\ host[h].list \in SUBSET (1 .. Len(txs))
      /\ TxOK(txs[t]) /\ txs[t].state = "prepared"
  <2>1. t \in 1 .. Len(txs) /\ t \in 0 .. Len(txs) /\ host[h].list \in SUBSET (1 .. Len(txs))
      BY HostFields DEF IInv, Working
  <2>2. t # 0 /\ DOMAIN txs = 1 .. Len(txs) /\ Typed
      BY <2>1, TxNumbers DEF IInv, Typed
  <2> QED BY <2>1, <2>2, TxNumbers DEF IInv, InPhase, Typed
<1>2. d \in SUBSET Session
    BY <1>1 DEF TxOK
<1>3. PICK r : r = [pc |-> p, tx |-> t, todo |-> d, list |-> host[h].list]
    OBVIOUS
<1>4. r \in HostRec(Len(txs)) /\ r.pc = p /\ r.tx = t /\ r.todo = d
    BY <1>1, <1>2, <1>3 DEF HostRec
<1>5. MayHold(h, r)
    BY <1>1, <1>4 DEF MayHold
<1>6. host' = [host EXCEPT ![h] = r]
    BY <1>3 DEF Put
<1>7. \A u \in 1 .. Len(txs) :
          \/ txs'[u].phase = txs[u].phase
          \/ Working(h) /\ host[h].tx = u /\ r.tx = u /\ Open(u) = {}
    BY <1>4
<1>8. r.pc \notin {"down", "idle", "wait"} => Fits(r.pc, txs'[r.tx])
    BY <1>4
<1>9. r.pc = "mark" => Open(r.tx)' = {}
    BY <1>4
<1> QED BY <1>4, <1>5, <1>6, <1>7, <1>8, <1>9, Moves

\* A host that lets go of what it holds, or takes nothing up yet.
LEMMA LetsGo ==
    ASSUME IInv, NEW h \in Host, NEW p \in {"down", "idle", "wait"},
           NEW t \in 0 .. Len(txs), p = "wait" => t # 0,
           NEW d \in SUBSET Session, NEW l \in SUBSET (1 .. Len(txs)),
           host' = Put(h, p, t, d, l),
           UNCHANGED <<gen, pending, txs, reverts, store>>, told' \subseteq 1 .. Len(txs),
           LogTyped', NoneOpened, Len(log') = Len(log)
    PROVE  IInv'
<1>1. p \in PC
    BY DEF PC
<1>2. PICK r : r = [pc |-> p, tx |-> t, todo |-> d, list |-> l]
    OBVIOUS
<1>3. r \in HostRec(Len(txs)) /\ r.pc = p /\ r.tx = t
    BY <1>1, <1>2 DEF HostRec
<1>4. MayHold(h, r)
    BY <1>3 DEF MayHold
<1>5. TxsTyped' /\ SameTxs /\ StoreTyped'
    BY SameTransactions, SameStore DEF IInv
<1>6. host' = [host EXCEPT ![h] = r]
    BY <1>2 DEF Put
<1>7. \A u \in 1 .. Len(txs) : txs'[u].phase = txs[u].phase
    OBVIOUS
<1>8. r.pc \in {"down", "idle", "wait"} /\ r.pc # "mark"
    BY <1>3
<1> QED BY <1>3, <1>4, <1>5, <1>6, <1>7, <1>8, Moves

\* The transaction a host is at work on.
LEMMA AtWork ==
    ASSUME IInv, NEW h \in Host, Working(h)
    PROVE  LET t == host[h].tx IN
           /\ t \in 1 .. Len(txs) /\ TxOK(txs[t])
           /\ txs[t].state = "prepared" /\ Fits(host[h].pc, txs[t])
           /\ host[h].todo \subseteq DOMAIN txs[t].targets
           /\ t \in Pending
<1>1. Typed /\ host[h].tx \in 1 .. Len(txs)
    BY HostFields DEF IInv, Working
<1>2. TxOK(txs[host[h].tx]) /\ Pending = {t \in 1 .. Len(txs) : txs[t].state = "prepared"}
    BY <1>1, TxNumbers DEF Typed
<1> QED BY <1>1, <1>2 DEF IInv, InPhase

\* Steps of a host that leave the ledger and the store alone.
LEMMA WaitInv ==
    ASSUME IInv, NEW h \in Host, NEW t \in 1 .. Len(txs), Join(h, t)
    PROVE  IInv'
<1>1. Typed /\ t \in 0 .. Len(txs) /\ t # 0 /\ told \subseteq 1 .. Len(txs)
    BY TxNumbers DEF IInv, Typed, HostTyped
<1>2. LogTyped' /\ NoneOpened /\ Len(log') = Len(log)
    BY <1>1, SameLog DEF Join, ledger
<1>3. host[h].list \in SUBSET (1 .. Len(txs))
    BY <1>1, HostFields
<1> QED BY <1>1, <1>2, <1>3, LetsGo DEF Join, ledger

\* The steps that end a call, or take the host itself down or up.
LEMMA LeaveInv ==
    ASSUME IInv, NEW h \in Host, UNCHANGED <<ledger, store>>, told' \subseteq 1 .. Len(txs),
           \/ host' = Done(h) \/ host' = Thrown(h)
           \/ host' = Put(h, "down", 0, {}, {})
           \/ host' = Put(h, "idle", 0, {}, Pending)
    PROVE  IInv'
<1>1. Typed /\ 0 \in 0 .. Len(txs) /\ Pending \in SUBSET (1 .. Len(txs))
    BY TxNumbers DEF IInv, Typed
<1>2. LogTyped' /\ NoneOpened /\ Len(log') = Len(log)
    BY <1>1, SameLog DEF ledger
<1>3. host[h].list \in SUBSET (1 .. Len(txs))
    BY <1>1, HostFields
<1>4. \E p \in {"down", "idle"}, l \in SUBSET (1 .. Len(txs)) : host' = Put(h, p, 0, {}, l)
    BY <1>1, <1>3 DEF Done, Thrown
<1>5. PICK p \in {"down", "idle"}, l \in SUBSET (1 .. Len(txs)) : host' = Put(h, p, 0, {}, l)
    BY <1>4
<1>6. p \in {"down", "idle", "wait"} /\ p # "wait" /\ {} \in SUBSET Session
    OBVIOUS
<1> QED BY <1>1, <1>2, <1>5, <1>6, LetsGo DEF ledger, store

LEMMA ResumeInv ==
    ASSUME IInv, NEW h \in Host, NEW t \in DOMAIN txs, Resume(h, t)
    PROVE  IInv'
<1>1. Typed /\ t \in 1 .. Len(txs) /\ t \in 0 .. Len(txs) /\ t # 0 /\ told \subseteq 1 .. Len(txs)
    BY TxNumbers DEF IInv, Typed, HostTyped
<1>2. LogTyped' /\ NoneOpened /\ Len(log') = Len(log)
    BY <1>1, SameLog DEF Resume, ledger
<1>3. host[h].list \ {t} \in SUBSET (1 .. Len(txs))
    BY <1>1, HostFields
<1> QED BY <1>1, <1>2, <1>3, LetsGo DEF Resume, ledger

\* The steps of a working host that leave the ledger alone.
LEMMA StaysInv ==
    ASSUME IInv, NEW h \in Host, Working(h), UNCHANGED ledger,
           told' \subseteq 1 .. Len(txs), StoreTyped',
           NEW p \in PC \ {"down", "idle", "wait", "mark"},
           NEW d, d \subseteq host[h].todo,
           host' = Put(h, p, host[h].tx, d, host[h].list),
           Fits(p, txs[host[h].tx])
    PROVE  IInv'
<1>1. Typed
    BY DEF IInv
<1>2. LogTyped' /\ NoneOpened /\ TxsTyped' /\ SameTxs
    BY <1>1, SameLog, SameTransactions DEF ledger
<1>3. PICK t : t = host[h].tx
    OBVIOUS
<1>4. d \in SUBSET DOMAIN txs[t].targets
    BY <1>3, AtWork
<1>5. p \in PC \ {"down", "idle", "wait"} /\ (p = "mark" => Open(t)' = {})
    OBVIOUS
<1>6. Fits(p, txs'[t])
    BY <1>3 DEF ledger, Fits
<1>7. \A u \in 1 .. Len(txs) : txs'[u].phase = txs[u].phase
    BY DEF ledger
<1> QED BY <1>1, <1>2, <1>3, <1>4, <1>5, <1>6, <1>7, Carries DEF ledger

\* Whoever gets the lock starts where the record says.
LEMMA TakeInv ==
    ASSUME IInv, NEW h \in Host, Take(h)
    PROVE  IInv'
<1>1. PICK t : t = host[h].tx
    OBVIOUS
<1>2. /\ Typed /\ t \in 1 .. Len(txs) /\ TxOK(txs[t]) /\ t # 0 /\ t \in 0 .. Len(txs)
      /\ host[h].list \in SUBSET (1 .. Len(txs)) /\ told \subseteq 1 .. Len(txs)
    BY <1>1, HostFields, TxNumbers DEF IInv, Typed, HostTyped, Take
<1>3. CASE txs[t].state # "prepared"
    BY <1>1, <1>2, <1>3, LeaveInv DEF Take, ledger, store
<1>4. CASE txs[t].state = "prepared"
  <2> DEFINE p == TakenUp(txs[t].phase)
             d == DOMAIN txs[t].targets
  <2>1. /\ host' = Put(h, p, t, d, host[h].list)
        /\ ~Held(t) /\ told' = told \ {t} /\ UNCHANGED <<ledger, store>>
      BY <1>1, <1>4 DEF Take
  <2>2. p \in PC \ {"down", "idle", "wait", "mark"} /\ Fits(p, txs[t])
      BY <1>2, <1>4 DEF TxOK, Advanced, TakenUp, PC, Fits
  <2>3. d \in SUBSET Session
      BY <1>2 DEF TxOK
  <2>4. PICK r : r = [pc |-> p, tx |-> t, todo |-> d, list |-> host[h].list]
      OBVIOUS
  <2> HIDE DEF p, d
  <2>5. r \in HostRec(Len(txs)) /\ r.pc = p /\ r.tx = t /\ r.todo = d
      BY <1>2, <2>2, <2>3, <2>4 DEF HostRec
  <2>6. MayHold(h, r)
      BY <1>2, <1>4, <2>1, <2>5 DEF MayHold, d
  <2>7. LogTyped' /\ NoneOpened /\ TxsTyped' /\ SameTxs /\ StoreTyped'
      BY <1>2, <2>1, SameLog, SameTransactions, SameStore DEF ledger
  <2>8. host' = [host EXCEPT ![h] = r]
      BY <2>1, <2>4 DEF Put
  <2>9. /\ \A u \in 1 .. Len(txs) : txs'[u].phase = txs[u].phase
        /\ Fits(r.pc, txs'[r.tx]) /\ r.pc # "mark"
      BY <2>1, <2>2, <2>5 DEF ledger, Fits
  <2>10. told' \subseteq 1 .. Len(txs) /\ UNCHANGED <<gen, pending, reverts>>
      BY <1>2, <2>1 DEF ledger
  <2> QED BY <2>5, <2>6, <2>7, <2>8, <2>9, <2>10, Moves
<1> QED BY <1>3, <1>4

-----------------------------------------------------------------------------
(* The phases *)

\* Cancelling calls opens none, and leaves the cancelled ones closed.
LEMMA CancelledLog ==
    ASSUME Typed, NEW S, log' = Cancelled(S)
    PROVE  /\ LogTyped' /\ NoneOpened /\ Len(log') = Len(log)
           /\ \A n \in 1 .. Len(log) : /\ log'[n].session = log[n].session
                                       /\ log'[n].op = "open" => n \notin S
<1>1. /\ log \in Seq(LogRec) /\ Len(log) \in Nat /\ Len(log) <= MaxSeq
      /\ \A n \in 1 .. Len(log) : log[n] \in LogRec
    BY ElementTyped DEF Typed, LogTyped
<1>2. ASSUME NEW n \in 1 .. Len(log)
      PROVE  /\ log'[n] \in LogRec /\ log'[n].session = log[n].session
             /\ log'[n].op = "open" => n \notin S /\ log[n].op = "open"
  <2>1. CASE n \in S
    <3>1. log'[n] = [log[n] EXCEPT !.op = "cancelled"]
        BY <2>1 DEF Cancelled, Seqs
    <3> QED BY <1>1, <2>1, <3>1 DEF LogRec
  <2>2. CASE n \notin S
    <3>1. log'[n] = log[n]
        BY <2>2 DEF Cancelled, Seqs
    <3> QED BY <1>1, <2>2, <3>1 DEF LogRec
  <2> QED BY <2>1, <2>2
<1>3. log' = [n \in 1 .. Len(log) |-> log'[n]]
    BY DEF Cancelled, Seqs
<1>4. log' \in Seq(LogRec) /\ Len(log') = Len(log)
    BY <1>1, <1>2, <1>3, FunctionIsSequence
<1> QED BY <1>1, <1>2, <1>4 DEF LogTyped, NoneOpened

LEMMA StopInv ==
    ASSUME IInv, NEW h \in Host, Stop(h) \/ \E S \in SUBSET Seqs : StopUnconfirmed(h, S)
    PROVE  IInv'
<1>1. PICK t : t = host[h].tx
    OBVIOUS
<1>2. Working(h)
    BY DEF Stop, StopUnconfirmed, Working
<1>3. /\ Typed /\ t \in 1 .. Len(txs) /\ Fits(host[h].pc, txs[t])
      /\ host[h].todo \in SUBSET DOMAIN txs[t].targets /\ told \subseteq 1 .. Len(txs)
    BY <1>1, <1>2, AtWork DEF IInv, Typed, HostTyped
<1>4. TxsTyped' /\ SameTxs /\ StoreTyped' /\ LogTyped' /\ NoneOpened /\ Len(log') = Len(log)
  <2>1. \E S : log' = Cancelled(S)
      BY DEF Stop, StopUnconfirmed
  <2>2. LogTyped' /\ NoneOpened /\ Len(log') = Len(log)
      BY <1>3, <2>1, CancelledLog
  <2>3. UNCHANGED txs /\ UNCHANGED store
      BY DEF Stop, StopUnconfirmed
  <2> QED BY <1>3, <2>2, <2>3, SameTransactions, SameStore
<1>5. CASE Stop(h)
  <2>1. Open(t)' = {}
    <3>1. log' = Cancelled(Open(t)) /\ txs' = txs
        BY <1>1, <1>5 DEF Stop
    <3>2. \A n \in 1 .. Len(log) : /\ log'[n].session = log[n].session
                                   /\ log'[n].op = "open" => n \notin Open(t)
        BY <1>3, <3>1, CancelledLog
    <3>3. Open(t)' \subseteq Open(t)
        BY <1>3, <1>4, OpenShrinks DEF Typed
    <3> QED BY <1>4, <3>2, <3>3 DEF Open, Seqs
  <2>2. host' = Put(h, "mark", t, host[h].todo, host[h].list)
      BY <1>1, <1>5 DEF Stop, At
  <2>3. "mark" \in PC \ {"down", "idle", "wait"} /\ Fits("mark", txs'[t])
      BY <1>3, <1>5 DEF Stop, Fits, PC
  <2>4. /\ UNCHANGED <<gen, pending, reverts>> /\ told' \subseteq 1 .. Len(txs)
        /\ \A u \in 1 .. Len(txs) : txs'[u].phase = txs[u].phase
      BY <1>3, <1>5 DEF Stop
  <2> QED BY <1>1, <1>2, <1>3, <1>4, <2>1, <2>2, <2>3, <2>4, Carries
<1>6. ASSUME NEW S \in SUBSET Seqs, StopUnconfirmed(h, S) PROVE IInv'
  <2>1. host' = Put(h, "idle", 0, {}, {})
      BY <1>6 DEF StopUnconfirmed, Thrown
  <2>2. /\ UNCHANGED <<gen, pending, txs, reverts, store>>
        /\ told' = told \cup {t} \cup host[h].list
      BY <1>1, <1>6 DEF StopUnconfirmed
  <2>4. told' \subseteq 1 .. Len(txs)
      BY <1>3, <2>2, HostFields DEF HostTyped, Typed
  <2>3. 0 \in 0 .. Len(txs) /\ {} \in SUBSET Session /\ {} \in SUBSET (1 .. Len(txs))
      BY <1>3, TxNumbers DEF Typed
  <2> QED BY <1>4, <2>1, <2>2, <2>3, <2>4, LetsGo
<1> QED BY <1>5, <1>6

\* One transaction replaced by another record.
LEMMA OneTx ==
    ASSUME TxsTyped, NEW t \in 1 .. Len(txs), NEW y, TxOK(y), txs' = [txs EXCEPT ![t] = y]
    PROVE  /\ TxsTyped' /\ Len(txs') = Len(txs)
           /\ txs'[t] = y
           /\ \A u \in 1 .. Len(txs) : u # t => txs'[u] = txs[u]
<1>1. /\ Len(txs) \in Nat /\ Len(txs) \in 0 .. MaxTx /\ DOMAIN txs = 1 .. Len(txs)
      /\ \A u \in 1 .. Len(txs) : TxOK(txs[u])
    BY TxNumbers DEF TxsTyped
<1>2. /\ txs'[t] = y
      /\ \A u \in 1 .. Len(txs) : u # t => txs'[u] = txs[u]
      /\ txs' = [u \in 1 .. Len(txs) |-> txs'[u]]
    BY <1>1
<1>3. Len(txs') = Len(txs)
  <2> DEFINE X == {txs'[u] : u \in 1 .. Len(txs)}
  <2>1. \A u \in 1 .. Len(txs) : txs'[u] \in X
      OBVIOUS
  <2> QED BY <1>1, <1>2, <2>1, FunctionIsSequence
<1>4. \A u \in 1 .. Len(txs) : TxOK(txs'[u])
    BY <1>1, <1>2
<1> QED BY <1>1, <1>2, <1>3, <1>4 DEF TxsTyped

LEMMA PhaseTyped ==
    ASSUME TxsTyped, NEW t \in 1 .. Len(txs), txs[t].state = "prepared",
           NEW p \in Advanced, txs[t].phase \in Advanced, txs' = Phase(t, p)
    PROVE  /\ TxsTyped' /\ SameTxs
           /\ txs'[t].phase = p
           /\ \A u \in 1 .. Len(txs) : u # t => txs'[u].phase = txs[u].phase
<1>1. PICK y : y = [txs[t] EXCEPT !.phase = p]
    OBVIOUS
<1>2. TxOK(txs[t])
    BY DEF TxsTyped
<1>3. /\ y.phase = p /\ y.state = txs[t].state /\ y.members = txs[t].members
      /\ y.targets = txs[t].targets /\ y.scope = txs[t].scope /\ y.before = txs[t].before
      /\ DOMAIN y = TxFields
    BY <1>1, <1>2 DEF TxOK, TxFields
<1>4. TxOK(y)
    BY <1>2, <1>3 DEF TxOK, Advanced
<1>5. txs' = [txs EXCEPT ![t] = y]
    BY <1>1 DEF Phase
<1>6. /\ TxsTyped' /\ Len(txs') = Len(txs) /\ txs'[t] = y
      /\ \A u \in 1 .. Len(txs) : u # t => txs'[u] = txs[u]
    BY <1>4, <1>5, OneTx
<1> QED BY <1>3, <1>6 DEF SameTxs

\* Turn, Decide and GiveBack record the next phase.
LEMMA PhaseInv ==
    ASSUME IInv, NEW h \in Host, Turn(h) \/ Decide(h) \/ GiveBack(h)
    PROVE  IInv'
<1>1. PICK t : t = host[h].tx
    OBVIOUS
<1>2. Working(h) /\ host[h].pc \in {"turn", "rewind", "giveback"}
    BY DEF Turn, Decide, GiveBack, Working
<1>3. /\ Typed /\ t \in 1 .. Len(txs) /\ TxOK(txs[t]) /\ Fits(host[h].pc, txs[t])
      /\ txs[t].state = "prepared" /\ t \in Pending
      /\ host[h].todo \subseteq DOMAIN txs[t].targets /\ told \subseteq 1 .. Len(txs)
    BY <1>1, <1>2, AtWork DEF IInv, Typed, HostTyped
<1>4. txs[t].phase \in {"stopped", "conversation"} /\ txs[t].phase \in Advanced
    BY <1>2, <1>3 DEF Fits, Advanced
<1>5. Open(t) = {}
    BY <1>3, <1>4 DEF IInv, Quiet
<1>6. \E p \in PC \ {"down", "idle", "wait", "mark"}, q \in Advanced, d \in SUBSET DOMAIN txs[t].targets :
          /\ txs' = Phase(t, q) /\ host' = Put(h, p, t, d, host[h].list)
          /\ \A tx : tx.phase = q => Fits(p, tx)
  <2>1. CASE Turn(h)
    <3>1. /\ txs' = Phase(t, "conversation") /\ host' = Put(h, "rewind", t, host[h].todo, host[h].list)
        BY <1>1, <2>1 DEF Turn, At
    <3>2. \A tx : tx.phase = "conversation" => Fits("rewind", tx)
        BY DEF Fits
    <3> QED BY <1>3, <3>1, <3>2 DEF PC, Advanced
  <2>2. CASE Decide(h)
    <3>1. /\ txs' = Phase(t, "files") /\ host' = Put(h, "commit", t, host[h].todo, host[h].list)
        BY <1>1, <2>2 DEF Decide, At
    <3>2. \A tx : tx.phase = "files" => Fits("commit", tx)
        BY DEF Fits
    <3> QED BY <1>3, <3>1, <3>2 DEF PC, Advanced
  <2>3. CASE GiveBack(h)
    <3>1. /\ txs' = Phase(t, "restoring") /\ host' = Put(h, "putback", t, DOMAIN txs[t].before, host[h].list)
        BY <1>1, <2>3 DEF GiveBack
    <3>2. \A tx : tx.phase = "restoring" => Fits("putback", tx)
        BY DEF Fits
    <3>3. DOMAIN txs[t].before = DOMAIN txs[t].targets
        BY <1>3, <1>4 DEF TxOK
    <3> QED BY <3>1, <3>2, <3>3 DEF PC, Advanced
  <2> QED BY <2>1, <2>2, <2>3
<1>7. PICK p \in PC \ {"down", "idle", "wait", "mark"}, q \in Advanced, d \in SUBSET DOMAIN txs[t].targets :
          /\ txs' = Phase(t, q) /\ host' = Put(h, p, t, d, host[h].list)
          /\ \A tx : tx.phase = q => Fits(p, tx)
    BY <1>6
<1>8. /\ TxsTyped' /\ SameTxs /\ txs'[t].phase = q
      /\ \A u \in 1 .. Len(txs) : u # t => txs'[u].phase = txs[u].phase
    BY <1>3, <1>4, <1>7, PhaseTyped DEF Typed
<1>9. UNCHANGED <<log, gen, pending, reverts, store, told>>
    BY DEF Turn, Decide, GiveBack
<1>10. LogTyped' /\ NoneOpened /\ StoreTyped'
    BY <1>3, <1>9, SameLog, SameStore
<1>11. /\ Fits(p, txs'[t]) /\ p \in PC \ {"down", "idle", "wait"}
       /\ (p = "mark" => Open(t)' = {})
       /\ \A u \in 1 .. Len(txs) : txs'[u].phase = txs[u].phase \/ (t = u /\ Open(u) = {})
    BY <1>5, <1>7, <1>8
<1> QED BY <1>1, <1>2, <1>3, <1>7, <1>8, <1>9, <1>10, <1>11, Carries

\* Mark also records the markers.
LEMMA MarkInv ==
    ASSUME IInv, NEW h \in Host, Mark(h)
    PROVE  IInv'
<1>1. PICK t : t = host[h].tx
    OBVIOUS
<1>2. Working(h) /\ host[h].pc = "mark"
    BY DEF Mark, Working
<1>3. /\ Typed /\ t \in 1 .. Len(txs) /\ TxOK(txs[t]) /\ txs[t].state = "prepared"
      /\ host[h].todo \in SUBSET DOMAIN txs[t].targets /\ told \subseteq 1 .. Len(txs)
    BY <1>1, <1>2, AtWork DEF IInv, Typed, HostTyped
<1>4. Open(t) = {}
    BY <1>1, <1>2 DEF IInv, StillQuiet
<1>5. PICK b : b = [s \in DOMAIN txs[t].targets |-> marker[s]]
    OBVIOUS
<1>6. PICK y : y = [txs[t] EXCEPT !.phase = "stopped", !.before = b]
    OBVIOUS
<1>7. txs' = [txs EXCEPT ![t] = y]
    BY <1>1, <1>5, <1>6 DEF Mark
<1>8. /\ y.phase = "stopped" /\ y.state = txs[t].state /\ y.members = txs[t].members
      /\ y.targets = txs[t].targets /\ y.scope = txs[t].scope /\ y.before = b
      /\ DOMAIN y = TxFields
    BY <1>3, <1>6 DEF TxOK, TxFields
<1>9. b \in [DOMAIN txs[t].targets -> 0 .. MaxSeq]
    BY <1>3, <1>5 DEF TxOK, Typed, StoreTyped
<1>10. TxOK(y)
    BY <1>3, <1>8, <1>9 DEF TxOK, Advanced
<1>11. /\ TxsTyped' /\ Len(txs') = Len(txs) /\ txs'[t] = y
       /\ \A u \in 1 .. Len(txs) : u # t => txs'[u] = txs[u]
    BY <1>3, <1>7, <1>10, OneTx DEF Typed
<1>12. SameTxs
    BY <1>8, <1>11 DEF SameTxs
<1>13. UNCHANGED <<log, gen, pending, reverts, store, told>>
    BY DEF Mark
<1>14. LogTyped' /\ NoneOpened /\ StoreTyped'
    BY <1>3, <1>13, SameLog, SameStore
<1>15. host' = Put(h, "turn", t, host[h].todo, host[h].list)
    BY <1>1 DEF Mark, At
<1>16. /\ Fits("turn", txs'[t]) /\ "turn" \in PC \ {"down", "idle", "wait"}
       /\ \A u \in 1 .. Len(txs) : txs'[u].phase = txs[u].phase \/ (t = u /\ Open(u) = {})
       /\ "turn" = "mark" => Open(t)' = {}
    BY <1>4, <1>8, <1>11 DEF Fits, PC
<1> QED BY <1>1, <1>2, <1>3, <1>11, <1>12, <1>13, <1>14, <1>15, <1>16, Carries

\* One session is rewound, or put back where it was.
LEMMA MarkerInv ==
    ASSUME IInv, NEW h \in Host, NEW s \in Session, Rewind(h, s) \/ Restore(h, s)
    PROVE  IInv'
<1>1. PICK t : t = host[h].tx
    OBVIOUS
<1>2. Working(h) /\ host[h].pc \in {"rewind", "restore", "putback"} /\ s \in host[h].todo
    BY DEF Rewind, Restore, NextOf, Working
<1>3. /\ Typed /\ t \in 1 .. Len(txs) /\ TxOK(txs[t]) /\ Fits(host[h].pc, txs[t])
      /\ s \in DOMAIN txs[t].targets /\ told \subseteq 1 .. Len(txs)
    BY <1>1, <1>2, AtWork DEF IInv, Typed, HostTyped
<1>4. Len(log) \in Nat /\ Len(log) <= MaxSeq /\ MaxSeq \in Nat
    BY <1>3, BoundAssumption DEF Typed, LogTyped
<1>5. \E m \in 0 .. MaxSeq : marker' = [marker EXCEPT ![s] = m]
  <2>1. CASE Rewind(h, s)
    <3>1. CASE txs[t].redo
      <4>1. marker' = [marker EXCEPT ![s] = 0]
          BY <1>1, <2>1, <3>1 DEF Rewind
      <4>2. 0 \in 0 .. MaxSeq
          BY <1>4
      <4> QED BY <4>1, <4>2
    <3>2. CASE ~txs[t].redo
      <4>1. txs[t].targets[s] \in kept
          BY <1>1, <2>1, <3>2 DEF Rewind
      <4>2. txs[t].targets[s] \in 0 .. MaxSeq
        <5>1. 1 .. Len(log) \subseteq 0 .. MaxSeq
            BY <1>4
        <5>2. kept \subseteq 1 .. Len(log)
            BY <1>3 DEF Typed, StoreTyped
        <5> QED BY <4>1, <5>1, <5>2
      <4>3. marker' = [marker EXCEPT ![s] = txs[t].targets[s]]
          BY <1>1, <2>1, <3>2 DEF Rewind
      <4> QED BY <4>2, <4>3
    <3> QED BY <3>1, <3>2
  <2>2. CASE Restore(h, s)
    <3>1. txs[t].phase = "restoring"
        BY <1>3, <2>2 DEF Restore, Fits
    <3>2. txs[t].before[s] \in 0 .. MaxSeq
        BY <1>3, <3>1 DEF TxOK, Advanced
    <3>3. marker' = [marker EXCEPT ![s] = txs[t].before[s]]
        BY <1>1, <2>2 DEF Restore
    <3> QED BY <3>2, <3>3
  <2> QED BY <2>1, <2>2
<1>6. StoreTyped'
    BY <1>3, <1>5 DEF Rewind, Restore, Typed, StoreTyped, ledger
<1>7. /\ UNCHANGED ledger /\ told' = told
      /\ host' = Put(h, host[h].pc, host[h].tx, host[h].todo \ {s}, host[h].list)
    BY DEF Rewind, Restore, Through
<1>8. host[h].pc \in PC \ {"down", "idle", "wait", "mark"}
    BY <1>2 DEF PC
<1> QED BY <1>1, <1>2, <1>3, <1>6, <1>7, <1>8, StaysInv

\* A step that fails and makes the call give up what it has not decided.
LEMMA TurnsInv ==
    ASSUME IInv, NEW h \in Host,
           (\E s \in Session : Unknown(h, s)) \/ MarkFails(h) \/ RewindFails(h) \/ Refuse(h)
    PROVE  IInv'
<1>1. PICK t : t = host[h].tx
    OBVIOUS
<1>2. Working(h) /\ UNCHANGED <<ledger, store, told>>
    BY DEF Unknown, MarkFails, RewindFails, Refuse, Turns, Working
<1>3. Typed /\ Fits(host[h].pc, txs[t]) /\ told' \subseteq 1 .. Len(txs)
    BY <1>1, <1>2, AtWork DEF IInv, Typed, HostTyped
<1>4. StoreTyped'
    BY <1>2, <1>3, SameStore DEF ledger
<1>5. CASE MarkFails(h)
  <2>1. host' = Put(h, "abandon", host[h].tx, host[h].todo, host[h].list) /\ Fits("abandon", txs[t])
      BY <1>3, <1>5 DEF MarkFails, Turns, At, Fits
  <2> QED BY <1>1, <1>2, <1>3, <1>4, <2>1, StaysInv DEF PC
<1>6. CASE (\E s \in Session : Unknown(h, s)) \/ RewindFails(h)
  <2>1. host' = Put(h, "giveback", host[h].tx, host[h].todo, host[h].list) /\ Fits("giveback", txs[t])
      BY <1>3, <1>6 DEF Unknown, RewindFails, Turns, At, Fits
  <2> QED BY <1>1, <1>2, <1>3, <1>4, <2>1, StaysInv DEF PC
<1>7. CASE Refuse(h)
  <2>1. host' = Put(h, "abandon", host[h].tx, host[h].todo, host[h].list) /\ Fits("abandon", txs[t])
      BY <1>1, <1>3, <1>7 DEF Refuse, Turns, At, Fits
  <2> QED BY <1>1, <1>2, <1>3, <1>4, <2>1, StaysInv DEF PC
<1> QED BY <1>5, <1>6, <1>7

-----------------------------------------------------------------------------
(* The work that is rewound *)

\* A session whose tree is not fenced belongs to no pending transaction.
LEMMA NotAMember ==
    ASSUME IInv, NEW s \in Session, ~Fenced(s), NEW t \in Pending
    PROVE  s \notin txs[t].members
<1>1. pending[s] = 0
    BY DEF Fenced, Ancestors
<1>2. t # 0
    BY TxNumbers DEF IInv, Typed
<1> QED BY <1>1, <1>2 DEF IInv, FencesOwned

LEMMA PublishInv ==
    ASSUME IInv, NEW n \in Seqs, Publish(n)
    PROVE  IInv'
<1>1. PICK h \in Host : Up(h)
    BY DEF Publish
<1>2. Typed /\ UNCHANGED <<gen, pending, txs, reverts, store, host, told>>
    BY DEF Publish, IInv
<1>3. /\ log \in Seq(LogRec) /\ Len(log) \in Nat /\ Len(log) <= MaxSeq
      /\ n \in DOMAIN log /\ log[n] \in LogRec
    BY <1>2, ElementTyped DEF Typed, LogTyped, Seqs
<1>4. PICK x : x = [log[n] EXCEPT !.op = "on"]
    OBVIOUS
<1>5. x \in LogRec /\ x.op = "on"
    BY <1>3, <1>4 DEF LogRec
<1>6. log' = [log EXCEPT ![n] = x]
    BY <1>4 DEF Publish
<1>7. /\ log' \in Seq(LogRec) /\ Len(log') = Len(log) /\ log'[n] = x
      /\ \A m \in DOMAIN log : m # n => log'[m] = log[m]
    BY <1>3, <1>5, <1>6
<1>8. LogTyped' /\ NoneOpened
    BY <1>3, <1>5, <1>7 DEF LogTyped, NoneOpened
<1>9. TxsTyped' /\ SameTxs /\ StoreTyped'
    BY <1>2, <1>7, SameTransactions, SameStore
<1>10. PICK r : r = host[h]
    OBVIOUS
<1>11. r \in HostRec(Len(txs)) /\ host' = [host EXCEPT ![h] = r] /\ told' \subseteq 1 .. Len(txs)
    BY <1>2, <1>10 DEF Typed, HostTyped
<1>12. MayHold(h, r)
    BY <1>10 DEF IInv, Typed, HostTyped, InPhase, MayHold, Working
<1>13. /\ \A u \in 1 .. Len(txs) : txs'[u].phase = txs[u].phase
       /\ r.pc \notin {"down", "idle", "wait"} => Fits(r.pc, txs'[r.tx])
    BY <1>2, <1>10 DEF IInv, InPhase, Working, Fits
<1>14. r.pc = "mark" => Open(r.tx)' = {}
  <2> SUFFICES ASSUME r.pc = "mark" PROVE Open(r.tx)' = {}
      OBVIOUS
  <2>1. Open(r.tx) = {}
      BY <1>10 DEF IInv, StillQuiet
  <2>2. Open(r.tx)' \subseteq Open(r.tx)
      BY <1>2, <1>8 DEF NoneOpened, Open, Seqs
  <2> QED BY <2>1, <2>2
<1> QED BY <1>2, <1>8, <1>9, <1>11, <1>12, <1>13, <1>14, Moves

\* A prompt opens a call, which belongs to no pending transaction.
LEMMA PromptInv ==
    ASSUME IInv, NEW s \in Session, Prompt(s)
    PROVE  IInv'
<1>1. /\ Typed /\ log \in Seq(LogRec) /\ Len(log) \in Nat /\ Len(log) < MaxSeq
      /\ MaxSeq \in Nat /\ MaxTx \in Nat /\ Len(txs) \in 0 .. MaxTx
    BY BoundAssumption DEF Prompt, IInv, Typed, LogTyped, TxsTyped
<1>2. UNCHANGED <<gen, pending, txs, host, told>> /\ ~Fenced(s)
    BY DEF Prompt
<1>3. PICK x : x = [session |-> s, origin |-> IF s = Root THEN 0 ELSE Latest(Calls),
                    gen |-> gen[s], op |-> "open", reverted |-> FALSE, undone |-> FALSE]
    OBVIOUS
<1>4. x \in LogRec /\ x.session = s
  <2>1. (IF s = Root THEN 0 ELSE Latest(Calls)) \in 0 .. MaxSeq
    <3>1. CASE s = Root
        BY <1>1, <3>1
    <3>2. CASE s # Root
      <4>1. Calls # {}
          BY <3>2 DEF Prompt
      <4>2. Calls \in SUBSET (0 .. MaxSeq) /\ Calls \subseteq 1 .. Len(log)
        <5>1. Calls \subseteq kept /\ kept \subseteq 1 .. Len(log)
            BY <1>1 DEF Calls, Live, Typed, StoreTyped
        <5>2. 1 .. Len(log) \subseteq 0 .. MaxSeq
            BY <1>1
        <5> QED BY <5>1, <5>2
      <4>3. \E n \in Calls : \A m \in Calls : m <= n
          BY <1>1, <4>1, <4>2, GreatestExists
      <4>4. Latest(Calls) \in Calls
          BY <4>3 DEF Latest
      <4> QED BY <3>2, <4>2, <4>4
    <3> QED BY <3>1, <3>2
  <2>2. gen[s] \in 0 .. MaxTx
    <3>1. gen[s] \in 0 .. Len(txs)
        BY <1>1 DEF Typed, LedgerTyped
    <3> QED BY <1>1, <3>1
  <2>3. FALSE \in BOOLEAN
      BY Zenon
  <2> QED BY <1>3, <2>1, <2>2, <2>3, Zenon DEF LogRec
<1>5. log' = Append(log, x)
    BY <1>3 DEF Prompt
<1>6. /\ log' \in Seq(LogRec) /\ Len(log') = Len(log) + 1 /\ log'[Len(log) + 1] = x
      /\ \A n \in 1 .. Len(log) : log'[n] = log[n]
    BY <1>1, <1>4, <1>5, Appended
<1>7. LogTyped'
    BY <1>1, <1>6 DEF LogTyped
<1>8. TxsTyped' /\ HostTyped'
    BY <1>1, <1>2 DEF Typed, TxsTyped, HostTyped
<1>9. LedgerTyped'
  <2>1. reverts' = [a \in Session |-> IF a \in Ancestors(s) /\ RedoLost(s, a) THEN <<>> ELSE reverts[a]]
      BY DEF Prompt
  <2>2. \A a \in Session : reverts[a] \in Seq(1 .. Len(txs)) /\ <<>> \in Seq(1 .. Len(txs))
      BY <1>1 DEF Typed, LedgerTyped
  <2>3. reverts' \in [Session -> Seq(1 .. Len(txs))]
      BY <2>1, <2>2
  <2> QED BY <1>1, <1>2, <2>3 DEF Typed, LedgerTyped
<1>10. StoreTyped'
  <2>1. /\ kept \subseteq 1 .. Len(log) /\ adrift \subseteq 1 .. Len(log)
        /\ marker \in [Session -> 0 .. MaxSeq]
      BY <1>1 DEF Typed, StoreTyped
  <2>2. kept' \subseteq 1 .. Len(log') /\ adrift' \subseteq 1 .. Len(log')
    <3>1. kept' \subseteq kept \cup {Len(log) + 1} /\ adrift' \subseteq adrift \cup kept
        BY DEF Prompt
    <3>2. 1 .. Len(log) \cup {Len(log) + 1} \subseteq 1 .. Len(log')
        BY <1>1, <1>6
    <3> QED BY <2>1, <3>1, <3>2
  <2>3. marker' \in [Session -> 0 .. MaxSeq]
    <3>1. marker' = [marker EXCEPT ![s] = 0] /\ 0 \in 0 .. MaxSeq
        BY <1>1 DEF Prompt
    <3> QED BY <2>1, <3>1
  <2> QED BY <2>2, <2>3 DEF StoreTyped
<1>11. ASSUME NEW t \in Pending PROVE Open(t)' \subseteq Open(t)
  <2>1. s \notin txs[t].members
      BY <1>2, NotAMember
  <2> QED BY <1>1, <1>2, <1>3, <1>6, <2>1 DEF Open, Seqs
<1>12. FencesOwned' /\ InPhase' /\ OneHolder'
  <2>1. FencesOwned'
      BY <1>2 DEF IInv, FencesOwned, Pending
  <2>2. InPhase'
      BY <1>2 DEF IInv, InPhase, Working, Fits
  <2>3. OneHolder'
      BY <1>2 DEF IInv, OneHolder, Working
  <2> QED BY <2>1, <2>2, <2>3
<1>13. Quiet'
  <2> SUFFICES ASSUME NEW u \in Pending', txs'[u].phase # "prepared" PROVE Open(u)' = {}
      BY DEF Quiet
  <2>1. u \in Pending /\ Open(u) = {}
      BY <1>2 DEF Pending, IInv, Quiet
  <2> QED BY <2>1, <1>11
<1>14. StillQuiet'
  <2> SUFFICES ASSUME NEW g \in Host, host'[g].pc = "mark", NEW u, u = host'[g].tx
               PROVE  Open(u)' = {}
      BY DEF StillQuiet
  <2>1. host[g].pc = "mark" /\ Working(g) /\ u = host[g].tx
      BY <1>2 DEF Working
  <2>2. u \in Pending /\ Open(u) = {}
      BY <2>1, AtWork DEF IInv, StillQuiet
  <2> QED BY <2>2, <1>11
<1> QED BY <1>7, <1>8, <1>9, <1>10, <1>12, <1>13, <1>14 DEF IInv, Typed

-----------------------------------------------------------------------------
(* Requests *)

\* A transaction is recorded with the fence of all its members.
LEMMA PrepareInv ==
    ASSUME IInv, NEW h \in Host, host[h].pc = "idle",
           NEW tx, TxOK(tx), tx.state = "prepared", tx.phase = "prepared", Prepare(h, tx)
    PROVE  IInv'
<1> DEFINE t == Len(txs) + 1
<1>1. /\ Typed /\ Len(txs) \in Nat /\ MaxTx \in Nat /\ Len(txs) < MaxTx
      /\ DOMAIN txs = 1 .. Len(txs) /\ \A u \in 1 .. Len(txs) : TxOK(txs[u])
      /\ Pending = {u \in 1 .. Len(txs) : txs[u].state = "prepared"}
    BY TxNumbers DEF IInv, Typed, Prepare
<1>2. tx.members \subseteq Session /\ \A s \in tx.members : pending[s] = 0
    BY DEF TxOK, Prepare
<1>3. /\ Len(txs') = t /\ txs'[t] = tx
      /\ \A u \in 1 .. Len(txs) : txs'[u] = txs[u]
      /\ txs' = [u \in 1 .. t |-> txs'[u]]
  <2> DEFINE X == {txs[u] : u \in 1 .. Len(txs)} \cup {tx}
  <2>1. txs = [u \in 1 .. Len(txs) |-> txs[u]] /\ \A u \in 1 .. Len(txs) : txs[u] \in X
      BY <1>1 DEF Typed, TxsTyped
  <2>2. tx \in X
      OBVIOUS
  <2> HIDE DEF X
  <2>3. txs \in Seq(X)
      BY <1>1, <2>1, FunctionIsSequence
  <2>4. txs' = Append(txs, tx)
      BY DEF Prepare
  <2>5. /\ txs' \in Seq(X) /\ Len(txs') = Len(txs) + 1 /\ txs'[Len(txs) + 1] = tx
        /\ \A u \in 1 .. Len(txs) : txs'[u] = txs[u]
      BY <2>2, <2>3, <2>4, Appended
  <2>6. txs' = [u \in 1 .. Len(txs') |-> txs'[u]]
      BY <2>5
  <2> QED BY <2>5, <2>6
<1>4. t \in Nat /\ 1 .. Len(txs) \subseteq 1 .. t /\ 0 .. Len(txs) \subseteq 0 .. t
      /\ t \in 1 .. t /\ t \in 0 .. t /\ t \notin 1 .. Len(txs) /\ t # 0 /\ t \in 0 .. MaxTx
      /\ 1 .. t = 1 .. Len(txs) \cup {t}
    BY <1>1
<1> HIDE DEF t
<1>5. TxsTyped'
  <2>1. \A u \in 1 .. t : TxOK(txs'[u])
      BY <1>1, <1>3, <1>4
  <2> QED BY <1>3, <1>4, <2>1 DEF TxsTyped
<1>6. LogTyped' /\ StoreTyped'
    BY <1>1 DEF Prepare, Typed, LogTyped, StoreTyped, store
<1>7. LedgerTyped'
  <2>1. /\ gen \in [Session -> 0 .. Len(txs)] /\ pending \in [Session -> 0 .. Len(txs)]
        /\ reverts \in [Session -> Seq(1 .. Len(txs))]
      BY <1>1 DEF Typed, LedgerTyped
  <2>2. \A n \in 0 .. Len(txs) : n \in 0 .. t /\ n + 1 \in 0 .. t
      BY <1>1 DEF t
  <2>3. gen' \in [Session -> 0 .. t]
      BY <2>1, <2>2 DEF Prepare
  <2>4. pending' \in [Session -> 0 .. t]
      BY <1>4, <2>1 DEF Prepare, t
  <2>5. reverts' \in [Session -> Seq(1 .. t)]
    <3>1. \A s \in Session : reverts[s] \in Seq(1 .. t)
        BY <1>4, <2>1, Widened
    <3> QED BY <2>1, <3>1 DEF Prepare
  <2> QED BY <1>3, <2>3, <2>4, <2>5 DEF LedgerTyped
<1>8. PICK r : r = [pc |-> "wait", tx |-> t, todo |-> {}, list |-> host[h].list]
    OBVIOUS
<1>9. /\ \A g \in Host : host[g] \in HostRec(t)
      /\ r \in HostRec(t) /\ r.pc = "wait" /\ r.tx = t
  <2>1. \A g \in Host : host[g] \in HostRec(Len(txs))
      BY <1>1 DEF Typed, HostTyped
  <2>2. HostRec(Len(txs)) \subseteq HostRec(t)
      BY <1>4 DEF HostRec
  <2>3. \A g \in Host : host[g] \in HostRec(t)
      BY <2>1, <2>2
  <2>4. host[h].list \in SUBSET (1 .. t)
      BY <2>3 DEF HostRec
  <2> QED BY <1>4, <1>8, <2>3, <2>4 DEF HostRec, PC
<1>10. /\ host' \in [Host -> HostRec(t)] /\ host'[h] = r
       /\ \A g \in Host : g # h => host'[g] = host[g]
  <2>1. host' = [host EXCEPT ![h] = r]
      BY <1>8 DEF Prepare, Put, t
  <2>2. host \in [Host -> HostRec(t)]
      BY <1>1, <1>9 DEF Typed, HostTyped
  <2> QED BY <1>9, <2>1, <2>2, HostChange
<1>11. HostTyped'
  <2>1. told' \subseteq 1 .. t
      BY <1>1, <1>4 DEF Prepare, Typed, HostTyped
  <2>2. \A g \in Host : host'[g].pc \notin {"down", "idle"} => host'[g].tx # 0
      BY <1>1, <1>4, <1>9, <1>10 DEF Typed, HostTyped
  <2> QED BY <1>3, <1>10, <2>1, <2>2 DEF HostTyped
<1>12. \A g \in Host : Working(g)' =>
           /\ host'[g] = host[g] /\ Working(g) /\ host[g].tx \in 1 .. Len(txs)
           /\ txs'[host[g].tx] = txs[host[g].tx]
    BY <1>1, <1>3, <1>9, <1>10, HostFields DEF Working
<1>13. \A u \in 1 .. Len(txs) : Open(u)' = Open(u)
    BY <1>3 DEF Prepare, Open, Seqs
<1>14. \A u : u \in Pending' <=> u \in Pending \/ u = t
    BY <1>1, <1>3, <1>4 DEF Pending
<1>15. \A s \in Session : pending'[s] = IF s \in tx.members THEN t ELSE pending[s]
    BY DEF Prepare, t
<1>16. FencesOwned'
  <2>1. ASSUME NEW s \in Session, pending'[s] # 0
        PROVE  txs'[pending'[s]].state = "prepared" /\ s \in txs'[pending'[s]].members
    <3>1. CASE s \in tx.members
        BY <3>1, <1>3, <1>15
    <3>2. CASE s \notin tx.members
      <4>1. pending'[s] = pending[s] /\ pending[s] # 0 /\ pending[s] \in 0 .. Len(txs)
          BY <2>1, <3>2, <1>1, <1>15 DEF Typed, LedgerTyped
      <4>2. pending[s] \in 1 .. Len(txs)
          BY <1>1, <4>1
      <4> QED BY <1>3, <4>1, <4>2 DEF IInv, FencesOwned
    <3> QED BY <3>1, <3>2
  <2>2. ASSUME NEW u \in Pending', NEW s \in txs'[u].members PROVE pending'[s] = u
    <3>1. CASE u = t
        BY <3>1, <1>2, <1>3, <1>15, <2>2
    <3>2. CASE u # t
      <4>1. u \in Pending /\ u \in 1 .. Len(txs) /\ txs'[u] = txs[u] /\ u # 0
          BY <3>2, <1>1, <1>3, <1>14
      <4>2. pending[s] = u /\ s \in Session
          BY <1>1, <2>2, <4>1 DEF IInv, FencesOwned, TxOK
      <4> QED BY <1>2, <1>15, <4>1, <4>2
    <3> QED BY <3>1, <3>2
  <2> QED BY <2>1, <2>2 DEF FencesOwned
<1>17. InPhase'
  <2> SUFFICES ASSUME NEW g \in Host, Working(g)'
               PROVE  /\ txs'[host'[g].tx].state = "prepared"
                      /\ Fits(host'[g].pc, txs'[host'[g].tx])
                      /\ host'[g].todo \subseteq DOMAIN txs'[host'[g].tx].targets
      BY DEF InPhase, Fits
  <2> QED BY <1>12 DEF IInv, InPhase
<1>18. OneHolder'
    BY <1>12 DEF IInv, OneHolder
<1>19. Quiet'
  <2> SUFFICES ASSUME NEW u \in Pending', txs'[u].phase # "prepared" PROVE Open(u)' = {}
      BY DEF Quiet
  <2>1. u \in Pending /\ u \in 1 .. Len(txs) /\ txs'[u] = txs[u]
      BY <1>1, <1>3, <1>14
  <2> QED BY <1>13, <2>1 DEF IInv, Quiet
<1>20. StillQuiet'
  <2> SUFFICES ASSUME NEW g \in Host, host'[g].pc = "mark", NEW u, u = host'[g].tx
               PROVE  Open(u)' = {}
      BY DEF StillQuiet
  <2>1. Working(g)'
      BY DEF Working
  <2>2. host[g].pc = "mark" /\ u = host[g].tx /\ u \in 1 .. Len(txs)
      BY <1>12, <2>1
  <2> QED BY <1>13, <2>2 DEF IInv, StillQuiet
<1> QED BY <1>5, <1>6, <1>7, <1>11, <1>16, <1>17, <1>18, <1>19, <1>20 DEF IInv, Typed

\* What each request records.
LEMMA AskInv ==
    ASSUME IInv, NEW h \in Host, Ask(h)
    PROVE  IInv'
<1>1. Typed /\ DOMAIN txs = 1 .. Len(txs) /\ Len(txs) \in Nat /\ \A t \in DOMAIN txs : TxOK(txs[t])
    BY TxNumbers DEF IInv, Typed
<1>2. Root \in Session /\ Heads \subseteq Session /\ \A n \in Seqs : log[n].session \in Session
  <2>1. \A n \in Seqs : log[n] \in LogRec
      BY <1>1, ElementTyped DEF Typed, LogTyped, Seqs
  <2> QED BY <2>1, TreeAssumption DEF Session, LogRec
<1>3. \A s \in Session : pending[s] # 0 => pending[s] \in 1 .. Len(txs)
    BY <1>1 DEF Typed, LedgerTyped
<1>4. \A s \in Session : s \in Tree(s) /\ Tree(s) \subseteq Session
    BY DEF Tree
<1>5. ASSUME NEW s, NEW scope, NEW redo, NEW b, NEW members, members \subseteq Session,
             NEW targets, DOMAIN targets \subseteq members, NEW ops
      PROVE  LET tx == NewTx(s, scope, redo, b, members, targets, ops)
             IN  TxOK(tx) /\ tx.state = "prepared" /\ tx.phase = "prepared"
    BY <1>5 DEF NewTx, TxOK, TxFields, Advanced
<1>6. ASSUME NEW n \in Seqs, NEW scope \in {"tree", "session"}, AskRevert(h, n, scope)
      PROVE  IInv'
  <2> DEFINE s == log[n].session
             members == Members(s, scope)
             targets == Targets(members, s, n)
  <2>1. CASE pending[s] # 0
      BY <1>2, <1>3, <1>6, <2>1, WaitInv DEF AskRevert
  <2>2. CASE pending[s] = 0
    <3>1. members \subseteq Session /\ DOMAIN targets \subseteq members
        BY <1>2, <1>4 DEF Members, Targets
    <3>2. host[h].pc = "idle"
          /\ Prepare(h, NewTx(s, scope, FALSE, n, members, targets,
                              {m \in Selected(members, s, n) : log[m].op = "on"}))
        BY <1>6, <2>2 DEF AskRevert
    <3> HIDE DEF s, members, targets
    <3> QED BY <1>5, <3>1, <3>2, PrepareInv
  <2> QED BY <2>1, <2>2
<1>7. ASSUME NEW s \in Heads, AskRedo(h, s) PROVE IInv'
  <2> DEFINE ids == {reverts[s][i] : i \in DOMAIN reverts[s]}
             from(m) == {t \in ids : m \in DOMAIN txs[t].targets}
             members == UNION {txs[t].members : t \in ids}
             targets == [m \in {k \in Session : from(k) # {}} |-> txs[Latest(from(m))].targets[m]]
  <2>1. s \in Session
      BY <1>2
  <2>2. CASE pending[s] # 0
      BY <1>3, <1>7, <2>1, <2>2, WaitInv DEF AskRedo
  <2>3. CASE pending[s] = 0
    <3>1. ids \subseteq 1 .. Len(txs)
      <4>1. reverts[s] \in Seq(1 .. Len(txs))
          BY <1>1, <2>1 DEF Typed, LedgerTyped
      <4> QED BY <4>1, ElementTyped
    <3>2. members \subseteq Session
        BY <1>1, <3>1 DEF TxOK
    <3>3. DOMAIN targets \subseteq members
      <4> SUFFICES ASSUME NEW k \in Session, from(k) # {} PROVE k \in members
          OBVIOUS
      <4>1. PICK u \in ids : k \in DOMAIN txs[u].targets
          OBVIOUS
      <4>2. TxOK(txs[u])
          BY <1>1, <3>1
      <4> QED BY <4>1, <4>2 DEF TxOK
    <3>4. host[h].pc = "idle"
          /\ \E b, ops : Prepare(h, NewTx(s, "tree", TRUE, b, members, targets, ops))
        BY <1>7, <2>3 DEF AskRedo
    <3> HIDE DEF ids, from, members, targets
    <3> QED BY <1>5, <3>2, <3>3, <3>4, PrepareInv
  <2> QED BY <2>2, <2>3
<1>8. ASSUME NEW n \in Seqs, AskFiles(h, n) PROVE IInv'
  <2>1. /\ host[h].pc = "idle"
        /\ Prepare(h, NewTx(log[n].session, "files", log[n].undone, 0, Tree(log[n].session), <<>>, {n}))
      BY <1>8 DEF AskFiles
  <2>2. Tree(log[n].session) \subseteq Session /\ DOMAIN <<>> \subseteq Tree(log[n].session)
      BY <1>2, <1>4
  <2> QED BY <1>5, <2>1, <2>2, PrepareInv
<1> QED BY <1>6, <1>7, <1>8 DEF Ask

-----------------------------------------------------------------------------
(* Settlement *)

\* A settlement lifts the fence of one transaction, which nobody works on
\* from then on.
LEMMA SettleInv ==
    ASSUME IInv, NEW t \in Pending, NEW st \in {"committed", "cancelled"}, Settled(t, st),
           UNCHANGED <<gen, store>>, told' \subseteq 1 .. Len(txs),
           reverts' \in [Session -> Seq(1 .. Len(txs))],
           LogTyped', NoneOpened, Len(log') = Len(log),
           host' \in [Host -> HostRec(Len(txs))],
           \A g \in Host : host'[g].pc \notin {"down", "idle"} => host'[g].tx # 0,
           \A g \in Host : Working(g)' => Working(g) /\ host'[g] = host[g] /\ host[g].tx # t
    PROVE  IInv'
<1>1. /\ Typed /\ t \in 1 .. Len(txs) /\ Len(txs) \in Nat /\ DOMAIN txs = 1 .. Len(txs)
      /\ TxOK(txs[t]) /\ txs[t].state = "prepared" /\ t # 0
      /\ Pending = {u \in 1 .. Len(txs) : txs[u].state = "prepared"}
    BY TxNumbers DEF IInv, Typed
<1>2. PICK y : y = [txs[t] EXCEPT !.state = st, !.phase = st]
    OBVIOUS
<1>3. /\ y.phase = st /\ y.state = st /\ y.members = txs[t].members
      /\ y.targets = txs[t].targets /\ y.before = txs[t].before /\ DOMAIN y = TxFields
    BY <1>1, <1>2 DEF TxOK, TxFields
<1>4. TxOK(y)
    BY <1>1, <1>3 DEF TxOK, Advanced
<1>5. txs' = [txs EXCEPT ![t] = y]
    BY <1>2 DEF Settled
<1>6. /\ TxsTyped' /\ Len(txs') = Len(txs) /\ txs'[t] = y
      /\ \A u \in 1 .. Len(txs) : u # t => txs'[u] = txs[u]
    BY <1>1, <1>4, <1>5, OneTx DEF Typed
<1>7. \A s \in Session : pending'[s] = IF pending[s] = t THEN 0 ELSE pending[s]
    BY DEF Settled
<1>8. Typed'
  <2>1. pending' \in [Session -> 0 .. Len(txs)]
    <3>1. pending \in [Session -> 0 .. Len(txs)] /\ 0 \in 0 .. Len(txs)
        BY <1>1 DEF Typed, LedgerTyped
    <3> QED BY <3>1 DEF Settled
  <2>2. LedgerTyped'
      BY <1>1, <1>6, <2>1 DEF Typed, LedgerTyped
  <2>3. StoreTyped'
      BY <1>1, SameStore
  <2>4. HostTyped'
      BY <1>1, <1>6 DEF Typed, HostTyped
  <2> QED BY <1>6, <2>2, <2>3, <2>4 DEF Typed
<1>9. \A u : u \in Pending' <=> u \in Pending /\ u # t
    BY <1>1, <1>3, <1>6 DEF Pending, TxsTyped
<1>10. FencesOwned'
  <2>1. ASSUME NEW s \in Session, pending'[s] # 0
        PROVE  txs'[pending'[s]].state = "prepared" /\ s \in txs'[pending'[s]].members
    <3>1. pending'[s] = pending[s] /\ pending[s] # t /\ pending[s] \in 1 .. Len(txs)
        BY <2>1, <1>1, <1>7 DEF Typed, LedgerTyped
    <3> QED BY <1>6, <3>1 DEF IInv, FencesOwned
  <2>2. ASSUME NEW u \in Pending', NEW s \in txs'[u].members PROVE pending'[s] = u
    <3>1. u \in Pending /\ u # t /\ u \in 1 .. Len(txs) /\ txs'[u] = txs[u]
        BY <1>1, <1>6, <1>9
    <3>2. pending[s] = u /\ s \in Session
        BY <1>1, <2>2, <3>1, TxNumbers DEF IInv, FencesOwned, TxOK, Typed
    <3> QED BY <1>7, <3>1, <3>2
  <2> QED BY <2>1, <2>2 DEF FencesOwned
<1>11. \A g \in Host : Working(g)' =>
           /\ host'[g] = host[g] /\ Working(g) /\ host[g].tx \in 1 .. Len(txs)
           /\ txs'[host[g].tx] = txs[host[g].tx]
    BY <1>1, <1>6, HostFields DEF Working
<1>12. InPhase'
  <2> SUFFICES ASSUME NEW g \in Host, Working(g)'
               PROVE  /\ txs'[host'[g].tx].state = "prepared"
                      /\ Fits(host'[g].pc, txs'[host'[g].tx])
                      /\ host'[g].todo \subseteq DOMAIN txs'[host'[g].tx].targets
      BY DEF InPhase, Fits
  <2> QED BY <1>11 DEF IInv, InPhase
<1>13. OneHolder'
    BY <1>11 DEF IInv, OneHolder
<1>14. \A u \in 1 .. Len(txs) : Open(u)' \subseteq Open(u)
  <2>1. \A u \in 1 .. Len(txs) : txs'[u].members = txs[u].members
      BY <1>3, <1>6
  <2> QED BY <2>1 DEF NoneOpened, Open, Seqs
<1>15. Quiet'
  <2> SUFFICES ASSUME NEW u \in Pending', txs'[u].phase # "prepared" PROVE Open(u)' = {}
      BY DEF Quiet
  <2>1. u \in Pending /\ u \in 1 .. Len(txs) /\ txs'[u] = txs[u]
      BY <1>1, <1>6, <1>9
  <2>2. Open(u) = {}
      BY <2>1 DEF IInv, Quiet
  <2> QED BY <1>14, <2>1, <2>2
<1>16. StillQuiet'
  <2> SUFFICES ASSUME NEW g \in Host, host'[g].pc = "mark", NEW u, u = host'[g].tx
               PROVE  Open(u)' = {}
      BY DEF StillQuiet
  <2>1. Working(g)'
      BY DEF Working
  <2>2. host[g].pc = "mark" /\ u = host[g].tx /\ u \in 1 .. Len(txs)
      BY <1>11, <2>1
  <2>3. Open(u) = {}
      BY <2>2 DEF IInv, StillQuiet
  <2> QED BY <1>14, <2>2, <2>3
<1> QED BY <1>8, <1>10, <1>12, <1>13, <1>15, <1>16 DEF IInv

\* The host that settles a transaction stops working on it, and was the only
\* one.
LEMMA HolderSettles ==
    ASSUME IInv, NEW h \in Host, Working(h), host' = Done(h) \/ host' = Thrown(h)
    PROVE  /\ host' \in [Host -> HostRec(Len(txs))]
           /\ \A g \in Host : host'[g].pc \notin {"down", "idle"} => host'[g].tx # 0
           /\ \A g \in Host : Working(g)' =>
                 Working(g) /\ host'[g] = host[g] /\ host[g].tx # host[h].tx
<1>1. Typed /\ Len(txs) \in Nat /\ host \in [Host -> HostRec(Len(txs))]
    BY TxNumbers DEF IInv, Typed, HostTyped
<1>2. host[h].list \in SUBSET (1 .. Len(txs)) /\ {} \in SUBSET (1 .. Len(txs))
    BY <1>1, HostFields
<1>3. \E l \in SUBSET (1 .. Len(txs)) : host' = Put(h, "idle", 0, {}, l)
    BY <1>2 DEF Done, Thrown
<1>4. PICK l \in SUBSET (1 .. Len(txs)) : host' = Put(h, "idle", 0, {}, l)
    BY <1>3
<1>5. PICK r : r = [pc |-> "idle", tx |-> 0, todo |-> {}, list |-> l]
    OBVIOUS
<1>6. r \in HostRec(Len(txs)) /\ r.pc = "idle"
    BY <1>1, <1>5 DEF HostRec, PC
<1>7. host' = [host EXCEPT ![h] = r]
    BY <1>4, <1>5 DEF Put
<1>8. /\ host' \in [Host -> HostRec(Len(txs))] /\ host'[h].pc = "idle"
      /\ \A g \in Host : g # h => host'[g] = host[g]
    BY <1>1, <1>6, <1>7, HostChange
<1>9. \A g \in Host : host'[g].pc \notin {"down", "idle"} => host'[g].tx # 0
    BY <1>1, <1>8 DEF Typed, HostTyped
<1>10. \A g \in Host : Working(g)' =>
           Working(g) /\ host'[g] = host[g] /\ host[g].tx # host[h].tx
    BY <1>8 DEF IInv, OneHolder, Working
<1> QED BY <1>8, <1>9, <1>10

LEMMA AbandonInv ==
    ASSUME IInv, NEW h \in Host, Abandon(h)
    PROVE  IInv'
<1>1. PICK t : t = host[h].tx
    OBVIOUS
<1>2. Working(h) /\ (host' = Done(h) \/ host' = Thrown(h))
    BY DEF Abandon, Working
<1>3. Typed /\ t \in Pending
    BY <1>1, <1>2, AtWork DEF IInv
<1>4. Settled(t, "cancelled") /\ UNCHANGED <<log, gen, reverts, store>>
    BY <1>1 DEF Abandon
<1>5. LogTyped' /\ NoneOpened /\ Len(log') = Len(log)
    BY <1>3, <1>4, SameLog
<1>6. reverts' \in [Session -> Seq(1 .. Len(txs))]
    BY <1>3, <1>4 DEF Typed, LedgerTyped
<1>7. told' = told \/ told' = told \cup host[h].list
    BY DEF Abandon
<1>8. told' \subseteq 1 .. Len(txs)
    BY <1>3, <1>7, HostFields DEF Typed, HostTyped
<1> QED BY <1>1, <1>2, <1>3, <1>4, <1>5, <1>6, <1>8, HolderSettles, SettleInv

\* The operations and prompts that change sides are no calls.
LEMMA ProjectedLog ==
    ASSUME Typed, NEW tx, log' = Projected(tx)
    PROVE  LogTyped' /\ NoneOpened /\ Len(log') = Len(log)
<1>1. /\ log \in Seq(LogRec) /\ Len(log) \in Nat /\ Len(log) <= MaxSeq
      /\ \A n \in 1 .. Len(log) : log[n] \in LogRec
    BY ElementTyped DEF Typed, LogTyped
<1>2. ASSUME NEW n \in 1 .. Len(log)
      PROVE  /\ log'[n] \in LogRec /\ log'[n].session = log[n].session
             /\ log'[n].op = "open" => log[n].op = "open"
  <2> DEFINE op == IF tx.scope # "files" /\ n \in tx.ops THEN IF tx.redo THEN "on" ELSE "off"
                   ELSE log[n].op
             undone == IF ~(tx.scope # "files") /\ n \in tx.ops THEN ~tx.redo ELSE log[n].undone
             reverted == IF tx.scope # "files" /\ n \in Selected(tx.members, tx.root, tx.boundary)
                         THEN ~tx.redo ELSE log[n].reverted
  <2>1. log'[n] = [log[n] EXCEPT !.op = op, !.undone = undone, !.reverted = reverted]
      BY Zenon DEF Projected, Seqs
  <2>2. (~tx.redo) \in BOOLEAN
      BY Zenon
  <2>3. log[n].undone \in BOOLEAN /\ log[n].reverted \in BOOLEAN
      BY <1>1 DEF LogRec
  <2>4. undone \in BOOLEAN /\ reverted \in BOOLEAN
      BY <2>2, <2>3, Zenon
  <2>5. op \in {"cancelled", "on", "off", log[n].op}
      OBVIOUS
  <2> HIDE DEF op, undone, reverted
  <2>6. op \in {"open", "cancelled", "on", "off"} /\ (op = "open" => log[n].op = "open")
      BY <1>1, <2>5 DEF LogRec
  <2>7. PICK x : x = [log[n] EXCEPT !.op = op, !.undone = undone, !.reverted = reverted]
      OBVIOUS
  <2>8. x \in LogRec /\ x.session = log[n].session /\ x.op = op
      BY <1>1, <2>4, <2>6, <2>7 DEF LogRec
  <2> QED BY <2>1, <2>6, <2>7, <2>8
<1>3. log' = [n \in 1 .. Len(log) |-> log'[n]]
    BY DEF Projected, Seqs
<1>4. log' \in Seq(LogRec) /\ Len(log') = Len(log)
    BY <1>1, <1>2, <1>3, FunctionIsSequence
<1> QED BY <1>1, <1>2, <1>4 DEF LogTyped, NoneOpened

LEMMA CommitInv ==
    ASSUME IInv, NEW h \in Host, Commit(h)
    PROVE  IInv'
<1>1. PICK t : t = host[h].tx
    OBVIOUS
<1>2. Working(h) /\ host' = Done(h)
    BY DEF Commit, Working
<1>3. Typed /\ t \in Pending /\ t \in 1 .. Len(txs)
    BY <1>1, <1>2, AtWork DEF IInv
<1>4. Settled(t, "committed") /\ UNCHANGED <<gen, store, told>> /\ log' = Projected(txs[t])
    BY <1>1 DEF Commit
<1>5. LogTyped' /\ NoneOpened /\ Len(log') = Len(log)
    BY <1>3, <1>4, ProjectedLog
<1>6. reverts' \in [Session -> Seq(1 .. Len(txs))]
  <2>1. reverts \in [Session -> Seq(1 .. Len(txs))]
      BY <1>3 DEF Typed, LedgerTyped
  <2>2. \/ reverts' = reverts
        \/ reverts' = [reverts EXCEPT ![txs[t].root] = <<>>]
        \/ reverts' = [reverts EXCEPT ![txs[t].root] = Append(@, t)]
      BY <1>1 DEF Commit
  <2>3. \A q \in Seq(1 .. Len(txs)) : Append(q, t) \in Seq(1 .. Len(txs))
      BY <1>3, Appended
  <2>4. <<>> \in Seq(1 .. Len(txs))
      OBVIOUS
  <2> QED BY <2>1, <2>2, <2>3, <2>4
<1>7. told' \subseteq 1 .. Len(txs)
    BY <1>3, <1>4 DEF Typed, HostTyped
<1> QED BY <1>1, <1>2, <1>3, <1>4, <1>5, <1>6, <1>7, HolderSettles, SettleInv

LEMMA ColdCancelInv ==
    ASSUME IInv, NEW t \in DOMAIN txs, ColdCancel(t)
    PROVE  IInv'
<1>1. Typed /\ t \in Pending
    BY DEF IInv, ColdCancel
<1>2. Settled(t, "cancelled") /\ UNCHANGED <<gen, reverts, store, host, told>>
    BY DEF ColdCancel
<1>3. LogTyped' /\ NoneOpened /\ Len(log') = Len(log)
  <2>1. \E S : log' = Cancelled(S)
      BY DEF ColdCancel
  <2> QED BY <1>1, <2>1, CancelledLog
<1>4. /\ reverts' \in [Session -> Seq(1 .. Len(txs))]
      /\ host' \in [Host -> HostRec(Len(txs))]
      /\ \A g \in Host : host'[g].pc \notin {"down", "idle"} => host'[g].tx # 0
    BY <1>1, <1>2 DEF Typed, LedgerTyped, HostTyped
<1>5. \A g \in Host : ~Working(g)'
    BY <1>2 DEF ColdCancel, Up, Working
<1>6. told' \subseteq 1 .. Len(txs)
    BY <1>1, <1>2 DEF Typed, HostTyped
<1> QED BY <1>1, <1>2, <1>3, <1>4, <1>5, <1>6, SettleInv

-----------------------------------------------------------------------------
(* The theorems *)

\* The fences, the lock and the phases keep the invariant, whatever is asked,
\* fails or crashes.
LEMMA StepInv == IInv /\ [Next]_vars => IInv'
<1> SUFFICES ASSUME IInv, [Next]_vars PROVE IInv'
    OBVIOUS
<1>1. DOMAIN txs = 1 .. Len(txs) /\ told \subseteq 1 .. Len(txs)
    BY TxNumbers DEF IInv, Typed, HostTyped
<1>2. CASE Work
    BY <1>2, PromptInv, PublishInv DEF Work
<1>3. ASSUME NEW h \in Host, Ask(h) PROVE IInv'
    BY <1>3, AskInv
<1>4. ASSUME NEW h \in Host, Step(h) PROVE IInv'
  <2>1. CASE Take(h)
      BY <2>1, TakeInv
  <2>2. CASE LockTimeout(h)
    <3>1. told' \subseteq 1 .. Len(txs)
        BY <1>1, <2>2, HostFields DEF LockTimeout, IInv
    <3> QED BY <2>2, <3>1, LeaveInv DEF LockTimeout
  <2>3. CASE Stop(h)
      BY <2>3, StopInv
  <2>4. CASE Mark(h)
      BY <2>4, MarkInv
  <2>5. CASE Turn(h) \/ Decide(h) \/ GiveBack(h)
      BY <2>5, PhaseInv
  <2>6. CASE Abandon(h)
      BY <2>6, AbandonInv
  <2>7. CASE Commit(h)
      BY <2>7, CommitInv
  <2>8. ASSUME NEW s \in Session, Rewind(h, s) \/ Unknown(h, s) \/ Restore(h, s) PROVE IInv'
      BY <2>8, MarkerInv, TurnsInv
  <2>9. ASSUME NEW t \in DOMAIN txs, Resume(h, t) PROVE IInv'
      BY <2>9, ResumeInv
  <2> QED BY <1>4, <2>1, <2>2, <2>3, <2>4, <2>5, <2>6, <2>7, <2>8, <2>9 DEF Step
<1>5. ASSUME NEW h \in Host, Fail(h) PROVE IInv'
  <2>1. CASE \E S \in SUBSET Seqs : StopUnconfirmed(h, S)
      BY <2>1, StopInv
  <2>2. CASE MarkFails(h) \/ RewindFails(h) \/ Refuse(h)
      BY <2>2, TurnsInv
  <2>3. CASE Drop(h)
    <3>1. Working(h)
        BY <2>3 DEF Drop, Working
    <3>2. host[h].tx \in 1 .. Len(txs)
        BY <3>1, AtWork
    <3>3. /\ UNCHANGED <<ledger, store>> /\ host' = Thrown(h)
          /\ told' = told \cup {host[h].tx} \cup host[h].list
        BY <2>3 DEF Drop
    <3>4. told' \subseteq 1 .. Len(txs)
        BY <1>1, <3>2, <3>3, HostFields DEF IInv
    <3> QED BY <3>3, <3>4, LeaveInv
  <2>4. CASE Crash(h)
      BY <1>1, <2>4, LeaveInv DEF Crash
  <2> QED BY <1>5, <2>1, <2>2, <2>3, <2>4 DEF Fail
<1>6. ASSUME NEW h \in Host, Start(h) PROVE IInv'
    BY <1>1, <1>6, LeaveInv DEF Start
<1>7. ASSUME NEW t \in DOMAIN txs, ColdCancel(t) PROVE IInv'
    BY <1>7, ColdCancelInv
<1>8. CASE UNCHANGED vars
  <2>1. UNCHANGED <<log, gen, pending, txs, reverts, kept, adrift, marker, host, told>>
      BY <1>8 DEF vars
  <2>2. Typed'
      BY <2>1 DEF IInv, Typed, LogTyped, TxsTyped, LedgerTyped, StoreTyped, HostTyped
  <2>3. FencesOwned' /\ InPhase' /\ OneHolder'
      BY <2>1 DEF IInv, FencesOwned, Pending, InPhase, OneHolder, Working, Fits
  <2>4. \A u : Open(u)' = Open(u)
      BY <2>1 DEF Open, Seqs
  <2>5. Quiet'
      BY <2>1, <2>4 DEF IInv, Quiet, Pending
  <2>6. StillQuiet'
    <3> SUFFICES ASSUME NEW g \in Host, host'[g].pc = "mark", NEW u, u = host'[g].tx
                 PROVE  Open(u)' = {}
        BY DEF StillQuiet
    <3> QED BY <2>1, <2>4 DEF IInv, StillQuiet
  <2> QED BY <2>2, <2>3, <2>5, <2>6 DEF IInv
<1> QED BY <1>2, <1>3, <1>4, <1>5, <1>6, <1>7, <1>8 DEF Next

\* Every state of the coordinator has the invariant.
THEOREM Invariance == Spec => []IInv
<1>1. Init => IInv
    BY InitInv
<1>2. IInv /\ [Next]_vars => IInv'
    BY StepInv
<1> QED BY <1>1, <1>2, PTL DEF Spec

\* The ledger, the store and the hosts keep their shape.
THEOREM TypeCorrect == Spec => []TypeOK
<1>1. IInv => TypeOK
    BY TypeFromParts
<1> QED BY <1>1, Invariance, PTL

\* One transaction fences a session, and every fence has its transaction:
\* prepareRevert and settleRevert set and lift all of a request's fences at
\* once, and no crash or failed call between them leaves one behind.
THEOREM FencesCorrect == Spec => []FencesOwned
<1>1. IInv => FencesOwned
    BY DEF IInv
<1> QED BY <1>1, Invariance, PTL

\* No call of a session whose history is being rewritten is still running:
\* the receipt of cancelAndWait stays true for as long as the fence stands.
THEOREM WritersStopped == Spec => []Quiet
<1>1. IInv => Quiet
    BY DEF IInv
<1> QED BY <1>1, Invariance, PTL

-----------------------------------------------------------------------------
(* The decision *)

\* What a step keeps of a decided transaction.
Keeps(t) ==
    /\ txs[t].phase = "files" /\ txs[t].scope # "files"
          => /\ txs'[t].phase \in {"files", "committed"}
             /\ \A s \in txs[t].members : marker'[s] = marker[s]
    /\ txs[t].phase = "restoring" => txs'[t].phase \in {"restoring", "cancelled"}

LEMMA NothingMoves ==
    ASSUME NEW t, UNCHANGED <<txs, marker>>
    PROVE  Keeps(t)
BY DEF Keeps

\* A recorded phase is followed by the next one only.
LEMMA PhaseKeeps ==
    ASSUME IInv, NEW t \in Pending, NEW h \in Host,
           Mark(h) \/ Turn(h) \/ Decide(h) \/ GiveBack(h)
    PROVE  Keeps(t)
<1>1. PICK u : u = host[h].tx
    OBVIOUS
<1>2. Working(h) /\ host[h].pc \in {"mark", "turn", "rewind", "giveback"} /\ marker' = marker
    BY DEF Mark, Turn, Decide, GiveBack, Working, store
<1>3. txs[u].phase \in {"prepared", "stopped", "conversation"}
    BY <1>1, <1>2, AtWork DEF Fits
<1>4. CASE t = u
    BY <1>3, <1>4 DEF Keeps
<1>5. CASE t # u
  <2>1. txs'[t] = txs[t]
    <3>1. \E y : txs' = [txs EXCEPT ![u] = y]
      <4>1. CASE Mark(h)
        <5>1. \E f : txs' = [txs EXCEPT ![u].phase = "stopped", ![u].before = f]
            BY <1>1, <4>1 DEF Mark
        <5> QED BY <5>1
      <4>2. CASE Turn(h) \/ Decide(h) \/ GiveBack(h)
          BY <1>1, <4>2 DEF Turn, Decide, GiveBack, Phase
      <4> QED BY <4>1, <4>2
    <3>2. PICK y : txs' = [txs EXCEPT ![u] = y]
        BY <3>1
    <3>3. t \in DOMAIN txs
        BY DEF Pending
    <3> QED BY <1>5, <3>2, <3>3
  <2> QED BY <1>2, <2>1 DEF Keeps
<1> QED BY <1>4, <1>5

\* The markers of a decided transaction belong to its own fence.
LEMMA MarkerKeeps ==
    ASSUME IInv, NEW t \in Pending, NEW h \in Host, NEW s \in Session,
           Rewind(h, s) \/ Restore(h, s)
    PROVE  Keeps(t)
<1>1. PICK u : u = host[h].tx
    OBVIOUS
<1>2. Working(h) /\ host[h].pc \in {"rewind", "restore", "putback"} /\ s \in host[h].todo
      /\ txs' = txs
    BY DEF Rewind, Restore, NextOf, Working, ledger
<1>3. u \in Pending /\ txs[u].phase \in {"conversation", "restoring"}
    BY <1>1, <1>2, AtWork DEF Fits
<1>4. s \in txs[u].members
    BY <1>1, <1>2, AtWork DEF TxOK
<1>5. \E m : marker' = [marker EXCEPT ![s] = m]
    BY DEF Rewind, Restore
<1>6. CASE txs[t].phase = "files"
  <2>1. s \notin txs[t].members
      BY <1>3, <1>4, <1>6 DEF IInv, FencesOwned
  <2>2. \A r \in txs[t].members : marker'[r] = marker[r]
    <3>1. marker \in [Session -> 0 .. MaxSeq] /\ txs[t].members \subseteq Session
        BY TxNumbers DEF IInv, Typed, StoreTyped, TxOK, Pending
    <3> QED BY <1>5, <2>1, <3>1
  <2> QED BY <1>2, <1>6, <2>2 DEF Keeps
<1>7. CASE txs[t].phase # "files"
    BY <1>2, <1>7 DEF Keeps
<1> QED BY <1>6, <1>7

\* A settlement takes the side its phase decided.
LEMMA SettleKeeps ==
    ASSUME IInv, NEW t \in Pending, NEW u \in Pending, NEW st, Settled(u, st), marker' = marker,
           t = u => \/ st = "committed" /\ txs[t].phase = "files"
                    \/ st = "cancelled" /\ (txs[t].phase = "files" => txs[t].scope = "files")
    PROVE  Keeps(t)
<1>1. t \in DOMAIN txs /\ u \in DOMAIN txs
    BY DEF Pending
<1>2. PICK y : y = [txs[u] EXCEPT !.state = st, !.phase = st]
    OBVIOUS
<1>3. y.phase = st
  <2>1. DOMAIN txs[u] = TxFields
      BY <1>1, TxNumbers DEF IInv, Typed, TxOK
  <2> QED BY <1>2, <2>1 DEF TxFields
<1>4. txs' = [txs EXCEPT ![u] = y]
    BY <1>2 DEF Settled
<1>5. CASE t = u
    BY <1>1, <1>3, <1>4, <1>5 DEF Keeps
<1>6. CASE t # u
    BY <1>1, <1>4, <1>6 DEF Keeps
<1> QED BY <1>5, <1>6

LEMMA StepKeeps ==
    ASSUME IInv, NEW t \in Pending, Next
    PROVE  Keeps(t)
<1>1. ASSUME NEW s \in Session, Prompt(s) PROVE Keeps(t)
  <2>1. ~Fenced(s) /\ txs' = txs /\ marker' = [marker EXCEPT ![s] = 0]
      BY <1>1 DEF Prompt
  <2>2. s \notin txs[t].members
      BY <2>1, NotAMember
  <2>3. marker \in [Session -> 0 .. MaxSeq] /\ txs[t].members \subseteq Session
      BY TxNumbers DEF IInv, Typed, StoreTyped, TxOK, Pending
  <2> QED BY <2>1, <2>2, <2>3 DEF Keeps
<1>2. ASSUME NEW n \in Seqs, Publish(n) PROVE Keeps(t)
    BY <1>2, NothingMoves DEF Publish, store
<1>3. ASSUME NEW h \in Host, Ask(h) PROVE Keeps(t)
  <2>1. CASE UNCHANGED <<txs, marker>>
      BY <2>1, NothingMoves
  <2>2. ASSUME NEW tx, Prepare(h, tx) PROVE Keeps(t)
    <3>1. txs' = Append(txs, tx) /\ marker' = marker
        BY <2>2 DEF Prepare, store
    <3>2. t \in 1 .. Len(txs) /\ DOMAIN txs = 1 .. Len(txs) /\ Len(txs) \in Nat
        BY TxNumbers DEF IInv, Typed
    <3>3. txs \in Seq({txs[v] : v \in 1 .. Len(txs)} \cup {tx})
      <4>1. txs = [v \in 1 .. Len(txs) |-> txs[v]]
          BY DEF IInv, Typed, TxsTyped
      <4> QED BY <3>2, <4>1, FunctionIsSequence
    <3>4. txs'[t] = txs[t]
        BY <3>1, <3>2, <3>3, Appended
    <3> QED BY <3>1, <3>4 DEF Keeps
  <2>3. UNCHANGED <<txs, marker>> \/ \E tx : Prepare(h, tx)
    <3>1. ASSUME NEW n, NEW scope, AskRevert(h, n, scope)
          PROVE  UNCHANGED <<txs, marker>> \/ \E tx : Prepare(h, tx)
        BY <3>1 DEF AskRevert, Join, ledger, store
    <3>2. ASSUME NEW s, AskRedo(h, s)
          PROVE  UNCHANGED <<txs, marker>> \/ \E tx : Prepare(h, tx)
        BY <3>2 DEF AskRedo, Join, ledger, store
    <3>3. ASSUME NEW n, AskFiles(h, n) PROVE \E tx : Prepare(h, tx)
        BY <3>3 DEF AskFiles
    <3> QED BY <1>3, <3>1, <3>2, <3>3 DEF Ask
  <2> QED BY <2>1, <2>2, <2>3
<1>4. ASSUME NEW h \in Host, Step(h) PROVE Keeps(t)
  <2>1. CASE Take(h) \/ LockTimeout(h) \/ Stop(h) \/ \E u \in DOMAIN txs : Resume(h, u)
      BY <2>1, NothingMoves DEF Take, LockTimeout, Stop, Resume, ledger, store
  <2>2. CASE Mark(h) \/ Turn(h) \/ Decide(h) \/ GiveBack(h)
      BY <2>2, PhaseKeeps
  <2>3. CASE Abandon(h)
    <3>1. Working(h) /\ Settled(host[h].tx, "cancelled") /\ marker' = marker
        BY <2>3 DEF Abandon, Working, store
    <3>2. /\ host[h].tx \in Pending
          /\ txs[host[h].tx].phase = "files" => txs[host[h].tx].scope = "files"
        BY <2>3, <3>1, AtWork DEF Abandon, Fits
    <3> QED BY <3>1, <3>2, SettleKeeps
  <2>4. CASE Commit(h)
    <3>1. Working(h) /\ Settled(host[h].tx, "committed") /\ marker' = marker
        BY <2>4 DEF Commit, Working, store
    <3>2. host[h].tx \in Pending /\ txs[host[h].tx].phase = "files"
        BY <2>4, <3>1, AtWork DEF Commit, Fits
    <3> QED BY <3>1, <3>2, SettleKeeps
  <2>5. ASSUME NEW s \in Session, Rewind(h, s) \/ Restore(h, s) PROVE Keeps(t)
      BY <2>5, MarkerKeeps
  <2>6. ASSUME NEW s \in Session, Unknown(h, s) PROVE Keeps(t)
      BY <2>6, NothingMoves DEF Unknown, ledger, store
  <2> QED BY <1>4, <2>1, <2>2, <2>3, <2>4, <2>5, <2>6 DEF Step
<1>5. ASSUME NEW h \in Host, Fail(h) \/ Start(h) PROVE Keeps(t)
    BY <1>5, NothingMoves DEF Fail, Start, StopUnconfirmed, MarkFails, RewindFails, Refuse,
                              Turns, Drop, Crash, ledger, store
<1>6. ASSUME NEW u \in DOMAIN txs, ColdCancel(u) PROVE Keeps(t)
  <2>1. u \in Pending /\ Settled(u, "cancelled") /\ marker' = marker /\ txs[u].phase = "prepared"
      BY <1>6 DEF ColdCancel, store
  <2> QED BY <2>1, SettleKeeps
<1> QED BY <1>1, <1>2, <1>3, <1>4, <1>5, <1>6 DEF Next, Work

\* A request recorded as decided is committed and its markers are left as the
\* rewind put them; one recorded as given back is cancelled: whichever process
\* resumes it, after whatever failures and crashes.
THEOREM DecisionFinal == Spec => Final
<1>1. IInv /\ [Next]_vars =>
        [\A t \in Pending :
            /\ txs[t].phase = "files" /\ txs[t].scope # "files"
                  => /\ txs'[t].phase \in {"files", "committed"}
                     /\ \A s \in txs[t].members : marker'[s] = marker[s]
            /\ txs[t].phase = "restoring" => txs'[t].phase \in {"restoring", "cancelled"}]_vars
    BY StepKeeps DEF Keeps
<1> QED BY <1>1, Invariance, PTL DEF Spec, Final

-----------------------------------------------------------------------------
(* The history *)

NoHeadAbove == Heads \subseteq {Root} \/ Root \notin Heads

\* The transactions a Redo of a head would undo.
Listed(a) == {reverts[a][i] : i \in DOMAIN reverts[a]}
SelectedBy(t) == Selected(txs[t].members, txs[t].root, txs[t].boundary)
Rewinds(t) == txs[t].scope # "files" /\ ~txs[t].redo
Redoes(t)  == txs[t].scope # "files" /\ txs[t].redo
\* The marker a request leaves a session with.
Goal(t, s) == IF txs[t].redo THEN 0 ELSE txs[t].targets[s]
\* The marker a session has when the request that fences it is given up.
Base(s) == IF /\ pending[s] # 0
              /\ txs[pending[s]].phase \in Advanced
              /\ s \in DOMAIN txs[pending[s]].targets
           THEN txs[pending[s]].before[s] ELSE marker[s]

TxForm == \A t \in DOMAIN txs :
    /\ txs[t].root \in Heads /\ txs[t].root \in txs[t].members
    /\ txs[t].members \subseteq Tree(txs[t].root)
    /\ txs[t].redo \in BOOLEAN /\ txs[t].boundary \in Nat
    /\ txs[t].scope = "files" => DOMAIN txs[t].targets = {}
    /\ txs[t].scope # "files" => txs[t].root \in DOMAIN txs[t].targets

Generations == \A n \in Seqs : LET s == log[n].session IN
    /\ log[n].gen <= gen[s]
    /\ log[n].gen = gen[s] =>
          /\ pending[s] = 0 /\ reverts[s] = <<>>
          /\ n \in kept /\ n \notin adrift /\ ~log[n].reverted

Origins == Root \in Heads =>
    /\ \A n \in Of(Root) : log[n].gen = gen[Root] => log[n].op \in {"open", "on"}
    /\ \A m, n \in Of(Root) : m <= n => log[m].gen <= log[n].gen
    /\ \A n \in Seqs : log[n].session # Root => log[n].origin \in Of(Root)
    /\ \A m, n \in Seqs : log[m].session = log[n].session /\ log[n].session # Root /\ m <= n =>
                             log[m].origin <= log[n].origin

Markers == \A s \in Session : \A n \in (kept \cap Of(s)) \ adrift :
    log[n].reverted <=> Base(s) # 0 /\ n >= Base(s)

Files == \A n \in Seqs \ adrift :
    /\ log[n].op = "on" => n \in kept /\ ~log[n].reverted
    /\ log[n].op = "off" => n \notin kept \/ log[n].reverted

\* A host has moved the markers it has gone through, and no other.
Steers(h) == LET t == host[h].tx IN
    /\ host[h].pc \in {"stop", "mark", "turn"} => host[h].todo = DOMAIN txs[t].targets
    /\ host[h].pc = "rewind" => \A s \in DOMAIN txs[t].targets \ host[h].todo : marker[s] = Goal(t, s)
    /\ host[h].pc \in {"restore", "putback"} =>
          \A s \in DOMAIN txs[t].targets \ host[h].todo : marker[s] = txs[t].before[s]
Progress == \A h \in Host : Steers(h)

Decided == \A t \in Pending : txs[t].phase = "files" =>
    \A s \in DOMAIN txs[t].targets : marker[s] = Goal(t, s)

Covers(t) == \A n \in SelectedBy(t) : log[n].session \in DOMAIN txs[t].targets
Cuts(t) == \A m \in DOMAIN txs[t].targets :
    /\ txs[t].targets[m] \in Seqs
    /\ \A n \in Of(m) : n \in SelectedBy(t) <=> n >= txs[t].targets[m]
Holds(t) == txs[t].ops \subseteq SelectedBy(t) /\ txs[t].ops \subseteq kept \cup adrift

PendingReverts == \A t \in Pending : Rewinds(t) =>
    /\ Covers(t) /\ Cuts(t) /\ Holds(t)
    /\ \A n \in SelectedBy(t) : log[n].op = "on" => n \in txs[t].ops
    /\ \A u \in Listed(txs[t].root) : txs[t].boundary <= txs[u].boundary

PendingRedos == \A t \in Pending : Redoes(t) =>
    /\ \A u \in Listed(txs[t].root) :
          /\ txs[u].members \subseteq txs[t].members
          /\ DOMAIN txs[u].targets \subseteq DOMAIN txs[t].targets
          /\ txs[t].boundary <= txs[u].boundary
          /\ txs[u].ops \subseteq txs[t].ops
    /\ \A n \in txs[t].ops : \E u \in Listed(txs[t].root) : n \in txs[u].ops

Lists == \A a \in Session : \A u \in Listed(a) :
    /\ u \in DOMAIN txs /\ txs[u].root = a /\ txs[u].state = "committed" /\ Rewinds(u)
    /\ Covers(u) /\ Holds(u)
    /\ \A n \in SelectedBy(u) : log[n].reverted
    /\ txs[reverts[a][Len(reverts[a])]].boundary <= txs[u].boundary

Reasons == \A n \in kept \ adrift :
    /\ log[n].reverted => \E a \in Heads : \E u \in Listed(a) : n \in SelectedBy(u)
    /\ log[n].op = "off" => \E a \in Heads : \E u \in Listed(a) : n \in txs[u].ops

HInv == /\ TxForm /\ Generations /\ Origins /\ Markers /\ Files /\ Progress /\ Decided
        /\ PendingReverts /\ PendingRedos /\ Lists /\ Reasons

-----------------------------------------------------------------------------
(* Steps that leave the selections, the lists and the messages alone *)

LEMMA LogFields ==
    ASSUME Typed, NEW n \in Seqs
    PROVE  /\ log[n] \in LogRec /\ n \in 1 .. Len(log) /\ n \in Nat /\ n >= 1
           /\ log[n].session \in Session /\ log[n].origin \in Nat /\ log[n].gen \in Nat
           /\ log[n].op \in {"open", "cancelled", "on", "off"}
           /\ log[n].reverted \in BOOLEAN
           /\ \A s : Place(s, n) \in Nat
<1>1. log[n] \in LogRec /\ n \in 1 .. Len(log) /\ Len(log) \in Nat
    BY ElementTyped DEF Typed, LogTyped, Seqs
<1>2. /\ log[n].session \in Session /\ log[n].origin \in 0 .. MaxSeq /\ log[n].gen \in 0 .. MaxTx
      /\ log[n].op \in {"open", "cancelled", "on", "off"} /\ log[n].reverted \in BOOLEAN
    BY <1>1 DEF LogRec
<1>3. log[n].origin \in Nat /\ log[n].gen \in Nat /\ n \in Nat /\ n >= 1
    BY <1>1, <1>2, BoundAssumption
<1>4. \A s : Place(s, n) \in Nat
    BY <1>3 DEF Place
<1> QED BY <1>1, <1>2, <1>3, <1>4

\* The fields of transactions that select do not change.
Frozen == \A t \in DOMAIN txs :
    /\ t \in DOMAIN txs'
    /\ txs'[t].root = txs[t].root /\ txs'[t].scope = txs[t].scope /\ txs'[t].redo = txs[t].redo
    /\ txs'[t].boundary = txs[t].boundary /\ txs'[t].members = txs[t].members
    /\ txs'[t].targets = txs[t].targets /\ txs'[t].ops = txs[t].ops

\* Prompts keep their session and their place.
Placed == \A n \in Seqs :
    /\ log'[n].session = log[n].session /\ log'[n].origin = log[n].origin
    /\ log'[n].gen = log[n].gen

LEMMA SameSelection ==
    ASSUME Frozen, Placed, Seqs' = Seqs
    PROVE  /\ \A t \in DOMAIN txs : SelectedBy(t)' = SelectedBy(t)
           /\ \A t \in DOMAIN txs : (Rewinds(t)' <=> Rewinds(t)) /\ (Redoes(t)' <=> Redoes(t))
           /\ \A s : Of(s)' = Of(s)
<1>1. ASSUME NEW t \in DOMAIN txs PROVE SelectedBy(t)' = SelectedBy(t)
    BY DEF Frozen, Placed, SelectedBy, Selected, Place
<1>2. ASSUME NEW t \in DOMAIN txs PROVE (Rewinds(t)' <=> Rewinds(t)) /\ (Redoes(t)' <=> Redoes(t))
    BY DEF Frozen, Rewinds, Redoes
<1>3. ASSUME NEW s PROVE Of(s)' = Of(s)
    BY DEF Placed, Of
<1> QED BY <1>1, <1>2, <1>3

LEMMA SameCuts ==
    ASSUME Frozen, Placed, Seqs' = Seqs, NEW t \in DOMAIN txs
    PROVE  (Covers(t)' <=> Covers(t)) /\ (Cuts(t)' <=> Cuts(t))
<1>1. SelectedBy(t)' = SelectedBy(t) /\ txs'[t].targets = txs[t].targets
      /\ (\A s : Of(s)' = Of(s))
    BY SameSelection DEF Frozen
<1>2. SelectedBy(t) \subseteq Seqs
    BY DEF SelectedBy, Selected
<1>3. Covers(t)' <=> Covers(t)
    BY <1>1, <1>2 DEF Covers, Placed
<1>4. Cuts(t)' <=> Cuts(t)
    BY <1>1 DEF Cuts
<1> QED BY <1>3, <1>4


\* Calls end or publish, fences are lifted and requests settled: nothing a
\* later Revert or Redo goes by.
Steady ==
    /\ Frozen /\ DOMAIN txs' = DOMAIN txs /\ Placed /\ Seqs' = Seqs
    /\ UNCHANGED <<gen, reverts, kept, adrift>>
    /\ \A n \in Seqs :
          /\ log'[n].reverted = log[n].reverted
          /\ \/ log'[n].op = log[n].op
             \/ /\ log[n].op = "open" /\ log'[n].op = "cancelled"
                /\ Root \in Heads /\ log[n].session = Root => log[n].gen # gen[Root]
             \/ log[n].op = "open" /\ log'[n].op = "on" /\ MayPublish(n)
    /\ \A s \in Session : pending'[s] \in {pending[s], 0}
    /\ \A t \in DOMAIN txs : \/ txs'[t].state = txs[t].state
                             \/ txs[t].state = "prepared" /\ txs'[t].state # "prepared"

LEMMA SteadyTransactions ==
    ASSUME TxForm, Frozen, DOMAIN txs' = DOMAIN txs
    PROVE  TxForm'
BY DEF TxForm, Frozen, Tree

LEMMA SteadyGenerations ==
    ASSUME Typed, Generations, Origins, Steady
    PROVE  Generations' /\ Origins'
<1>1. \A n \in Seqs : /\ log'[n].session = log[n].session /\ log'[n].gen = log[n].gen
                      /\ log'[n].origin = log[n].origin /\ log'[n].reverted = log[n].reverted
                      /\ log[n].session \in Session
    BY LogFields DEF Steady, Placed
<1>2. Seqs' = Seqs /\ UNCHANGED <<gen, reverts, kept, adrift>>
    BY DEF Steady
<1>3. Generations'
  <2> SUFFICES ASSUME NEW n \in Seqs
               PROVE  LET s == log'[n].session IN
                      /\ log'[n].gen <= gen'[s]
                      /\ log'[n].gen = gen'[s] =>
                            /\ pending'[s] = 0 /\ reverts'[s] = <<>>
                            /\ n \in kept' /\ n \notin adrift' /\ ~log'[n].reverted
      BY <1>2 DEF Generations
  <2>1. pending[log[n].session] = 0 => pending'[log[n].session] = 0
      BY <1>1 DEF Steady
  <2> QED BY <1>1, <1>2, <2>1 DEF Generations
<1>4. Origins'
  <2> SUFFICES ASSUME Root \in Heads PROVE Origins'
      BY DEF Origins
  <2>1. Of(Root)' = Of(Root) /\ Of(Root) \subseteq Seqs
      BY SameSelection DEF Steady, Of
  <2>2. \A n \in Of(Root) : log[n].session = Root
      BY DEF Of
  <2>3. \A n \in Of(Root) : log'[n].gen = gen'[Root] => log'[n].op \in {"open", "on"}
      BY <1>1, <1>2, <2>1, <2>2 DEF Steady, Origins
  <2>4. \A m, n \in Of(Root) : m <= n => log'[m].gen <= log'[n].gen
      BY <1>1, <2>1 DEF Origins
  <2>5. \A n \in Seqs : log'[n].session # Root => log'[n].origin \in Of(Root)
      BY <1>1 DEF Origins
  <2>6. \A m, n \in Seqs : log'[m].session = log'[n].session /\ log'[n].session # Root /\ m <= n =>
                              log'[m].origin <= log'[n].origin
      BY <1>1 DEF Origins
  <2> QED BY <1>2, <2>1, <2>3, <2>4, <2>5, <2>6 DEF Origins
<1> QED BY <1>3, <1>4

LEMMA SteadyFiles ==
    ASSUME Typed, Generations, Files, Steady
    PROVE  Files'
<1> SUFFICES ASSUME NEW n \in Seqs \ adrift
             PROVE  /\ log'[n].op = "on" => n \in kept /\ ~log'[n].reverted
                    /\ log'[n].op = "off" => n \notin kept \/ log'[n].reverted
    BY DEF Files, Steady
<1>1. log'[n].reverted = log[n].reverted /\ log[n].reverted \in BOOLEAN
    BY LogFields DEF Steady
<1>2. CASE log'[n].op = log[n].op
    BY <1>1, <1>2 DEF Files
<1>3. CASE log'[n].op = "cancelled"
    BY <1>3
<1>4. CASE log'[n].op = "on" /\ MayPublish(n)
    BY <1>1, <1>4 DEF Generations, MayPublish
<1> QED BY <1>2, <1>3, <1>4 DEF Steady

\* A pending request's members are its own.
LEMMA FenceOf ==
    ASSUME IInv, NEW t \in Pending
    PROVE  /\ t \in DOMAIN txs /\ t # 0 /\ txs[t].state = "prepared"
           /\ txs[t].members \subseteq Session /\ DOMAIN txs[t].targets \subseteq txs[t].members
           /\ \A s \in txs[t].members : pending[s] = t
<1>1. t \in 1 .. Len(txs) /\ t \in DOMAIN txs /\ t # 0 /\ txs[t].state = "prepared" /\ TxOK(txs[t])
    BY TxNumbers DEF IInv, Typed
<1> QED BY <1>1 DEF TxOK, IInv, FencesOwned

LEMMA SteadySelections ==
    ASSUME IInv, TxForm, PendingReverts, PendingRedos, Lists, Steady
    PROVE  PendingReverts' /\ PendingRedos'
<1>1. /\ \A a : Listed(a)' = Listed(a)
      /\ \A t \in DOMAIN txs : SelectedBy(t)' = SelectedBy(t) /\ SelectedBy(t) \subseteq Seqs
      /\ \A t \in DOMAIN txs : (Covers(t)' <=> Covers(t)) /\ (Cuts(t)' <=> Cuts(t))
      /\ \A t \in DOMAIN txs : (Rewinds(t)' <=> Rewinds(t)) /\ (Redoes(t)' <=> Redoes(t))
      /\ UNCHANGED <<kept, adrift>>
    BY SameSelection, SameCuts DEF Steady, Listed, SelectedBy, Selected
<1>2. \A t \in Pending' : t \in Pending /\ t \in DOMAIN txs
    BY DEF Steady, Pending
<1>5. \A t \in Pending : \A u \in Listed(txs[t].root) : u \in DOMAIN txs
    BY FenceOf DEF TxForm, Lists
<1>3. PendingReverts'
  <2> SUFFICES ASSUME NEW t \in Pending', Rewinds(t)'
               PROVE  /\ Covers(t)' /\ Cuts(t)' /\ Holds(t)'
                      /\ \A n \in SelectedBy(t)' : log'[n].op = "on" => n \in txs'[t].ops
                      /\ \A u \in Listed(txs[t].root)' : txs'[t].boundary <= txs'[u].boundary
      BY DEF PendingReverts
  <2>1. /\ t \in Pending /\ t \in DOMAIN txs /\ Rewinds(t)
        /\ txs'[t].ops = txs[t].ops /\ txs'[t].root = txs[t].root
        /\ txs'[t].boundary = txs[t].boundary
        /\ Listed(txs[t].root)' = Listed(txs[t].root)
      BY <1>1, <1>2 DEF Steady, Frozen, Listed
  <2>2. Covers(t)' /\ Cuts(t)' /\ Holds(t)'
      BY <1>1, <2>1 DEF PendingReverts, Holds
  <2>3. ASSUME NEW n \in SelectedBy(t), log'[n].op = "on" PROVE n \in txs[t].ops
    <3>1. n \in Seqs /\ log[n].session \in txs[t].members
        BY DEF SelectedBy, Selected
    <3>2. pending[log[n].session] # 0
        BY <2>1, <3>1, FenceOf
    <3>3. ~MayPublish(n)
        BY <3>2 DEF MayPublish, Fenced, Ancestors
    <3>4. log[n].op = "on"
        BY <2>3, <3>1, <3>3 DEF Steady
    <3> QED BY <2>1, <3>4 DEF PendingReverts
  <2>4. ASSUME NEW u \in Listed(txs[t].root) PROVE txs[t].boundary <= txs'[u].boundary
      BY <1>5, <2>1 DEF PendingReverts, Steady, Frozen
  <2> QED BY <1>1, <2>1, <2>2, <2>3, <2>4
<1>4. PendingRedos'
  <2> SUFFICES ASSUME NEW t \in Pending', Redoes(t)'
               PROVE  /\ \A u \in Listed(txs[t].root)' :
                            /\ txs'[u].members \subseteq txs'[t].members
                            /\ DOMAIN txs'[u].targets \subseteq DOMAIN txs'[t].targets
                            /\ txs'[t].boundary <= txs'[u].boundary
                            /\ txs'[u].ops \subseteq txs'[t].ops
                      /\ \A n \in txs'[t].ops : \E u \in Listed(txs[t].root)' : n \in txs'[u].ops
      BY DEF PendingRedos
  <2>1. /\ t \in Pending /\ t \in DOMAIN txs /\ Redoes(t)
        /\ txs'[t].ops = txs[t].ops /\ txs'[t].root = txs[t].root /\ txs'[t].members = txs[t].members
        /\ txs'[t].boundary = txs[t].boundary /\ txs'[t].targets = txs[t].targets
        /\ Listed(txs[t].root)' = Listed(txs[t].root)
      BY <1>1, <1>2 DEF Steady, Frozen, Listed
  <2>2. \A u \in Listed(txs[t].root) :
          /\ txs'[u].ops = txs[u].ops /\ txs'[u].members = txs[u].members
          /\ txs'[u].boundary = txs[u].boundary /\ txs'[u].targets = txs[u].targets
    <3> SUFFICES ASSUME NEW u \in Listed(txs[t].root) PROVE u \in DOMAIN txs
        BY DEF Steady, Frozen
    <3> QED BY <1>5, <2>1
  <2> QED BY <2>1, <2>2 DEF PendingRedos
<1> QED BY <1>3, <1>4


LEMMA SteadyLists ==
    ASSUME IInv, Lists, Reasons, Steady
    PROVE  Lists' /\ Reasons'
<1>1. /\ \A a : Listed(a)' = Listed(a)
      /\ \A t \in DOMAIN txs : SelectedBy(t)' = SelectedBy(t) /\ SelectedBy(t) \subseteq Seqs
      /\ \A t \in DOMAIN txs : (Covers(t)' <=> Covers(t)) /\ (Rewinds(t)' <=> Rewinds(t))
      /\ UNCHANGED <<kept, adrift, reverts>>
    BY SameSelection, SameCuts DEF Steady, Listed, SelectedBy, Selected
<1>2. Lists'
  <2> SUFFICES ASSUME NEW a \in Session, NEW u \in Listed(a)
               PROVE  /\ u \in DOMAIN txs' /\ txs'[u].root = a /\ txs'[u].state = "committed" /\ Rewinds(u)'
                      /\ Covers(u)' /\ Holds(u)'
                      /\ \A n \in SelectedBy(u)' : log'[n].reverted
                      /\ txs'[reverts[a][Len(reverts[a])]].boundary <= txs'[u].boundary
      BY <1>1 DEF Lists
  <2>1. /\ u \in DOMAIN txs /\ txs[u].root = a /\ txs[u].state = "committed" /\ Rewinds(u)
        /\ Covers(u) /\ Holds(u)
        /\ \A n \in SelectedBy(u) : log[n].reverted
        /\ txs[reverts[a][Len(reverts[a])]].boundary <= txs[u].boundary
      BY DEF Lists
  <2>2. reverts[a][Len(reverts[a])] \in DOMAIN txs
    <3>1. reverts[a] \in Seq(1 .. Len(txs)) /\ DOMAIN txs = 1 .. Len(txs)
        BY TxNumbers DEF IInv, Typed, LedgerTyped
    <3>2. reverts[a] # <<>>
        BY <3>1 DEF Listed
    <3> QED BY <3>1, <3>2
  <2>3. txs'[u].state = "committed" /\ txs'[u].root = a /\ u \in DOMAIN txs'
      BY <2>1 DEF Steady, Frozen
  <2>4. Holds(u)'
      BY <1>1, <2>1 DEF Holds, Steady, Frozen
  <2>5. \A n \in SelectedBy(u)' : log'[n].reverted
      BY <1>1, <2>1 DEF Steady
  <2>6. txs'[reverts[a][Len(reverts[a])]].boundary <= txs'[u].boundary
      BY <2>1, <2>2 DEF Steady, Frozen
  <2> QED BY <1>1, <2>1, <2>3, <2>4, <2>5, <2>6
<1>3. Reasons'
  <2> SUFFICES ASSUME NEW n \in kept \ adrift
               PROVE  /\ log'[n].reverted => \E a \in Heads : \E u \in Listed(a) : n \in SelectedBy(u)'
                      /\ log'[n].op = "off" => \E a \in Heads : \E u \in Listed(a) : n \in txs'[u].ops
      BY <1>1 DEF Reasons
  <2>1. n \in Seqs
      BY DEF IInv, Typed, StoreTyped, Seqs
  <2>2. (log'[n].reverted <=> log[n].reverted) /\ (log'[n].op = "off" => log[n].op = "off")
      BY <2>1 DEF Steady
  <2>3. \A a \in Heads : \A u \in Listed(a) : u \in DOMAIN txs /\ a \in Session
      BY TreeAssumption DEF Lists
  <2>4. \A u \in DOMAIN txs : txs'[u].ops = txs[u].ops
      BY DEF Steady, Frozen
  <2> QED BY <1>1, <2>2, <2>3, <2>4 DEF Reasons
<1> QED BY <1>2, <1>3

\* What a steady step leaves of the invariant to be shown.
HRest == Markers /\ Progress /\ Decided

LEMMA SteadyKeeps ==
    ASSUME IInv, HInv, Steady, HRest'
    PROVE  HInv'
<1>1. TxForm'
    BY SteadyTransactions DEF HInv, Steady
<1>2. Generations' /\ Origins' /\ Files'
    BY SteadyGenerations, SteadyFiles DEF HInv, IInv
<1>3. PendingReverts' /\ PendingRedos' /\ Lists' /\ Reasons'
    BY SteadySelections, SteadyLists DEF HInv
<1> QED BY <1>1, <1>2, <1>3 DEF HInv, HRest


LEMMA SameMarkers ==
    ASSUME Typed, Markers, Steady, \A s \in Session : Base(s)' = Base(s)
    PROVE  Markers'
<1> SUFFICES ASSUME NEW s \in Session, NEW n \in (kept \cap Of(s)) \ adrift
             PROVE  log'[n].reverted <=> Base(s)' # 0 /\ n >= Base(s)'
    BY SameSelection DEF Markers, Steady
<1>1. log'[n].reverted = log[n].reverted
    BY DEF Steady, Of
<1> QED BY <1>1 DEF Markers

\* A host goes on as before when its transaction's markers stay.
LEMMA SteersOn ==
    ASSUME IInv, Progress, Frozen, NEW g \in Host, host'[g] = host[g],
           Working(g) => /\ txs'[host[g].tx].before = txs[host[g].tx].before
                         /\ \A s \in DOMAIN txs[host[g].tx].targets : marker'[s] = marker[s]
    PROVE  Steers(g)'
<1> DEFINE t == host[g].tx
<1>1. CASE ~Working(g)
    BY <1>1 DEF Steers, Working
<1>2. CASE Working(g)
  <2>1. t \in DOMAIN txs
      BY <1>2, AtWork, TxNumbers DEF IInv, Typed
  <2>2. /\ txs'[t].targets = txs[t].targets /\ txs'[t].redo = txs[t].redo
        /\ txs'[t].before = txs[t].before
        /\ \A s \in DOMAIN txs[t].targets : marker'[s] = marker[s]
      BY <1>2, <2>1 DEF Frozen
  <2>3. Steers(g)
      BY DEF Progress
  <2> QED BY <2>2, <2>3 DEF Steers, Goal
<1> QED BY <1>1, <1>2

\* Steps of a host that leave the ledger and the store alone.
LEMMA HostOnly ==
    ASSUME IInv, HInv, UNCHANGED <<ledger, store>>, NEW h \in Host, NEW r,
           host' = [host EXCEPT ![h] = r],
           r.pc \in {"stop", "mark", "turn", "rewind", "restore", "putback"} =>
              r.todo = DOMAIN txs[r.tx].targets
    PROVE  HInv'
<1>1. UNCHANGED <<log, gen, pending, txs, reverts, kept, adrift, marker>>
    BY DEF ledger, store
<1>2. host'[h] = r /\ \A g \in Host : g # h => host'[g] = host[g]
    BY DEF IInv, Typed, HostTyped
<1>3. Frozen /\ Steady
    BY <1>1 DEF Frozen, Steady, Placed, Seqs
<1>4. Markers'
  <2>1. \A s \in Session : Base(s)' = Base(s)
      BY <1>1 DEF Base
  <2> QED BY <1>3, <2>1, SameMarkers DEF HInv, IInv
<1>5. Decided'
    BY <1>1 DEF HInv, Decided, Pending, Goal
<1>6. Progress'
  <2> SUFFICES ASSUME NEW g \in Host PROVE Steers(g)'
      BY DEF Progress
  <2>1. CASE g = h
      BY <1>1, <1>2, <2>1 DEF Steers
  <2>2. CASE g # h
      BY <1>1, <1>2, <1>3, <2>2, SteersOn DEF HInv
  <2> QED BY <2>1, <2>2
<1> QED BY <1>3, <1>4, <1>5, <1>6, SteadyKeeps DEF HRest

LEMMA WaitingHistory ==
    ASSUME IInv, HInv, NEW h \in Host,
           \/ Take(h) \/ LockTimeout(h) \/ (\E s \in Session : Unknown(h, s))
           \/ (\E t \in DOMAIN txs : Resume(h, t) \/ Join(h, t))
           \/ MarkFails(h) \/ RewindFails(h) \/ Refuse(h) \/ Drop(h) \/ Crash(h) \/ Start(h)
    PROVE  HInv'
<1>1. CASE Take(h)
  <2>1. UNCHANGED <<ledger, store>>
      BY <1>1 DEF Take
  <2>2. CASE host' = Done(h)
      BY <2>1, <2>2, HostOnly DEF Done, Put
  <2>3. CASE host' = Put(h, TakenUp(txs[host[h].tx].phase), host[h].tx, DOMAIN txs[host[h].tx].targets, host[h].list)
      BY <2>1, <2>3, HostOnly DEF Put
  <2> QED BY <1>1, <2>2, <2>3 DEF Take
<1>2. CASE LockTimeout(h) \/ Drop(h)
    BY <1>2, HostOnly DEF LockTimeout, Drop, Thrown, Put
<1>3. CASE \E s \in Session : Unknown(h, s)
    BY <1>3, HostOnly DEF Unknown, At, Put
<1>4. CASE \E t \in DOMAIN txs : Resume(h, t) \/ Join(h, t)
    BY <1>4, HostOnly DEF Resume, Join, Put
<1>5. CASE MarkFails(h) \/ RewindFails(h) \/ Refuse(h)
    BY <1>5, HostOnly DEF MarkFails, RewindFails, Refuse, Turns, At, Put
<1>6. CASE Crash(h)
    BY <1>6, HostOnly DEF Crash, Put
<1>7. CASE Start(h)
    BY <1>7, HostOnly DEF Start, Put
<1> QED BY <1>1, <1>2, <1>3, <1>4, <1>5, <1>6, <1>7


LEMMA OnePhase ==
    ASSUME TxsTyped, NEW t \in 1 .. Len(txs), NEW p, NEW b,
           \/ txs' = [txs EXCEPT ![t].phase = p, ![t].before = b]
           \/ txs' = [txs EXCEPT ![t].phase = p] /\ b = txs[t].before
    PROVE  /\ Frozen /\ DOMAIN txs' = DOMAIN txs
           /\ \A u \in DOMAIN txs : u # t => txs'[u] = txs[u]
           /\ txs'[t].phase = p /\ txs'[t].before = b
           /\ \A u \in DOMAIN txs : txs'[u].state = txs[u].state
<1>1. DOMAIN txs = 1 .. Len(txs) /\ DOMAIN txs[t] = TxFields
    BY TxNumbers DEF TxOK
<1>2. CASE txs' = [txs EXCEPT ![t].phase = p, ![t].before = b]
  <2>1. PICK y : y = [txs[t] EXCEPT !.phase = p, !.before = b]
      OBVIOUS
  <2>2. /\ y.phase = p /\ y.before = b /\ y.state = txs[t].state /\ y.root = txs[t].root
        /\ y.scope = txs[t].scope /\ y.redo = txs[t].redo /\ y.boundary = txs[t].boundary
        /\ y.members = txs[t].members /\ y.targets = txs[t].targets /\ y.ops = txs[t].ops
      BY <1>1, <2>1 DEF TxFields
  <2>3. txs' = [txs EXCEPT ![t] = y]
      BY <1>2, <2>1
  <2>4. txs'[t] = y /\ DOMAIN txs' = DOMAIN txs /\ \A u \in DOMAIN txs : u # t => txs'[u] = txs[u]
      BY <1>1, <2>3
  <2> QED BY <1>1, <2>2, <2>4 DEF Frozen
<1>3. CASE txs' = [txs EXCEPT ![t].phase = p] /\ b = txs[t].before
  <2>1. PICK y : y = [txs[t] EXCEPT !.phase = p]
      OBVIOUS
  <2>2. /\ y.phase = p /\ y.before = b /\ y.state = txs[t].state /\ y.root = txs[t].root
        /\ y.scope = txs[t].scope /\ y.redo = txs[t].redo /\ y.boundary = txs[t].boundary
        /\ y.members = txs[t].members /\ y.targets = txs[t].targets /\ y.ops = txs[t].ops
      BY <1>1, <1>3, <2>1 DEF TxFields
  <2>3. txs' = [txs EXCEPT ![t] = y]
      BY <1>3, <2>1
  <2>4. txs'[t] = y /\ DOMAIN txs' = DOMAIN txs /\ \A u \in DOMAIN txs : u # t => txs'[u] = txs[u]
      BY <1>1, <2>3
  <2> QED BY <1>1, <2>2, <2>4 DEF Frozen
<1> QED BY <1>2, <1>3

LEMMA PhaseHistory ==
    ASSUME IInv, HInv, NEW h \in Host, Mark(h) \/ Turn(h) \/ Decide(h) \/ GiveBack(h)
    PROVE  HInv'
<1>1. PICK t : t = host[h].tx
    OBVIOUS
<1>2. Working(h) /\ UNCHANGED <<log, gen, pending, reverts, kept, adrift, marker>>
    BY DEF Mark, Turn, Decide, GiveBack, Working, store
<1>3. /\ t \in 1 .. Len(txs) /\ TxOK(txs[t]) /\ txs[t].state = "prepared"
      /\ Fits(host[h].pc, txs[t]) /\ host[h].todo \subseteq DOMAIN txs[t].targets
      /\ t \in DOMAIN txs
    BY <1>1, <1>2, AtWork, TxNumbers DEF IInv, Typed
<1>4. \E p, b :
        /\ p \in Advanced
        /\ \/ txs' = [txs EXCEPT ![t].phase = p, ![t].before = b]
           \/ txs' = [txs EXCEPT ![t].phase = p] /\ b = txs[t].before
        /\ \/ txs[t].phase = "prepared" /\ b = [s \in DOMAIN txs[t].targets |-> marker[s]]
           \/ txs[t].phase \in Advanced /\ b = txs[t].before
        /\ p = "files" => host[h].pc = "rewind" /\ host[h].todo = {} /\ ~txs[t].phase = "files"
  <2>1. CASE Mark(h)
    <3>1. PICK b : b = [s \in DOMAIN txs[t].targets |-> marker[s]]
        OBVIOUS
    <3>2. PICK p : p = "stopped"
        OBVIOUS
    <3>3. txs' = [txs EXCEPT ![t].phase = p, ![t].before = b] /\ txs[t].phase = "prepared"
        BY <1>1, <1>3, <2>1, <3>1, <3>2 DEF Mark, Fits
    <3>4. p \in Advanced /\ ~(p = "files")
        BY <3>2 DEF Advanced
    <3> QED BY <3>1, <3>3, <3>4
  <2>2. CASE Turn(h) \/ GiveBack(h)
    <3>1. PICK p : p \in Advanced \ {"files"} /\ txs' = [txs EXCEPT ![t].phase = p]
        BY <1>1, <2>2 DEF Turn, GiveBack, Advanced, Phase
    <3>2. txs[t].phase \in Advanced
        BY <1>3, <2>2 DEF Turn, GiveBack, Fits, Advanced
    <3> QED BY <3>1, <3>2
  <2>3. CASE Decide(h)
    <3>1. txs' = [txs EXCEPT ![t].phase = "files"] /\ txs[t].phase = "conversation"
        BY <1>1, <1>3, <2>3 DEF Decide, Phase, Fits
    <3>2. "files" \in Advanced /\ "conversation" \in Advanced /\ host[h].pc = "rewind" /\ host[h].todo = {}
        BY <2>3 DEF Decide, Advanced
    <3>3. ~txs[t].phase = "files" /\ txs[t].phase \in Advanced
        BY <3>1, <3>2
    <3> QED BY <3>1, <3>2, <3>3, Zenon
  <2> QED BY <2>1, <2>2, <2>3
<1>5. PICK p, b :
        /\ p \in Advanced
        /\ \/ txs' = [txs EXCEPT ![t].phase = p, ![t].before = b]
           \/ txs' = [txs EXCEPT ![t].phase = p] /\ b = txs[t].before
        /\ \/ txs[t].phase = "prepared" /\ b = [s \in DOMAIN txs[t].targets |-> marker[s]]
           \/ txs[t].phase \in Advanced /\ b = txs[t].before
        /\ p = "files" => host[h].pc = "rewind" /\ host[h].todo = {} /\ ~txs[t].phase = "files"
    BY <1>4
<1>6. /\ Frozen /\ DOMAIN txs' = DOMAIN txs
      /\ \A u \in DOMAIN txs : u # t => txs'[u] = txs[u]
      /\ txs'[t].phase = p /\ txs'[t].before = b
      /\ \A u \in DOMAIN txs : txs'[u].state = txs[u].state
  <2>1. TxsTyped
      BY DEF IInv, Typed
  <2>2. \/ txs' = [txs EXCEPT ![t].phase = p, ![t].before = b]
        \/ txs' = [txs EXCEPT ![t].phase = p] /\ b = txs[t].before
      BY <1>5
  <2>3. t \in 1 .. Len(txs)
      BY <1>3
  <2> QED BY <2>1, <2>2, <2>3, OnePhase
<1>7. Steady
    BY <1>2, <1>6 DEF Steady, Placed, Seqs
<1>8. Markers'
  <2> SUFFICES ASSUME NEW s \in Session PROVE Base(s)' = Base(s)
      BY <1>7, SameMarkers DEF HInv, IInv
  <2>1. txs'[t].targets = txs[t].targets
      BY <1>3, <1>6 DEF Frozen
  <2>2. pending[s] # 0 => pending[s] \in DOMAIN txs
      BY TxNumbers DEF IInv, Typed, LedgerTyped
  <2>3. CASE pending[s] = t /\ txs[t].phase = "prepared"
      BY <1>2, <1>3, <1>5, <1>6, <2>1, <2>3 DEF Base, Advanced
  <2>4. CASE pending[s] = t /\ txs[t].phase \in Advanced /\ b = txs[t].before
      BY <1>2, <1>5, <1>6, <2>1, <2>4 DEF Base
  <2>5. CASE pending[s] # t
      BY <1>2, <1>6, <2>2, <2>5 DEF Base
  <2> QED BY <1>5, <2>3, <2>4, <2>5 DEF Advanced
<1>9. Decided'
  <2> SUFFICES ASSUME NEW u \in Pending', txs'[u].phase = "files", NEW s \in DOMAIN txs'[u].targets
               PROVE  marker[s] = Goal(u, s)'
      BY <1>2 DEF Decided
  <2>1. /\ u \in Pending /\ u \in DOMAIN txs /\ s \in DOMAIN txs[u].targets
        /\ Goal(u, s)' = Goal(u, s)
      BY <1>6 DEF Pending, Frozen, Goal
  <2>2. CASE u = t
    <3>1. host[h].pc = "rewind" /\ host[h].todo = {}
        BY <1>5, <1>6, <2>2
    <3>2. Steers(h)
        BY DEF HInv, Progress
    <3> QED BY <1>1, <2>1, <2>2, <3>1, <3>2 DEF Steers
  <2>3. CASE u # t
      BY <1>6, <2>1, <2>3 DEF HInv, Decided
  <2> QED BY <2>2, <2>3
<1>10. Progress'
  <2> SUFFICES ASSUME NEW g \in Host PROVE Steers(g)'
      BY DEF Progress
  <2>1. \E q, d : /\ host' = Put(h, q, t, d, host[h].list) /\ q \in {"turn", "rewind", "commit", "putback"}
                  /\ q \in {"turn", "rewind", "putback"} => d = DOMAIN txs[t].targets
    <3>1. Steers(h)
        BY DEF HInv, Progress
    <3>2. CASE Mark(h)
        BY <1>1, <3>1, <3>2 DEF Mark, At, Steers
    <3>3. CASE Turn(h)
        BY <1>1, <3>1, <3>3 DEF Turn, At, Steers
    <3>4. CASE Decide(h)
        BY <1>1, <3>4 DEF Decide, At
    <3>5. CASE GiveBack(h)
      <4>1. DOMAIN txs[t].before = DOMAIN txs[t].targets
          BY <1>1, <1>3, <3>5 DEF GiveBack, Fits, TxOK, Advanced
      <4> QED BY <1>1, <3>5, <4>1 DEF GiveBack
    <3> QED BY <3>2, <3>3, <3>4, <3>5
  <2>2. /\ host'[h].pc \in {"turn", "rewind", "commit", "putback"} /\ host'[h].tx = t
        /\ host'[h].pc \in {"turn", "rewind", "putback"} => host'[h].todo = DOMAIN txs[t].targets
        /\ \A k \in Host : k # h => host'[k] = host[k]
      BY <2>1 DEF Put, IInv, Typed, HostTyped
  <2>3. CASE g = h
    <3>1. txs'[t].targets = txs[t].targets
        BY <1>3, <1>6 DEF Frozen
    <3> QED BY <2>2, <2>3, <3>1 DEF Steers
  <2>4. CASE g # h
    <3>1. Working(g) => host[g].tx # t /\ host[g].tx \in DOMAIN txs
        BY <1>1, <1>2, <2>4, AtWork, TxNumbers DEF IInv, OneHolder, Typed
    <3> QED BY <1>2, <1>6, <2>2, <2>4, <3>1, SteersOn DEF HInv
  <2> QED BY <2>3, <2>4
<1> QED BY <1>7, <1>8, <1>9, <1>10, SteadyKeeps DEF HRest


LEMMA MarkerHistory ==
    ASSUME IInv, HInv, NEW h \in Host, NEW s \in Session, Rewind(h, s) \/ Restore(h, s)
    PROVE  HInv'
<1>1. PICK t : t = host[h].tx
    OBVIOUS
<1>2. PICK m : m = IF host[h].pc = "rewind" THEN Goal(t, s) ELSE txs[t].before[s]
    OBVIOUS
<1>3. /\ Working(h) /\ UNCHANGED <<log, gen, pending, txs, reverts, kept, adrift>>
      /\ host[h].pc \in {"rewind", "restore", "putback"} /\ s \in host[h].todo
      /\ host' = Put(h, host[h].pc, t, host[h].todo \ {s}, host[h].list)
      /\ marker' = [marker EXCEPT ![s] = m]
  <2>1. CASE Rewind(h, s)
      BY <1>1, <1>2, <2>1 DEF Rewind, Working, NextOf, Through, ledger, Goal
  <2>2. CASE Restore(h, s)
      BY <1>1, <1>2, <2>2 DEF Restore, Working, NextOf, Through, ledger
  <2> QED BY <2>1, <2>2
<1>4. /\ t \in Pending /\ t \in DOMAIN txs /\ TxOK(txs[t]) /\ Fits(host[h].pc, txs[t])
      /\ s \in DOMAIN txs[t].targets
    BY <1>1, <1>3, AtWork, TxNumbers DEF IInv, Typed
<1>5. txs[t].phase \in {"conversation", "restoring"}
    BY <1>3, <1>4 DEF Fits
<1>6. s \in txs[t].members /\ pending[s] = t /\ t # 0
    BY <1>4, FenceOf
<1>7. marker' \in [Session -> {m} \cup {marker[x] : x \in Session}]
      /\ marker'[s] = m /\ \A x \in Session : x # s => marker'[x] = marker[x]
    BY <1>3 DEF IInv, Typed, StoreTyped
<1>8. Frozen /\ Steady
    BY <1>3 DEF Frozen, Steady, Placed, Seqs
<1>9. \A u \in Pending : u # t => s \notin DOMAIN txs[u].targets /\ DOMAIN txs[u].targets \subseteq Session
    BY <1>6, FenceOf
<1>10. Markers'
  <2> SUFFICES ASSUME NEW x \in Session PROVE Base(x)' = Base(x)
      BY <1>8, SameMarkers DEF HInv, IInv
  <2>1. CASE x = s
      BY <1>3, <1>4, <1>5, <1>6, <2>1 DEF Base, Advanced
  <2>2. CASE x # s
      BY <1>3, <1>7, <2>2 DEF Base
  <2> QED BY <2>1, <2>2
<1>11. Decided'
  <2> SUFFICES ASSUME NEW u \in Pending, txs[u].phase = "files", NEW x \in DOMAIN txs[u].targets
               PROVE  marker'[x] = Goal(u, x)
      BY <1>3 DEF Decided, Pending, Goal
  <2>1. u # t
      BY <1>5
  <2>2. marker'[x] = marker[x]
      BY <1>7, <1>9, <2>1
  <2> QED BY <2>2 DEF HInv, Decided
<1>12. Progress'
  <2> SUFFICES ASSUME NEW g \in Host PROVE Steers(g)'
      BY DEF Progress
  <2>1. /\ host'[h].pc = host[h].pc /\ host'[h].tx = t /\ host'[h].todo = host[h].todo \ {s}
        /\ \A k \in Host : k # h => host'[k] = host[k]
      BY <1>3 DEF Put, IInv, Typed, HostTyped
  <2>2. CASE g = h
    <3>1. Steers(h)
        BY DEF HInv, Progress
    <3>2. DOMAIN txs[t].targets \subseteq Session
        BY <1>4, FenceOf
    <3>3. host[h].pc = "rewind" =>
             \A x \in DOMAIN txs[t].targets \ (host[h].todo \ {s}) : marker'[x] = Goal(t, x)
        BY <1>1, <1>2, <1>7, <3>1, <3>2 DEF Steers
    <3>4. host[h].pc \in {"restore", "putback"} =>
             \A x \in DOMAIN txs[t].targets \ (host[h].todo \ {s}) : marker'[x] = txs[t].before[x]
        BY <1>1, <1>2, <1>7, <3>1, <3>2 DEF Steers
    <3>5. host'[h].pc = "rewind" =>
             \A x \in DOMAIN txs'[host'[h].tx].targets \ host'[h].todo :
                marker'[x] = IF txs'[host'[h].tx].redo THEN 0 ELSE txs'[host'[h].tx].targets[x]
        BY <1>3, <2>1, <3>3 DEF Goal
    <3>6. host'[h].pc \in {"restore", "putback"} =>
             \A x \in DOMAIN txs'[host'[h].tx].targets \ host'[h].todo :
                marker'[x] = txs'[host'[h].tx].before[x]
        BY <1>3, <2>1, <3>4
    <3>7. host'[h].pc \notin {"stop", "mark", "turn"}
        BY <1>3, <2>1
    <3>8. Steers(h)'
        BY <3>5, <3>6, <3>7 DEF Steers, Goal
    <3> QED BY <2>2, <3>8
  <2>3. CASE g # h
    <3>1. Working(g) => host[g].tx # t /\ host[g].tx \in Pending
        BY <1>1, <1>3, <2>3, AtWork DEF IInv, OneHolder
    <3>2. Working(g) => \A x \in DOMAIN txs[host[g].tx].targets : marker'[x] = marker[x]
        BY <1>7, <1>9, <3>1
    <3> QED BY <1>3, <1>8, <2>1, <2>3, <3>2, SteersOn DEF HInv
  <2> QED BY <2>2, <2>3
<1> QED BY <1>8, <1>10, <1>11, <1>12, SteadyKeeps DEF HRest

LEMMA CancelledFields ==
    ASSUME Typed, NEW S, log' = Cancelled(S)
    PROVE  /\ Placed /\ Seqs' = Seqs
           /\ \A n \in Seqs : /\ log'[n].reverted = log[n].reverted
                              /\ log'[n].op = IF n \in S THEN "cancelled" ELSE log[n].op
<1>1. Len(log) \in Nat /\ Seqs = 1 .. Len(log)
    BY DEF Typed, LogTyped, Seqs
<1>2. Len(log') = Len(log)
    BY CancelledLog
<1>3. ASSUME NEW n \in Seqs
      PROVE  /\ log'[n].session = log[n].session /\ log'[n].origin = log[n].origin
             /\ log'[n].gen = log[n].gen /\ log'[n].reverted = log[n].reverted
             /\ log'[n].op = IF n \in S THEN "cancelled" ELSE log[n].op
  <2>1. log'[n] = IF n \in S THEN [log[n] EXCEPT !.op = "cancelled"] ELSE log[n]
      BY DEF Cancelled
  <2>2. log[n] \in LogRec
      BY LogFields
  <2> QED BY <2>1, <2>2 DEF LogRec
<1> QED BY <1>1, <1>2, <1>3 DEF Placed, Seqs

LEMMA StopHistory ==
    ASSUME IInv, HInv, NEW h \in Host, Stop(h) \/ \E S \in SUBSET Seqs : StopUnconfirmed(h, S)
    PROVE  HInv'
<1>1. PICK t : t = host[h].tx
    OBVIOUS
<1>2. Working(h) /\ host[h].pc = "stop"
      /\ UNCHANGED <<gen, pending, txs, reverts, kept, adrift, marker>>
    BY DEF Stop, StopUnconfirmed, Working, store
<1>3. PICK S : S \subseteq Open(t) /\ log' = Cancelled(S)
    BY <1>1 DEF Stop, StopUnconfirmed
<1>4. t \in Pending
    BY <1>1, <1>2, AtWork
<1>5. Placed /\ Seqs' = Seqs
      /\ \A n \in Seqs : /\ log'[n].reverted = log[n].reverted
                         /\ log'[n].op = IF n \in S THEN "cancelled" ELSE log[n].op
    BY <1>3, CancelledFields DEF IInv
<1>6. \A n \in S : n \in Seqs /\ log[n].op = "open" /\ log[n].gen # gen[log[n].session]
  <2> SUFFICES ASSUME NEW n \in S
               PROVE  n \in Seqs /\ log[n].op = "open" /\ log[n].gen # gen[log[n].session]
      OBVIOUS
  <2>1. n \in Seqs /\ log[n].op = "open" /\ log[n].session \in txs[t].members
      BY <1>3 DEF Open
  <2>2. pending[log[n].session] # 0
      BY <1>4, <2>1, FenceOf
  <2> QED BY <2>1, <2>2 DEF HInv, Generations
<1>7. Frozen /\ Steady
  <2>1. Frozen
      BY <1>2 DEF Frozen
  <2>2. \A n \in Seqs :
           \/ log'[n].op = log[n].op
           \/ /\ log[n].op = "open" /\ log'[n].op = "cancelled"
              /\ Root \in Heads /\ log[n].session = Root => log[n].gen # gen[Root]
      BY <1>5, <1>6
  <2> QED BY <1>2, <1>5, <2>1, <2>2 DEF Steady
<1>8. Markers'
  <2>1. \A s \in Session : Base(s)' = Base(s)
      BY <1>2 DEF Base
  <2> QED BY <1>7, <2>1, SameMarkers DEF HInv, IInv
<1>9. Decided'
    BY <1>2 DEF HInv, Decided, Pending, Goal
<1>10. Progress'
  <2> SUFFICES ASSUME NEW g \in Host PROVE Steers(g)'
      BY DEF Progress
  <2>1. host' = At(h, "mark") \/ host' = Thrown(h)
      BY DEF Stop, StopUnconfirmed
  <2>2. \A k \in Host : k # h => host'[k] = host[k]
      BY <2>1 DEF At, Thrown, Put, IInv, Typed, HostTyped
  <2>3. CASE g = h
    <3>1. Steers(h) /\ host \in [Host -> HostRec(Len(txs))]
        BY DEF HInv, Progress, IInv, Typed, HostTyped
    <3>2. CASE host' = At(h, "mark")
      <4>1. host'[h] = [pc |-> "mark", tx |-> t, todo |-> host[h].todo, list |-> host[h].list]
          BY <1>1, <3>1, <3>2 DEF At, Put
      <4>2. host'[h].pc = "mark" /\ host'[h].tx = t /\ host'[h].todo = host[h].todo
          BY <4>1
      <4> QED BY <1>1, <1>2, <2>3, <3>1, <4>2 DEF Steers
    <3>3. CASE host' = Thrown(h)
      <4>1. host'[h].pc = "idle"
          BY <3>1, <3>3 DEF Thrown, Put
      <4> QED BY <2>3, <4>1 DEF Steers
    <3> QED BY <2>1, <3>2, <3>3
  <2>4. CASE g # h
      BY <1>2, <1>7, <2>2, <2>4, SteersOn DEF HInv
  <2> QED BY <2>3, <2>4
<1> QED BY <1>7, <1>8, <1>9, <1>10, SteadyKeeps DEF HRest

LEMMA PublishHistory ==
    ASSUME IInv, HInv, NEW m \in Seqs, Publish(m)
    PROVE  HInv'
<1>1. /\ UNCHANGED <<gen, pending, txs, reverts, kept, adrift, marker, host>>
      /\ log' = [log EXCEPT ![m].op = "on"] /\ log[m].op = "open" /\ MayPublish(m)
    BY DEF Publish, store
<1>2. log \in Seq(LogRec) /\ DOMAIN log = Seqs
    BY DEF IInv, Typed, LogTyped, Seqs
<1>3. Seqs' = Seqs /\ \A n \in Seqs : n # m => log'[n] = log[n]
    BY <1>1, <1>2 DEF Seqs
<1>4. /\ log'[m].session = log[m].session /\ log'[m].origin = log[m].origin
      /\ log'[m].gen = log[m].gen /\ log'[m].reverted = log[m].reverted /\ log'[m].op = "on"
  <2>1. log'[m] = [log[m] EXCEPT !.op = "on"]
      BY <1>1, <1>2
  <2>2. log[m] \in LogRec
      BY LogFields DEF IInv
  <2> QED BY <2>1, <2>2 DEF LogRec
<1>5. Placed
    BY <1>3, <1>4 DEF Placed
<1>6. Frozen /\ Steady
  <2>1. Frozen
      BY <1>1 DEF Frozen
  <2>2. \A n \in Seqs : /\ log'[n].reverted = log[n].reverted
                        /\ \/ log'[n].op = log[n].op
                           \/ log[n].op = "open" /\ log'[n].op = "on" /\ MayPublish(n)
      BY <1>1, <1>3, <1>4
  <2> QED BY <1>1, <1>3, <1>5, <2>1, <2>2 DEF Steady
<1>7. Markers'
  <2>1. \A s \in Session : Base(s)' = Base(s)
      BY <1>1 DEF Base
  <2> QED BY <1>6, <2>1, SameMarkers DEF HInv, IInv
<1>8. Decided' /\ Progress'
    BY <1>1 DEF HInv, Decided, Pending, Goal, Progress, Steers
<1> QED BY <1>6, <1>7, <1>8, SteadyKeeps DEF HRest


LEMMA OneSettled ==
    ASSUME IInv, NEW t \in Pending, NEW st, Settled(t, st)
    PROVE  /\ Frozen /\ DOMAIN txs' = DOMAIN txs
           /\ \A u \in DOMAIN txs : u # t => txs'[u] = txs[u]
           /\ txs'[t].state = st /\ txs'[t].phase = st
           /\ pending' \in [Session -> 0 .. Len(txs)]
           /\ \A s \in Session : /\ pending[s] = t => pending'[s] = 0
                                 /\ pending[s] # t => pending'[s] = pending[s]
<1>1. t \in DOMAIN txs /\ DOMAIN txs[t] = TxFields /\ Len(txs) \in Nat
    BY FenceOf, TxNumbers DEF IInv, Typed, TxOK
<1>2. PICK y : y = [txs[t] EXCEPT !.state = st, !.phase = st]
    OBVIOUS
<1>3. /\ y.phase = st /\ y.state = st /\ y.root = txs[t].root
      /\ y.scope = txs[t].scope /\ y.redo = txs[t].redo /\ y.boundary = txs[t].boundary
      /\ y.members = txs[t].members /\ y.targets = txs[t].targets /\ y.ops = txs[t].ops
    BY <1>1, <1>2 DEF TxFields
<1>4. txs' = [txs EXCEPT ![t] = y]
    BY <1>2 DEF Settled
<1>5. txs'[t] = y /\ DOMAIN txs' = DOMAIN txs /\ \A u \in DOMAIN txs : u # t => txs'[u] = txs[u]
    BY <1>1, <1>4
<1>6. Frozen
    BY <1>3, <1>5 DEF Frozen
<1>7. /\ pending' \in [Session -> 0 .. Len(txs)]
      /\ \A s \in Session : /\ pending[s] = t => pending'[s] = 0
                            /\ pending[s] # t => pending'[s] = pending[s]
    BY <1>1 DEF Settled, IInv, Typed, LedgerTyped
<1> QED BY <1>3, <1>5, <1>6, <1>7

\* A fence that is lifted leaves the markers as they are.
LEMMA SettledBase ==
    ASSUME IInv, NEW t \in Pending, NEW st, Settled(t, st), marker' = marker, NEW s \in Session
    PROVE  /\ pending[s] = t => Base(s)' = marker[s]
           /\ pending[s] # t => Base(s)' = Base(s)
<1>1. /\ \A u \in DOMAIN txs : u # t => txs'[u] = txs[u]
      /\ pending[s] = t => pending'[s] = 0
      /\ pending[s] # t => pending'[s] = pending[s]
    BY OneSettled
<1>2. pending[s] # 0 => pending[s] \in DOMAIN txs
    BY TxNumbers DEF IInv, Typed, LedgerTyped
<1> QED BY <1>1, <1>2 DEF Base

\* The hosts that are still at work hold another transaction.
LEMMA SettledProgress ==
    ASSUME IInv, Progress, NEW t \in Pending, NEW st, Settled(t, st), marker' = marker,
           \A g \in Host : Working(g)' => Working(g) /\ host'[g] = host[g] /\ host[g].tx # t
    PROVE  Progress'
<1> SUFFICES ASSUME NEW g \in Host PROVE Steers(g)'
    BY DEF Progress
<1>1. CASE ~Working(g)'
    BY <1>1 DEF Steers, Working
<1>2. CASE Working(g)'
  <2>1. Working(g) /\ host'[g] = host[g] /\ host[g].tx # t /\ host[g].tx \in DOMAIN txs
      BY <1>2, AtWork, TxNumbers DEF IInv, Typed
  <2>2. Frozen /\ txs'[host[g].tx] = txs[host[g].tx]
      BY <2>1, OneSettled
  <2> QED BY <2>1, <2>2, SteersOn
<1> QED BY <1>1, <1>2

LEMMA SettledDecided ==
    ASSUME IInv, Decided, NEW t \in Pending, NEW st \in {"committed", "cancelled"},
           Settled(t, st), marker' = marker
    PROVE  Decided'
<1> SUFFICES ASSUME NEW u \in Pending', txs'[u].phase = "files", NEW s \in DOMAIN txs'[u].targets
             PROVE  marker[s] = Goal(u, s)'
    BY DEF Decided
<1>1. u # t /\ u \in DOMAIN txs /\ txs'[u] = txs[u]
    BY OneSettled DEF Pending
<1>2. u \in Pending
    BY <1>1 DEF Pending
<1> QED BY <1>1, <1>2 DEF Decided, Goal

LEMMA SettledHistory ==
    ASSUME IInv, HInv, NEW t \in Pending, NEW st \in {"committed", "cancelled"}, Settled(t, st),
           UNCHANGED <<gen, reverts, store>>,
           Placed, Seqs' = Seqs,
           \A n \in Seqs :
              /\ log'[n].reverted = log[n].reverted
              /\ \/ log'[n].op = log[n].op
                 \/ /\ log[n].op = "open" /\ log'[n].op = "cancelled"
                    /\ Root \in Heads /\ log[n].session = Root => log[n].gen # gen[Root],
           \A s \in Session : pending[s] = t => Base(s) = marker[s],
           \A g \in Host : Working(g)' => Working(g) /\ host'[g] = host[g] /\ host[g].tx # t
    PROVE  HInv'
<1>1. UNCHANGED <<kept, adrift, marker>>
    BY DEF store
<1>2. Steady
  <2>1. /\ Frozen /\ DOMAIN txs' = DOMAIN txs
        /\ \A s \in Session : pending'[s] \in {pending[s], 0}
      BY OneSettled
  <2>2. \A u \in DOMAIN txs : \/ txs'[u].state = txs[u].state
                              \/ txs[u].state = "prepared" /\ txs'[u].state # "prepared"
      BY OneSettled, FenceOf
  <2> QED BY <1>1, <2>1, <2>2 DEF Steady
<1>3. Markers'
  <2>1. \A s \in Session : Base(s)' = Base(s)
      BY <1>1, SettledBase
  <2> QED BY <1>2, <2>1, SameMarkers DEF HInv, IInv
<1>4. Progress' /\ Decided'
    BY <1>1, SettledProgress, SettledDecided DEF HInv
<1> QED BY <1>2, <1>3, <1>4, SteadyKeeps DEF HRest

LEMMA AbandonHistory ==
    ASSUME IInv, HInv, NEW h \in Host, Abandon(h)
    PROVE  HInv'
<1>1. PICK t : t = host[h].tx
    OBVIOUS
<1>2. /\ Working(h) /\ Settled(t, "cancelled") /\ UNCHANGED <<log, gen, reverts, store>>
      /\ host' = Done(h) \/ host' = Thrown(h)
    BY <1>1 DEF Abandon, Working
<1>3. /\ t \in Pending /\ TxOK(txs[t]) /\ Fits(host[h].pc, txs[t]) /\ t \in DOMAIN txs
    BY <1>1, <1>2, AtWork, FenceOf
<1>4. Placed /\ Seqs' = Seqs
    BY <1>2 DEF Placed, Seqs
<1>5. ASSUME NEW s \in Session, pending[s] = t PROVE Base(s) = marker[s]
  <2>1. CASE host[h].pc = "abandon"
    <3>1. txs[t].phase = "prepared" \/ DOMAIN txs[t].targets = {}
        BY <1>3, <2>1 DEF Fits, HInv, TxForm
    <3> QED BY <1>5, <3>1 DEF Base, Advanced
  <2>2. CASE host[h].pc \in {"restore", "putback"} /\ host[h].todo = {}
    <3>1. \A x \in DOMAIN txs[t].targets : marker[x] = txs[t].before[x]
        BY <1>1, <2>2 DEF HInv, Progress, Steers
    <3> QED BY <1>5, <3>1 DEF Base
  <2> QED BY <2>1, <2>2 DEF Abandon
<1>6. \A g \in Host : Working(g)' => Working(g) /\ host'[g] = host[g] /\ host[g].tx # t
    BY <1>1, <1>2, HolderSettles
<1> QED BY <1>2, <1>3, <1>4, <1>5, <1>6, SettledHistory

LEMMA ColdCancelHistory ==
    ASSUME NoHeadAbove, IInv, HInv, NEW t \in DOMAIN txs, ColdCancel(t)
    PROVE  HInv'
<1>1. PICK S : S = {n \in Seqs : log[n].op = "open"}
    OBVIOUS
<1>2. /\ t \in Pending /\ txs[t].phase = "prepared" /\ Settled(t, "cancelled")
      /\ log' = Cancelled(S) /\ UNCHANGED <<gen, reverts, store, host>> /\ \A h \in Host : ~Up(h)
    BY <1>1 DEF ColdCancel
<1>3. Placed /\ Seqs' = Seqs
      /\ \A n \in Seqs : /\ log'[n].reverted = log[n].reverted
                         /\ log'[n].op = IF n \in S THEN "cancelled" ELSE log[n].op
    BY <1>2, CancelledFields DEF IInv
<1>4. ASSUME NEW n \in Seqs, Root \in Heads, log[n].session = Root PROVE log[n].gen # gen[Root]
  <2>1. Root \in txs[t].members
      BY <1>4 DEF NoHeadAbove, HInv, TxForm
  <2>2. pending[Root] # 0
      BY <1>2, <2>1, FenceOf
  <2> QED BY <1>4, <2>2 DEF HInv, Generations
<1>5. \A n \in Seqs :
         /\ log'[n].reverted = log[n].reverted
         /\ \/ log'[n].op = log[n].op
            \/ /\ log[n].op = "open" /\ log'[n].op = "cancelled"
               /\ Root \in Heads /\ log[n].session = Root => log[n].gen # gen[Root]
    BY <1>1, <1>3, <1>4
<1>6. \A s \in Session : pending[s] = t => Base(s) = marker[s]
    BY <1>2 DEF Base, Advanced
<1>7. \A g \in Host : ~Working(g)'
    BY <1>2 DEF Working, Up
<1> QED BY <1>2, <1>3, <1>5, <1>6, <1>7, SettledHistory


-----------------------------------------------------------------------------
(* A Revert or a Redo is committed *)

LEMMA SameHead ==
    ASSUME NoHeadAbove, NEW a \in Heads, NEW b \in Heads, NEW s \in Tree(a), s \in Tree(b)
    PROVE  a = b
BY DEF NoHeadAbove, Tree

\* A request with an earlier boundary selects what a later one selected.
LEMMA Nested ==
    ASSUME IInv, TxForm, NEW t \in DOMAIN txs, NEW u \in DOMAIN txs, txs[t].root = txs[u].root,
           txs[t].boundary <= txs[u].boundary, NEW n \in SelectedBy(u),
           log[n].session \in txs[t].members
    PROVE  n \in SelectedBy(t)
<1>1. n \in Seqs /\ Place(txs[u].root, n) >= txs[u].boundary
    BY DEF SelectedBy, Selected
<1>2. Place(txs[u].root, n) \in Nat /\ txs[u].boundary \in Nat /\ txs[t].boundary \in Nat
    BY <1>1, LogFields DEF IInv, TxForm
<1>3. Place(txs[t].root, n) >= txs[t].boundary
    BY <1>1, <1>2
<1> QED BY <1>1, <1>3 DEF SelectedBy, Selected

LEMMA ListedTx ==
    ASSUME IInv, HInv, NEW a \in Session, NEW u \in Listed(a)
    PROVE  /\ u \in DOMAIN txs /\ txs[u].root = a /\ a \in Heads /\ txs[u].state = "committed"
           /\ Rewinds(u) /\ txs[u].members \subseteq Tree(a) /\ txs[u].boundary \in Nat
           /\ Covers(u) /\ Holds(u)
<1>1. /\ u \in DOMAIN txs /\ txs[u].root = a /\ txs[u].state = "committed" /\ Rewinds(u)
      /\ Covers(u) /\ Holds(u)
    BY DEF HInv, Lists
<1> QED BY <1>1 DEF HInv, TxForm

\* What the pending request for a head finds reverted was reverted for that head.
LEMMA ReasonOf ==
    ASSUME NoHeadAbove, IInv, HInv, NEW t \in Pending, txs[t].scope # "files",
           NEW n \in kept \ adrift, log[n].session \in txs[t].members
    PROVE  /\ log[n].reverted => /\ n \in SelectedBy(t)
                                 /\ \E u \in Listed(txs[t].root) :
                                       n \in SelectedBy(u) /\ log[n].session \in DOMAIN txs[u].targets
           /\ log[n].op = "off" => \E u \in Listed(txs[t].root) : n \in txs[u].ops
<1>1. /\ t \in DOMAIN txs /\ txs[t].root \in Heads /\ txs[t].root \in Session
      /\ log[n].session \in Tree(txs[t].root)
    BY FenceOf DEF HInv, TxForm
<1>2. ASSUME NEW a \in Heads, NEW u \in Listed(a), n \in SelectedBy(u)
      PROVE  a = txs[t].root /\ u \in DOMAIN txs /\ txs[u].root = a /\ n \in SelectedBy(t)
             /\ log[n].session \in DOMAIN txs[u].targets
  <2>1. a \in Session
      BY TreeAssumption
  <2>2. u \in DOMAIN txs /\ txs[u].root = a /\ txs[u].members \subseteq Tree(a) /\ Covers(u)
      BY <2>1, ListedTx
  <2>3. log[n].session \in txs[u].members /\ log[n].session \in DOMAIN txs[u].targets
      BY <1>2, <2>2 DEF SelectedBy, Selected, Covers
  <2>4. a = txs[t].root
      BY <1>1, <2>2, <2>3, SameHead
  <2>5. txs[t].boundary <= txs[u].boundary
    <3>1. Rewinds(t) \/ Redoes(t)
        BY <1>1 DEF Rewinds, Redoes, HInv, TxForm
    <3> QED BY <2>4, <3>1 DEF HInv, PendingReverts, PendingRedos
  <2>6. n \in SelectedBy(t)
      BY <1>1, <1>2, <2>2, <2>4, <2>5, Nested DEF HInv
  <2> QED BY <2>2, <2>3, <2>4, <2>6
<1>3. ASSUME log[n].reverted
      PROVE  /\ n \in SelectedBy(t)
             /\ \E u \in Listed(txs[t].root) :
                   n \in SelectedBy(u) /\ log[n].session \in DOMAIN txs[u].targets
  <2>1. PICK a \in Heads : \E u \in Listed(a) : n \in SelectedBy(u)
      BY <1>3 DEF HInv, Reasons
  <2>2. PICK u \in Listed(a) : n \in SelectedBy(u)
      BY <2>1
  <2> QED BY <1>2, <2>2
<1>4. ASSUME log[n].op = "off" PROVE \E u \in Listed(txs[t].root) : n \in txs[u].ops
  <2>1. PICK a \in Heads : \E u \in Listed(a) : n \in txs[u].ops
      BY <1>4 DEF HInv, Reasons
  <2>2. PICK u \in Listed(a) : n \in txs[u].ops
      BY <2>1
  <2>3. n \in SelectedBy(u)
      BY <2>2, ListedTx, TreeAssumption DEF Holds
  <2> QED BY <1>2, <2>2, <2>3
<1> QED BY <1>3, <1>4

LEMMA ProjectedFields ==
    ASSUME Typed, NEW t, log' = Projected(txs[t])
    PROVE  /\ Placed /\ Seqs' = Seqs
           /\ \A n \in Seqs :
                 /\ log'[n].reverted = IF txs[t].scope # "files" /\ n \in SelectedBy(t)
                                       THEN ~txs[t].redo ELSE log[n].reverted
                 /\ log'[n].op = IF txs[t].scope # "files" /\ n \in txs[t].ops
                                 THEN IF txs[t].redo THEN "on" ELSE "off" ELSE log[n].op
<1>1. Len(log) \in Nat /\ Seqs = 1 .. Len(log)
    BY DEF Typed, LogTyped, Seqs
<1>2. Len(log') = Len(log)
    BY ProjectedLog
<1>3. ASSUME NEW n \in Seqs
      PROVE  /\ log'[n].session = log[n].session /\ log'[n].origin = log[n].origin
             /\ log'[n].gen = log[n].gen
             /\ log'[n].reverted = IF txs[t].scope # "files" /\ n \in SelectedBy(t)
                                   THEN ~txs[t].redo ELSE log[n].reverted
             /\ log'[n].op = IF txs[t].scope # "files" /\ n \in txs[t].ops
                             THEN IF txs[t].redo THEN "on" ELSE "off" ELSE log[n].op
  <2> DEFINE tx == txs[t]
             op == IF tx.scope # "files" /\ n \in tx.ops THEN IF tx.redo THEN "on" ELSE "off" ELSE log[n].op
             undone == IF ~(tx.scope # "files") /\ n \in tx.ops THEN ~tx.redo ELSE log[n].undone
             reverted == IF tx.scope # "files" /\ n \in Selected(tx.members, tx.root, tx.boundary)
                         THEN ~tx.redo ELSE log[n].reverted
  <2>1. log'[n] = [log[n] EXCEPT !.op = op, !.undone = undone, !.reverted = reverted]
      BY DEF Projected
  <2>2. log[n] \in LogRec
      BY LogFields
  <2> HIDE DEF op, undone, reverted
  <2>3. /\ log'[n].session = log[n].session /\ log'[n].origin = log[n].origin
        /\ log'[n].gen = log[n].gen /\ log'[n].reverted = reverted /\ log'[n].op = op
      BY <2>1, <2>2 DEF LogRec
  <2> QED BY <2>3 DEF op, reverted, SelectedBy
<1> QED BY <1>1, <1>2, <1>3 DEF Placed, Seqs


Committing(t) ==
    /\ txs[t].scope # "files" /\ Settled(t, "committed") /\ log' = Projected(txs[t])
    /\ UNCHANGED <<gen, kept, adrift, marker>>
    /\ reverts' = [reverts EXCEPT ![txs[t].root] = IF txs[t].redo THEN <<>> ELSE Append(@, t)]
    /\ \A s \in DOMAIN txs[t].targets : marker[s] = Goal(t, s)

LEMMA CommitLists ==
    ASSUME IInv, HInv, NEW t \in Pending, Committing(t)
    PROVE  /\ txs[t].root \in Heads /\ txs[t].root \in Session
           /\ \A a \in Session : a # txs[t].root => reverts'[a] = reverts[a] /\ Listed(a)' = Listed(a)
           /\ txs[t].redo => \A u : u \notin {reverts'[txs[t].root][i] : i \in DOMAIN reverts'[txs[t].root]}
           /\ ~txs[t].redo =>
                 /\ \A u : u \in {reverts'[txs[t].root][i] : i \in DOMAIN reverts'[txs[t].root]}
                              <=> u \in Listed(txs[t].root) \/ u = t
                 /\ reverts'[txs[t].root][Len(reverts'[txs[t].root])] = t
<1>1. PICK a : a = txs[t].root
    OBVIOUS
<1>2. /\ t \in DOMAIN txs /\ DOMAIN txs = 1 .. Len(txs)
      /\ a \in Heads /\ a \in Session /\ reverts \in [Session -> Seq(1 .. Len(txs))]
    BY <1>1, FenceOf, TxNumbers, TreeAssumption DEF IInv, Typed, LedgerTyped, HInv, TxForm
<1>3. /\ reverts'[a] = IF txs[t].redo THEN <<>> ELSE Append(reverts[a], t)
      /\ \A b \in Session : b # a => reverts'[b] = reverts[b]
    BY <1>1, <1>2 DEF Committing
<1>4. \A b \in Session : b # a => Listed(b)' = Listed(b)
    BY <1>3 DEF Listed
<1>5. CASE txs[t].redo
    BY <1>1, <1>2, <1>3, <1>4, <1>5
<1>6. CASE ~txs[t].redo
  <2>1. reverts[a] \in Seq(1 .. Len(txs)) /\ t \in 1 .. Len(txs) /\ reverts'[a] = Append(reverts[a], t)
      BY <1>2, <1>3, <1>6
  <2>2. /\ DOMAIN reverts'[a] = 1 .. Len(reverts[a]) + 1 /\ Len(reverts'[a]) = Len(reverts[a]) + 1
        /\ reverts'[a][Len(reverts[a]) + 1] = t
        /\ DOMAIN reverts[a] = 1 .. Len(reverts[a]) /\ Len(reverts[a]) \in Nat
        /\ \A i \in 1 .. Len(reverts[a]) : reverts'[a][i] = reverts[a][i]
      BY <2>1
  <2>3. \A u : u \in {reverts'[a][i] : i \in DOMAIN reverts'[a]} <=> u \in Listed(a) \/ u = t
    <3>1. ASSUME NEW u, u \in Listed(a) PROVE u \in {reverts'[a][i] : i \in DOMAIN reverts'[a]}
      <4>1. PICK i \in DOMAIN reverts[a] : u = reverts[a][i]
          BY <3>1 DEF Listed
      <4>2. i \in DOMAIN reverts'[a] /\ reverts'[a][i] = u
          BY <2>2, <4>1
      <4> QED BY <4>2
    <3>2. t \in {reverts'[a][i] : i \in DOMAIN reverts'[a]}
      <4>1. Len(reverts[a]) + 1 \in DOMAIN reverts'[a]
          BY <2>2
      <4> QED BY <2>2, <4>1
    <3>3. ASSUME NEW u \in {reverts'[a][i] : i \in DOMAIN reverts'[a]} PROVE u \in Listed(a) \/ u = t
      <4>1. PICK i \in DOMAIN reverts'[a] : u = reverts'[a][i]
          OBVIOUS
      <4>2. i = Len(reverts[a]) + 1 \/ i \in DOMAIN reverts[a]
          BY <2>2
      <4> QED BY <2>2, <4>1, <4>2 DEF Listed
    <3> QED BY <3>1, <3>2, <3>3
  <2> QED BY <1>1, <1>2, <1>3, <1>4, <1>6, <2>2, <2>3
<1> QED BY <1>5, <1>6

\* The sessions outside the request are left alone.
LEMMA CommitOutside ==
    ASSUME IInv, HInv, NEW t \in Pending, Committing(t)
    PROVE  \A n \in Seqs : log[n].session \notin txs[t].members =>
              log'[n].reverted = log[n].reverted /\ log'[n].op = log[n].op
<1> SUFFICES ASSUME NEW n \in Seqs, log[n].session \notin txs[t].members
             PROVE  log'[n].reverted = log[n].reverted /\ log'[n].op = log[n].op
    OBVIOUS
<1>1. n \notin SelectedBy(t)
    BY DEF SelectedBy, Selected
<1>2. n \notin txs[t].ops
  <2> SUFFICES ASSUME n \in txs[t].ops PROVE FALSE
      OBVIOUS
  <2>1. t \in DOMAIN txs /\ txs[t].root \in Session
      BY FenceOf DEF HInv, TxForm
  <2>2. CASE Rewinds(t)
      BY <1>1, <2>2 DEF HInv, PendingReverts, Holds
  <2>3. CASE Redoes(t)
    <3>1. PICK u \in Listed(txs[t].root) : n \in txs[u].ops /\ txs[u].members \subseteq txs[t].members
        BY <2>3 DEF HInv, PendingRedos
    <3>2. n \in SelectedBy(u)
        BY <2>1, <3>1, ListedTx DEF Holds
    <3> QED BY <3>1, <3>2 DEF SelectedBy, Selected
  <2> QED BY <2>1, <2>2, <2>3 DEF Committing, Rewinds, Redoes, HInv, TxForm
<1>3. /\ log'[n].reverted = IF txs[t].scope # "files" /\ n \in SelectedBy(t)
                            THEN ~txs[t].redo ELSE log[n].reverted
      /\ log'[n].op = IF txs[t].scope # "files" /\ n \in txs[t].ops
                      THEN IF txs[t].redo THEN "on" ELSE "off" ELSE log[n].op
    BY ProjectedFields DEF Committing, IInv
<1> QED BY <1>1, <1>2, <1>3

LEMMA CommitFields ==
    ASSUME IInv, HInv, NEW t \in Pending, Committing(t)
    PROVE  /\ Placed /\ Seqs' = Seqs /\ UNCHANGED <<gen, kept, adrift, marker>>
           /\ \A n \in Seqs :
                 /\ log'[n].reverted = IF n \in SelectedBy(t) THEN ~txs[t].redo ELSE log[n].reverted
                 /\ log'[n].op = IF n \in txs[t].ops THEN IF txs[t].redo THEN "on" ELSE "off" ELSE log[n].op
                 /\ log[n].reverted \in BOOLEAN /\ log[n].session \in Session
           /\ Frozen /\ DOMAIN txs' = DOMAIN txs /\ txs[t].redo \in BOOLEAN
           /\ Rewinds(t) <=> ~txs[t].redo
           /\ Redoes(t) <=> txs[t].redo
<1>1. /\ Placed /\ Seqs' = Seqs
      /\ \A n \in Seqs :
            /\ log'[n].reverted = IF txs[t].scope # "files" /\ n \in SelectedBy(t)
                                  THEN ~txs[t].redo ELSE log[n].reverted
            /\ log'[n].op = IF txs[t].scope # "files" /\ n \in txs[t].ops
                            THEN IF txs[t].redo THEN "on" ELSE "off" ELSE log[n].op
    BY ProjectedFields DEF Committing, IInv
<1>2. Frozen /\ DOMAIN txs' = DOMAIN txs
    BY OneSettled DEF Committing
<1>3. txs[t].redo \in BOOLEAN /\ txs[t].scope # "files"
    BY FenceOf DEF HInv, TxForm, Committing
<1>4. \A n \in Seqs : log[n].reverted \in BOOLEAN /\ log[n].session \in Session
    BY LogFields DEF IInv
<1> QED BY <1>1, <1>2, <1>3, <1>4 DEF Committing, Rewinds, Redoes

LEMMA CommitGenerations ==
    ASSUME IInv, HInv, NEW t \in Pending, Committing(t)
    PROVE  Generations' /\ Origins'
<1>1. \A n \in Seqs : /\ log'[n].session = log[n].session /\ log'[n].gen = log[n].gen
                      /\ log'[n].origin = log[n].origin /\ log[n].session \in Session
    BY CommitFields DEF Placed
<1>2. Seqs' = Seqs /\ UNCHANGED <<gen, kept, adrift>>
    BY CommitFields
<1>3. ASSUME NEW n \in Seqs, log[n].gen = gen[log[n].session]
      PROVE  /\ pending'[log[n].session] = 0 /\ reverts'[log[n].session] = <<>>
             /\ log'[n].reverted = log[n].reverted /\ log'[n].op = log[n].op
             /\ n \in kept /\ n \notin adrift /\ ~log[n].reverted
  <2>1. /\ pending[log[n].session] = 0 /\ reverts[log[n].session] = <<>>
        /\ n \in kept /\ n \notin adrift /\ ~log[n].reverted
      BY <1>3 DEF HInv, Generations
  <2>2. t # 0 /\ log[n].session \notin txs[t].members /\ txs[t].root \in txs[t].members
      BY <2>1, FenceOf DEF HInv, TxForm
  <2>3. pending'[log[n].session] = 0
      BY <1>1, <2>1, <2>2, OneSettled DEF Committing
  <2>4. reverts'[log[n].session] = <<>>
      BY <1>1, <2>1, <2>2, CommitLists
  <2> QED BY <2>1, <2>2, <2>3, <2>4, CommitOutside
<1>4. Generations'
  <2> SUFFICES ASSUME NEW n \in Seqs
               PROVE  LET s == log'[n].session IN
                      /\ log'[n].gen <= gen'[s]
                      /\ log'[n].gen = gen'[s] =>
                            /\ pending'[s] = 0 /\ reverts'[s] = <<>>
                            /\ n \in kept' /\ n \notin adrift' /\ ~log'[n].reverted
      BY <1>2 DEF Generations
  <2> QED BY <1>1, <1>2, <1>3 DEF HInv, Generations
<1>5. Origins'
  <2> SUFFICES ASSUME Root \in Heads PROVE Origins'
      BY DEF Origins
  <2>1. Of(Root)' = Of(Root) /\ Of(Root) \subseteq Seqs
      BY <1>1, <1>2 DEF Of
  <2>2. \A n \in Of(Root) : log[n].session = Root
      BY DEF Of
  <2>3. \A n \in Of(Root) : log'[n].gen = gen'[Root] => log'[n].op \in {"open", "on"}
      BY <1>1, <1>2, <1>3, <2>1, <2>2 DEF HInv, Origins
  <2>4. \A m, n \in Of(Root) : m <= n => log'[m].gen <= log'[n].gen
      BY <1>1, <2>1 DEF HInv, Origins
  <2>5. \A n \in Seqs : log'[n].session # Root => log'[n].origin \in Of(Root)
      BY <1>1 DEF HInv, Origins
  <2>6. \A m, n \in Seqs : log'[m].session = log'[n].session /\ log'[n].session # Root /\ m <= n =>
                              log'[m].origin <= log'[n].origin
      BY <1>1 DEF HInv, Origins
  <2> QED BY <1>2, <2>1, <2>3, <2>4, <2>5, <2>6 DEF Origins
<1> QED BY <1>4, <1>5


LEMMA CommitMarkers ==
    ASSUME NoHeadAbove, IInv, HInv, NEW t \in Pending, Committing(t)
    PROVE  Markers'
<1> SUFFICES ASSUME NEW s \in Session, NEW n \in (kept \cap Of(s)) \ adrift
             PROVE  log'[n].reverted <=> Base(s)' # 0 /\ n >= Base(s)'
    BY CommitFields, SameSelection DEF Markers
<1>1. /\ n \in Seqs /\ log[n].session = s /\ n \in kept \ adrift
      /\ log[n].reverted \in BOOLEAN
      /\ log'[n].reverted = IF n \in SelectedBy(t) THEN ~txs[t].redo ELSE log[n].reverted
      /\ log[n].reverted <=> Base(s) # 0 /\ n >= Base(s)
    BY CommitFields DEF Of, HInv, Markers
<1>2. marker' = marker
    BY CommitFields
<1>3. CASE s \notin txs[t].members
  <2>1. pending[s] # t
      BY <1>3, FenceOf DEF IInv, FencesOwned
  <2>2. Base(s)' = Base(s)
      BY <1>2, <2>1, SettledBase DEF Committing
  <2> QED BY <1>1, <1>3, <2>2, CommitOutside
<1>4. CASE s \in txs[t].members
  <2>1. pending[s] = t /\ Base(s)' = marker[s]
      BY <1>2, <1>4, FenceOf, SettledBase DEF Committing
  <2>2. /\ log[n].reverted => n \in SelectedBy(t)
        /\ log[n].reverted => \E u \in Listed(txs[t].root) : s \in DOMAIN txs[u].targets
      BY <1>1, <1>4, ReasonOf DEF Committing
  <2>3. CASE s \in DOMAIN txs[t].targets /\ ~txs[t].redo
    <3>1. marker[s] = txs[t].targets[s]
        BY <2>3 DEF Committing, Goal
    <3>2. Cuts(t)
        BY <2>3, CommitFields DEF HInv, PendingReverts
    <3>3. txs[t].targets[s] # 0 /\ (n \in SelectedBy(t) <=> n >= txs[t].targets[s])
        BY <1>1, <2>3, <3>2 DEF Cuts, Of, Seqs
    <3> QED BY <1>1, <2>1, <2>2, <2>3, <3>1, <3>3
  <2>4. CASE s \in DOMAIN txs[t].targets /\ txs[t].redo
    <3>1. marker[s] = 0
        BY <2>4 DEF Committing, Goal
    <3> QED BY <1>1, <2>1, <2>2, <2>4, <3>1
  <2>5. CASE s \notin DOMAIN txs[t].targets
    <3>1. Base(s) = marker[s]
        BY <2>1, <2>5 DEF Base
    <3>2. log'[n].reverted = log[n].reverted
      <4>1. CASE ~txs[t].redo
        <5>1. n \notin SelectedBy(t)
            BY <1>1, <2>5, <4>1, CommitFields DEF HInv, PendingReverts, Covers
        <5> QED BY <1>1, <5>1
      <4>2. CASE txs[t].redo
        <5>1. ~log[n].reverted
            BY <2>2, <2>5, <4>2, CommitFields DEF HInv, PendingRedos
        <5> QED BY <1>1, <4>2, <5>1
      <4> QED BY <4>1, <4>2
    <3> QED BY <1>1, <2>1, <3>1, <3>2
  <2> QED BY <2>3, <2>4, <2>5, CommitFields
<1> QED BY <1>3, <1>4

LEMMA CommitFiles ==
    ASSUME NoHeadAbove, IInv, HInv, NEW t \in Pending, Committing(t)
    PROVE  Files'
<1> SUFFICES ASSUME NEW n \in Seqs \ adrift
             PROVE  /\ log'[n].op = "on" => n \in kept /\ ~log'[n].reverted
                    /\ log'[n].op = "off" => n \notin kept \/ log'[n].reverted
    BY CommitFields DEF Files
<1>1. /\ log[n].reverted \in BOOLEAN
      /\ log'[n].reverted = IF n \in SelectedBy(t) THEN ~txs[t].redo ELSE log[n].reverted
      /\ log'[n].op = IF n \in txs[t].ops THEN IF txs[t].redo THEN "on" ELSE "off" ELSE log[n].op
      /\ log[n].op = "on" => n \in kept /\ ~log[n].reverted
      /\ log[n].op = "off" => n \notin kept \/ log[n].reverted
    BY CommitFields DEF HInv, Files
<1>2. CASE ~txs[t].redo
  <2>1. /\ txs[t].ops \subseteq SelectedBy(t)
        /\ n \in SelectedBy(t) /\ log[n].op = "on" => n \in txs[t].ops
      BY <1>2, CommitFields DEF HInv, PendingReverts, Holds
  <2> QED BY <1>1, <1>2, <2>1
<1>3. CASE txs[t].redo
  <2>1. ASSUME n \in txs[t].ops PROVE n \in kept /\ n \in SelectedBy(t)
    <3>1. PICK u \in Listed(txs[t].root) :
             /\ n \in txs[u].ops /\ txs[u].members \subseteq txs[t].members
             /\ txs[t].boundary <= txs[u].boundary
        BY <1>3, <2>1, CommitFields DEF HInv, PendingRedos
    <3>2. u \in DOMAIN txs /\ txs[u].root = txs[t].root /\ Holds(u) /\ t \in DOMAIN txs
        BY <3>1, CommitLists, ListedTx, FenceOf
    <3>3. n \in SelectedBy(u) /\ n \in kept
        BY <3>1, <3>2 DEF Holds
    <3>4. log[n].session \in txs[t].members
        BY <3>1, <3>3 DEF SelectedBy, Selected
    <3> QED BY <3>1, <3>2, <3>3, <3>4, Nested DEF HInv
  <2>2. CASE log[n].session \in txs[t].members
    <3>1. ASSUME n \in kept, log[n].op = "off" PROVE n \in txs[t].ops
      <4>1. \E u \in Listed(txs[t].root) : n \in txs[u].ops
          BY <2>2, <3>1, ReasonOf DEF Committing
      <4> QED BY <1>3, <4>1, CommitFields DEF HInv, PendingRedos
    <3> QED BY <1>1, <1>3, <2>1, <3>1
  <2>3. CASE log[n].session \notin txs[t].members
      BY <1>1, <2>3, CommitOutside
  <2> QED BY <2>2, <2>3
<1> QED BY <1>2, <1>3, CommitFields

LEMMA CommitSelections ==
    ASSUME IInv, HInv, NEW t \in Pending, Committing(t)
    PROVE  PendingReverts' /\ PendingRedos'
<1>1. /\ \A v \in DOMAIN txs : SelectedBy(v)' = SelectedBy(v)
      /\ \A v \in DOMAIN txs : (Covers(v)' <=> Covers(v)) /\ (Cuts(v)' <=> Cuts(v))
      /\ \A v \in DOMAIN txs : (Rewinds(v)' <=> Rewinds(v)) /\ (Redoes(v)' <=> Redoes(v))
      /\ UNCHANGED <<kept, adrift>> /\ Frozen
    BY SameSelection, SameCuts, CommitFields
<1>2. ASSUME NEW v \in Pending'
      PROVE  /\ v \in Pending /\ v \in DOMAIN txs /\ v # t
             /\ Listed(txs[v].root)' = Listed(txs[v].root)
             /\ \A u \in Listed(txs[v].root) : u \in DOMAIN txs
             /\ \A n \in SelectedBy(v) : n \in Seqs /\ log'[n].op = log[n].op
  <2>1. v # t /\ v \in DOMAIN txs /\ txs'[v] = txs[v]
      BY OneSettled DEF Committing, Pending
  <2>2. v \in Pending
      BY <2>1 DEF Pending
  <2>3. \A s \in txs[v].members : s \notin txs[t].members
      BY <2>1, <2>2, FenceOf
  <2>4. txs[v].root # txs[t].root /\ txs[v].root \in Session /\ txs'[v].root = txs[v].root
      BY <2>1, <2>2, <2>3, FenceOf DEF HInv, TxForm
  <2>5. Listed(txs[v].root)' = Listed(txs[v].root)
    <3>1. reverts'[txs[v].root] = reverts[txs[v].root]
        BY <2>4, CommitLists
    <3> QED BY <2>4, <3>1 DEF Listed
  <2>6. \A n \in SelectedBy(v) : n \in Seqs /\ log'[n].op = log[n].op
    <3>1. \A n \in SelectedBy(v) : n \in Seqs /\ log[n].session \in txs[v].members
        BY DEF SelectedBy, Selected
    <3> QED BY <2>3, <3>1, CommitOutside
  <2> QED BY <2>1, <2>2, <2>4, <2>5, <2>6, ListedTx
<1>3. PendingReverts'
  <2> SUFFICES ASSUME NEW v \in Pending', Rewinds(v)'
               PROVE  /\ Covers(v)' /\ Cuts(v)' /\ Holds(v)'
                      /\ \A n \in SelectedBy(v)' : log'[n].op = "on" => n \in txs'[v].ops
                      /\ \A u \in Listed(txs[v].root)' : txs'[v].boundary <= txs'[u].boundary
      BY DEF PendingReverts
  <2>1. /\ Rewinds(v) /\ txs'[v].ops = txs[v].ops /\ txs'[v].boundary = txs[v].boundary
      BY <1>1, <1>2 DEF Frozen
  <2>2. Covers(v)' /\ Cuts(v)' /\ Holds(v)'
      BY <1>1, <1>2, <2>1 DEF HInv, PendingReverts, Holds
  <2>3. \A n \in SelectedBy(v) : log'[n].op = "on" => n \in txs[v].ops
      BY <1>2, <2>1 DEF HInv, PendingReverts
  <2>4. ASSUME NEW u \in Listed(txs[v].root) PROVE txs[v].boundary <= txs'[u].boundary
      BY <1>1, <1>2, <2>1 DEF HInv, PendingReverts, Frozen
  <2> QED BY <1>1, <1>2, <2>1, <2>2, <2>3, <2>4
<1>4. PendingRedos'
  <2> SUFFICES ASSUME NEW v \in Pending', Redoes(v)'
               PROVE  /\ \A u \in Listed(txs[v].root)' :
                            /\ txs'[u].members \subseteq txs'[v].members
                            /\ DOMAIN txs'[u].targets \subseteq DOMAIN txs'[v].targets
                            /\ txs'[v].boundary <= txs'[u].boundary
                            /\ txs'[u].ops \subseteq txs'[v].ops
                      /\ \A n \in txs'[v].ops : \E u \in Listed(txs[v].root)' : n \in txs'[u].ops
      BY DEF PendingRedos
  <2>1. /\ v \in Pending /\ Redoes(v)
        /\ txs'[v].ops = txs[v].ops /\ txs'[v].members = txs[v].members
        /\ txs'[v].boundary = txs[v].boundary /\ txs'[v].targets = txs[v].targets
        /\ Listed(txs[v].root)' = Listed(txs[v].root)
      BY <1>1, <1>2 DEF Frozen
  <2>2. \A u \in Listed(txs[v].root) :
          /\ txs'[u].ops = txs[u].ops /\ txs'[u].members = txs[u].members
          /\ txs'[u].boundary = txs[u].boundary /\ txs'[u].targets = txs[u].targets
      BY <1>1, <1>2 DEF Frozen
  <2> QED BY <2>1, <2>2 DEF HInv, PendingRedos
<1> QED BY <1>3, <1>4



\* What a Redo of the head would undo, after it.
LEMMA CommitListed ==
    ASSUME IInv, HInv, NEW t \in Pending, Committing(t), NEW r, r = txs[t].root
    PROVE  /\ txs[t].redo => \A u : u \notin Listed(r)'
           /\ ~txs[t].redo => /\ \A u : u \in Listed(r)' <=> u \in Listed(r) \/ u = t
                              /\ reverts'[r][Len(reverts'[r])] = t
<1>1. Listed(r)' = {reverts'[r][i] : i \in DOMAIN reverts'[r]}
    BY DEF Listed
<1>2. {reverts'[r][i] : i \in DOMAIN reverts'[r]} =
          {reverts'[txs[t].root][i] : i \in DOMAIN reverts'[txs[t].root]}
    OBVIOUS
<1>3. Listed(r) = Listed(txs[t].root)
    OBVIOUS
<1>4. CASE txs[t].redo
    BY <1>1, <1>2, <1>4, CommitLists
<1>5. CASE ~txs[t].redo
  <2>1. reverts'[txs[t].root][Len(reverts'[txs[t].root])] = t
      BY <1>5, CommitLists
  <2>2. \A u : u \in {reverts'[txs[t].root][i] : i \in DOMAIN reverts'[txs[t].root]}
                  <=> u \in Listed(txs[t].root) \/ u = t
      BY <1>5, CommitLists
  <2> QED BY <1>1, <1>2, <1>3, <1>5, <2>1, <2>2
<1>6. txs[t].redo \in BOOLEAN
    BY CommitFields
<1> QED BY <1>4, <1>5, <1>6

LEMMA CommitReverts ==
    ASSUME NoHeadAbove, IInv, HInv, NEW t \in Pending, Committing(t)
    PROVE  Lists'
<1>1. /\ \A v \in DOMAIN txs : SelectedBy(v)' = SelectedBy(v) /\ SelectedBy(v) \subseteq Seqs
      /\ \A v \in DOMAIN txs : (Covers(v)' <=> Covers(v)) /\ (Rewinds(v)' <=> Rewinds(v))
      /\ UNCHANGED <<kept, adrift>> /\ Frozen
    BY SameSelection, SameCuts, CommitFields DEF SelectedBy, Selected
<1>2. PICK r : r = txs[t].root
    OBVIOUS
<1>3. t \in DOMAIN txs /\ r \in Heads /\ r \in Session /\ txs[t].members \subseteq Tree(r) /\ txs[t].boundary \in Nat
    BY <1>2, FenceOf, CommitLists DEF HInv, TxForm
<1> SUFFICES ASSUME NEW a \in Session, NEW u \in Listed(a)'
             PROVE  /\ u \in DOMAIN txs' /\ txs'[u].root = a /\ txs'[u].state = "committed" /\ Rewinds(u)'
                    /\ Covers(u)' /\ Holds(u)'
                    /\ \A n \in SelectedBy(u)' : log'[n].reverted
                    /\ txs'[reverts'[a][Len(reverts'[a])]].boundary <= txs'[u].boundary
    BY DEF Lists
<1>4. ASSUME NEW b \in Session, NEW v \in Listed(b), b = r => ~txs[t].redo
      PROVE  /\ v \in DOMAIN txs' /\ txs'[v].root = b /\ txs'[v].state = "committed" /\ Rewinds(v)'
             /\ Covers(v)' /\ Holds(v)'
             /\ \A n \in SelectedBy(v)' : log'[n].reverted
             /\ txs'[v].boundary = txs[v].boundary
  <2>1. /\ v \in DOMAIN txs /\ txs[v].root = b /\ b \in Heads /\ txs[v].state = "committed" /\ Rewinds(v)
        /\ txs[v].members \subseteq Tree(b) /\ Covers(v) /\ Holds(v)
        /\ \A n \in SelectedBy(v) : log[n].reverted
    <3>1. \A n \in SelectedBy(v) : log[n].reverted
        BY DEF HInv, Lists
    <3> QED BY <3>1, ListedTx
  <2>2. v # t
      BY <2>1, FenceOf
  <2>3. txs'[v] = txs[v] /\ v \in DOMAIN txs'
      BY <2>1, <2>2, OneSettled DEF Committing
  <2>4. ASSUME NEW n \in SelectedBy(v) PROVE log'[n].reverted
    <3>1. n \in Seqs /\ log[n].session \in txs[v].members /\ log[n].reverted
        BY <2>1 DEF SelectedBy, Selected
    <3>2. CASE ~txs[t].redo
        BY <3>1, <3>2, CommitFields
    <3>3. CASE txs[t].redo
      <4>1. log[n].session \notin txs[t].members
          BY <1>3, <1>4, <2>1, <3>1, <3>3, SameHead
      <4> QED BY <3>1, <4>1, CommitOutside
    <3> QED BY <3>2, <3>3, CommitFields
  <2>5. Holds(v)'
      BY <1>1, <2>1, <2>3 DEF Holds
  <2> QED BY <1>1, <2>1, <2>3, <2>4, <2>5
<1>5. CASE a # r
  <2>1. u \in Listed(a) /\ reverts'[a] = reverts[a]
      BY <1>2, <1>5, CommitLists
  <2>2. reverts[a][Len(reverts[a])] \in Listed(a)
    <3>1. reverts[a] \in Seq(1 .. Len(txs))
        BY DEF IInv, Typed, LedgerTyped
    <3>2. reverts[a] # <<>>
        BY <2>1, <3>1 DEF Listed
    <3>3. Len(reverts[a]) \in DOMAIN reverts[a]
        BY <3>1, <3>2
    <3> QED BY <3>3 DEF Listed
  <2>3. txs[reverts[a][Len(reverts[a])]].boundary <= txs[u].boundary
      BY <2>1 DEF HInv, Lists
  <2>4. txs'[reverts[a][Len(reverts[a])]].boundary = txs[reverts[a][Len(reverts[a])]].boundary
      BY <1>4, <1>5, <2>2
  <2> QED BY <1>4, <1>5, <2>1, <2>3, <2>4
<1>6. CASE a = r
  <2>1. ~txs[t].redo /\ (u \in Listed(r) \/ u = t) /\ reverts'[a][Len(reverts'[a])] = t
    <3>1. txs[t].redo \in BOOLEAN
        BY CommitFields
    <3> QED BY <1>2, <1>6, <3>1, CommitListed
  <2>2. Rewinds(t) /\ txs'[t].boundary = txs[t].boundary
      BY <1>3, <2>1, CommitFields DEF Frozen
  <2>3. CASE u \in Listed(r)
    <3>1. txs[t].boundary <= txs[u].boundary
        BY <1>2, <2>2, <2>3 DEF HInv, PendingReverts
    <3> QED BY <1>3, <1>4, <1>6, <2>1, <2>2, <2>3, <3>1
  <2>4. CASE u = t
    <3>1. /\ t \in DOMAIN txs' /\ txs'[t].root = r /\ txs'[t].state = "committed" /\ Rewinds(t)'
          /\ Covers(t)'
        BY <1>1, <1>2, <1>3, <2>2, OneSettled DEF Committing, Frozen, HInv, PendingReverts
    <3>2. Holds(t)'
        BY <1>1, <1>3, <2>2 DEF HInv, PendingReverts, Holds, Frozen
    <3>3. \A n \in SelectedBy(t) : log'[n].reverted
        BY <1>1, <1>3, <2>1, CommitFields
    <3>4. txs'[t].boundary <= txs'[t].boundary
        BY <1>3, <2>2
    <3> QED BY <1>1, <1>3, <1>6, <2>1, <2>4, <3>1, <3>2, <3>3, <3>4
  <2> QED BY <2>1, <2>3, <2>4
<1> QED BY <1>5, <1>6

LEMMA CommitReasons ==
    ASSUME NoHeadAbove, IInv, HInv, NEW t \in Pending, Committing(t)
    PROVE  Reasons'
<1>1. /\ \A v \in DOMAIN txs : SelectedBy(v)' = SelectedBy(v) /\ txs'[v].ops = txs[v].ops
      /\ UNCHANGED <<kept, adrift>>
    BY SameSelection, CommitFields DEF Frozen
<1>2. PICK r : r = txs[t].root
    OBVIOUS
<1>3. t \in DOMAIN txs /\ r \in Heads /\ r \in Session /\ Heads \subseteq Session
    BY <1>2, FenceOf, CommitLists, TreeAssumption
<1>4. ~txs[t].redo => \A u : u \in Listed(r)' <=> u \in Listed(r) \/ u = t
    BY <1>2, CommitListed
<1>5. \A a \in Heads : a # r => Listed(a)' = Listed(a)
    BY <1>2, <1>3, CommitLists
<1> SUFFICES ASSUME NEW n \in kept \ adrift
             PROVE  /\ log'[n].reverted => \E a \in Heads : \E u \in Listed(a)' : n \in SelectedBy(u)'
                    /\ log'[n].op = "off" => \E a \in Heads : \E u \in Listed(a)' : n \in txs'[u].ops
    BY <1>1 DEF Reasons
<1>6. /\ n \in Seqs /\ log[n].reverted \in BOOLEAN
      /\ log'[n].reverted = IF n \in SelectedBy(t) THEN ~txs[t].redo ELSE log[n].reverted
      /\ log'[n].op = IF n \in txs[t].ops THEN IF txs[t].redo THEN "on" ELSE "off" ELSE log[n].op
  <2>1. n \in Seqs
      BY DEF IInv, Typed, StoreTyped, Seqs
  <2> QED BY <2>1, CommitFields
\* A reason that stands is still listed.
<1>7. ASSUME NEW a \in Heads, NEW u \in Listed(a), n \in SelectedBy(u),
             a = r => ~txs[t].redo
      PROVE  u \in Listed(a)' /\ u \in DOMAIN txs /\ n \in SelectedBy(u)'
  <2>1. u \in DOMAIN txs
      BY <1>3, ListedTx
  <2> QED BY <1>1, <1>4, <1>5, <1>7, <2>1
\* A Redo takes every reason of its head away, and what was reverted for it.
<1>8. ASSUME NEW u \in Listed(r), n \in SelectedBy(u), txs[t].redo
      PROVE  n \in SelectedBy(t) /\ txs[u].ops \subseteq txs[t].ops
  <2>1. /\ txs[u].members \subseteq txs[t].members /\ txs[t].boundary <= txs[u].boundary
        /\ txs[u].ops \subseteq txs[t].ops
      BY <1>2, <1>8, CommitFields DEF HInv, PendingRedos
  <2>2. u \in DOMAIN txs /\ txs[u].root = txs[t].root
      BY <1>2, <1>3, ListedTx
  <2>3. log[n].session \in txs[t].members
      BY <1>8, <2>1 DEF SelectedBy, Selected
  <2> QED BY <1>3, <1>8, <2>1, <2>2, <2>3, Nested DEF HInv
<1>9. ASSUME log'[n].reverted
      PROVE  \E a \in Heads : \E u \in Listed(a)' : n \in SelectedBy(u)'
  <2>1. CASE n \in SelectedBy(t) /\ ~txs[t].redo
      BY <1>1, <1>3, <1>4, <2>1
  <2>2. CASE log[n].reverted /\ (n \in SelectedBy(t) => ~txs[t].redo)
    <3>1. PICK a \in Heads : \E u \in Listed(a) : n \in SelectedBy(u)
        BY <2>2 DEF HInv, Reasons
    <3>2. PICK u \in Listed(a) : n \in SelectedBy(u)
        BY <3>1
    <3> QED BY <1>7, <1>8, <2>2, <3>2
  <2> QED BY <1>6, <1>9, <2>1, <2>2, CommitFields
<1>10. ASSUME log'[n].op = "off"
       PROVE  \E a \in Heads : \E u \in Listed(a)' : n \in txs'[u].ops
  <2>1. CASE n \in txs[t].ops /\ ~txs[t].redo
      BY <1>1, <1>3, <1>4, <2>1
  <2>2. CASE log[n].op = "off" /\ n \notin txs[t].ops
    <3>1. PICK a \in Heads : \E u \in Listed(a) : n \in txs[u].ops
        BY <2>2 DEF HInv, Reasons
    <3>2. PICK u \in Listed(a) : n \in txs[u].ops
        BY <3>1
    <3>3. n \in SelectedBy(u)
        BY <1>3, <3>2, ListedTx DEF Holds
    <3>4. u \in Listed(a)' /\ u \in DOMAIN txs
        BY <1>7, <1>8, <2>2, <3>2, <3>3, CommitFields
    <3> QED BY <1>1, <3>2, <3>4
  <2> QED BY <1>6, <1>10, <2>1, <2>2, CommitFields
<1> QED BY <1>9, <1>10

LEMMA CommitHistory ==
    ASSUME NoHeadAbove, IInv, HInv, NEW h \in Host, Commit(h)
    PROVE  HInv'
<1>1. PICK t : t = host[h].tx
    OBVIOUS
<1>2. /\ Working(h) /\ host[h].pc = "commit" /\ Settled(t, "committed") /\ log' = Projected(txs[t])
      /\ UNCHANGED <<gen, kept, adrift, marker, store>> /\ host' = Done(h)
      /\ reverts' = IF txs[t].scope = "files" THEN reverts
                    ELSE [reverts EXCEPT ![txs[t].root] = IF txs[t].redo THEN <<>> ELSE Append(@, t)]
    BY <1>1 DEF Commit, Working, store
<1>3. t \in Pending /\ txs[t].phase = "files" /\ t \in DOMAIN txs
    BY <1>1, <1>2, AtWork, FenceOf DEF Fits
<1>4. \A g \in Host : Working(g)' => Working(g) /\ host'[g] = host[g] /\ host[g].tx # t
    BY <1>1, <1>2, HolderSettles
<1>5. Progress' /\ Decided'
    BY <1>2, <1>3, <1>4, SettledProgress, SettledDecided DEF HInv
<1>6. CASE txs[t].scope = "files"
  <2>1. Placed /\ Seqs' = Seqs
        /\ \A n \in Seqs : log'[n].reverted = log[n].reverted /\ log'[n].op = log[n].op
      BY <1>2, <1>6, ProjectedFields DEF IInv
  <2>2. \A s \in Session : pending[s] = t => Base(s) = marker[s]
    <3>1. DOMAIN txs[t].targets = {}
        BY <1>3, <1>6 DEF HInv, TxForm
    <3> QED BY <3>1 DEF Base
  <2> QED BY <1>2, <1>3, <1>4, <1>6, <2>1, <2>2, SettledHistory
<1>7. CASE txs[t].scope # "files"
  <2>1. \A s \in DOMAIN txs[t].targets : marker[s] = Goal(t, s)
      BY <1>3 DEF HInv, Decided
  <2>2. Committing(t)
      BY <1>2, <1>7, <2>1 DEF Committing
  <2>3. TxForm'
      BY <1>3, <2>2, CommitFields, SteadyTransactions DEF HInv
  <2>4. Generations' /\ Origins' /\ Markers' /\ Files'
      BY <1>3, <2>2, CommitGenerations, CommitMarkers, CommitFiles
  <2>5. PendingReverts' /\ PendingRedos' /\ Lists' /\ Reasons'
      BY <1>3, <2>2, CommitSelections, CommitReverts, CommitReasons
  <2> QED BY <1>5, <2>3, <2>4, <2>5 DEF HInv
<1> QED BY <1>6, <1>7


-----------------------------------------------------------------------------
(* Requests are recorded *)

\* A set of numbers has a least one.
LEMMA LeastExists ==
    ASSUME NEW S \in SUBSET Nat, S # {}
    PROVE  First(S) \in S /\ \A m \in S : First(S) <= m
<1> DEFINE R == OpToRel(<, Nat)
<1>1. IsWellFoundedOn(R, Nat)
    BY NatLessThanWellFounded
<1>2. \A x, y \in Nat : <<y, x>> \in R <=> y < x
    BY DEF OpToRel
<1> HIDE DEF R
<1>3. PICK x \in S : \A y \in S : ~(<<y, x>> \in R)
    BY <1>1, WFMin
<1>4. \A y \in S : ~(y < x)
    BY <1>2, <1>3
<1>5. \A y \in S : x <= y
    BY <1>4
<1> QED BY <1>3, <1>5 DEF First

Fresh(tx) ==
    /\ tx.root \in Heads /\ tx.root \in tx.members
    /\ tx.members \subseteq Tree(tx.root)
    /\ tx.redo \in BOOLEAN /\ tx.boundary \in Nat
    /\ tx.scope = "files" => DOMAIN tx.targets = {}
    /\ tx.scope # "files" => tx.root \in DOMAIN tx.targets

FreshRevert(tx) ==
    LET S == Selected(tx.members, tx.root, tx.boundary) IN
    /\ \A n \in S : log[n].session \in DOMAIN tx.targets
    /\ \A m \in DOMAIN tx.targets : /\ tx.targets[m] \in Seqs
                                    /\ \A n \in Of(m) : n \in S <=> n >= tx.targets[m]
    /\ tx.ops \subseteq S /\ tx.ops \subseteq kept \cup adrift
    /\ \A n \in S : log[n].op = "on" => n \in tx.ops
    /\ \A u \in Listed(tx.root) : tx.boundary <= txs[u].boundary

FreshRedo(tx) ==
    /\ \A u \in Listed(tx.root) :
          /\ txs[u].members \subseteq tx.members
          /\ DOMAIN txs[u].targets \subseteq DOMAIN tx.targets
          /\ tx.boundary <= txs[u].boundary
          /\ txs[u].ops \subseteq tx.ops
    /\ \A n \in tx.ops : \E u \in Listed(tx.root) : n \in txs[u].ops

\* A transaction is recorded behind the others.
LEMMA Recorded ==
    ASSUME IInv, NEW h \in Host, NEW tx, TxOK(tx), tx.state = "prepared", Prepare(h, tx),
           NEW t, t = Len(txs) + 1
    PROVE  /\ t \notin DOMAIN txs /\ t # 0 /\ DOMAIN txs' = DOMAIN txs \cup {t}
           /\ txs'[t] = tx /\ \A u \in DOMAIN txs : txs'[u] = txs[u]
           /\ Frozen /\ Placed /\ Seqs' = Seqs
           /\ UNCHANGED <<log, reverts, kept, adrift, marker>>
           /\ \A u : u \in Pending' <=> u \in Pending \/ u = t
<1>1. /\ Typed /\ Len(txs) \in Nat /\ DOMAIN txs = 1 .. Len(txs)
      /\ Pending = {u \in 1 .. Len(txs) : txs[u].state = "prepared"}
    BY TxNumbers DEF IInv, Typed
<1>2. /\ DOMAIN txs' = DOMAIN txs \cup {t}
      /\ txs'[t] = tx /\ \A u \in DOMAIN txs : txs'[u] = txs[u]
  <2> DEFINE X == {txs[u] : u \in 1 .. Len(txs)} \cup {tx}
  <2>1. txs = [u \in 1 .. Len(txs) |-> txs[u]] /\ \A u \in 1 .. Len(txs) : txs[u] \in X
      BY <1>1 DEF Typed, TxsTyped
  <2>2. tx \in X
      OBVIOUS
  <2> HIDE DEF X
  <2>3. txs \in Seq(X)
      BY <1>1, <2>1, FunctionIsSequence
  <2>4. txs' = Append(txs, tx)
      BY DEF Prepare
  <2>5. /\ txs' \in Seq(X) /\ Len(txs') = Len(txs) + 1 /\ txs'[Len(txs) + 1] = tx
        /\ \A u \in 1 .. Len(txs) : txs'[u] = txs[u]
      BY <2>2, <2>3, <2>4, Appended
  <2>6. DOMAIN txs' = 1 .. Len(txs) + 1
      BY <2>5
  <2> QED BY <1>1, <2>5, <2>6
<1>3. t \notin DOMAIN txs /\ t # 0
    BY <1>1
<1>4. UNCHANGED <<log, reverts, kept, adrift, marker>> /\ Placed /\ Seqs' = Seqs
    BY DEF Prepare, store, Placed, Seqs
<1>5. Frozen
    BY <1>2 DEF Frozen
<1>6. \A u : u \in Pending' <=> u \in Pending \/ u = t
    BY <1>2, <1>3 DEF Pending
<1> QED BY <1>2, <1>3, <1>4, <1>5, <1>6

\* The members enter a generation of their own, with the markers they had.
LEMMA PrepareFences ==
    ASSUME IInv, HInv, NEW h \in Host, NEW tx, TxOK(tx), tx.state = "prepared",
           tx.phase = "prepared", Prepare(h, tx)
    PROVE  Generations' /\ Origins' /\ Markers' /\ Files'
<1>1. PICK t : t = Len(txs) + 1
    OBVIOUS
<1>2. /\ txs'[t] = tx /\ \A u \in DOMAIN txs : txs'[u] = txs[u]
      /\ Frozen /\ Placed /\ Seqs' = Seqs
      /\ UNCHANGED <<log, reverts, kept, adrift, marker>>
    BY <1>1, Recorded
<1>10. /\ \A s \in Session :
            /\ s \in tx.members => pending[s] = 0 /\ pending'[s] = t /\ gen'[s] = gen[s] + 1
            /\ s \notin tx.members => pending'[s] = pending[s] /\ gen'[s] = gen[s]
      /\ \A s \in Session : pending[s] # 0 => pending[s] \in DOMAIN txs
    BY <1>1, TxNumbers DEF Prepare, IInv, Typed, LedgerTyped
<1>3. \A n \in Seqs : log[n].session \in Session /\ log[n].gen \in Nat
    BY LogFields DEF IInv
<1>4. \A s \in Session : gen[s] \in Nat
    BY TxNumbers DEF IInv, Typed, LedgerTyped
<1>5. ASSUME NEW n \in Seqs
      PROVE  /\ log[n].gen <= gen'[log[n].session]
             /\ log[n].gen = gen'[log[n].session] =>
                   /\ log[n].gen = gen[log[n].session]
                   /\ pending'[log[n].session] = pending[log[n].session]
  <2>1. log[n].gen <= gen[log[n].session]
      BY DEF HInv, Generations
  <2>2. CASE log[n].session \in tx.members
    <3>1. gen'[log[n].session] = gen[log[n].session] + 1
        BY <1>2, <1>10, <1>3, <2>2
    <3> QED BY <1>3, <1>4, <2>1, <3>1
  <2>3. CASE log[n].session \notin tx.members
      BY <1>2, <1>10, <1>3, <2>1, <2>3
  <2> QED BY <2>2, <2>3
<1>6. Generations'
    BY <1>2, <1>10, <1>5 DEF HInv, Generations
<1>7. Origins'
  <2> SUFFICES ASSUME Root \in Heads PROVE Origins'
      BY DEF Origins
  <2>1. Of(Root)' = Of(Root)
      BY <1>2 DEF Of
  <2>2. \A n \in Of(Root) : log[n].gen = gen'[Root] => log[n].op \in {"open", "on"}
      BY <1>5 DEF HInv, Origins, Of
  <2> QED BY <1>2, <1>10, <2>1, <2>2 DEF HInv, Origins
<1>8. Markers'
  <2>1. ASSUME NEW s \in Session PROVE Base(s)' = Base(s)
    <3>1. CASE s \in tx.members
        BY <1>2, <1>10, <3>1 DEF Base, Advanced
    <3>2. CASE s \notin tx.members
        BY <1>2, <1>10, <3>2 DEF Base
    <3> QED BY <3>1, <3>2
  <2>2. \A s : Of(s)' = Of(s)
      BY <1>2 DEF Of
  <2> QED BY <1>2, <1>10, <2>1, <2>2 DEF HInv, Markers
<1>9. Files'
    BY <1>2 DEF HInv, Files
<1> QED BY <1>6, <1>7, <1>8, <1>9

LEMMA PrepareSelections ==
    ASSUME IInv, HInv, NEW h \in Host, NEW tx, TxOK(tx), tx.state = "prepared",
           Prepare(h, tx), tx.root \in Heads,
           tx.scope # "files" /\ ~tx.redo => FreshRevert(tx),
           tx.scope # "files" /\ tx.redo => FreshRedo(tx)
    PROVE  PendingReverts' /\ PendingRedos'
<1>1. PICK t : t = Len(txs) + 1
    OBVIOUS
<1>2. /\ t \notin DOMAIN txs /\ txs'[t] = tx /\ \A u \in DOMAIN txs : txs'[u] = txs[u]
      /\ Frozen /\ Placed /\ Seqs' = Seqs
      /\ UNCHANGED <<log, reverts, kept, adrift, marker>>
      /\ \A u : u \in Pending' <=> u \in Pending \/ u = t
    BY <1>1, Recorded
<1>3. /\ \A a : Listed(a)' = Listed(a)
      /\ \A s : Of(s)' = Of(s)
    BY <1>2 DEF Listed, Of
<1>4. \A a \in Session : \A u \in Listed(a) : u \in DOMAIN txs
    BY ListedTx
<1>5. /\ \A v \in Pending : v \in DOMAIN txs /\ txs[v].root \in Session
      /\ \A v \in DOMAIN txs : SelectedBy(v)' = SelectedBy(v)
      /\ \A v \in DOMAIN txs : (Covers(v)' <=> Covers(v)) /\ (Cuts(v)' <=> Cuts(v))
    BY <1>2, SameSelection, SameCuts, FenceOf DEF HInv, TxForm
<1>6. tx.root \in Session
    BY TreeAssumption
<1>7. SelectedBy(t)' = Selected(tx.members, tx.root, tx.boundary)
    BY <1>2 DEF SelectedBy, Selected, Place
<1>8. PendingReverts'
  <2> SUFFICES ASSUME NEW v \in Pending', Rewinds(v)'
               PROVE  /\ Covers(v)' /\ Cuts(v)' /\ Holds(v)'
                      /\ \A n \in SelectedBy(v)' : log'[n].op = "on" => n \in txs'[v].ops
                      /\ \A u \in Listed(txs'[v].root) : txs'[v].boundary <= txs'[u].boundary
      BY <1>2 DEF PendingReverts, Listed
  <2>1. CASE v = t
    <3>1. FreshRevert(tx)
        BY <1>2, <2>1 DEF Rewinds
    <3> QED BY <1>2, <1>3, <1>4, <1>6, <1>7, <2>1, <3>1 DEF FreshRevert, Covers, Cuts, Holds
  <2>2. CASE v # t
    <3>1. v \in Pending /\ v \in DOMAIN txs /\ txs'[v] = txs[v] /\ Rewinds(v) /\ txs[v].root \in Session
        BY <1>2, <1>5, <2>2 DEF Rewinds
    <3>2. /\ Covers(v) /\ Cuts(v) /\ Holds(v)
          /\ \A n \in SelectedBy(v) : log[n].op = "on" => n \in txs[v].ops
          /\ \A u \in Listed(txs[v].root) : txs[v].boundary <= txs[u].boundary
        BY <3>1 DEF HInv, PendingReverts
    <3>3. Holds(v)'
        BY <1>2, <1>5, <3>1, <3>2 DEF Holds
    <3> QED BY <1>2, <1>3, <1>4, <1>5, <3>1, <3>2, <3>3
  <2> QED BY <2>1, <2>2
<1>9. PendingRedos'
  <2> SUFFICES ASSUME NEW v \in Pending', Redoes(v)'
               PROVE  /\ \A u \in Listed(txs'[v].root) :
                            /\ txs'[u].members \subseteq txs'[v].members
                            /\ DOMAIN txs'[u].targets \subseteq DOMAIN txs'[v].targets
                            /\ txs'[v].boundary <= txs'[u].boundary
                            /\ txs'[u].ops \subseteq txs'[v].ops
                      /\ \A n \in txs'[v].ops : \E u \in Listed(txs'[v].root) : n \in txs'[u].ops
      BY <1>2 DEF PendingRedos, Listed
  <2>1. CASE v = t
    <3>1. FreshRedo(tx)
        BY <1>2, <2>1 DEF Redoes
    <3> QED BY <1>2, <1>3, <1>4, <1>6, <2>1, <3>1 DEF FreshRedo
  <2>2. CASE v # t
    <3>1. v \in Pending /\ v \in DOMAIN txs /\ txs'[v] = txs[v] /\ Redoes(v) /\ txs[v].root \in Session
        BY <1>2, <1>5, <2>2 DEF Redoes
    <3>2. /\ \A u \in Listed(txs[v].root) :
                /\ txs[u].members \subseteq txs[v].members
                /\ DOMAIN txs[u].targets \subseteq DOMAIN txs[v].targets
                /\ txs[v].boundary <= txs[u].boundary
                /\ txs[u].ops \subseteq txs[v].ops
          /\ \A n \in txs[v].ops : \E u \in Listed(txs[v].root) : n \in txs[u].ops
        BY <3>1 DEF HInv, PendingRedos
    <3> QED BY <1>2, <1>3, <1>4, <3>1, <3>2
  <2> QED BY <2>1, <2>2
<1> QED BY <1>8, <1>9


LEMMA PrepareLists ==
    ASSUME IInv, HInv, NEW h \in Host, NEW tx, TxOK(tx), tx.state = "prepared", Prepare(h, tx)
    PROVE  Lists' /\ Reasons'
<1>1. PICK t : t = Len(txs) + 1
    OBVIOUS
<1>2. /\ \A u \in DOMAIN txs : txs'[u] = txs[u] /\ u \in DOMAIN txs'
      /\ Frozen /\ Placed /\ Seqs' = Seqs
      /\ UNCHANGED <<log, reverts, kept, adrift, marker>>
    BY <1>1, Recorded
<1>3. \A a : Listed(a)' = Listed(a)
    BY <1>2 DEF Listed
<1>4. \A a \in Session : \A u \in Listed(a) : u \in DOMAIN txs
    BY ListedTx
<1>5. /\ \A v \in DOMAIN txs : SelectedBy(v)' = SelectedBy(v)
      /\ \A v \in DOMAIN txs : (Covers(v)' <=> Covers(v))
    BY <1>2, SameSelection, SameCuts
<1>6. Lists'
  <2> SUFFICES ASSUME NEW a \in Session, NEW u \in Listed(a)
               PROVE  /\ u \in DOMAIN txs' /\ txs'[u].root = a /\ txs'[u].state = "committed" /\ Rewinds(u)'
                      /\ Covers(u)' /\ Holds(u)'
                      /\ \A n \in SelectedBy(u)' : log'[n].reverted
                      /\ txs'[reverts[a][Len(reverts[a])]].boundary <= txs'[u].boundary
      BY <1>2, <1>3 DEF Lists
  <2>1. /\ u \in DOMAIN txs /\ txs[u].root = a /\ txs[u].state = "committed" /\ Rewinds(u)
        /\ Covers(u) /\ Holds(u)
        /\ \A n \in SelectedBy(u) : log[n].reverted
        /\ txs[reverts[a][Len(reverts[a])]].boundary <= txs[u].boundary
      BY DEF HInv, Lists
  <2>2. reverts[a][Len(reverts[a])] \in DOMAIN txs
    <3>1. reverts[a] \in Seq(1 .. Len(txs)) /\ DOMAIN txs = 1 .. Len(txs)
        BY TxNumbers DEF IInv, Typed, LedgerTyped
    <3>2. reverts[a] # <<>>
        BY <3>1 DEF Listed
    <3> QED BY <3>1, <3>2
  <2>3. Rewinds(u)' /\ Holds(u)'
      BY <1>2, <1>5, <2>1 DEF Rewinds, Holds
  <2> QED BY <1>2, <1>5, <2>1, <2>2, <2>3
<1>7. Reasons'
  <2> SUFFICES ASSUME NEW n \in kept \ adrift
               PROVE  /\ log[n].reverted => \E a \in Heads : \E u \in Listed(a) : n \in SelectedBy(u)'
                      /\ log[n].op = "off" => \E a \in Heads : \E u \in Listed(a) : n \in txs'[u].ops
      BY <1>2, <1>3 DEF Reasons
  <2>1. \A a \in Heads : \A u \in Listed(a) : SelectedBy(u)' = SelectedBy(u) /\ txs'[u].ops = txs[u].ops
      BY <1>2, <1>4, <1>5, TreeAssumption
  <2> QED BY <2>1 DEF HInv, Reasons
<1> QED BY <1>6, <1>7

LEMMA PrepareHistory ==
    ASSUME IInv, HInv, NEW h \in Host, NEW tx, TxOK(tx), tx.state = "prepared",
           tx.phase = "prepared", Prepare(h, tx), Fresh(tx),
           tx.scope # "files" /\ ~tx.redo => FreshRevert(tx),
           tx.scope # "files" /\ tx.redo => FreshRedo(tx)
    PROVE  HInv'
<1>1. PICK t : t = Len(txs) + 1
    OBVIOUS
<1>2. /\ DOMAIN txs' = DOMAIN txs \cup {t} /\ txs'[t] = tx
      /\ \A u \in DOMAIN txs : txs'[u] = txs[u]
      /\ Frozen /\ UNCHANGED marker
      /\ \A u : u \in Pending' <=> u \in Pending \/ u = t
    BY <1>1, Recorded
<1>3. TxForm'
    BY <1>2 DEF HInv, TxForm, Fresh, Tree
<1>4. Decided'
  <2> SUFFICES ASSUME NEW u \in Pending', txs'[u].phase = "files", NEW s \in DOMAIN txs'[u].targets
               PROVE  marker[s] = Goal(u, s)'
      BY <1>2 DEF Decided
  <2>1. u \in Pending /\ u \in DOMAIN txs /\ txs'[u] = txs[u]
      BY <1>2, FenceOf
  <2> QED BY <2>1 DEF HInv, Decided, Goal
<1>5. Progress'
  <2> SUFFICES ASSUME NEW g \in Host PROVE Steers(g)'
      BY DEF Progress
  <2>1. host' = Put(h, "wait", Len(txs) + 1, {}, host[h].list)
      BY DEF Prepare
  <2>2. host'[h].pc = "wait" /\ \A k \in Host : k # h => host'[k] = host[k]
      BY <2>1 DEF Put, IInv, Typed, HostTyped
  <2>3. CASE g = h
      BY <2>2, <2>3 DEF Steers
  <2>4. CASE g # h
    <3>1. Working(g) => host[g].tx \in DOMAIN txs
        BY AtWork, TxNumbers DEF IInv, Typed
    <3> QED BY <1>2, <2>2, <2>4, <3>1, SteersOn DEF HInv
  <2> QED BY <2>3, <2>4
<1>6. Generations' /\ Origins' /\ Markers' /\ Files'
    BY PrepareFences
<1>7. PendingReverts' /\ PendingRedos' /\ Lists' /\ Reasons'
    BY PrepareSelections, PrepareLists DEF Fresh
<1> QED BY <1>3, <1>4, <1>5, <1>6, <1>7 DEF HInv

\* The message each session is rewound to separates what is selected of it.
LEMMA TargetsCut ==
    ASSUME IInv, HInv, NEW s \in Heads, NEW members, members = {s} \/ members = Tree(s),
           NEW b \in Of(s), NEW T, T = Targets(members, s, b),
           NEW S, S = Selected(members, s, b)
    PROVE  /\ s \in DOMAIN T /\ \A n \in S : log[n].session \in DOMAIN T
           /\ \A m \in DOMAIN T : T[m] \in Seqs /\ \A n \in Of(m) : n \in S <=> n >= T[m]
<1>1. s \in Session /\ s \in members /\ members \subseteq Session
    BY TreeAssumption DEF Tree
<1>2. b \in Seqs /\ log[b].session = s /\ b \in Nat
    BY LogFields DEF IInv, Of
<1>3. /\ DOMAIN T = {m \in members : m = s \/ S \cap Of(m) # {}}
      /\ \A m \in DOMAIN T : T[m] = IF m = s THEN b ELSE First(S \cap Of(m))
    BY DEF Targets
<1>4. \A n \in S : n \in Seqs /\ log[n].session \in members /\ n \in Of(log[n].session)
    BY DEF Selected, Of
<1>5. \A n \in S : log[n].session \in DOMAIN T
    BY <1>3, <1>4
<1>6. ASSUME NEW m \in DOMAIN T
      PROVE  T[m] \in Seqs /\ \A n \in Of(m) : n \in S <=> n >= T[m]
  <2>1. CASE m = s
    <3>1. \A n \in Of(s) : n \in S <=> n >= b
        BY <1>1 DEF Selected, Place, Of
    <3> QED BY <1>2, <1>3, <2>1, <3>1
  <2>2. CASE m # s
    <3>1. s = Root /\ m # Root /\ m \in members
        BY <1>3, <2>2 DEF Tree
    <3>2. PICK Q : Q = S \cap Of(m)
        OBVIOUS
    <3>3. Q # {} /\ Q \subseteq Nat /\ T[m] = First(Q)
        BY <1>3, <1>4, <2>2, <3>2, LogFields DEF IInv
    <3>4. T[m] \in Q /\ \A n \in Q : T[m] <= n
        BY <3>3, LeastExists
    <3>5. T[m] \in Seqs /\ log[T[m]].session = m /\ log[T[m]].origin >= b
        BY <1>4, <3>1, <3>2, <3>4 DEF Selected, Place, Of
    <3>6. ASSUME NEW n \in Of(m) PROVE n \in S <=> n >= T[m]
      <4>1. n \in Seqs /\ log[n].session = m
          BY DEF Of
      <4>2. ASSUME n \in S PROVE n >= T[m]
        <5>1. T[m] <= n
            BY <3>2, <3>4, <4>2
        <5> QED BY <3>3, <3>4, <4>1, <5>1, LogFields DEF IInv
      <4>3. ASSUME n >= T[m] PROVE n \in S
        <5>1. T[m] <= n
            BY <3>3, <3>4, <4>1, <4>3, LogFields DEF IInv
        <5>2. log[T[m]].origin <= log[n].origin
            BY <3>1, <3>5, <4>1, <5>1 DEF HInv, Origins
        <5>3. log[n].origin >= b
            <6>1. log[T[m]].origin \in Nat /\ log[n].origin \in Nat /\ log[T[m]].origin >= b
              BY <3>5, <4>1, LogFields DEF IInv
          <6> QED BY <1>2, <5>2, <6>1
        <5> QED BY <3>1, <4>1, <5>3 DEF Selected, Place
      <4> QED BY <4>2, <4>3
    <3> QED BY <3>5, <3>6
  <2> QED BY <2>1, <2>2
<1> QED BY <1>1, <1>3, <1>5, <1>6

LEMMA RevertHistory ==
    ASSUME IInv, HInv, NEW h \in Host, NEW n \in Seqs, NEW scope \in {"tree", "session"},
           AskRevert(h, n, scope)
    PROVE  HInv'
<1>1. PICK s : s = log[n].session
    OBVIOUS
<1>2. s \in Heads /\ s \in Session /\ n \in Of(s) /\ n \in Nat
    BY <1>1, LogFields DEF AskRevert, IInv, Of
<1>3. CASE pending[s] # 0
  <2>1. pending[s] \in DOMAIN txs /\ Join(h, pending[s])
    <3>1. pending[s] \in 0 .. Len(txs) /\ DOMAIN txs = 1 .. Len(txs) /\ Len(txs) \in Nat
        BY <1>2, TxNumbers DEF IInv, Typed, LedgerTyped
    <3>2. pending[s] \in DOMAIN txs
        BY <1>3, <3>1
    <3>3. Join(h, pending[s])
        BY <1>1, <1>3 DEF AskRevert
    <3> QED BY <3>2, <3>3
  <2> QED BY <2>1, WaitingHistory
<1>4. CASE pending[s] = 0
  <2>1. PICK members, S, T : /\ members = Members(s, scope) /\ S = Selected(members, s, n)
                             /\ T = Targets(members, s, n)
      OBVIOUS
  <2>2. PICK ops : ops = {m \in S : log[m].op = "on"}
      OBVIOUS
  <2>3. PICK tx : tx = NewTx(s, scope, FALSE, n, members, T, ops)
      OBVIOUS
  <2>4. Prepare(h, tx) /\ (log[n].reverted => Widens(s, n, scope))
      BY <1>1, <1>4, <2>1, <2>2, <2>3 DEF AskRevert
  <2>5. /\ tx.root = s /\ tx.scope = scope /\ tx.redo = FALSE /\ tx.boundary = n
        /\ tx.members = members /\ tx.targets = T /\ tx.ops = ops
        /\ tx.state = "prepared" /\ tx.phase = "prepared" /\ DOMAIN tx = TxFields
      BY <2>3 DEF NewTx, TxFields
  <2>6. (members = {s} \/ members = Tree(s)) /\ s \in members /\ members \subseteq Tree(s) /\ members \subseteq Session
      BY <1>2, <2>1 DEF Members, Tree
  <2>7. /\ s \in DOMAIN T /\ \A m \in S : log[m].session \in DOMAIN T
        /\ \A m \in DOMAIN T : T[m] \in Seqs /\ \A k \in Of(m) : k \in S <=> k >= T[m]
    <3>1. S = Selected(members, s, n) /\ T = Targets(members, s, n)
        BY <2>1
    <3>2. members = {s} \/ members = Tree(s)
        BY <2>6
    <3>3. s \in Heads /\ n \in Of(s)
        BY <1>2
    <3>4. \A m \in S : log[m].session \in DOMAIN T
        BY <3>1, <3>2, <3>3, TargetsCut
    <3>6. s \in DOMAIN T
        BY <2>6, <3>1 DEF Targets
    <3>5. \A m \in DOMAIN T : T[m] \in Seqs /\ \A k \in Of(m) : k \in S <=> k >= T[m]
        BY <3>1, <3>2, <3>3, TargetsCut
    <3> QED BY <3>4, <3>5, <3>6
  <2>8. DOMAIN T \subseteq members
      BY <2>1 DEF Targets
  <2>9. TxOK(tx)
      BY <2>5, <2>6, <2>8 DEF TxOK, Advanced
  <2>10. Fresh(tx)
      BY <1>2, <2>5, <2>6, <2>7 DEF Fresh
  <2>11. ASSUME NEW u \in Listed(s) PROVE n <= txs[u].boundary
    <3>1. /\ u \in DOMAIN txs /\ txs[u].root = s /\ txs[u].boundary \in Nat
          /\ txs[reverts[s][Len(reverts[s])]].boundary <= txs[u].boundary
          /\ \A m \in SelectedBy(u) : log[m].reverted
          /\ s \in txs[u].members
      <4>1. /\ txs[reverts[s][Len(reverts[s])]].boundary <= txs[u].boundary
            /\ \A m \in SelectedBy(u) : log[m].reverted
          BY <1>2 DEF HInv, Lists
      <4>2. u \in DOMAIN txs /\ txs[u].root = s /\ txs[u].boundary \in Nat
          BY <1>2, ListedTx
      <4> QED BY <4>1, <4>2 DEF HInv, TxForm
    <3>2. CASE Widens(s, n, scope)
        BY <3>1, <3>2 DEF Widens
    <3>3. CASE ~log[n].reverted
      <4>1. n \notin SelectedBy(u)
          BY <3>1, <3>3
      <4>2. ~(n >= txs[u].boundary)
          BY <1>1, <3>1, <4>1 DEF SelectedBy, Selected, Place
      <4> QED BY <1>2, <3>1, <4>2
    <3> QED BY <2>4, <3>2, <3>3
  <2>12. ops \subseteq S /\ ops \subseteq kept \cup adrift
    <3>1. ASSUME NEW m \in ops PROVE m \in kept \cup adrift
      <4>1. m \in Seqs /\ log[m].op = "on"
          BY <2>1, <2>2 DEF Selected
      <4> QED BY <4>1 DEF HInv, Files
    <3> QED BY <2>2, <3>1
  <2>13. FreshRevert(tx)
      BY <2>1, <2>2, <2>5, <2>7, <2>11, <2>12 DEF FreshRevert
  <2> QED BY <2>4, <2>5, <2>9, <2>10, <2>13, PrepareHistory
<1> QED BY <1>3, <1>4

LEMMA RedoHistory ==
    ASSUME IInv, HInv, NEW h \in Host, NEW s \in Heads, AskRedo(h, s)
    PROVE  HInv'
<1>1. s \in Session
    BY TreeAssumption
<1>2. CASE pending[s] # 0
  <2>1. pending[s] \in DOMAIN txs /\ Join(h, pending[s])
    <3>1. pending[s] \in 0 .. Len(txs) /\ DOMAIN txs = 1 .. Len(txs) /\ Len(txs) \in Nat
        BY <1>1, TxNumbers DEF IInv, Typed, LedgerTyped
    <3>2. pending[s] \in DOMAIN txs
        BY <1>2, <3>1
    <3>3. Join(h, pending[s])
        BY <1>2 DEF AskRedo
    <3> QED BY <3>2, <3>3
  <2> QED BY <2>1, WaitingHistory
<1>3. CASE pending[s] = 0
  <2>1. PICK ids : ids = Listed(s)
      OBVIOUS
  <2>2. PICK b, members, ops :
          /\ b = First({txs[t].boundary : t \in ids})
          /\ members = UNION {txs[t].members : t \in ids}
          /\ ops = UNION {txs[t].ops : t \in ids}
      OBVIOUS
  <2>3. PICK T : /\ T = [m \in {k \in Session : {t \in ids : k \in DOMAIN txs[t].targets} # {}} |->
                            txs[Latest({t \in ids : m \in DOMAIN txs[t].targets})].targets[m]]
      OBVIOUS
  <2>4. PICK tx : tx = NewTx(s, "tree", TRUE, b, members, T, ops)
      OBVIOUS
  <2>5. Prepare(h, tx) /\ ids # {}
      BY <1>3, <2>1, <2>2, <2>3, <2>4 DEF AskRedo, Listed
  <2>6. /\ tx.root = s /\ tx.scope = "tree" /\ tx.redo = TRUE /\ tx.boundary = b
        /\ tx.members = members /\ tx.targets = T /\ tx.ops = ops
        /\ tx.state = "prepared" /\ tx.phase = "prepared" /\ DOMAIN tx = TxFields
      BY <2>4 DEF NewTx, TxFields
  <2>7. \A u \in ids : /\ u \in DOMAIN txs /\ txs[u].members \subseteq Tree(s) /\ s \in txs[u].members
                       /\ txs[u].boundary \in Nat /\ s \in DOMAIN txs[u].targets
                       /\ DOMAIN txs[u].targets \subseteq txs[u].members
                       /\ txs[u].members \subseteq Session
    <3> SUFFICES ASSUME NEW u \in ids
                 PROVE  /\ u \in DOMAIN txs /\ txs[u].members \subseteq Tree(s) /\ s \in txs[u].members
                        /\ txs[u].boundary \in Nat /\ s \in DOMAIN txs[u].targets
                        /\ DOMAIN txs[u].targets \subseteq txs[u].members
                        /\ txs[u].members \subseteq Session
        OBVIOUS
    <3>1. u \in DOMAIN txs /\ txs[u].root = s /\ Rewinds(u)
        BY <1>1, <2>1, ListedTx
    <3>2. TxOK(txs[u])
        BY <3>1, TxNumbers DEF IInv, Typed
    <3> QED BY <3>1, <3>2 DEF HInv, TxForm, Rewinds, TxOK
  <2>8. b \in Nat /\ \A u \in ids : b <= txs[u].boundary
    <3>1. PICK B : B = {txs[t].boundary : t \in ids}
        OBVIOUS
    <3>2. B \subseteq Nat /\ B # {}
        BY <2>5, <2>7, <3>1
    <3>3. b \in B /\ \A m \in B : b <= m
        BY <2>2, <3>1, <3>2, LeastExists
    <3> QED BY <3>1, <3>2, <3>3
  <2>9. /\ DOMAIN T = {k \in Session : \E t \in ids : k \in DOMAIN txs[t].targets}
        /\ \A u \in ids : DOMAIN txs[u].targets \subseteq DOMAIN T
    <3>1. DOMAIN T = {k \in Session : \E t \in ids : k \in DOMAIN txs[t].targets}
        BY <2>3
    <3> QED BY <2>7, <3>1
  <2>10. /\ members \subseteq Tree(s) /\ s \in members /\ members \subseteq Session
         /\ DOMAIN T \subseteq members /\ s \in DOMAIN T
      BY <1>1, <2>2, <2>5, <2>7, <2>9
  <2>11. TxOK(tx)
      BY <2>6, <2>10 DEF TxOK, Advanced
  <2>12. Fresh(tx)
      BY <2>6, <2>8, <2>10 DEF Fresh
  <2>13. FreshRedo(tx)
      BY <2>1, <2>2, <2>6, <2>8, <2>9 DEF FreshRedo
  <2> QED BY <2>5, <2>6, <2>11, <2>12, <2>13, PrepareHistory
<1> QED BY <1>2, <1>3

LEMMA FilesHistory ==
    ASSUME IInv, HInv, NEW h \in Host, NEW n \in Seqs, AskFiles(h, n)
    PROVE  HInv'
<1>1. PICK s : s = log[n].session
    OBVIOUS
<1>2. PICK tx : tx = NewTx(s, "files", log[n].undone, 0, Tree(s), <<>>, {n})
    OBVIOUS
<1>3. s \in Heads /\ s \in Session /\ Prepare(h, tx)
    BY <1>1, <1>2, LogFields DEF AskFiles, IInv
<1>4. /\ tx.root = s /\ tx.scope = "files" /\ tx.redo = log[n].undone /\ tx.boundary = 0
      /\ tx.members = Tree(s) /\ tx.targets = <<>>
      /\ tx.state = "prepared" /\ tx.phase = "prepared" /\ DOMAIN tx = TxFields
    BY <1>2 DEF NewTx, TxFields
<1>5. Tree(s) \subseteq Session /\ s \in Tree(s)
    BY <1>3 DEF Tree
<1>6. TxOK(tx)
    BY <1>4, <1>5 DEF TxOK, Advanced
<1>7. log[n].undone \in BOOLEAN
  <2>1. log[n] \in LogRec
      BY LogFields DEF IInv
  <2> QED BY <2>1 DEF LogRec
<1>8. Fresh(tx)
    BY <1>3, <1>4, <1>5, <1>7 DEF Fresh
<1> QED BY <1>3, <1>4, <1>6, <1>8, PrepareHistory


-----------------------------------------------------------------------------
(* A prompt *)

\* Nobody reverts the session a prompt goes to, and what its marker hides was
\* reverted.
LEMMA PromptUnfenced ==
    ASSUME IInv, HInv, NEW s \in Session, Prompt(s)
    PROVE  /\ pending[s] = 0 /\ Base(s) = marker[s]
           /\ \A t \in Pending : s \notin txs[t].members /\ s \notin DOMAIN txs[t].targets
           /\ \A n \in Hidden(s) : /\ n \in Seqs /\ log[n].session = s
                                   /\ n \in kept \ adrift => log[n].reverted
           /\ \A n \in ((kept \cap Of(s)) \ adrift) \ Hidden(s) : ~log[n].reverted
<1>1. ~Fenced(s)
    BY DEF Prompt
<1>2. pending[s] = 0
    BY <1>1 DEF Fenced, Ancestors
<1>3. Base(s) = marker[s]
    BY <1>2 DEF Base
<1>4. ASSUME NEW t \in Pending PROVE s \notin txs[t].members /\ s \notin DOMAIN txs[t].targets
  <2>1. s \notin txs[t].members
      BY <1>1, NotAMember
  <2> QED BY <2>1, FenceOf
<1>5. \A n \in Of(s) : n \in Seqs /\ log[n].session = s
    BY DEF Of
<1>6. \A n \in Hidden(s) : n \in Of(s) /\ marker[s] # 0 /\ n >= marker[s]
    BY DEF Hidden
<1>7. \A n \in Of(s) \ Hidden(s) : marker[s] = 0 \/ ~(n >= marker[s])
    BY DEF Hidden
<1>8. \A n \in (kept \cap Of(s)) \ adrift : log[n].reverted <=> marker[s] # 0 /\ n >= marker[s]
    BY <1>3 DEF HInv, Markers
<1> QED BY <1>2, <1>3, <1>4, <1>5, <1>6, <1>7, <1>8

LEMMA PromptFields ==
    ASSUME IInv, HInv, NEW s \in Session, Prompt(s), NEW k, k = Len(log) + 1
    PROVE  /\ k \in Nat /\ k \notin Seqs /\ Seqs' = Seqs \cup {k} /\ \A n \in Seqs : n < k
           /\ \A n \in Seqs : log'[n] = log[n]
           /\ log'[k].session = s /\ log'[k].gen = gen[s] /\ log'[k].op = "open"
           /\ log'[k].reverted = FALSE
           /\ log'[k].origin = IF s = Root THEN 0 ELSE Latest(Calls)
           /\ UNCHANGED <<gen, pending, txs, host>>
           /\ kept' = (kept \ Hidden(s)) \cup {k} /\ adrift \subseteq adrift'
           /\ kept \subseteq Seqs /\ adrift \subseteq Seqs /\ adrift' \subseteq Seqs
           /\ marker'[s] = 0 /\ \A a \in Session : a # s => marker'[a] = marker[a]
           /\ Frozen /\ Placed
<1>1. /\ Typed /\ log \in Seq(LogRec) /\ Len(log) \in Nat
    BY DEF IInv, Typed, LogTyped
<1>2. PICK x : x = [session |-> s, origin |-> IF s = Root THEN 0 ELSE Latest(Calls),
                    gen |-> gen[s], op |-> "open", reverted |-> FALSE, undone |-> FALSE]
    OBVIOUS
<1>3. log' = Append(log, x)
    BY <1>2 DEF Prompt
<1>4. /\ Len(log') = Len(log) + 1 /\ log'[k] = x
      /\ \A n \in 1 .. Len(log) : log'[n] = log[n]
  <2>1. log \in Seq(LogRec \cup {x}) /\ x \in LogRec \cup {x}
      BY <1>1, Widened
  <2> QED BY <1>3, <2>1, Appended
<1>5. /\ k \in Nat /\ k \notin Seqs /\ Seqs' = Seqs \cup {k} /\ \A n \in Seqs : n < k
      /\ \A n \in Seqs : log'[n] = log[n]
    BY <1>1, <1>4 DEF Seqs
<1>6. /\ x.session = s /\ x.gen = gen[s] /\ x.op = "open" /\ x.reverted = FALSE
      /\ x.origin = IF s = Root THEN 0 ELSE Latest(Calls)
    BY <1>2
<1>7. /\ UNCHANGED <<gen, pending, txs, host>> /\ kept' = (kept \ Hidden(s)) \cup {k}
      /\ adrift \subseteq adrift' /\ adrift' \subseteq adrift \cup kept
      /\ marker' = [marker EXCEPT ![s] = 0]
    BY DEF Prompt
<1>8. kept \subseteq Seqs /\ adrift \subseteq Seqs
    BY <1>1 DEF Typed, StoreTyped, Seqs
<1>9. marker'[s] = 0 /\ \A a \in Session : a # s => marker'[a] = marker[a]
    BY <1>1, <1>7 DEF Typed, StoreTyped
<1>10. Frozen /\ Placed
    BY <1>5, <1>7 DEF Frozen, Placed
<1> QED BY <1>4, <1>5, <1>6, <1>7, <1>8, <1>9, <1>10

\* A prompt can take away the Redo of its own session only.
LEMMA PromptLists ==
    ASSUME NoHeadAbove, IInv, HInv, NEW s \in Session, Prompt(s)
    PROVE  /\ reverts'[s] = <<>>
           /\ \A a \in Session : a # s => reverts'[a] = reverts[a]
           /\ \A a \in Session : Listed(a) # {} /\ s \in Tree(a) => a = s
           /\ \A n \in Seqs : n \in adrift' <=>
                 n \in adrift \/ /\ n \in kept \ Hidden(s) /\ log[n].reverted
                                 /\ Listed(s) # {} /\ log[n].session \in Tree(s)
<1>1. \A a \in Session : reverts[a] \in Seq(1 .. Len(txs))
    BY DEF IInv, Typed, LedgerTyped
<1>2. \A a \in Session : (Listed(a) = {} <=> reverts[a] = <<>>)
  <2> SUFFICES ASSUME NEW a \in Session PROVE Listed(a) = {} <=> reverts[a] = <<>>
      OBVIOUS
  <2>1. CASE reverts[a] # <<>>
    <3>1. 1 \in DOMAIN reverts[a]
        BY <1>1, <2>1
    <3> QED BY <2>1, <3>1 DEF Listed
  <2>2. CASE reverts[a] = <<>>
    <3>1. DOMAIN reverts[a] = {}
        BY <2>2
    <3> QED BY <2>2, <3>1 DEF Listed
  <2> QED BY <2>1, <2>2
<1>3. s # Root => reverts[Root] = <<>>
  <2> SUFFICES ASSUME s # Root PROVE reverts[Root] = <<>>
      OBVIOUS
  <2>1. PICK n \in Calls : TRUE
      BY DEF Prompt
  <2>2. n \in Seqs /\ log[n].session = Root /\ log[n].gen = gen[Root]
      BY DEF Calls, Live, Of
  <2> QED BY <2>2 DEF HInv, Generations
<1>4. Root \in Session
    BY DEF Session
<1>5. \A a \in Session : Listed(a) # {} /\ s \in Tree(a) => a = s
  <2> SUFFICES ASSUME NEW a \in Session, Listed(a) # {}, s \in Tree(a), a # s PROVE FALSE
      OBVIOUS
  <2>1. a = Root
      BY DEF Tree
  <2> QED BY <1>2, <1>3, <2>1
<1>6. Listed(s) # {} => RedoLost(s, s)
  <2> SUFFICES ASSUME Listed(s) # {} PROVE RedoLost(s, s)
      OBVIOUS
  <2>1. PICK u \in Listed(s) : TRUE
      OBVIOUS
  <2>2. s \in DOMAIN txs[u].targets
      BY ListedTx DEF HInv, TxForm, Rewinds
  <2>3. PICK i \in DOMAIN reverts[s] : u = reverts[s][i]
      BY DEF Listed
  <2> QED BY <2>2, <2>3 DEF RedoLost
<1>7. \A a \in Session : RedoLost(s, a) => Listed(a) # {}
    BY DEF RedoLost, Listed
<1>8. \A a \in Ancestors(s) : RedoLost(s, a) => a = s
    BY <1>2, <1>3, <1>4, <1>7 DEF Ancestors
<1>9. reverts' = [a \in Session |-> IF a \in Ancestors(s) /\ RedoLost(s, a) THEN <<>> ELSE reverts[a]]
    BY DEF Prompt
<1>10. reverts'[s] = <<>>
  <2>1. s \in Ancestors(s)
      BY DEF Ancestors
  <2>2. reverts'[s] = IF RedoLost(s, s) THEN <<>> ELSE reverts[s]
      BY <1>9, <2>1
  <2> QED BY <1>2, <1>6, <2>2
<1>11. \A a \in Session : a # s => reverts'[a] = reverts[a]
    BY <1>8, <1>9
<1>12. \A n : RedoDropped(s, n) <=> Listed(s) # {} /\ log[n].session \in Tree(s)
  <2>1. s \in Ancestors(s)
      BY DEF Ancestors
  <2>2. RedoLost(s, s) <=> Listed(s) # {}
      BY <1>6, <1>7
  <2> QED BY <1>8, <2>1, <2>2 DEF RedoDropped
<1>13. adrift' = adrift \cup {n \in kept \ Hidden(s) : log[n].reverted /\ RedoDropped(s, n)}
    BY DEF Prompt
<1> QED BY <1>5, <1>10, <1>11, <1>12, <1>13

LEMMA PromptGenerations ==
    ASSUME NoHeadAbove, IInv, HInv, NEW s \in Session, Prompt(s)
    PROVE  Generations'
<1>1. PICK k : k = Len(log) + 1
    OBVIOUS
<1>2. /\ k \notin Seqs /\ Seqs' = Seqs \cup {k} /\ \A n \in Seqs : log'[n] = log[n]
      /\ log'[k].session = s /\ log'[k].gen = gen[s] /\ log'[k].reverted = FALSE
      /\ UNCHANGED <<gen, pending, txs, host>>
      /\ kept' = (kept \ Hidden(s)) \cup {k}
      /\ adrift \subseteq adrift' /\ adrift' \subseteq Seqs
    BY <1>1, PromptFields
<1>3. /\ reverts'[s] = <<>> /\ \A a \in Session : a # s => reverts'[a] = reverts[a]
      /\ \A n \in Seqs : n \in adrift' => n \in adrift \/ log[n].reverted
    BY PromptLists
<1>4. gen[s] <= gen[s] /\ pending[s] = 0
  <2>1. gen[s] \in Nat
      BY TxNumbers DEF IInv, Typed, LedgerTyped
  <2> QED BY <2>1, PromptUnfenced
<1>5. ASSUME NEW n \in Seqs
      PROVE  /\ log[n].gen <= gen[log[n].session]
             /\ log[n].gen = gen[log[n].session] =>
                   /\ pending[log[n].session] = 0 /\ reverts'[log[n].session] = <<>>
                   /\ n \in kept' /\ n \notin adrift' /\ ~log[n].reverted
  <2>1. /\ log[n].gen <= gen[log[n].session]
        /\ log[n].gen = gen[log[n].session] =>
              /\ pending[log[n].session] = 0 /\ reverts[log[n].session] = <<>>
              /\ n \in kept /\ n \notin adrift /\ ~log[n].reverted
      BY DEF HInv, Generations
  <2>2. log[n].session \in Session
      BY LogFields DEF IInv
  <2>3. n \in kept \ adrift /\ ~log[n].reverted => n \notin Hidden(s)
      BY PromptUnfenced
  <2> QED BY <1>2, <1>3, <2>1, <2>2, <2>3
<1> SUFFICES ASSUME NEW n \in Seqs'
             PROVE  LET r == log'[n].session IN
                    /\ log'[n].gen <= gen[r]
                    /\ log'[n].gen = gen[r] =>
                          /\ pending[r] = 0 /\ reverts'[r] = <<>>
                          /\ n \in kept' /\ n \notin adrift' /\ ~log'[n].reverted
    BY <1>2 DEF Generations
<1>6. CASE n = k
    BY <1>2, <1>3, <1>4, <1>6
<1>7. CASE n \in Seqs
    BY <1>2, <1>5, <1>7
<1> QED BY <1>2, <1>6, <1>7

\* A child is dispatched from the latest call of the root, and its prompts
\* keep the order of those calls.
LEMMA PromptOrigins ==
    ASSUME IInv, HInv, NEW s \in Session, Prompt(s)
    PROVE  Origins'
<1> SUFFICES ASSUME Root \in Heads PROVE Origins'
    BY DEF Origins
<1>1. PICK k : k = Len(log) + 1
    OBVIOUS
<1>2. /\ k \in Nat /\ k \notin Seqs /\ Seqs' = Seqs \cup {k} /\ \A n \in Seqs : n < k
      /\ \A n \in Seqs : log'[n] = log[n]
      /\ log'[k].session = s /\ log'[k].gen = gen[s] /\ log'[k].op = "open"
      /\ UNCHANGED <<gen, pending, txs, host>>
    BY <1>1, PromptFields
<1>13. log'[k].origin = IF s = Root THEN 0 ELSE Latest(Calls)
    BY <1>1, PromptFields
<1>3. \A n \in Seqs : n \in Nat /\ log[n].gen \in Nat
    BY LogFields DEF IInv
<1>4. /\ \A n \in Of(Root) : log[n].gen = gen[Root] => log[n].op \in {"open", "on"}
      /\ \A m, n \in Of(Root) : m <= n => log[m].gen <= log[n].gen
      /\ \A n \in Seqs : log[n].session # Root => log[n].origin \in Of(Root)
      /\ \A m, n \in Seqs : log[m].session = log[n].session /\ log[n].session # Root /\ m <= n =>
                               log[m].origin <= log[n].origin
    BY DEF HInv, Origins
<1>5. \A n \in Of(Root) : n \in Seqs /\ log[n].session = Root /\ log[n].gen <= gen[Root]
    BY DEF HInv, Generations, Of
<1>6. /\ \A n \in Of(Root)' : n \in Of(Root) \/ (n = k /\ s = Root)
      /\ Of(Root) \subseteq Of(Root)'
    BY <1>2 DEF Of
<1>7. \A n \in Seqs : ~(k <= n)
    BY <1>2, <1>3
<1>8. \A n \in Of(Root)' : log'[n].gen = gen[Root] => log'[n].op \in {"open", "on"}
    BY <1>2, <1>4, <1>5, <1>6
<1>9. \A m, n \in Of(Root)' : m <= n => log'[m].gen <= log'[n].gen
  <2> SUFFICES ASSUME NEW m \in Of(Root)', NEW n \in Of(Root)', m <= n
               PROVE  log'[m].gen <= log'[n].gen
      OBVIOUS
  <2>1. CASE n \in Of(Root)
    <3>1. m \in Of(Root)
        BY <1>5, <1>6, <1>7, <2>1
    <3> QED BY <1>2, <1>4, <1>5, <2>1, <3>1
  <2>2. CASE n = k /\ s = Root
    <3>1. log'[n].gen = gen[Root] /\ gen[Root] <= gen[Root]
      <4>1. gen[Root] \in Nat
          BY TxNumbers DEF IInv, Typed, LedgerTyped, Session
      <4> QED BY <1>2, <2>2, <4>1
    <3> QED BY <1>2, <1>5, <1>6, <2>2, <3>1
  <2> QED BY <1>6, <2>1, <2>2
<1>10. ASSUME s # Root
       PROVE  /\ Latest(Calls) \in Calls /\ Latest(Calls) \in Of(Root)
              /\ \A o \in Of(Root) : o <= Latest(Calls) \/ log[o].gen < gen[Root]
  <2>1. /\ Calls # {} /\ Calls \subseteq Of(Root)
        /\ \A n \in Calls : log[n].gen = gen[Root]
      BY <1>10 DEF Prompt, Calls, Live
  <2>2. Calls \in SUBSET (0 .. Len(log)) /\ Len(log) \in Nat
      BY <2>1 DEF Of, Seqs, IInv, Typed, LogTyped
  <2>3. \E n \in Calls : \A m \in Calls : m <= n
      BY <2>1, <2>2, GreatestExists
  <2>4. Latest(Calls) \in Calls /\ \A m \in Calls : m <= Latest(Calls)
      BY <2>3 DEF Latest
  <2>5. ASSUME NEW o \in Of(Root), log[o].gen = gen[Root] PROVE o \in Calls
    <3>1. log[o].op \in {"open", "on"} /\ o \in Seqs /\ log[o].session = Root
        BY <1>4, <1>5, <2>5
    <3>2. o \in kept /\ ~log[o].reverted
        BY <2>5, <3>1 DEF HInv, Generations
    <3> QED BY <2>5, <3>1, <3>2 DEF Calls, Live
  <2>6. gen[Root] \in Nat
      BY TxNumbers DEF IInv, Typed, LedgerTyped, Session
  <2>7. \A o \in Of(Root) : log[o].gen = gen[Root] \/ log[o].gen < gen[Root]
      BY <1>3, <1>5, <2>6
  <2> QED BY <2>1, <2>4, <2>5, <2>7
<1>11. \A n \in Seqs' : log'[n].session # Root => log'[n].origin \in Of(Root)'
  <2> SUFFICES ASSUME NEW n \in Seqs', log'[n].session # Root PROVE log'[n].origin \in Of(Root)
      BY <1>6
  <2>1. CASE n = k
      BY <1>2, <1>10, <1>13, <2>1
  <2>2. CASE n \in Seqs
      BY <1>2, <1>4, <2>2
  <2> QED BY <1>2, <2>1, <2>2
<1>12. \A m, n \in Seqs' : log'[m].session = log'[n].session /\ log'[n].session # Root /\ m <= n =>
                              log'[m].origin <= log'[n].origin
  <2> SUFFICES ASSUME NEW m \in Seqs', NEW n \in Seqs', log'[m].session = log'[n].session,
                      log'[n].session # Root, m <= n
               PROVE  log'[m].origin <= log'[n].origin
      OBVIOUS
  <2>1. CASE m \in Seqs /\ n \in Seqs
      BY <1>2, <1>4, <2>1
  <2>2. CASE n = k
    <3>1. s # Root /\ log'[k].origin = Latest(Calls) /\ Latest(Calls) \in Of(Root)
        BY <1>2, <1>10, <1>13, <2>2
    <3>2. CASE m = k
      <4>1. Latest(Calls) <= Latest(Calls)
          BY <1>3, <1>5, <3>1
      <4> QED BY <2>2, <3>1, <3>2, <4>1
    <3>3. CASE m \in Seqs
      <4>1. log[m].session # Root /\ log'[m].origin = log[m].origin /\ log[m].origin \in Of(Root)
          BY <1>2, <1>4, <3>3
      <4>2. PICK o, l : o = log[m].origin /\ l = Latest(Calls)
          OBVIOUS
      <4>3. o <= l \/ log[o].gen < gen[Root]
          BY <1>10, <3>1, <4>1, <4>2
      <4>4. CASE ~(o <= l)
        <5>1. l <= o /\ o \in Of(Root) /\ l \in Of(Root)
            BY <1>3, <1>5, <3>1, <4>1, <4>2, <4>4
        <5>2. log[l].gen <= log[o].gen
            BY <1>4, <5>1
        <5>3. log[l].gen = gen[Root]
          <6>1. l \in Calls
              BY <1>10, <3>1, <4>2
          <6> QED BY <6>1 DEF Calls
        <5>4. gen[Root] \in Nat /\ log[o].gen \in Nat
            BY <1>3, <1>5, <5>1, <5>3
        <5> QED BY <4>3, <4>4, <5>2, <5>3, <5>4
      <4> QED BY <2>2, <3>1, <4>1, <4>2, <4>4
    <3> QED BY <1>2, <3>2, <3>3
  <2>3. n \in Seqs => m \in Seqs
      BY <1>2, <1>7
  <2> QED BY <1>2, <2>1, <2>2, <2>3
<1> QED BY <1>2, <1>8, <1>9, <1>11, <1>12 DEF Origins


\* A prompt changes nothing of the sessions it does not go to.
LEMMA PromptElsewhere ==
    ASSUME IInv, HInv, NEW s \in Session, Prompt(s), NEW t \in DOMAIN txs, s \notin txs[t].members
    PROVE  /\ SelectedBy(t)' = SelectedBy(t)
           /\ (Rewinds(t)' <=> Rewinds(t)) /\ (Redoes(t)' <=> Redoes(t))
           /\ Covers(t) => Covers(t)'
           /\ Cuts(t) => Cuts(t)'
           /\ Holds(t) => Holds(t)'
           /\ \A n \in SelectedBy(t) : log'[n] = log[n]
<1>1. PICK k : k = Len(log) + 1
    OBVIOUS
<1>2. /\ k \notin Seqs /\ Seqs' = Seqs \cup {k} /\ \A n \in Seqs : log'[n] = log[n]
      /\ log'[k].session = s /\ UNCHANGED <<gen, pending, txs, host>>
      /\ kept' = (kept \ Hidden(s)) \cup {k}
      /\ adrift \subseteq adrift' /\ adrift' \subseteq Seqs
    BY <1>1, PromptFields
<1>3. \A n \in SelectedBy(t) : n \in Seqs /\ log[n].session \in txs[t].members
    BY DEF SelectedBy, Selected
<1>4. SelectedBy(t)' = SelectedBy(t)
    BY <1>2 DEF SelectedBy, Selected, Place
<1>5. Rewinds(t)' = Rewinds(t) /\ Redoes(t)' = Redoes(t)
    BY <1>2 DEF Rewinds, Redoes
<1>6. DOMAIN txs[t].targets \subseteq txs[t].members
    BY TxNumbers DEF IInv, Typed, TxOK
<1>7. \A m : m # s => Of(m)' = Of(m)
    BY <1>2 DEF Of
<1>8. Cuts(t) => Cuts(t)'
  <2>1. \A m \in DOMAIN txs[t].targets : m # s
      BY <1>6
  <2> QED BY <1>2, <1>4, <1>7, <2>1 DEF Cuts
<1>9. Holds(t) => Holds(t)'
  <2>1. \A n \in SelectedBy(t) : n \notin Hidden(s)
      BY <1>3, PromptUnfenced
  <2> QED BY <1>2, <1>4, <2>1 DEF Holds
<1>10. Covers(t) => Covers(t)'
    BY <1>2, <1>3, <1>4 DEF Covers
<1> QED BY <1>2, <1>3, <1>4, <1>5, <1>8, <1>9, <1>10

LEMMA PromptMarkers ==
    ASSUME NoHeadAbove, IInv, HInv, NEW s \in Session, Prompt(s)
    PROVE  Markers' /\ Files'
<1>1. PICK k : k = Len(log) + 1
    OBVIOUS
<1>2. /\ k \notin Seqs /\ Seqs' = Seqs \cup {k} /\ \A n \in Seqs : log'[n] = log[n]
      /\ log'[k].session = s /\ log'[k].op = "open" /\ log'[k].reverted = FALSE
      /\ UNCHANGED <<gen, pending, txs, host>>
      /\ kept' = (kept \ Hidden(s)) \cup {k}
      /\ adrift \subseteq adrift' /\ adrift' \subseteq Seqs /\ kept \subseteq Seqs
      /\ marker'[s] = 0 /\ \A a \in Session : a # s => marker'[a] = marker[a]
  <2>1. k \notin Seqs /\ Seqs' = Seqs \cup {k} /\ \A n \in Seqs : log'[n] = log[n]
      BY <1>1, PromptFields
  <2>2. log'[k].session = s /\ log'[k].op = "open" /\ log'[k].reverted = FALSE
      BY <1>1, PromptFields
  <2>3. UNCHANGED <<gen, pending, txs, host>> /\ kept' = (kept \ Hidden(s)) \cup {k}
      BY <1>1 DEF Prompt
  <2>4. adrift \subseteq adrift' /\ adrift' \subseteq Seqs /\ kept \subseteq Seqs
      BY <1>1, PromptFields
  <2>5. marker'[s] = 0 /\ \A a \in Session : a # s => marker'[a] = marker[a]
      BY DEF Prompt, IInv, Typed, StoreTyped
  <2> QED BY <2>1, <2>2, <2>3, <2>4, <2>5
<1>3. /\ pending[s] = 0
      /\ \A n \in Hidden(s) : n \in kept \ adrift => log[n].reverted
      /\ \A n \in ((kept \cap Of(s)) \ adrift) \ Hidden(s) : ~log[n].reverted
    BY PromptUnfenced
<1>4. Markers'
  <2> SUFFICES ASSUME NEW r \in Session, NEW n \in (kept' \cap Of(r)') \ adrift'
               PROVE  log'[n].reverted <=> Base(r)' # 0 /\ n >= Base(r)'
      BY DEF Markers
  <2>1. CASE r = s
    <3>1. Base(r)' = 0
        BY <1>2, <1>3, <2>1 DEF Base
    <3>2. CASE n = k
        BY <1>2, <3>1, <3>2
    <3>3. CASE n \in Seqs
      <4>1. n \in ((kept \cap Of(s)) \ adrift) \ Hidden(s)
          BY <1>2, <2>1, <3>3 DEF Of
      <4> QED BY <1>2, <1>3, <3>1, <3>3, <4>1
    <3> QED BY <1>2, <3>2, <3>3 DEF Of
  <2>2. CASE r # s
    <3>1. Base(r)' = Base(r)
        BY <1>2, <2>2 DEF Base
    <3>2. n \in (kept \cap Of(r)) \ adrift /\ log'[n] = log[n]
        BY <1>2, <2>2 DEF Of
    <3> QED BY <3>1, <3>2 DEF HInv, Markers
  <2> QED BY <2>1, <2>2
<1>5. Files'
  <2> SUFFICES ASSUME NEW n \in Seqs' \ adrift'
               PROVE  /\ log'[n].op = "on" => n \in kept' /\ ~log'[n].reverted
                      /\ log'[n].op = "off" => n \notin kept' \/ log'[n].reverted
      BY DEF Files
  <2>1. CASE n = k
      BY <1>2, <2>1
  <2>2. CASE n \in Seqs
    <3>1. /\ log[n].op = "on" => n \in kept /\ ~log[n].reverted
          /\ log[n].op = "off" => n \notin kept \/ log[n].reverted
          /\ n \notin adrift
        BY <1>2, <2>2 DEF HInv, Files
    <3> QED BY <1>2, <1>3, <2>2, <3>1
  <2> QED BY <1>2, <2>1, <2>2
<1> QED BY <1>4, <1>5

LEMMA PromptSelections ==
    ASSUME NoHeadAbove, IInv, HInv, NEW s \in Session, Prompt(s)
    PROVE  PendingReverts' /\ PendingRedos' /\ Lists'
<1>1. UNCHANGED txs
    BY DEF Prompt
<1>2. /\ reverts'[s] = <<>>
      /\ \A a \in Session : a # s => reverts'[a] = reverts[a]
      /\ \A a \in Session : Listed(a) # {} /\ s \in Tree(a) => a = s
    BY PromptLists
<1>3. \A a \in Session : a # s => Listed(a)' = Listed(a)
    BY <1>2 DEF Listed
<1>4. Listed(s)' = {}
    BY <1>2 DEF Listed
<1>5. ASSUME NEW t \in Pending
      PROVE  /\ t \in DOMAIN txs /\ s \notin txs[t].members /\ txs[t].root # s
             /\ \A a : a = txs[t].root => Listed(a)' = Listed(a)
             /\ (Rewinds(t)' <=> Rewinds(t)) /\ (Redoes(t)' <=> Redoes(t))
             /\ SelectedBy(t)' = SelectedBy(t)
             /\ Covers(t) => Covers(t)'
             /\ Cuts(t) => Cuts(t)'
             /\ Holds(t) => Holds(t)'
             /\ \A n \in SelectedBy(t) : log'[n] = log[n]
  <2>1. t \in DOMAIN txs /\ s \notin txs[t].members
      BY PromptUnfenced, FenceOf
  <2>2. txs[t].root \in txs[t].members /\ txs[t].root \in Session
      BY <2>1, TreeAssumption DEF HInv, TxForm
  <2>3. \A a : a = txs[t].root => Listed(a)' = Listed(a)
      BY <1>3, <2>1, <2>2
  <2> QED BY <2>1, <2>2, <2>3, PromptElsewhere
<1>6. Pending' = Pending
    BY <1>1 DEF Pending
<1>7. PendingReverts'
  <2> SUFFICES ASSUME NEW t \in Pending, Rewinds(t)', NEW r, r = txs[t].root
               PROVE  /\ Covers(t)' /\ Cuts(t)' /\ Holds(t)'
                      /\ \A n \in SelectedBy(t)' : log'[n].op = "on" => n \in txs[t].ops
                      /\ \A u \in Listed(r)' : txs[t].boundary <= txs[u].boundary
      BY <1>1, <1>6 DEF PendingReverts, Listed
  <2>1. /\ Covers(t) /\ Cuts(t) /\ Holds(t)
        /\ \A n \in SelectedBy(t) : log[n].op = "on" => n \in txs[t].ops
        /\ \A u \in Listed(txs[t].root) : txs[t].boundary <= txs[u].boundary
      BY <1>5 DEF HInv, PendingReverts
  <2> QED BY <1>5, <2>1
<1>8. PendingRedos'
  <2> SUFFICES ASSUME NEW t \in Pending, Redoes(t)'
               PROVE  /\ \A u \in {reverts'[txs[t].root][i] : i \in DOMAIN reverts'[txs[t].root]} :
                            /\ txs[u].members \subseteq txs[t].members
                            /\ DOMAIN txs[u].targets \subseteq DOMAIN txs[t].targets
                            /\ txs[t].boundary <= txs[u].boundary
                            /\ txs[u].ops \subseteq txs[t].ops
                      /\ \A n \in txs[t].ops :
                            \E u \in {reverts'[txs[t].root][i] : i \in DOMAIN reverts'[txs[t].root]} :
                               n \in txs[u].ops
      BY <1>1, <1>6 DEF PendingRedos, Listed
  <2>1. PICK L : L = {reverts'[txs[t].root][i] : i \in DOMAIN reverts'[txs[t].root]}
      OBVIOUS
  <2>2. L = Listed(txs[t].root)
    <3>1. txs[t].root # s /\ txs[t].root \in Session
        BY <1>5, TreeAssumption DEF HInv, TxForm
    <3>2. reverts'[txs[t].root] = reverts[txs[t].root]
        BY <1>2, <3>1
    <3> QED BY <2>1, <3>2 DEF Listed
  <2>3. /\ \A u \in L : /\ txs[u].members \subseteq txs[t].members
                        /\ DOMAIN txs[u].targets \subseteq DOMAIN txs[t].targets
                        /\ txs[t].boundary <= txs[u].boundary
                        /\ txs[u].ops \subseteq txs[t].ops
        /\ \A n \in txs[t].ops : \E u \in L : n \in txs[u].ops
      BY <1>5, <2>2 DEF HInv, PendingRedos
  <2> QED BY <2>1, <2>3
<1>9. Lists'
  <2> SUFFICES ASSUME NEW a \in Session, NEW u \in Listed(a)'
               PROVE  /\ u \in DOMAIN txs /\ txs[u].root = a /\ txs[u].state = "committed" /\ Rewinds(u)'
                      /\ Covers(u)' /\ Holds(u)'
                      /\ \A n \in SelectedBy(u)' : log'[n].reverted
                      /\ txs[reverts'[a][Len(reverts'[a])]].boundary <= txs[u].boundary
      BY <1>1 DEF Lists
  <2>1. a # s /\ u \in Listed(a) /\ reverts'[a] = reverts[a]
      BY <1>2, <1>3, <1>4
  <2>2. /\ u \in DOMAIN txs /\ txs[u].root = a /\ txs[u].state = "committed" /\ Rewinds(u)
        /\ Covers(u) /\ Holds(u) /\ txs[u].members \subseteq Tree(a)
      BY <2>1, ListedTx
  <2>3. /\ \A n \in SelectedBy(u) : log[n].reverted
        /\ txs[reverts[a][Len(reverts[a])]].boundary <= txs[u].boundary
      BY <2>1 DEF HInv, Lists
  <2>4. s \notin txs[u].members
      BY <1>2, <2>1, <2>2
  <2>5. /\ Covers(u)' /\ Holds(u)' /\ Rewinds(u)' /\ SelectedBy(u)' = SelectedBy(u)
        /\ \A n \in SelectedBy(u) : log'[n] = log[n]
      BY <2>2, <2>4, PromptElsewhere
  <2> QED BY <2>1, <2>2, <2>3, <2>5
<1> QED BY <1>7, <1>8, <1>9

LEMMA PromptReasons ==
    ASSUME NoHeadAbove, IInv, HInv, NEW s \in Session, Prompt(s)
    PROVE  Reasons'
<1>1. PICK k : k = Len(log) + 1
    OBVIOUS
<1>2. /\ k \notin Seqs /\ Seqs' = Seqs \cup {k} /\ \A n \in Seqs : log'[n] = log[n]
      /\ log'[k].op = "open" /\ log'[k].reverted = FALSE
      /\ UNCHANGED <<gen, pending, txs, host>>
      /\ kept' = (kept \ Hidden(s)) \cup {k}
      /\ adrift \subseteq adrift' /\ kept \subseteq Seqs
    BY <1>1, PromptFields
<1>3. /\ \A a \in Session : a # s => reverts'[a] = reverts[a]
      /\ \A a \in Session : Listed(a) # {} /\ s \in Tree(a) => a = s
      /\ \A n \in Seqs : n \in kept \ Hidden(s) /\ log[n].reverted /\ Listed(s) # {}
                              /\ log[n].session \in Tree(s) => n \in adrift'
    BY PromptLists
<1> SUFFICES ASSUME NEW n \in kept' \ adrift'
             PROVE  /\ log'[n].reverted => \E a \in Heads : \E u \in Listed(a)' : n \in SelectedBy(u)'
                    /\ log'[n].op = "off" => \E a \in Heads : \E u \in Listed(a)' : n \in txs'[u].ops
    BY DEF Reasons
<1>4. CASE n = k
    BY <1>2, <1>4
<1>5. ASSUME n # k, log[n].reverted, NEW a \in Heads, NEW u \in Listed(a), n \in SelectedBy(u)
      PROVE  u \in Listed(a)' /\ n \in SelectedBy(u)'
  <2>1. a \in Session
      BY TreeAssumption
  <2>2. u \in DOMAIN txs /\ txs[u].members \subseteq Tree(a)
      BY <2>1, ListedTx
  <2>3. n \in Seqs /\ log[n].session \in Tree(a) /\ n \in kept \ Hidden(s)
      BY <1>2, <1>5, <2>2 DEF SelectedBy, Selected
  <2>4. a # s
      BY <1>3, <1>5, <2>3
  <2>5. s \notin txs[u].members
      BY <1>3, <2>1, <2>2, <2>4
  <2>6. SelectedBy(u)' = SelectedBy(u)
      BY <2>2, <2>5, PromptElsewhere
  <2>7. Listed(a)' = Listed(a)
      BY <1>3, <2>1, <2>4 DEF Listed
  <2> QED BY <1>5, <2>6, <2>7
<1>6. CASE n # k
  <2>1. n \in kept \ adrift /\ n \in Seqs /\ log'[n] = log[n]
      BY <1>2, <1>6
  <2>2. ASSUME log[n].reverted PROVE \E a \in Heads : \E u \in Listed(a)' : n \in SelectedBy(u)'
    <3>1. PICK a \in Heads : \E u \in Listed(a) : n \in SelectedBy(u)
        BY <2>1, <2>2 DEF HInv, Reasons
    <3>2. PICK u \in Listed(a) : n \in SelectedBy(u)
        BY <3>1
    <3> QED BY <1>5, <1>6, <2>2, <3>2
  <2>3. ASSUME log[n].op = "off" PROVE \E a \in Heads : \E u \in Listed(a)' : n \in txs[u].ops
    <3>1. log[n].reverted
        BY <2>1, <2>3 DEF HInv, Files
    <3>2. PICK a \in Heads : \E u \in Listed(a) : n \in txs[u].ops
        BY <2>1, <2>3 DEF HInv, Reasons
    <3>3. PICK u \in Listed(a) : n \in txs[u].ops
        BY <3>2
    <3>4. n \in SelectedBy(u)
        BY <3>3, ListedTx, TreeAssumption DEF Holds
    <3>5. u \in Listed(a)'
        BY <1>5, <1>6, <3>1, <3>4
    <3> QED BY <3>3, <3>5
  <2> QED BY <1>2, <2>1, <2>2, <2>3
<1> QED BY <1>4, <1>6

LEMMA PromptHistory ==
    ASSUME NoHeadAbove, IInv, HInv, NEW s \in Session, Prompt(s)
    PROVE  HInv'
<1>1. UNCHANGED <<gen, pending, txs, host>> /\ Frozen
      /\ \A a \in Session : a # s => marker'[a] = marker[a]
  <2>1. UNCHANGED <<gen, pending, txs, host>> /\ Frozen
      BY DEF Prompt, Frozen
  <2>2. \A a \in Session : a # s => marker'[a] = marker[a]
      BY DEF Prompt, IInv, Typed, StoreTyped
  <2> QED BY <2>1, <2>2
<1>2. \A t \in Pending : s \notin DOMAIN txs[t].targets /\ DOMAIN txs[t].targets \subseteq Session
    BY PromptUnfenced, FenceOf
<1>3. TxForm'
    BY <1>1 DEF HInv, TxForm, Tree
<1>4. Decided'
  <2> SUFFICES ASSUME NEW t \in Pending, txs[t].phase = "files", NEW a \in DOMAIN txs[t].targets
               PROVE  marker'[a] = Goal(t, a)
      BY <1>1 DEF Decided, Pending, Goal
  <2>1. marker'[a] = marker[a]
      BY <1>1, <1>2
  <2> QED BY <2>1 DEF HInv, Decided
<1>5. Progress'
  <2> SUFFICES ASSUME NEW g \in Host PROVE Steers(g)'
      BY DEF Progress
  <2>1. Working(g) => host[g].tx \in Pending
      BY AtWork
  <2>2. Working(g) => \A a \in DOMAIN txs[host[g].tx].targets : marker'[a] = marker[a]
      BY <1>1, <1>2, <2>1
  <2> QED BY <1>1, <2>2, SteersOn DEF HInv
<1>6. Generations' /\ Origins' /\ Markers' /\ Files'
    BY PromptGenerations, PromptOrigins, PromptMarkers
<1>7. PendingReverts' /\ PendingRedos' /\ Lists' /\ Reasons'
    BY PromptSelections, PromptReasons
<1> QED BY <1>3, <1>4, <1>5, <1>6, <1>7 DEF HInv


-----------------------------------------------------------------------------
(* The history at rest *)

LEMMA HistoryInit == Init => HInv
<1> SUFFICES ASSUME Init PROVE HInv
    OBVIOUS
<1>1. /\ Seqs = {} /\ DOMAIN txs = {} /\ kept = {} /\ adrift = {}
      /\ \A a \in Session : reverts[a] = <<>>
      /\ \A h \in Host : host[h].pc = "idle"
    BY DEF Init, Seqs
<1>2. Pending = {} /\ \A a \in Session : Listed(a) = {}
    BY <1>1 DEF Pending, Listed
<1>3. \A s : Of(s) = {}
    BY <1>1 DEF Of
<1>4. TxForm /\ Generations /\ Origins /\ Markers /\ Files
    BY <1>1, <1>3 DEF TxForm, Generations, Origins, Markers, Files
<1>5. Progress
    BY <1>1 DEF Progress, Steers
<1>6. Decided /\ PendingReverts /\ PendingRedos /\ Lists /\ Reasons
    BY <1>1, <1>2 DEF Decided, PendingReverts, PendingRedos, Lists, Reasons
<1> QED BY <1>4, <1>5, <1>6 DEF HInv

LEMMA HistoryStep ==
    ASSUME NoHeadAbove, IInv, HInv, [Next]_vars
    PROVE  HInv'
<1>1. CASE Work
    BY <1>1, PromptHistory, PublishHistory DEF Work
<1>2. ASSUME NEW h \in Host, Ask(h) PROVE HInv'
    BY <1>2, RevertHistory, RedoHistory, FilesHistory DEF Ask
<1>3. ASSUME NEW h \in Host, Step(h) PROVE HInv'
  <2>1. CASE Take(h) \/ LockTimeout(h) \/ (\E t \in DOMAIN txs : Resume(h, t))
             \/ (\E s \in Session : Unknown(h, s))
    <3>1. \/ Take(h) \/ LockTimeout(h) \/ (\E s \in Session : Unknown(h, s))
          \/ (\E t \in DOMAIN txs : Resume(h, t) \/ Join(h, t))
        BY <2>1
    <3> QED BY <3>1, WaitingHistory
  <2>2. CASE Stop(h)
      BY <2>2, StopHistory
  <2>3. CASE Mark(h) \/ Turn(h) \/ Decide(h) \/ GiveBack(h)
      BY <2>3, PhaseHistory
  <2>4. CASE Abandon(h)
      BY <2>4, AbandonHistory
  <2>5. CASE Commit(h)
      BY <2>5, CommitHistory
  <2>6. ASSUME NEW s \in Session, Rewind(h, s) \/ Restore(h, s) PROVE HInv'
      BY <2>6, MarkerHistory
  <2> QED BY <1>3, <2>1, <2>2, <2>3, <2>4, <2>5, <2>6 DEF Step
<1>4. ASSUME NEW h \in Host, Fail(h) PROVE HInv'
    BY <1>4, StopHistory, WaitingHistory DEF Fail
<1>5. ASSUME NEW h \in Host, Start(h) PROVE HInv'
    BY <1>5, WaitingHistory
<1>6. ASSUME NEW t \in DOMAIN txs, ColdCancel(t) PROVE HInv'
    BY <1>6, ColdCancelHistory
<1>7. CASE UNCHANGED vars
  <2>1. UNCHANGED <<log, gen, pending, txs, reverts, kept, adrift, marker, host>>
      BY <1>7 DEF vars
  <2>2. Frozen /\ Steady
      BY <2>1 DEF Frozen, Steady, Placed, Seqs
  <2>3. Markers'
    <3>1. \A s \in Session : Base(s)' = Base(s)
        BY <2>1 DEF Base
    <3> QED BY <2>2, <3>1, SameMarkers DEF HInv, IInv
  <2>4. Decided' /\ Progress'
      BY <2>1 DEF HInv, Decided, Pending, Goal, Progress, Steers
  <2> QED BY <2>2, <2>3, <2>4, SteadyKeeps DEF HRest
<1> QED BY <1>1, <1>2, <1>3, <1>4, <1>5, <1>6, <1>7 DEF Next

\* The markers of the store, the selections of the requests and the prompts
\* and operations the ledger counts stay in step, whatever is asked, fails or
\* crashes, when no head stands above another one.
THEOREM HistoryInvariance ==
    ASSUME NoHeadAbove
    PROVE  Spec => [](IInv /\ HInv)
<1>1. Init => IInv /\ HInv
    BY InitInv, HistoryInit
<1>2. (IInv /\ HInv) /\ [Next]_vars => (IInv /\ HInv)'
    BY NoHeadAbove, StepInv, HistoryStep
<1> QED BY <1>1, <1>2, PTL DEF Spec

\* A session that nothing reverts shows what the ledger counts.
LEMMA AtRest ==
    ASSUME HInv, NEW s \in Session
    PROVE  /\ {n \in (kept \cap Of(s)) \ adrift : ~(Base(s) # 0 /\ n >= Base(s))} = Live(s) \ adrift
           /\ pending[s] = 0 => /\ Visible(s) \ adrift = Live(s) \ adrift
                                /\ FilesAgree(s, Seqs \ adrift)
<1>1. \A n \in (kept \cap Of(s)) \ adrift : log[n].reverted <=> Base(s) # 0 /\ n >= Base(s)
    BY DEF HInv, Markers
<1>2. {n \in (kept \cap Of(s)) \ adrift : ~(Base(s) # 0 /\ n >= Base(s))} = Live(s) \ adrift
    BY <1>1 DEF Live
<1>3. ASSUME pending[s] = 0
      PROVE  Visible(s) \ adrift = Live(s) \ adrift /\ FilesAgree(s, Seqs \ adrift)
  <2>1. Base(s) = marker[s]
      BY <1>3 DEF Base
  <2>2. Visible(s) \ adrift = Live(s) \ adrift
      BY <1>1, <2>1 DEF Visible, Hidden, Live
  <2>3. ASSUME NEW n \in Of(s) \cap (Seqs \ adrift)
        PROVE  /\ log[n].op = "on" => n \in Visible(s)
               /\ log[n].op = "off" => n \notin Visible(s)
    <3>1. /\ log[n].op = "on" => n \in kept /\ ~log[n].reverted
          /\ log[n].op = "off" => n \notin kept \/ log[n].reverted
        BY DEF HInv, Files
    <3>2. n \in Visible(s) <=> n \in Live(s)
        BY <2>2
    <3> QED BY <3>1, <3>2 DEF Live
  <2> QED BY <2>2, <2>3 DEF FilesAgree
<1> QED BY <1>2, <1>3

\* A conversation that nothing reverts shows exactly the messages the ledger
\* counts, with exactly their files: no interleaving of prompts, requests,
\* failed calls and crashes lets the store, the ledger and the files of a tree
\* disagree, for any number of each, when no head stands above another one.
THEOREM HistoryWhole ==
    ASSUME NoHeadAbove
    PROVE  Spec => []Whole
<1>1. HInv => Whole
    BY AtRest DEF Whole
<1>2. Spec => [](IInv /\ HInv)
    BY NoHeadAbove, HistoryInvariance
<1> QED BY <1>1, <1>2, PTL

-----------------------------------------------------------------------------
(* Every step is one of the promise *)

\* What the promise shows of a session, and the sessions it holds.
Standing(s) == Live(s) \ adrift
Locked == {s \in Session : pending[s] # 0}

Unmoved == \A s \in Session : Standing(s)' = Standing(s)

Prompted == \E s \in Session, n \in 1 .. MaxSeq :
    /\ s \notin Locked /\ Locked' = Locked
    /\ Standing(s)' = Standing(s) \cup {n}
    /\ \A a \in Session : a # s => Standing(a)' = Standing(a)

FencedAll == \E S \in (SUBSET Session) \ {{}} :
    S \cap Locked = {} /\ Locked' = Locked \cup S /\ Unmoved

SettledAll == \E S \in (SUBSET Session) \ {{}} :
    /\ S \subseteq Locked /\ Locked' = Locked \ S
    /\ \A s \in Session \ S : Standing(s)' = Standing(s)
    /\ \/ \A s \in S : Standing(s)' \subseteq Standing(s)
       \/ \A s \in S : Standing(s) \subseteq Standing(s)'

Promised == (Unmoved /\ Locked' = Locked) \/ Prompted \/ FencedAll \/ SettledAll

Shown == [s \in Session |-> (IF pending[s] = 0 THEN Visible(s) ELSE Live(s)) \ adrift]

LEMMA ShownIsStanding == HInv => Shown = [s \in Session |-> Standing(s)]
BY AtRest DEF Shown, Standing

LEMMA PromisedStep ==
    ASSUME HInv, HInv', Promised
    PROVE  [Atomic!Next]_(Atomic!vars)
<1>1. Shown = [s \in Session |-> Standing(s)]
    BY ShownIsStanding
<1>2. Shown' = [s \in Session |-> Standing(s)']
  <2>1. (HInv => Shown = [s \in Session |-> Standing(s)])'
      BY ShownIsStanding, PTL
  <2> QED BY <2>1
<1>3. CASE Unmoved /\ Locked' = Locked
  <2>1. Shown' = Shown
      BY <1>1, <1>2, <1>3 DEF Unmoved
  <2> QED BY <1>3, <2>1 DEF Atomic!vars, Shown, Locked
<1>4. CASE Prompted
  <2>1. PICK s \in Session, n \in 1 .. MaxSeq :
           /\ s \notin Locked /\ Locked' = Locked
           /\ Standing(s)' = Standing(s) \cup {n}
           /\ \A a \in Session : a # s => Standing(a)' = Standing(a)
      BY <1>4 DEF Prompted
  <2>2. Shown' = [Shown EXCEPT ![s] = @ \cup {n}]
      BY <1>1, <1>2, <2>1
  <2>3. Atomic!Prompt(s)
      BY <2>1, <2>2 DEF Atomic!Prompt, Shown, Locked
  <2> QED BY <2>3 DEF Atomic!Next
<1>5. CASE FencedAll
  <2>1. PICK S \in (SUBSET Session) \ {{}} :
           S \cap Locked = {} /\ Locked' = Locked \cup S /\ Unmoved
      BY <1>5 DEF FencedAll
  <2>2. Shown' = Shown
      BY <1>1, <1>2, <2>1 DEF Unmoved
  <2>3. Atomic!Fence(S)
      BY <2>1, <2>2 DEF Atomic!Fence, Shown, Locked
  <2> QED BY <2>1, <2>3 DEF Atomic!Next
<1>6. CASE SettledAll
  <2>1. PICK S \in (SUBSET Session) \ {{}} :
           /\ S \subseteq Locked /\ Locked' = Locked \ S
           /\ \A s \in Session \ S : Standing(s)' = Standing(s)
           /\ \/ \A s \in S : Standing(s)' \subseteq Standing(s)
              \/ \A s \in S : Standing(s) \subseteq Standing(s)'
      BY <1>6 DEF SettledAll
  <2>2. /\ DOMAIN Shown' = Session
        /\ \A s \in Session \ S : Shown'[s] = Shown[s]
        /\ \/ \A s \in S : Shown'[s] \subseteq Shown[s]
           \/ \A s \in S : Shown[s] \subseteq Shown'[s]
    <3>1. \A s \in Session : Shown[s] = Standing(s) /\ Shown'[s] = Standing(s)'
        BY <1>1, <1>2
    <3>2. DOMAIN Shown' = Session
        BY <1>2
    <3> QED BY <2>1, <3>1, <3>2
  <2>3. Atomic!Settle(S)
      BY <2>1, <2>2 DEF Atomic!Settle, Shown, Locked
  <2> QED BY <2>1, <2>3 DEF Atomic!Next
<1> QED BY <1>3, <1>4, <1>5, <1>6 DEF Promised

LEMMA StandingStays ==
    ASSUME Placed, Seqs' = Seqs, UNCHANGED <<kept, adrift>>, NEW s,
           \A n \in Seqs : log[n].session = s => log'[n].reverted = log[n].reverted
    PROVE  Standing(s)' = Standing(s)
<1>1. \A n : n \in Of(s)' <=> n \in Of(s)
    BY DEF Of, Placed
<1>2. \A n \in Of(s) : n \in Seqs /\ log[n].session = s /\ log'[n].reverted = log[n].reverted
    BY DEF Of
<1> QED BY <1>1, <1>2 DEF Standing, Live

\* The ledger and the store stay.
LEMMA NothingShown ==
    ASSUME UNCHANGED <<log, kept, adrift, pending>>
    PROVE  Promised
<1>1. Placed /\ Seqs' = Seqs
    BY DEF Placed, Seqs
<1>2. Unmoved
    BY <1>1, StandingStays DEF Unmoved
<1> QED BY <1>2 DEF Promised, Locked

LEMMA PromptPromised ==
    ASSUME IInv, HInv, NEW s \in Session, Prompt(s)
    PROVE  Promised
<1>1. PICK k : k = Len(log) + 1
    OBVIOUS
<1>2. /\ k \notin Seqs /\ Seqs' = Seqs \cup {k} /\ \A n \in Seqs : log'[n] = log[n]
      /\ log'[k].session = s /\ log'[k].reverted = FALSE /\ UNCHANGED pending
      /\ kept' = (kept \ Hidden(s)) \cup {k} /\ adrift \subseteq adrift'
      /\ kept \subseteq Seqs /\ adrift' \subseteq Seqs
    BY <1>1, PromptFields
<1>3. \A n \in Seqs : n \in adrift' => n \in adrift \/ log[n].reverted
    BY DEF Prompt
<1>4. /\ s \notin Locked
      /\ \A n \in Hidden(s) : log[n].session = s /\ (n \in kept \ adrift => log[n].reverted)
    BY PromptUnfenced DEF Locked
<1>5. Standing(s)' = Standing(s) \cup {k}
  <2>1. \A n : n \in Of(s)' <=> n \in Of(s) \/ n = k
      BY <1>2 DEF Of
  <2>2. \A n \in Of(s) : n \in Seqs
      BY DEF Of
  <2>3. \A n \in Seqs : n \in Standing(s)' <=> n \in Standing(s)
      BY <1>2, <1>3, <1>4, <2>1 DEF Standing, Live
  <2>4. k \in Standing(s)'
      BY <1>2, <2>1 DEF Standing, Live
  <2>5. (\A n \in Standing(s)' : n \in Seqs \/ n = k) /\ (\A n \in Standing(s) : n \in Seqs)
      BY <2>1, <2>2 DEF Standing, Live
  <2> QED BY <2>3, <2>4, <2>5
<1>6. ASSUME NEW a \in Session, a # s PROVE Standing(a)' = Standing(a)
  <2>1. \A n : n \in Of(a)' <=> n \in Of(a)
      BY <1>2, <1>6 DEF Of
  <2>2. \A n \in Of(a) : n \in Seqs /\ log[n].session = a
      BY DEF Of
  <2>3. \A n \in Of(a) : n \notin Hidden(s) /\ n # k
      BY <1>2, <1>4, <1>6, <2>2
  <2> QED BY <1>2, <1>3, <2>1, <2>2, <2>3 DEF Standing, Live
<1>7. k \in 1 .. MaxSeq
    BY <1>1, BoundAssumption DEF Prompt, IInv, Typed, LogTyped
<1> QED BY <1>2, <1>4, <1>5, <1>6, <1>7 DEF Promised, Prompted, Locked

LEMMA PreparePromised ==
    ASSUME IInv, NEW h \in Host, NEW tx, tx.members \subseteq Session, tx.members # {},
           Prepare(h, tx)
    PROVE  Promised
<1>1. /\ UNCHANGED <<log, kept, adrift>> /\ \A m \in tx.members : pending[m] = 0
      /\ pending' = [s \in Session |-> IF s \in tx.members THEN Len(txs) + 1 ELSE pending[s]]
    BY DEF Prepare, store
<1>2. Len(txs) + 1 # 0
    BY TxNumbers DEF IInv, Typed
<1>3. tx.members \cap Locked = {} /\ Locked' = Locked \cup tx.members
    BY <1>1, <1>2 DEF Locked
<1>4. Unmoved
  <2>1. Placed /\ Seqs' = Seqs
      BY <1>1 DEF Placed, Seqs
  <2> QED BY <1>1, <2>1, StandingStays DEF Unmoved
<1> QED BY <1>3, <1>4 DEF Promised, FencedAll

\* A settlement lifts the fence of the members.
LEMMA SettleUnlocks ==
    ASSUME IInv, TxForm, NEW t \in Pending, NEW st, Settled(t, st)
    PROVE  /\ txs[t].members \in (SUBSET Session) \ {{}}
           /\ txs[t].members \subseteq Locked /\ Locked' = Locked \ txs[t].members
<1>1. /\ t \in DOMAIN txs /\ t # 0 /\ txs[t].members \subseteq Session
      /\ \A s \in txs[t].members : pending[s] = t
    BY FenceOf
<1>2. txs[t].members # {}
    BY <1>1 DEF TxForm
<1>3. \A s \in Session : pending[s] = t => s \in txs[t].members
    BY <1>1 DEF IInv, FencesOwned
<1>4. \A s \in Session : /\ pending[s] = t => pending'[s] = 0
                         /\ pending[s] # t => pending'[s] = pending[s]
    BY OneSettled
<1>5. txs[t].members \subseteq Locked
    BY <1>1 DEF Locked
<1>6. Locked' = Locked \ txs[t].members
    BY <1>1, <1>3, <1>4 DEF Locked
<1> QED BY <1>1, <1>2, <1>5, <1>6

LEMMA GivenUpPromised ==
    ASSUME IInv, TxForm, NEW t \in Pending, NEW st, Settled(t, st), Placed, Seqs' = Seqs,
           UNCHANGED <<kept, adrift>>, \A n \in Seqs : log'[n].reverted = log[n].reverted
    PROVE  Promised
<1>1. \A s \in Session : Standing(s)' = Standing(s)
    BY StandingStays
<1>2. PICK S \in (SUBSET Session) \ {{}} : S \subseteq Locked /\ Locked' = Locked \ S
    BY SettleUnlocks
<1>3. \A s \in S : Standing(s)' \subseteq Standing(s)
    BY <1>1
<1> QED BY <1>1, <1>2, <1>3 DEF Promised, SettledAll

LEMMA CommitPromised ==
    ASSUME IInv, HInv, NEW t \in Pending, Committing(t)
    PROVE  Promised
<1>1. PICK S : S = txs[t].members
    OBVIOUS
<1>2. S \in (SUBSET Session) \ {{}} /\ S \subseteq Locked /\ Locked' = Locked \ S
    BY <1>1, SettleUnlocks DEF HInv, Committing
<1>3. /\ Placed /\ Seqs' = Seqs /\ UNCHANGED <<kept, adrift>>
      /\ \A n \in Seqs :
            /\ log'[n].reverted = IF n \in SelectedBy(t) THEN ~txs[t].redo ELSE log[n].reverted
            /\ log[n].reverted \in BOOLEAN
      /\ txs[t].redo \in BOOLEAN
    BY CommitFields
<1>4. ASSUME NEW s \in Session \ S PROVE Standing(s)' = Standing(s)
  <2>1. \A n \in Seqs : log[n].session = s => log'[n].reverted = log[n].reverted
      BY <1>1, <1>4, CommitOutside
  <2> QED BY <1>3, <2>1, StandingStays
<1>5. \A s, n : n \in Of(s)' <=> n \in Of(s)
    BY <1>3 DEF Of, Placed
<1>6. \A s : \A n \in Of(s) : n \in Seqs
    BY DEF Of
<1>7. CASE txs[t].redo
  <2>1. \A n \in Seqs : ~log[n].reverted => ~log'[n].reverted
      BY <1>3, <1>7
  <2>2. \A s \in S : Standing(s) \subseteq Standing(s)'
      BY <1>3, <1>5, <1>6, <2>1 DEF Standing, Live
  <2> QED BY <1>2, <1>4, <2>2 DEF Promised, SettledAll
<1>8. CASE ~txs[t].redo
  <2>1. \A n \in Seqs : ~log'[n].reverted => ~log[n].reverted
      BY <1>3, <1>8
  <2>2. \A s \in S : Standing(s)' \subseteq Standing(s)
      BY <1>3, <1>5, <1>6, <2>1 DEF Standing, Live
  <2> QED BY <1>2, <1>4, <2>2 DEF Promised, SettledAll
<1> QED BY <1>3, <1>7, <1>8


LEMMA AskPromised ==
    ASSUME IInv, HInv, NEW h \in Host, Ask(h)
    PROVE  Promised
<1>1. \A t : Join(h, t) => Promised
    BY NothingShown DEF Join, ledger, store
<1>2. /\ \A s \in Session : s \in Tree(s) /\ Tree(s) \subseteq Session
      /\ \A n \in Seqs : log[n].session \in Session
    BY LogFields DEF Tree, IInv
<1>3. ASSUME NEW n \in Seqs, NEW scope \in {"tree", "session"}, AskRevert(h, n, scope)
      PROVE  Promised
  <2>1. PICK s, members, targets, ops :
           /\ s \in Session /\ members = Members(s, scope)
           /\ \/ \E t : Join(h, t)
              \/ Prepare(h, NewTx(s, scope, FALSE, n, members, targets, ops))
      BY <1>2, <1>3 DEF AskRevert
  <2>2. s \in members /\ members \subseteq Session
      BY <1>2, <2>1 DEF Members
  <2>3. ASSUME NEW tx, tx = NewTx(s, scope, FALSE, n, members, targets, ops), Prepare(h, tx)
        PROVE  Promised
    <3>1. tx.members = members
        BY <2>3 DEF NewTx
    <3> QED BY <2>2, <2>3, <3>1, PreparePromised
  <2> QED BY <1>1, <2>1, <2>3
<1>4. ASSUME NEW s \in Heads, AskRedo(h, s) PROVE Promised
  <2>1. PICK b, members, targets, ops :
           /\ members = UNION {txs[t].members : t \in Listed(s)}
           /\ \/ \E t : Join(h, t)
              \/ /\ Listed(s) # {}
                 /\ Prepare(h, NewTx(s, "tree", TRUE, b, members, targets, ops))
      BY <1>4 DEF AskRedo, Listed
  <2>2. ASSUME NEW tx, tx = NewTx(s, "tree", TRUE, b, members, targets, ops), Prepare(h, tx),
               Listed(s) # {}
        PROVE  Promised
    <3>1. PICK u \in Listed(s) : TRUE
        BY <2>2
    <3>2. \A v \in Listed(s) : v \in DOMAIN txs /\ TxOK(txs[v])
      <4>1. s \in Session
          BY TreeAssumption
      <4> QED BY <4>1, ListedTx, TxNumbers DEF IInv, Typed
    <3>3. txs[u].root \in txs[u].members
        BY <3>1, <3>2 DEF HInv, TxForm
    <3>4. \A v \in Listed(s) : txs[v].members \subseteq Session
        BY <3>2 DEF TxOK
    <3>6. members \subseteq Session /\ members # {}
        BY <2>1, <3>1, <3>3, <3>4
    <3>5. tx.members = members
        BY <2>2 DEF NewTx
    <3> QED BY <2>2, <3>5, <3>6, PreparePromised
  <2> QED BY <1>1, <2>1, <2>2
<1>5. ASSUME NEW n \in Seqs, AskFiles(h, n) PROVE Promised
  <2>1. PICK tx : tx = NewTx(log[n].session, "files", log[n].undone, 0, Tree(log[n].session),
                             <<>>, {n})
      OBVIOUS
  <2>2. tx.members = Tree(log[n].session) /\ Prepare(h, tx)
      BY <1>5, <2>1 DEF AskFiles, NewTx
  <2>3. tx.members \subseteq Session /\ tx.members # {}
      BY <1>2, <2>2
  <2> QED BY <2>2, <2>3, PreparePromised
<1> QED BY <1>3, <1>4, <1>5 DEF Ask

\* Ended calls and settlements.
LEMMA LedgerPromised ==
    ASSUME IInv, HInv,
           \/ \E n \in Seqs : Publish(n)
           \/ \E h \in Host : \/ Stop(h) \/ Abandon(h) \/ Commit(h)
                              \/ \E S \in SUBSET Seqs : StopUnconfirmed(h, S)
           \/ \E t \in DOMAIN txs : ColdCancel(t)
    PROVE  Promised
<1>1. ASSUME Placed, Seqs' = Seqs, UNCHANGED <<kept, adrift, pending>>,
             \A n \in Seqs : log'[n].reverted = log[n].reverted
      PROVE  Promised
    BY <1>1, StandingStays DEF Promised, Unmoved, Locked
<1>2. ASSUME NEW n \in Seqs, Publish(n) PROVE Promised
  <2>1. log' = [log EXCEPT ![n].op = "on"] /\ UNCHANGED <<kept, adrift, pending>>
      BY <1>2 DEF Publish, store
  <2>2. PICK y : y = [log[n] EXCEPT !.op = "on"]
      OBVIOUS
  <2>3. log[n] \in LogRec /\ Seqs = 1 .. Len(log) /\ Len(log) \in Nat /\ log \in Seq(LogRec)
      BY LogFields DEF IInv, Typed, LogTyped, Seqs
  <2>4. /\ y.session = log[n].session /\ y.origin = log[n].origin /\ y.gen = log[n].gen
        /\ y.reverted = log[n].reverted
      BY <2>2, <2>3 DEF LogRec
  <2>5. log' = [log EXCEPT ![n] = y]
      BY <2>1, <2>2
  <2>6. /\ Seqs' = Seqs /\ log'[n] = y
        /\ \A m \in Seqs : m # n => log'[m] = log[m]
      BY <2>3, <2>5 DEF Seqs
  <2> QED BY <1>1, <2>1, <2>4, <2>6 DEF Placed
<1>3. ASSUME NEW h \in Host, Stop(h) \/ \E S \in SUBSET Seqs : StopUnconfirmed(h, S)
      PROVE  Promised
  <2>1. PICK S : log' = Cancelled(S) /\ UNCHANGED <<kept, adrift, pending>>
      BY <1>3 DEF Stop, StopUnconfirmed, store
  <2> QED BY <1>1, <2>1, CancelledFields DEF IInv
<1>4. ASSUME NEW h \in Host, Abandon(h) PROVE Promised
  <2>1. PICK t : t = host[h].tx
      OBVIOUS
  <2>2. Working(h) /\ Settled(t, "cancelled") /\ UNCHANGED <<log, kept, adrift>>
      BY <1>4, <2>1 DEF Abandon, Working, store
  <2>3. t \in Pending
      BY <2>1, <2>2, AtWork
  <2>4. Placed /\ Seqs' = Seqs /\ \A n \in Seqs : log'[n].reverted = log[n].reverted
      BY <2>2 DEF Placed, Seqs
  <2> QED BY <2>2, <2>3, <2>4, GivenUpPromised DEF HInv
<1>5. ASSUME NEW h \in Host, Commit(h) PROVE Promised
  <2>1. PICK t : t = host[h].tx
      OBVIOUS
  <2>2. /\ Working(h) /\ host[h].pc = "commit" /\ Settled(t, "committed")
        /\ log' = Projected(txs[t]) /\ UNCHANGED <<gen, kept, adrift, marker>>
        /\ reverts' = IF txs[t].scope = "files" THEN reverts
                      ELSE [reverts EXCEPT ![txs[t].root] = IF txs[t].redo THEN <<>> ELSE Append(@, t)]
      BY <1>5, <2>1 DEF Commit, Working, store
  <2>3. t \in Pending /\ txs[t].phase = "files"
      BY <2>1, <2>2, AtWork DEF Fits
  <2>4. CASE txs[t].scope = "files"
    <3>1. Placed /\ Seqs' = Seqs /\ \A n \in Seqs : log'[n].reverted = log[n].reverted
        BY <2>2, <2>4, ProjectedFields DEF IInv
    <3> QED BY <2>2, <2>3, <3>1, GivenUpPromised DEF HInv
  <2>5. CASE txs[t].scope # "files"
    <3>1. Committing(t)
        BY <2>2, <2>3, <2>5 DEF Committing, HInv, Decided
    <3> QED BY <2>3, <3>1, CommitPromised
  <2> QED BY <2>4, <2>5
<1>6. ASSUME NEW t \in DOMAIN txs, ColdCancel(t) PROVE Promised
  <2>1. PICK S : log' = Cancelled(S) /\ Settled(t, "cancelled") /\ UNCHANGED <<kept, adrift>>
                 /\ t \in Pending
      BY <1>6 DEF ColdCancel, store
  <2>2. Placed /\ Seqs' = Seqs /\ \A n \in Seqs : log'[n].reverted = log[n].reverted
      BY <2>1, CancelledFields DEF IInv
  <2> QED BY <2>1, <2>2, GivenUpPromised DEF HInv
<1> QED BY <1>2, <1>3, <1>4, <1>5, <1>6

LEMMA StepPromised ==
    ASSUME IInv, HInv, [Next]_vars
    PROVE  Promised
<1>1. CASE Work
    BY <1>1, PromptPromised, LedgerPromised DEF Work
<1>2. ASSUME NEW h \in Host, Ask(h) PROVE Promised
    BY <1>2, AskPromised
<1>3. ASSUME NEW h \in Host, Step(h) PROVE Promised
  <2>1. CASE Stop(h) \/ Abandon(h) \/ Commit(h)
      BY <2>1, LedgerPromised
  <2>2. CASE Take(h) \/ LockTimeout(h) \/ Mark(h) \/ Turn(h) \/ Decide(h) \/ GiveBack(h)
    <3>1. UNCHANGED <<log, kept, adrift, pending>>
        BY <2>2 DEF Take, LockTimeout, Mark, Turn, Decide, GiveBack, ledger, store
    <3> QED BY <3>1, NothingShown
  <2>3. CASE \/ \E s \in Session : Rewind(h, s) \/ Unknown(h, s) \/ Restore(h, s)
             \/ \E t \in DOMAIN txs : Resume(h, t)
    <3>1. UNCHANGED <<log, kept, adrift, pending>>
        BY <2>3 DEF Rewind, Unknown, Restore, Resume, ledger, store
    <3> QED BY <3>1, NothingShown
  <2> QED BY <1>3, <2>1, <2>2, <2>3 DEF Step
<1>4. ASSUME NEW h \in Host, Fail(h) PROVE Promised
  <2>1. CASE \E S \in SUBSET Seqs : StopUnconfirmed(h, S)
      BY <2>1, LedgerPromised
  <2>2. CASE MarkFails(h) \/ RewindFails(h) \/ Refuse(h) \/ Drop(h) \/ Crash(h)
    <3>1. UNCHANGED <<log, kept, adrift, pending>>
        BY <2>2 DEF MarkFails, RewindFails, Refuse, Turns, Drop, Crash, ledger, store
    <3> QED BY <3>1, NothingShown
  <2> QED BY <1>4, <2>1, <2>2 DEF Fail
<1>5. ASSUME NEW h \in Host, Start(h) PROVE Promised
    BY <1>5, NothingShown DEF Start, ledger, store
<1>6. ASSUME NEW t \in DOMAIN txs, ColdCancel(t) PROVE Promised
    BY <1>6, LedgerPromised
<1>7. CASE UNCHANGED vars
    BY <1>7, NothingShown DEF vars
<1> QED BY <1>1, <1>2, <1>3, <1>4, <1>5, <1>6, <1>7 DEF Next

\* The phases of a request, the crashes between them, the hosts that take it
\* up again and the markers that are put back are, for whoever reads the
\* conversation, one step: the coordinator implements what Revert and Redo
\* promise (AtomicRevert), for any number of sessions, prompts, requests and
\* faults, when no head stands above another one.
THEOREM HistoryAtomic ==
    ASSUME NoHeadAbove
    PROVE  Spec => Atomically
<1>1. Init => Atomic!Init
  <2> SUFFICES ASSUME Init PROVE Atomic!Init
      OBVIOUS
  <2>1. kept = {} /\ \A s \in Session : pending[s] = 0
      BY DEF Init
  <2>2. \A s \in Session : Visible(s) = {}
      BY <2>1 DEF Visible
  <2> QED BY <2>1, <2>2 DEF Atomic!Init
<1>2. (IInv /\ HInv) /\ (IInv /\ HInv)' /\ [Next]_vars => [Atomic!Next]_(Atomic!vars)
  <2>1. IInv /\ HInv /\ [Next]_vars => Promised
      BY StepPromised
  <2>2. HInv /\ HInv' /\ Promised => [Atomic!Next]_(Atomic!vars)
      BY PromisedStep
  <2> QED BY <2>1, <2>2
<1>3. Spec => [](IInv /\ HInv)
    BY NoHeadAbove, HistoryInvariance
<1> QED BY <1>1, <1>2, <1>3, PTL DEF Spec, Atomically, Atomic!Spec

=============================================================================
