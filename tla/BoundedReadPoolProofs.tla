------------------------ MODULE BoundedReadPoolProofs ------------------------
(***************************************************************************)
(* The invariants of the read pool, for any number of callers, keys and    *)
(* slots.                                                                  *)
(***************************************************************************)
EXTENDS BoundedReadPool, FiniteSetTheorems, TLAPS

RunRec == [key : Key, pc : {"queued", "running", "ended"}, aborted : BOOLEAN]

\* The two halves of TypeOK.
ShapeTyped ==
    /\ runs \in Seq(RunRec)
    /\ entries \in [Key -> {0} \cup Entry]
    /\ queue \in Seq(Entry)
    /\ active \in Nat
    /\ caller \in [Caller -> {0} \cup Entry]

FlagsTyped == closed \in BOOLEAN /\ pumping \in BOOLEAN /\ drained \in BOOLEAN

SlotsCounted == active = Cardinality(Running) /\ active <= Concurrency

\* Outside pump a slot is free only when nothing waits; in pump the queue may
\* be over its limit by the entry that is about to take a free slot.
QueueBounded ==
    /\ closed => queue = <<>>
    /\ Len(queue) <= MaxQueued \/ (active < Concurrency /\ Len(queue) <= 1)
    /\ ~pumping => queue = <<>> \/ active = Concurrency

IInv == ShapeTyped /\ FlagsTyped /\ OneRun /\ SlotsCounted /\ QueueBounded /\ NeverAborted

-----------------------------------------------------------------------------
(* Sequences and the runs under way *)

LEMMA ElementTyped ==
    ASSUME NEW S, NEW s \in Seq(S), NEW i \in DOMAIN s
    PROVE  s[i] \in S
OBVIOUS

LEMMA Updated ==
    ASSUME NEW S, NEW s \in Seq(S), NEW i \in DOMAIN s, NEW x \in S
    PROVE  /\ [s EXCEPT ![i] = x] \in Seq(S)
           /\ Len([s EXCEPT ![i] = x]) = Len(s)
           /\ DOMAIN [s EXCEPT ![i] = x] = DOMAIN s
           /\ [s EXCEPT ![i] = x][i] = x
           /\ \A j \in DOMAIN s : j # i => [s EXCEPT ![i] = x][j] = s[j]
OBVIOUS

LEMMA Appended ==
    ASSUME NEW S, NEW s \in Seq(S), NEW x \in S
    PROVE  /\ Append(s, x) \in Seq(S)
           /\ Len(Append(s, x)) = Len(s) + 1
           /\ DOMAIN Append(s, x) = DOMAIN s \cup {Len(s) + 1}
           /\ Append(s, x)[Len(s) + 1] = x
           /\ \A j \in DOMAIN s : Append(s, x)[j] = s[j]
           /\ Len(s) + 1 \notin DOMAIN s
OBVIOUS

LEMMA Shortened ==
    ASSUME NEW S, NEW s \in Seq(S), s # <<>>
    PROVE  /\ Head(s) = s[1] /\ 1 \in DOMAIN s /\ Head(s) \in S
           /\ Tail(s) \in Seq(S)
           /\ Len(Tail(s)) = Len(s) - 1 /\ Len(s) \in Nat \ {0}
           /\ \A j \in DOMAIN Tail(s) : j + 1 \in DOMAIN s /\ Tail(s)[j] = s[j + 1]
           /\ \A j \in DOMAIN s : j # 1 => j - 1 \in DOMAIN Tail(s) /\ Tail(s)[j - 1] = s[j]
OBVIOUS

\* Entries are numbered from 1.
LEMMA EntryNumbers ==
    ASSUME ShapeTyped
    PROVE  /\ Entry = 1 .. Len(runs) /\ Len(runs) \in Nat
           /\ 0 \notin Entry
           /\ \A i \in Entry : runs[i] \in RunRec
<1>1. runs \in Seq(RunRec)
    BY DEF ShapeTyped
<1>2. \A i \in Entry : runs[i] \in RunRec
    BY <1>1, ElementTyped DEF Entry
<1>3. Entry = 1 .. Len(runs) /\ Len(runs) \in Nat
    BY <1>1 DEF Entry
<1> QED BY <1>2, <1>3

\* The runs under way are finitely many.
LEMMA RunningFinite ==
    ASSUME ShapeTyped
    PROVE  IsFiniteSet(Running)
<1>1. Entry = 1 .. Len(runs) /\ Len(runs) \in Nat
    BY EntryNumbers
<1>2. IsFiniteSet(1 .. Len(runs))
    BY <1>1, FS_Interval
<1>3. Running \subseteq Entry
    BY DEF Running
<1> QED BY <1>1, <1>2, <1>3, FS_Subset

-----------------------------------------------------------------------------
(* The invariant and the properties *)

LEMMA TypeFromParts == IInv => TypeOK
<1> SUFFICES ASSUME IInv PROVE TypeOK
    OBVIOUS
<1>1. closed \in BOOLEAN /\ pumping \in BOOLEAN /\ drained \in BOOLEAN
    BY DEF IInv, FlagsTyped
<1>2. /\ runs \in Seq(RunRec)
      /\ entries \in [Key -> {0} \cup Entry]
      /\ queue \in Seq(Entry)
      /\ active \in Nat
      /\ caller \in [Caller -> {0} \cup Entry]
    BY DEF IInv, ShapeTyped
<1> QED BY <1>1, <1>2, Zenon DEF TypeOK, RunRec

LEMMA SlotsFromParts == IInv => Slots
<1> SUFFICES ASSUME IInv PROVE Slots
    OBVIOUS
<1>1. queue = <<>> => Len(queue) = 0
    OBVIOUS
<1>2. Len(queue) \in Nat /\ active \in Nat
    BY DEF IInv, ShapeTyped
<1> QED BY <1>1, <1>2, PoolAssumption DEF IInv, Slots, SlotsCounted, QueueBounded

\* The pool starts empty.
LEMMA InitInv == Init => IInv
<1> SUFFICES ASSUME Init PROVE IInv
    OBVIOUS
<1>1. runs = <<>> /\ queue = <<>> /\ Entry = {}
    BY DEF Init, Entry
<1>2. ShapeTyped
  <2>1. runs \in Seq(RunRec) /\ queue \in Seq(Entry)
      BY <1>1
  <2>2. entries \in [Key -> {0} \cup Entry] /\ caller \in [Caller -> {0} \cup Entry]
      BY DEF Init
  <2>3. active \in Nat
      BY DEF Init
  <2> QED BY <2>1, <2>2, <2>3 DEF ShapeTyped
<1>3. FlagsTyped
    BY Zenon DEF Init, FlagsTyped
<1>4. Running = {}
    BY <1>1 DEF Running
<1>5. Cardinality(Running) = 0
    BY <1>4, FS_EmptySet
<1>6. SlotsCounted
    BY <1>5, PoolAssumption DEF Init, SlotsCounted
<1>7. OneRun
    BY <1>1 DEF OneRun
<1>8. QueueBounded
    BY PoolAssumption DEF Init, QueueBounded
<1>9. NeverAborted
    BY DEF Init, NeverAborted
<1> QED BY <1>2, <1>3, <1>6, <1>7, <1>8, <1>9 DEF IInv

-----------------------------------------------------------------------------
(* What a step does to the entry it touches *)

LEMMA ProgressOne ==
    ASSUME ShapeTyped, NEW i \in Entry, NEW pc \in {"queued", "running", "ended"},
           runs' = [runs EXCEPT ![i].pc = pc]
    PROVE  /\ runs' \in Seq(RunRec) /\ Entry' = Entry
           /\ runs'[i].pc = pc
           /\ \A j \in Entry : j # i => runs'[j].pc = runs[j].pc
           /\ \A j \in Entry : /\ runs'[j].key = runs[j].key
                               /\ runs'[j].aborted = runs[j].aborted
<1> DEFINE x == [runs[i] EXCEPT !.pc = pc]
<1>1. runs \in Seq(RunRec) /\ i \in DOMAIN runs /\ runs[i] \in RunRec
    BY EntryNumbers DEF ShapeTyped, Entry
<1>2. x \in RunRec /\ x.pc = pc /\ x.key = runs[i].key /\ x.aborted = runs[i].aborted
  <2>1. /\ runs[i].key \in Key /\ runs[i].aborted \in BOOLEAN
        /\ DOMAIN runs[i] = {"key", "pc", "aborted"}
      BY <1>1 DEF RunRec
  <2>2. x = [key |-> runs[i].key, pc |-> pc, aborted |-> runs[i].aborted]
      BY <1>1 DEF RunRec
  <2> HIDE DEF x
  <2> QED BY <2>1, <2>2, Zenon DEF RunRec
<1>3. runs' = [runs EXCEPT ![i] = x]
    OBVIOUS
<1> HIDE DEF x
<1>4. /\ runs' \in Seq(RunRec) /\ DOMAIN runs' = DOMAIN runs
      /\ runs'[i] = x
      /\ \A j \in DOMAIN runs : j # i => runs'[j] = runs[j]
    BY <1>1, <1>2, <1>3, Updated
<1> QED BY <1>2, <1>4 DEF Entry

LEMMA AbortOne ==
    ASSUME ShapeTyped, NEW i \in Entry, NEW b \in BOOLEAN,
           runs' = [runs EXCEPT ![i].aborted = b]
    PROVE  /\ runs' \in Seq(RunRec) /\ Entry' = Entry
           /\ \A j \in Entry : j # i => runs'[j].aborted = runs[j].aborted
           /\ \A j \in Entry : /\ runs'[j].key = runs[j].key
                               /\ runs'[j].pc = runs[j].pc
<1> DEFINE x == [runs[i] EXCEPT !.aborted = b]
<1>1. runs \in Seq(RunRec) /\ i \in DOMAIN runs /\ runs[i] \in RunRec
    BY EntryNumbers DEF ShapeTyped, Entry
<1>2. x \in RunRec /\ x.key = runs[i].key /\ x.pc = runs[i].pc
  <2>1. /\ runs[i].key \in Key /\ runs[i].pc \in {"queued", "running", "ended"}
      BY <1>1 DEF RunRec
  <2>2. x = [key |-> runs[i].key, pc |-> runs[i].pc, aborted |-> b]
      BY <1>1 DEF RunRec
  <2> HIDE DEF x
  <2> QED BY <2>1, <2>2, Zenon DEF RunRec
<1>3. runs' = [runs EXCEPT ![i] = x]
    OBVIOUS
<1> HIDE DEF x
<1>4. /\ runs' \in Seq(RunRec) /\ DOMAIN runs' = DOMAIN runs
      /\ runs'[i] = x
      /\ \A j \in DOMAIN runs : j # i => runs'[j] = runs[j]
    BY <1>1, <1>2, <1>3, Updated
<1> QED BY <1>2, <1>4 DEF Entry

-----------------------------------------------------------------------------
(* One lemma for each action *)

\* A reader that joins a run leaves the runs alone and finds its run wanted.
LEMMA JoinInv ==
    ASSUME IInv, NEW c \in Caller, NEW k \in Key, Join(c, k)
    PROVE  IInv'
<1> DEFINE i == entries[k]
<1>1. ShapeTyped /\ Entry' = Entry
    BY DEF IInv, Join, Entry
<1>2. i \in Entry /\ i # 0
    BY <1>1 DEF Join, ShapeTyped
<1>3. /\ caller' \in [Caller -> {0} \cup Entry]
      /\ caller'[c] = i
      /\ \A d \in Caller : d # c => caller'[d] = caller[d]
    BY <1>1, <1>2 DEF Join, On, ShapeTyped
<1>4. ShapeTyped'
    BY <1>1, <1>3 DEF Join, ShapeTyped
<1>5. FlagsTyped' /\ OneRun' /\ SlotsCounted' /\ QueueBounded'
  <2>1. FlagsTyped /\ OneRun /\ SlotsCounted /\ QueueBounded
      BY DEF IInv
  <2>2. FlagsTyped'
      BY <2>1, Zenon DEF Join, FlagsTyped
  <2>3. OneRun'
      BY <2>1 DEF Join, OneRun, Entry, Registered, Queued
  <2>4. Running' = Running
      BY DEF Join, Running, Entry
  <2>5. SlotsCounted' /\ QueueBounded'
      BY <2>1, <2>4 DEF Join, SlotsCounted, QueueBounded
  <2> QED BY <2>2, <2>3, <2>5
<1>6. NeverAborted'
    BY <1>1, <1>2, <1>3 DEF Join, IInv, NeverAborted
<1> QED BY <1>4, <1>5, <1>6 DEF IInv

\* A new entry is registered and queued, and wanted by its one reader.
LEMMA OpenInv ==
    ASSUME IInv, NEW c \in Caller, NEW k \in Key, Open(c, k)
    PROVE  IInv'
<1> DEFINE i == Len(runs) + 1
           x == [key |-> k, pc |-> "queued", aborted |-> FALSE]
<1>1. /\ ShapeTyped /\ Entry = 1 .. Len(runs) /\ Len(runs) \in Nat
      /\ \A j \in Entry : runs[j] \in RunRec
    BY EntryNumbers DEF IInv
<1>2. x \in RunRec /\ x.key = k /\ x.pc = "queued" /\ x.aborted = FALSE
    BY Zenon DEF RunRec
<1>3. runs' = Append(runs, x) /\ queue' = Append(queue, i)
    BY DEF Open
<1>4. i \notin Entry /\ i # 0
    BY <1>1
<1> HIDE DEF x
<1>5. /\ runs' \in Seq(RunRec) /\ Entry' = Entry \cup {i}
      /\ runs'[i] = x
      /\ \A j \in Entry : runs'[j] = runs[j]
    BY <1>1, <1>2, <1>3, Appended DEF ShapeTyped, Entry
<1> HIDE DEF i
<1>6. queue \in Seq(Entry \cup {i}) /\ Len(queue) \in Nat
    BY <1>1 DEF ShapeTyped
<1>7. /\ queue' \in Seq(Entry') /\ Len(queue') = Len(queue) + 1
      /\ DOMAIN queue' = DOMAIN queue \cup {Len(queue) + 1}
      /\ queue'[Len(queue) + 1] = i
      /\ \A j \in DOMAIN queue : queue'[j] = queue[j] /\ queue[j] \in Entry
      /\ Len(queue) + 1 \notin DOMAIN queue
  <2>1. \A j \in DOMAIN queue : queue[j] \in Entry
      BY <1>1, ElementTyped DEF ShapeTyped
  <2> QED BY <1>3, <1>5, <1>6, <2>1, Appended
<1>8. /\ entries' \in [Key -> {0} \cup Entry'] /\ entries'[k] = i
      /\ \A l \in Key : l # k => entries'[l] = entries[l]
      /\ entries[k] = 0
    BY <1>1, <1>5 DEF Open, ShapeTyped, i
<1>9. /\ caller' \in [Caller -> {0} \cup Entry'] /\ caller'[c] = i
      /\ \A d \in Caller : d # c => caller'[d] = caller[d]
    BY <1>1, <1>5 DEF Open, ShapeTyped, On, i
<1>10. ShapeTyped'
    BY <1>1, <1>5, <1>7, <1>8, <1>9 DEF Open, ShapeTyped
<1>11. FlagsTyped'
    BY Zenon DEF IInv, Open, FlagsTyped
<1>12. OneRun'
  <2>1. OneRun /\ \A j \in Entry : runs[j].key \in Key
      BY <1>1 DEF IInv, RunRec
  <2>2. \A j \in Entry' : runs'[j].pc \in Unsettled <=> Registered(j)'
    <3> SUFFICES ASSUME NEW j \in Entry' PROVE runs'[j].pc \in Unsettled <=> Registered(j)'
        OBVIOUS
    <3>1. CASE j = i
        BY <3>1, <1>2, <1>5, <1>8 DEF Registered, Unsettled
    <3>2. CASE j # i
      <4>1. j \in Entry /\ runs'[j] = runs[j] /\ j # 0
          BY <3>2, <1>1, <1>5
      <4>2. Registered(j)' <=> Registered(j)
          BY <3>2, <4>1, <1>8, <2>1 DEF Registered
      <4> QED BY <4>1, <4>2, <2>1 DEF OneRun
    <3> QED BY <3>1, <3>2
  <2>3. \A j \in Entry' : runs'[j].pc = "queued" <=> Queued(j)'
      BY <2>1, <1>2, <1>4, <1>5, <1>7 DEF OneRun, Queued
  <2>4. \A j, l \in DOMAIN queue' : queue'[j] = queue'[l] => j = l
      BY <2>1, <1>4, <1>7 DEF OneRun
  <2> QED BY <2>2, <2>3, <2>4 DEF OneRun
<1>13. Running' = Running
    BY <1>2, <1>5 DEF Running
<1>14. SlotsCounted'
    BY <1>13 DEF IInv, Open, SlotsCounted
<1>15. QueueBounded'
  <2>1. ~pumping /\ ~closed /\ ~Full /\ pumping' = TRUE /\ closed' = closed /\ active' = active
      BY DEF Open, Free
  <2>2. SlotsCounted /\ QueueBounded /\ active \in Nat
      BY <1>1 DEF IInv, ShapeTyped
  <2>3. queue = <<>> => Len(queue) = 0
      OBVIOUS
  <2> QED BY <2>1, <2>2, <2>3, <1>6, <1>7, PoolAssumption DEF Full, QueueBounded, SlotsCounted
<1>16. NeverAborted'
  <2> SUFFICES ASSUME NEW d \in Caller, caller'[d] # 0, runs'[caller'[d]].pc \in Unsettled
               PROVE  ~runs'[caller'[d]].aborted
      BY DEF NeverAborted
  <2>1. CASE d = c
      BY <2>1, <1>2, <1>5, <1>9
  <2>2. CASE d # c
    <3>1. caller'[d] = caller[d] /\ caller[d] \in Entry
        BY <2>2, <1>1, <1>9 DEF ShapeTyped
    <3>2. runs'[caller[d]] = runs[caller[d]]
        BY <3>1, <1>5
    <3>3. ~closed /\ NeverAborted
        BY DEF Open, Free, IInv
    <3> QED BY <3>1, <3>2, <3>3, Zenon DEF NeverAborted
  <2> QED BY <2>1, <2>2
<1> QED BY <1>10, <1>11, <1>12, <1>14, <1>15, <1>16 DEF IInv

\* A reader that leaves aborts a run only as its last one.
LEMMA LeaveInv ==
    ASSUME IInv, NEW c \in Caller, Leave(c)
    PROVE  IInv'
<1> DEFINE i == caller[c]
<1>1. ShapeTyped /\ 0 \notin Entry
    BY EntryNumbers DEF IInv
<1>2. i \in Entry
    BY <1>1 DEF Leave, ShapeTyped
<1>3. /\ caller' \in [Caller -> {0} \cup Entry]
      /\ caller'[c] = 0
      /\ \A d \in Caller : d # c => caller'[d] = caller[d]
    BY <1>1 DEF Leave, On, ShapeTyped
<1>4. /\ runs' \in Seq(RunRec) /\ Entry' = Entry
      /\ \A j \in Entry : /\ runs'[j].key = runs[j].key
                          /\ runs'[j].pc = runs[j].pc
      /\ \A j \in Entry : j # i \/ Subscribers(i) # {c} => runs'[j].aborted = runs[j].aborted
  <2>1. CASE Subscribers(i) = {c}
    <3>1. runs' = [runs EXCEPT ![i].aborted = TRUE]
        BY <2>1, Zenon DEF Leave
    <3>2. TRUE \in BOOLEAN
        OBVIOUS
    <3> QED BY <3>1, <3>2, <2>1, <1>1, <1>2, AbortOne
  <2>2. CASE Subscribers(i) # {c}
    <3>1. runs' = runs
        BY <2>2, Zenon DEF Leave
    <3> QED BY <3>1, <2>2, <1>1 DEF ShapeTyped, Entry
  <2> QED BY <2>1, <2>2
<1>5. ShapeTyped'
    BY <1>1, <1>3, <1>4 DEF Leave, ShapeTyped
<1>6. FlagsTyped'
    BY Zenon DEF IInv, Leave, FlagsTyped
<1>7. OneRun'
    BY <1>4 DEF IInv, Leave, OneRun, Registered, Queued
<1>8. SlotsCounted' /\ QueueBounded'
  <2>1. Running' = Running
      BY <1>4 DEF Running
  <2> QED BY <2>1 DEF IInv, Leave, SlotsCounted, QueueBounded
<1>9. NeverAborted'
  <2> SUFFICES ASSUME ~closed', NEW d \in Caller, caller'[d] # 0, runs'[caller'[d]].pc \in Unsettled
               PROVE  ~runs'[caller'[d]].aborted
      BY DEF NeverAborted
  <2>1. d # c /\ caller'[d] = caller[d] /\ caller[d] \in Entry
      BY <1>1, <1>3 DEF ShapeTyped
  <2>2. caller[d] # i \/ Subscribers(i) # {c}
      BY <2>1 DEF Subscribers
  <2>3. runs'[caller[d]].aborted = runs[caller[d]].aborted /\ runs[caller[d]].pc \in Unsettled
      BY <1>4, <2>1, <2>2
  <2>4. ~closed /\ NeverAborted /\ caller[d] # 0
      BY <2>1 DEF Leave, IInv
  <2> QED BY <2>1, <2>3, <2>4, Zenon DEF NeverAborted
<1> QED BY <1>5, <1>6, <1>7, <1>8, <1>9 DEF IInv

\* A reader that has its answer waits on nothing.
LEMMA AnswerInv ==
    ASSUME IInv, NEW c \in Caller, Answer(c)
    PROVE  IInv'
<1>1. ShapeTyped /\ Entry' = Entry
    BY DEF IInv, Answer, Entry
<1>2. /\ caller' \in [Caller -> {0} \cup Entry]
      /\ \A d \in Caller : caller'[d] # 0 => caller'[d] = caller[d]
    BY <1>1 DEF Answer, On, ShapeTyped
<1>3. ShapeTyped'
    BY <1>1, <1>2 DEF Answer, ShapeTyped
<1>4. FlagsTyped'
    BY Zenon DEF IInv, Answer, FlagsTyped
<1>5. OneRun'
    BY DEF IInv, Answer, OneRun, Entry, Registered, Queued
<1>6. Running' = Running
    BY DEF Answer, Running, Entry
<1>7. SlotsCounted' /\ QueueBounded'
    BY <1>6 DEF IInv, Answer, SlotsCounted, QueueBounded
<1>8. NeverAborted'
    BY <1>2 DEF IInv, Answer, NeverAborted
<1> QED BY <1>3, <1>4, <1>5, <1>7, <1>8 DEF IInv

\* The head of the queue is an entry that has not started, and the only place
\* of it in the queue is the one it leaves.
LEMMA HeadLeaves ==
    ASSUME ShapeTyped, OneRun, queue # <<>>, queue' = Tail(queue)
    PROVE  /\ Head(queue) \in Entry /\ runs[Head(queue)].pc = "queued"
           /\ entries[runs[Head(queue)].key] = Head(queue)
           /\ queue' \in Seq(Entry)
           /\ Len(queue) \in Nat \ {0} /\ Len(queue') = Len(queue) - 1
           /\ \A j : Queued(j)' <=> Queued(j) /\ j # Head(queue)
           /\ \A j, l \in DOMAIN queue' : queue'[j] = queue'[l] => j = l
<1>1. queue \in Seq(Entry)
    BY DEF ShapeTyped
<1>2. /\ Head(queue) = queue[1] /\ 1 \in DOMAIN queue /\ Head(queue) \in Entry
      /\ queue' \in Seq(Entry)
      /\ Len(queue) \in Nat \ {0} /\ Len(queue') = Len(queue) - 1
      /\ \A j \in DOMAIN queue' : j + 1 \in DOMAIN queue /\ queue'[j] = queue[j + 1]
      /\ \A j \in DOMAIN queue : j # 1 => j - 1 \in DOMAIN queue' /\ queue'[j - 1] = queue[j]
    BY <1>1, Shortened
<1>3. runs[Head(queue)].pc = "queued"
    BY <1>2 DEF OneRun, Queued
<1>4. entries[runs[Head(queue)].key] = Head(queue)
    BY <1>2, <1>3 DEF OneRun, Registered, Unsettled
<1>5. DOMAIN queue \subseteq Nat /\ DOMAIN queue' \subseteq Nat \ {0}
    BY <1>1, <1>2
<1>6. \A j : Queued(j)' <=> Queued(j) /\ j # Head(queue)
  <2> TAKE j
  <2>1. ASSUME Queued(j)' PROVE Queued(j) /\ j # Head(queue)
    <3>1. PICK l \in DOMAIN queue' : queue'[l] = j
        BY <2>1 DEF Queued
    <3>2. l + 1 \in DOMAIN queue /\ queue[l + 1] = j /\ l + 1 # 1
        BY <3>1, <1>2, <1>5
    <3> QED BY <3>2, <1>2 DEF OneRun, Queued
  <2>2. ASSUME Queued(j), j # Head(queue) PROVE Queued(j)'
    <3>1. PICK l \in DOMAIN queue : queue[l] = j
        BY <2>2 DEF Queued
    <3> QED BY <3>1, <2>2, <1>2 DEF Queued
  <2> QED BY <2>1, <2>2
<1>7. \A j, l \in DOMAIN queue' : queue'[j] = queue'[l] => j = l
  <2> TAKE j, l \in DOMAIN queue'
  <2> HAVE queue'[j] = queue'[l]
  <2>1. j + 1 = l + 1
      BY <1>2 DEF OneRun
  <2> QED BY <2>1, <1>5
<1> QED BY <1>2, <1>3, <1>4, <1>6, <1>7

\* An entry that ends is no longer registered, and no other is disturbed.
LEMMA EntryEnds ==
    ASSUME ShapeTyped, OneRun, NEW i \in Entry, runs[i].pc \in Unsettled,
           runs' = [runs EXCEPT ![i].pc = "ended"],
           entries' = [entries EXCEPT ![runs[i].key] = 0]
    PROVE  /\ entries' \in [Key -> {0} \cup Entry']
           /\ \A j \in Entry' : runs'[j].pc \in Unsettled <=> Registered(j)'
<1>1. /\ Entry' = Entry /\ 0 \notin Entry
      /\ runs'[i].pc = "ended"
      /\ \A j \in Entry : j # i => runs'[j].pc = runs[j].pc
      /\ \A j \in Entry : runs'[j].key = runs[j].key
      /\ \A j \in Entry : runs[j].key \in Key
  <2>1. \A j \in Entry : runs[j].key \in Key
      BY EntryNumbers DEF RunRec
  <2>2. "ended" \in {"queued", "running", "ended"}
      OBVIOUS
  <2> QED BY <2>1, <2>2, EntryNumbers, ProgressOne
<1>2. entries[runs[i].key] = i
    BY DEF OneRun, Registered
<1>3. /\ entries' \in [Key -> {0} \cup Entry]
      /\ entries'[runs[i].key] = 0
      /\ \A l \in Key : l # runs[i].key => entries'[l] = entries[l]
    BY <1>1 DEF ShapeTyped
<1>4. ASSUME NEW j \in Entry PROVE runs'[j].pc \in Unsettled <=> Registered(j)'
  <2>1. CASE j = i
      BY <2>1, <1>1, <1>3 DEF Registered, Unsettled
  <2>2. CASE j # i
    <3>1. runs'[j].pc = runs[j].pc /\ runs'[j].key = runs[j].key /\ runs[j].key \in Key /\ j # 0
        BY <2>2, <1>1
    <3>2. Registered(j)' <=> Registered(j)
        BY <2>2, <3>1, <1>2, <1>3 DEF Registered
    <3> QED BY <3>1, <3>2 DEF OneRun
  <2> QED BY <2>1, <2>2
<1> QED BY <1>1, <1>3, <1>4

\* A step that aborts nothing leaves the wanted runs wanted.
LEMMA WantedStay ==
    ASSUME ShapeTyped, NeverAborted, UNCHANGED <<closed, caller>>,
           \A j \in Entry : runs'[j].aborted = runs[j].aborted,
           \A j \in Entry : runs'[j].pc \in Unsettled => runs[j].pc \in Unsettled
    PROVE  NeverAborted'
<1> SUFFICES ASSUME ~closed', NEW c \in Caller, caller'[c] # 0, runs'[caller'[c]].pc \in Unsettled
             PROVE  ~runs'[caller'[c]].aborted
    BY DEF NeverAborted
<1>1. caller[c] \in Entry /\ caller'[c] = caller[c] /\ ~closed
    BY DEF ShapeTyped
<1>2. runs[caller[c]].pc \in Unsettled /\ runs'[caller[c]].aborted = runs[caller[c]].aborted
    BY <1>1
<1> QED BY <1>1, <1>2, Zenon DEF NeverAborted

LEMMA PumpDropInv ==
    ASSUME IInv, PumpDrop
    PROVE  IInv'
<1> DEFINE i == Head(queue)
<1>1. ShapeTyped /\ OneRun /\ queue # <<>> /\ queue' = Tail(queue)
    BY DEF IInv, PumpDrop, Turn
<1>2. /\ i \in Entry /\ runs[i].pc = "queued" /\ runs[i].pc \in Unsettled
      /\ queue' \in Seq(Entry)
      /\ Len(queue) \in Nat \ {0} /\ Len(queue') = Len(queue) - 1
      /\ \A j : Queued(j)' <=> Queued(j) /\ j # i
      /\ \A j, l \in DOMAIN queue' : queue'[j] = queue'[l] => j = l
    BY <1>1, HeadLeaves DEF Unsettled
<1>3. /\ runs' = [runs EXCEPT ![i].pc = "ended"]
      /\ entries' = [entries EXCEPT ![runs[i].key] = 0]
    BY DEF PumpDrop
<1>4. "ended" \in {"queued", "running", "ended"}
    OBVIOUS
<1> HIDE DEF i
<1>5. /\ runs' \in Seq(RunRec) /\ Entry' = Entry
      /\ runs'[i].pc = "ended"
      /\ \A j \in Entry : j # i => runs'[j].pc = runs[j].pc
      /\ \A j \in Entry : runs'[j].aborted = runs[j].aborted
    BY <1>1, <1>2, <1>3, <1>4, ProgressOne
<1>6. /\ entries' \in [Key -> {0} \cup Entry']
      /\ \A j \in Entry' : runs'[j].pc \in Unsettled <=> Registered(j)'
    BY <1>1, <1>2, <1>3, EntryEnds
<1>7. ShapeTyped'
    BY <1>1, <1>2, <1>5, <1>6 DEF PumpDrop, ShapeTyped
<1>8. FlagsTyped'
    BY Zenon DEF IInv, PumpDrop, FlagsTyped
<1>9. OneRun'
  <2>1. \A j \in Entry' : runs'[j].pc = "queued" <=> Queued(j)'
      BY <1>1, <1>2, <1>5 DEF OneRun
  <2> QED BY <2>1, <1>2, <1>6 DEF OneRun
<1>10. Running' = Running
    BY <1>2, <1>5 DEF Running
<1>11. SlotsCounted'
    BY <1>10 DEF IInv, PumpDrop, SlotsCounted
<1>12. QueueBounded'
  <2>1. ~closed /\ closed' = closed /\ pumping' /\ active' = active
      BY DEF PumpDrop, Turn
  <2> QED BY <2>1, <1>2, PoolAssumption DEF IInv, QueueBounded
<1>13. NeverAborted'
    BY <1>1, <1>2, <1>5, WantedStay DEF IInv, PumpDrop
<1> QED BY <1>7, <1>8, <1>9, <1>11, <1>12, <1>13 DEF IInv

\* A queued entry takes a free slot.
LEMMA PumpStartInv ==
    ASSUME IInv, PumpStart
    PROVE  IInv'
<1> DEFINE i == Head(queue)
<1>1. ShapeTyped /\ OneRun /\ queue # <<>> /\ queue' = Tail(queue)
    BY DEF IInv, PumpStart, Turn
<1>2. /\ i \in Entry /\ runs[i].pc = "queued" /\ entries[runs[i].key] = i
      /\ queue' \in Seq(Entry)
      /\ Len(queue) \in Nat \ {0} /\ Len(queue') = Len(queue) - 1
      /\ \A j : Queued(j)' <=> Queued(j) /\ j # i
      /\ \A j, l \in DOMAIN queue' : queue'[j] = queue'[l] => j = l
    BY <1>1, HeadLeaves
<1>3. runs' = [runs EXCEPT ![i].pc = "running"] /\ entries' = entries
    BY DEF PumpStart
<1>4. "running" \in {"queued", "running", "ended"}
    OBVIOUS
<1> HIDE DEF i
<1>5. /\ runs' \in Seq(RunRec) /\ Entry' = Entry
      /\ runs'[i].pc = "running"
      /\ \A j \in Entry : j # i => runs'[j].pc = runs[j].pc
      /\ \A j \in Entry : runs'[j].key = runs[j].key /\ runs'[j].aborted = runs[j].aborted
    BY <1>1, <1>2, <1>3, <1>4, ProgressOne
<1>6. ShapeTyped'
    BY <1>1, <1>2, <1>3, <1>5 DEF PumpStart, ShapeTyped
<1>7. FlagsTyped'
    BY Zenon DEF IInv, PumpStart, FlagsTyped
<1>8. OneRun'
  <2>1. \A j \in Entry : Registered(j)' <=> Registered(j)
      BY <1>3, <1>5 DEF Registered
  <2>2. \A j \in Entry' : runs'[j].pc \in Unsettled <=> Registered(j)'
      BY <2>1, <1>1, <1>2, <1>5 DEF OneRun, Unsettled
  <2>3. \A j \in Entry' : runs'[j].pc = "queued" <=> Queued(j)'
      BY <1>1, <1>2, <1>5 DEF OneRun
  <2> QED BY <2>2, <2>3, <1>2 DEF OneRun
<1>9. Running' = Running \cup {i} /\ i \notin Running
    BY <1>2, <1>5 DEF Running
<1>10. active' = Cardinality(Running') /\ active' = active + 1
    BY <1>1, <1>9, RunningFinite, FS_AddElement DEF IInv, SlotsCounted, PumpStart
<1>11. active < Concurrency /\ active \in Nat
    BY <1>1 DEF PumpStart, Turn, ShapeTyped
<1>12. SlotsCounted'
    BY <1>10, <1>11, PoolAssumption DEF SlotsCounted
<1>13. QueueBounded'
  <2>1. ~closed /\ closed' = closed /\ pumping'
      BY DEF PumpStart, Turn
  <2> QED BY <2>1, <1>2, <1>10, <1>11, PoolAssumption DEF IInv, QueueBounded
<1>14. NeverAborted'
  <2>1. \A j \in Entry : runs'[j].pc \in Unsettled => runs[j].pc \in Unsettled
      BY <1>2, <1>5 DEF Unsettled
  <2> QED BY <2>1, <1>1, <1>5, WantedStay DEF IInv, PumpStart
<1> QED BY <1>6, <1>7, <1>8, <1>12, <1>13, <1>14 DEF IInv

\* Pump stops when nothing waits or no slot is free.
LEMMA PumpEndInv ==
    ASSUME IInv, PumpEnd
    PROVE  IInv'
<1>1. ShapeTyped /\ Entry' = Entry
    BY DEF IInv, PumpEnd, Entry
<1>2. ShapeTyped'
    BY <1>1 DEF PumpEnd, ShapeTyped
<1>3. FlagsTyped'
    BY Zenon DEF IInv, PumpEnd, FlagsTyped
<1>4. OneRun'
    BY DEF IInv, PumpEnd, OneRun, Entry, Registered, Queued
<1>5. Running' = Running
    BY DEF PumpEnd, Running, Entry
<1>6. SlotsCounted'
    BY <1>5 DEF IInv, PumpEnd, SlotsCounted
<1>7. QueueBounded'
  <2>1. active \in Nat /\ active <= Concurrency
      BY <1>1 DEF IInv, SlotsCounted, ShapeTyped
  <2>2. closed \/ active >= Concurrency \/ queue = <<>>
      BY <2>1, PoolAssumption DEF PumpEnd, Turn
  <2> QED BY <2>1, <2>2, PoolAssumption DEF IInv, PumpEnd, QueueBounded
<1>8. NeverAborted'
    BY DEF IInv, PumpEnd, NeverAborted
<1> QED BY <1>2, <1>3, <1>4, <1>6, <1>7, <1>8 DEF IInv

\* A run that ends gives its slot back, also when it was aborted.
LEMMA SettleInv ==
    ASSUME IInv, NEW i \in Entry, Settle(i)
    PROVE  IInv'
<1>1. ShapeTyped /\ OneRun
    BY DEF IInv
<1>2. /\ runs[i].pc = "running" /\ runs[i].pc \in Unsettled
      /\ runs' = [runs EXCEPT ![i].pc = "ended"]
      /\ entries' = [entries EXCEPT ![runs[i].key] = 0]
      /\ queue' = queue
    BY DEF Settle, Unsettled
<1>3. "ended" \in {"queued", "running", "ended"}
    OBVIOUS
<1>4. /\ runs' \in Seq(RunRec) /\ Entry' = Entry
      /\ runs'[i].pc = "ended"
      /\ \A j \in Entry : j # i => runs'[j].pc = runs[j].pc
      /\ \A j \in Entry : runs'[j].aborted = runs[j].aborted
    BY <1>1, <1>2, <1>3, ProgressOne
<1>5. /\ entries' \in [Key -> {0} \cup Entry']
      /\ \A j \in Entry' : runs'[j].pc \in Unsettled <=> Registered(j)'
    BY <1>1, <1>2, EntryEnds
<1>6. Running = Running' \cup {i} /\ i \notin Running' /\ Running' = Running \ {i} /\ i \in Running
    BY <1>2, <1>4 DEF Running
<1>7. /\ active' = active - 1 /\ active' = Cardinality(Running')
      /\ active \in Nat \ {0} /\ active' \in Nat /\ active <= Concurrency
  <2>1. IsFiniteSet(Running)
      BY <1>1, RunningFinite
  <2>2. Cardinality(Running') = Cardinality(Running) - 1
      BY <2>1, <1>6, FS_RemoveElement
  <2>3. Cardinality(Running) # 0 /\ Cardinality(Running) \in Nat
      BY <2>1, <1>6, FS_EmptySet, FS_CardinalityType
  <2> QED BY <2>2, <2>3 DEF IInv, SlotsCounted, Settle
<1>8. ShapeTyped'
    BY <1>1, <1>2, <1>4, <1>5, <1>7 DEF Settle, ShapeTyped
<1>9. FlagsTyped'
    BY Zenon DEF IInv, Settle, FlagsTyped
<1>10. OneRun'
  <2>1. \A j : Queued(j)' <=> Queued(j)
      BY <1>2 DEF Queued
  <2>2. \A j \in Entry' : runs'[j].pc = "queued" <=> Queued(j)'
      BY <2>1, <1>1, <1>2, <1>4 DEF OneRun
  <2>3. \A j, l \in DOMAIN queue' : queue'[j] = queue'[l] => j = l
      BY <1>1, <1>2 DEF OneRun
  <2> QED BY <2>2, <2>3, <1>5 DEF OneRun
<1>11. SlotsCounted'
    BY <1>7, PoolAssumption DEF SlotsCounted
<1>12. QueueBounded'
    BY <1>2, <1>7, PoolAssumption DEF IInv, Settle, QueueBounded
<1>13. NeverAborted'
    BY <1>1, <1>2, <1>4, WantedStay DEF IInv, Settle
<1> QED BY <1>8, <1>9, <1>10, <1>11, <1>12, <1>13 DEF IInv

\* Drain ends what is queued and leaves what is running to end.
LEMMA DrainInv ==
    ASSUME IInv, Drain
    PROVE  IInv'
<1>1. /\ ShapeTyped /\ OneRun
      /\ Entry = 1 .. Len(runs) /\ Len(runs) \in Nat /\ 0 \notin Entry
      /\ \A j \in Entry : runs[j] \in RunRec
    BY EntryNumbers DEF IInv
<1>2. ASSUME NEW j \in Entry
      PROVE  /\ runs'[j] \in RunRec
             /\ runs'[j].key = runs[j].key
             /\ runs'[j].pc = IF Queued(j) THEN "ended" ELSE runs[j].pc
  <2> DEFINE a == runs[j].aborted \/ Registered(j)
             p == IF Queued(j) THEN "ended" ELSE runs[j].pc
  <2>1. a \in BOOLEAN
      OBVIOUS
  <2>2. p \in {"queued", "running", "ended"} /\ runs[j].key \in Key
      BY <1>1 DEF RunRec
  <2>3. runs'[j] = [runs[j] EXCEPT !.aborted = a, !.pc = p]
      BY DEF Drain
  <2> HIDE DEF a, p
  <2>4. runs'[j] = [key |-> runs[j].key, pc |-> p, aborted |-> a]
      BY <1>1, <2>3 DEF RunRec
  <2>5. runs'[j] \in RunRec
      BY <2>1, <2>2, <2>4 DEF RunRec
  <2> QED BY <2>4, <2>5 DEF p
<1>3. runs' \in Seq(RunRec) /\ Entry' = Entry
  <2>1. DOMAIN runs' = 1 .. Len(runs)
      BY <1>1 DEF Drain
  <2>2. runs' = [j \in 1 .. Len(runs) |-> runs'[j]]
      BY <1>1 DEF Drain
  <2>3. \A j \in 1 .. Len(runs) : runs'[j] \in RunRec
      BY <1>1, <1>2
  <2>4. runs' \in Seq(RunRec)
      BY <2>2, <2>3, <1>1
  <2> QED BY <2>1, <2>4, <1>1 DEF Entry
<1>4. /\ \A k \in Key : entries'[k] = IF entries[k] # 0 /\ Queued(entries[k]) THEN 0 ELSE entries[k]
      /\ entries' \in [Key -> {0} \cup Entry]
    BY <1>1 DEF Drain, ShapeTyped
<1>5. queue' = <<>> /\ DOMAIN queue' = {} /\ queue' \in Seq(Entry)
  <2>1. queue' = <<>>
      BY DEF Drain
  <2> QED BY <2>1
<1>6. ShapeTyped'
  <2>1. active' = active /\ caller' = caller
      BY DEF Drain
  <2> QED BY <2>1, <1>1, <1>3, <1>4, <1>5 DEF ShapeTyped
<1>7. FlagsTyped'
  <2>1. closed' = TRUE /\ pumping' = pumping /\ drained' = drained
      BY DEF Drain
  <2> QED BY <2>1, Zenon DEF IInv, FlagsTyped
<1>8. OneRun'
  <2>1. ASSUME NEW j \in Entry PROVE runs'[j].pc \in Unsettled <=> Registered(j)'
    <3>1. runs[j].key \in Key /\ j # 0 /\ runs'[j].key = runs[j].key
        BY <1>1, <1>2 DEF RunRec
    <3>2. CASE Queued(j)
      <4>1. entries'[runs[j].key] # j
          BY <3>1, <3>2, <1>4
      <4>2. runs'[j].pc = "ended"
          BY <3>2, <1>2
      <4> QED BY <4>1, <4>2, <3>1 DEF Registered, Unsettled
    <3>3. CASE ~Queued(j)
      <4>1. Registered(j)' <=> Registered(j)
          BY <3>1, <3>3, <1>4 DEF Registered
      <4>2. runs'[j].pc = runs[j].pc
          BY <3>3, <1>2
      <4> QED BY <4>1, <4>2, <1>1 DEF OneRun
    <3> QED BY <3>2, <3>3
  <2>2. ASSUME NEW j \in Entry PROVE runs'[j].pc # "queued"
      BY <1>1, <1>2 DEF OneRun
  <2>3. \A j : ~Queued(j)'
      BY <1>5 DEF Queued
  <2> QED BY <2>1, <2>2, <2>3, <1>3, <1>5 DEF OneRun
<1>9. Running' = Running
    BY <1>1, <1>2, <1>3 DEF Running, OneRun
<1>10. SlotsCounted'
    BY <1>9 DEF IInv, Drain, SlotsCounted
<1>11. QueueBounded'
    BY <1>5, PoolAssumption DEF QueueBounded
<1>12. NeverAborted'
    BY DEF Drain, NeverAborted
<1> QED BY <1>6, <1>7, <1>8, <1>10, <1>11, <1>12 DEF IInv

\* The promise of drain and steps outside the pool touch no run.
LEMMA IdleInv ==
    ASSUME IInv, Drained \/ UNCHANGED vars
    PROVE  IInv'
<1>1. /\ UNCHANGED <<runs, entries, queue, active, closed, pumping, caller>>
      /\ drained' \in BOOLEAN
  <2>1. drained \in BOOLEAN /\ TRUE \in BOOLEAN
      BY Zenon DEF IInv, FlagsTyped
  <2>2. CASE Drained
      BY <2>1, <2>2, Zenon DEF Drained
  <2>3. CASE UNCHANGED vars
      BY <2>1, <2>3 DEF vars
  <2> QED BY <2>2, <2>3
<1>2. Entry' = Entry /\ Running' = Running
    BY <1>1 DEF Entry, Running
<1>3. ShapeTyped'
    BY <1>1, <1>2 DEF IInv, ShapeTyped
<1>4. FlagsTyped'
    BY <1>1, Zenon DEF IInv, FlagsTyped
<1>5. OneRun'
    BY <1>1, <1>2 DEF IInv, OneRun, Registered, Queued
<1>6. SlotsCounted' /\ QueueBounded' /\ NeverAborted'
    BY <1>1, <1>2 DEF IInv, SlotsCounted, QueueBounded, NeverAborted
<1> QED BY <1>3, <1>4, <1>5, <1>6 DEF IInv

-----------------------------------------------------------------------------
(* The theorems *)

\* The inductive invariant holds in every state the pool can reach.
THEOREM Invariance == Spec => []IInv
<1>1. Init => IInv
    BY InitInv
<1>2. IInv /\ [Next]_vars => IInv'
  <2> SUFFICES ASSUME IInv, [Next]_vars PROVE IInv'
      OBVIOUS
  <2>1. ASSUME NEW c \in Caller, Call(c) PROVE IInv'
      BY <2>1, JoinInv, OpenInv DEF Call
  <2>2. ASSUME NEW c \in Caller, Leave(c) PROVE IInv'
      BY <2>2, LeaveInv
  <2>3. ASSUME NEW c \in Caller, Answer(c) PROVE IInv'
      BY <2>3, AnswerInv
  <2>4. CASE Pump
      BY <2>4, PumpDropInv, PumpStartInv, PumpEndInv DEF Pump
  <2>5. ASSUME NEW i \in Entry, Settle(i) PROVE IInv'
      BY <2>5, SettleInv
  <2>6. CASE Drain
      BY <2>6, DrainInv
  <2>7. CASE Drained \/ UNCHANGED vars
      BY <2>7, IdleInv
  <2> QED BY <2>1, <2>2, <2>3, <2>4, <2>5, <2>6, <2>7 DEF Next
<1> QED BY <1>1, <1>2, PTL DEF Spec

\* The variables of the pool keep their shape (class BoundedReadPool).
THEOREM TypeCorrect == Spec => []TypeOK
BY Invariance, TypeFromParts, PTL

\* One key never has two reads under way, whatever leaves or fails (the map
\* entries of run and pump).
THEOREM OneRunPerKey == Spec => []OneRun
<1>1. IInv => OneRun
    BY DEF IInv
<1> QED BY <1>1, Invariance, PTL

\* The counter of pump and its settlement is the number of runs under way: no
\* slot is lost and none is taken twice.
THEOREM SlotsCorrect == Spec => []Slots
BY Invariance, SlotsFromParts, PTL

\* A reader that leaves never aborts the read of one that stays (the abort
\* listener of run).
THEOREM StayersKeepTheirRun == Spec => []NeverAborted
<1>1. IInv => NeverAborted
    BY DEF IInv
<1> QED BY <1>1, Invariance, PTL
=============================================================================
