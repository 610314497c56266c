---------------------------- MODULE MonitorProofs ----------------------------
(***************************************************************************)
(* Proofs about Monitor, for any program of any finite set of threads: the *)
(* assertions of monitor.c, the count of blocked threads, the wake-ups and *)
(* the lists of waiters.                                                   *)
(***************************************************************************)
EXTENDS Monitor, FiniteSetTheorems, SequenceTheorems, TLAPS

\* The types of TypeOK, but for the bound of entry_count, which is CountInv's.
SyncState ==
    [owner : Thread \cup {NULL}, nest : 0..program.nest, entry_count : Nat,
     entry_sem : 0..SEM_MAX \cup {NULL}, wait_list : Seq(Event), data : Object \cup {NULL}]
BaseType ==
    /\ synchronisation \in [Object -> Record \cup {NULL}]
    /\ mon \in [Record -> SyncState]
    /\ monitor_freelist \subseteq Record
    /\ allocated \in 0..NumArray
    /\ event \in [Event -> {"closed", "reset", "set"}]
    /\ thread \in [Thread -> ThreadState]
    /\ freedFast \in [Record -> BOOLEAN]
    /\ program \in Programs

\* Records and objects point to each other; the other records are unused.
Unused(m) == mon[m].data = NULL /\ mon[m].wait_list = <<>>
RecordInv ==
    /\ \A o \in Object : synchronisation[o] # NULL => mon[synchronisation[o]].data = o
    /\ \A m \in Record : mon[m].data # NULL => synchronisation[mon[m].data] = m
    /\ \A m \in Record : mon[m].data = NULL => mon[m].owner = NULL /\ mon[m].entry_count = 0
    /\ \A m \in monitor_freelist : Unused(m)
    /\ \A k \in (allocated + 1)..NumArray : \A m \in ArrayOf[k] : Unused(m) /\ m \notin monitor_freelist

\* The nest count of a record that an object has.
NestOK(m) == mon[m].data # NULL => mon[m].nest >= 1 /\ (mon[m].owner = NULL => mon[m].nest = 1)
NestInv == \A m \in Record : NestOK(m)

\* A thread in a call has an object, and its record from the moment it saw one.
ThreadOK(t) ==
    /\ thread[t].pc = "idle" => thread[t] = Idle
    /\ thread[t].pc # "idle" => thread[t].obj # NULL
    /\ thread[t].event # NULL <=> Waits(thread[t].call)
    /\ thread[t].event = NULL => ~thread[t].woken
    /\ thread[t].pc \in {"wakeup", "release", "waiting"} => ~thread[t].woken
    /\ thread[t].event # NULL => thread[t].nest >= 1
    /\ thread[t].pc \in {"waiting", "regained"} => thread[t].event # NULL
    /\ thread[t].pc \in {"allocate", "fast_exit"} => thread[t].event = NULL
    /\ thread[t].pc \notin {"idle", "retry", "allocate"} \/ thread[t].event # NULL => Mon(t) # NULL
ThreadInv == \A t \in Thread : ThreadOK(t)

\* Whether a thread in a call owns the object of the call.
Entering(t) == thread[t].pc \in {"retry", "owner"} /\ thread[t].event = NULL
OwnOK(t) ==
    thread[t].pc # "idle" =>
      /\ thread[t].pc \in {"fast_exit", "regained"} =>
           Owns(t, thread[t].obj) /\ mon[Mon(t)].nest = 1
      /\ thread[t].pc \notin {"fast_exit", "regained"} /\ Owns(t, thread[t].obj) =>
           Entering(t) /\ mon[Mon(t)].nest < program.nest
OwnInv == \A t \in Thread : OwnOK(t)

\* A thread that is counted, or about to wake one that is, has a semaphore.
SemOK(t) ==
    thread[t].pc \in {"count", "again", "asleep", "awake", "release"} => mon[Mon(t)].entry_sem # NULL
SemInv == \A t \in Thread : SemOK(t)

Blocked(o) == {t \in Thread : thread[t].obj = o /\ thread[t].pc \in {"again", "asleep", "awake"}}
CountInv ==
    \A o \in Object :
      synchronisation[o] # NULL => mon[synchronisation[o]].entry_count = Cardinality(Blocked(o))

\* A free lock on which a thread sleeps has a thread that will either raise the
\* semaphore or try for the lock before it sleeps.
Helps(u, o) ==
    /\ thread[u].obj = o
    /\ \/ thread[u].pc \in {"wakeup", "release", "contended", "swap_contended", "semaphore", "count", "again"}
       \/ thread[u].pc = "awake" /\ thread[u].ret = "WAIT_OBJECT_0"
Slept(o) == \E t \in Thread : thread[t].obj = o /\ thread[t].pc = "asleep"
StallOK(o) ==
    LET m == synchronisation[o]
    IN  m # NULL /\ mon[m].owner = NULL /\ ~freedFast[m] /\ Slept(o) =>
          mon[m].entry_sem > 0 \/ \E u \in Thread : Helps(u, o)
StallInv == \A o \in Object : StallOK(o)

\* The lists of waiters: an event is in one place of one list, and then it is not
\* signalled; the event of a thread is its own.
Listed(e, m) == e \in ToSet(mon[m].wait_list)
ListOK(m) ==
    /\ \A i, k \in DOMAIN mon[m].wait_list : mon[m].wait_list[i] = mon[m].wait_list[k] => i = k
    /\ \A e \in Event : Listed(e, m) => event[e] = "reset"
    /\ \A n \in Record, e \in Event : Listed(e, m) /\ Listed(e, n) => n = m
ListInv == \A m \in Record : ListOK(m)
WaitsWith(t, e, m) ==
    /\ event[e] # "closed"
    /\ Listed(e, m) <=> ~(event[e] = "set" \/ thread[t].woken)
    /\ \A n \in Record : Listed(e, n) => n = m
    /\ \A u \in Thread : thread[u].event = e => u = t
WaiterOK(t) == thread[t].event # NULL => WaitsWith(t, thread[t].event, Mon(t))
WaiterInv == \A t \in Thread : WaiterOK(t)

LockInv == BaseType /\ RecordInv /\ NestInv /\ ThreadInv /\ OwnInv /\ SemInv /\ CountInv /\ StallInv
IInv == LockInv /\ ListInv /\ WaiterInv

-----------------------------------------------------------------------------
\* Types.

LEMMA NullFacts ==
    /\ NULL \notin Thread /\ NULL \notin Object /\ NULL \notin Event /\ NULL \notin Record /\ NULL \notin Nat
    /\ SEM_MAX \in Nat /\ SEM_MAX > 0
BY MonitorAssumption

LEMMA ThreadType ==
    ASSUME BaseType, NEW t \in Thread
    PROVE  /\ thread[t] \in ThreadState /\ thread[t].pc \in Pc /\ thread[t].call \in Call \cup {NULL}
           /\ thread[t].obj \in Object \cup {NULL} /\ thread[t].ms \in 0..INFINITE
           /\ thread[t].ret \in {"WAIT_OBJECT_0", "WAIT_TIMEOUT", "WAIT_IO_COMPLETION", NULL}
           /\ thread[t].event \in Event \cup {NULL} /\ thread[t].nest \in 0..program.nest
           /\ thread[t].woken \in BOOLEAN /\ thread[t].interrupt \in {"abort", "suspend", "served", NULL}
<1>1. thread[t] \in ThreadState
  BY DEF BaseType
<1> QED BY <1>1 DEF ThreadState

LEMMA MonType ==
    ASSUME BaseType, NEW m \in Record
    PROVE  /\ mon[m] \in SyncState /\ mon[m].owner \in Thread \cup {NULL} /\ mon[m].nest \in 0..program.nest
           /\ mon[m].entry_count \in Nat /\ mon[m].entry_sem \in 0..SEM_MAX \cup {NULL}
           /\ mon[m].wait_list \in Seq(Event) /\ mon[m].data \in Object \cup {NULL}
<1>1. mon[m] \in SyncState
  BY DEF BaseType
<1> QED BY <1>1 DEF SyncState

LEMMA ProgramType == BaseType => program \in Programs /\ program.nest \in Nat /\ program.nest >= 1
BY DEF BaseType, Programs

LEMMA IdleFacts ==
    /\ Idle.pc = "idle" /\ Idle.call = NULL /\ Idle.obj = NULL /\ Idle.ms = 0 /\ Idle.ret = NULL
    /\ Idle.event = NULL /\ Idle.nest = 0 /\ Idle.woken = FALSE /\ Idle.interrupt = NULL
    /\ BaseType => Idle \in ThreadState
    /\ ~Waits(NULL)
<1>1. BaseType => 0 \in 0..program.nest
  BY ProgramType
<1>2. NULL \notin {"Wait", "WaitTimeout"}
  BY MonitorAssumption DEF Call
<1> QED BY <1>1, <1>2 DEF Idle, ThreadState, Pc, INFINITE, Waits

\* A thread and a record are updated.
LEMMA ThreadEffect ==
    ASSUME BaseType, NEW t \in Thread, NEW r \in ThreadState, thread' = [thread EXCEPT ![t] = r]
    PROVE  /\ thread' \in [Thread -> ThreadState] /\ thread'[t] = r
           /\ \A u \in Thread \ {t} : thread'[u] = thread[u]
BY DEF BaseType

LEMMA MonEffect ==
    ASSUME BaseType, NEW m \in Record, NEW r \in SyncState, mon' = [mon EXCEPT ![m] = r]
    PROVE  /\ mon' \in [Record -> SyncState] /\ mon'[m] = r
           /\ \A n \in Record \ {m} : mon'[n] = mon[n]
BY DEF BaseType

-----------------------------------------------------------------------------
\* Steps of one thread that change the owner of no record but to itself or to
\* NULL, and only of a record that was its own or free.

KeepsRecord(n, t) ==
    /\ mon'[n].data = mon[n].data
    /\ mon[n].data = NULL => mon'[n] = mon[n]
    /\ mon'[n].owner \in {mon[n].owner, t, NULL}
    /\ mon[n].owner \notin {t, NULL} => mon'[n].owner = mon[n].owner /\ mon'[n].nest = mon[n].nest
    /\ mon[n].entry_sem # NULL => mon'[n].entry_sem # NULL
    /\ NestOK(n)'

Others(t) == \A u \in Thread \ {t} : thread'[u] = thread[u]
SameRecords == UNCHANGED <<synchronisation, monitor_freelist, allocated>> /\ program'.nest = program.nest

LEMMA LockMoves ==
    ASSUME BaseType, RecordInv, ThreadInv, OwnInv, SemInv, SameRecords,
           NEW t \in Thread, Others(t), \A n \in Record : KeepsRecord(n, t),
           ThreadOK(t)', OwnOK(t)', SemOK(t)'
    PROVE  RecordInv' /\ NestInv' /\ ThreadInv' /\ OwnInv' /\ SemInv'
<1>1. NestInv'
  BY DEF NestInv, KeepsRecord
<1>2. UNCHANGED <<synchronisation, monitor_freelist, allocated>> /\ program'.nest = program.nest
  BY DEF SameRecords
<1>3. RecordInv'
  <2>1. \A o \in Object : synchronisation[o] # NULL => mon'[synchronisation[o]].data = o
    BY DEF RecordInv, KeepsRecord, BaseType
  <2>2. \A m \in Record : mon'[m].data # NULL => synchronisation[mon'[m].data] = m
    BY DEF RecordInv, KeepsRecord
  <2>3. \A m \in Record : mon'[m].data = NULL => mon'[m].owner = NULL /\ mon'[m].entry_count = 0
    BY DEF RecordInv, KeepsRecord
  <2>4. \A m \in Record : Unused(m) => Unused(m)'
    BY DEF Unused, KeepsRecord
  <2>5. monitor_freelist \subseteq Record
    BY DEF BaseType
  <2>6. \A k \in (allocated + 1)..NumArray : \A m \in ArrayOf[k] :
          m \in Record /\ Unused(m) /\ m \notin monitor_freelist
    <3>1. \A k \in (allocated + 1)..NumArray : k \in 1..Len(ArrayOf)
      BY LenProperties, MonitorAssumption DEF BaseType, NumArray
    <3>2. \A k \in 1..Len(ArrayOf) : ArrayOf[k] \subseteq Record
      BY ElementOfSeq, MonitorAssumption
    <3> QED BY <3>1, <3>2 DEF RecordInv
  <2>7. \A m \in monitor_freelist : Unused(m)'
    BY <2>4, <2>5 DEF RecordInv
  <2> QED BY <1>2, <2>1, <2>2, <2>3, <2>4, <2>6, <2>7 DEF RecordInv
<1>4. ASSUME NEW u \in Thread, u # t
      PROVE  ThreadOK(u)' /\ OwnOK(u)' /\ SemOK(u)'
  <2>1. thread'[u] = thread[u] /\ Mon(u)' = Mon(u)
    BY <1>2, <1>4 DEF Others, Mon
  <2>2. ThreadOK(u)'
    BY <2>1 DEF ThreadInv, ThreadOK
  <2>3. thread[u].obj \in Object \cup {NULL} /\ u # NULL
    BY ThreadType, NullFacts
  <2>4. ASSUME thread[u].obj \in Object, Mon(u) # NULL
        PROVE  /\ Owns(u, thread[u].obj)' <=> Owns(u, thread[u].obj)
               /\ Owns(u, thread[u].obj) => mon'[Mon(u)].nest = mon[Mon(u)].nest
               /\ mon[Mon(u)].entry_sem # NULL => mon'[Mon(u)].entry_sem # NULL
    <3>1. Mon(u) \in Record
      BY <2>4 DEF Mon, BaseType
    <3>2. KeepsRecord(Mon(u), t)
      BY <3>1
    <3> QED BY <1>2, <1>4, <2>1, <2>3, <3>2 DEF KeepsRecord, Owns, Mon
  <2>5. ASSUME thread[u].obj \in Object, Mon(u) = NULL
        PROVE  ~Owns(u, thread[u].obj)' /\ ~Owns(u, thread[u].obj)
    BY <1>2, <2>1, <2>5 DEF Owns, Mon
  <2>6. thread[u].pc # "idle" => thread[u].obj \in Object
    BY <2>3 DEF ThreadInv, ThreadOK
  <2>7. ThreadOK(u) /\ OwnOK(u) /\ SemOK(u)
    BY DEF ThreadInv, OwnInv, SemInv
  <2>8. OwnOK(u)'
    BY <1>2, <2>1, <2>4, <2>5, <2>6, <2>7 DEF OwnOK, Entering
  <2>9. thread[u].pc \in {"count", "again", "asleep", "awake", "release"} => Mon(u) # NULL
    BY <2>7 DEF ThreadOK
  <2>10. SemOK(u)'
    BY <2>1, <2>4, <2>6, <2>7, <2>9 DEF SemOK
  <2> QED BY <2>2, <2>8, <2>10
<1> QED BY <1>1, <1>3, <1>4 DEF ThreadInv, OwnInv, SemInv

\* The number of blocked threads.
Counted(t) == thread[t].pc \in {"again", "asleep", "awake"}

LEMMA BlockedFinite == \A o : IsFiniteSet(Blocked(o)) /\ Cardinality(Blocked(o)) \in Nat
<1>1. \A o : Blocked(o) \subseteq Thread
  BY DEF Blocked
<1> QED BY <1>1, MonitorAssumption, FS_Subset, FS_CardinalityType

LEMMA CountSame ==
    ASSUME BaseType, CountInv, UNCHANGED synchronisation, NEW t \in Thread, Others(t),
           \A n \in Record : mon'[n].entry_count = mon[n].entry_count,
           Counted(t)' <=> Counted(t), Counted(t) => thread'[t].obj = thread[t].obj
    PROVE  CountInv'
<1> SUFFICES ASSUME NEW o \in Object, synchronisation[o] # NULL
             PROVE  mon'[synchronisation[o]].entry_count = Cardinality(Blocked(o)')
  BY DEF CountInv
<1>1. Blocked(o)' = Blocked(o)
  BY DEF Blocked, Others, Counted
<1>2. synchronisation[o] \in Record
  BY DEF BaseType
<1> QED BY <1>1, <1>2 DEF CountInv

LEMMA CountUp ==
    ASSUME BaseType, RecordInv, CountInv, UNCHANGED synchronisation, NEW t \in Thread, Others(t),
           NEW o \in Object, NEW m \in Record, synchronisation[o] = m,
           mon'[m].entry_count = mon[m].entry_count + 1,
           \A n \in Record \ {m} : mon'[n].entry_count = mon[n].entry_count,
           ~Counted(t), Counted(t)', thread'[t].obj = o
    PROVE  CountInv'
<1> SUFFICES ASSUME NEW p \in Object, synchronisation[p] # NULL
             PROVE  mon'[synchronisation[p]].entry_count = Cardinality(Blocked(p)')
  BY DEF CountInv
<1>1. synchronisation[p] \in Record /\ mon[synchronisation[p]].entry_count = Cardinality(Blocked(p))
  BY DEF BaseType, CountInv
<1>2. CASE p = o
  <2>1. Blocked(p)' = Blocked(p) \cup {t} /\ t \notin Blocked(p)
    BY <1>2 DEF Blocked, Others, Counted
  <2>2. Cardinality(Blocked(p) \cup {t}) = Cardinality(Blocked(p)) + 1
    BY <2>1, BlockedFinite, FS_AddElement
  <2> QED BY <1>1, <1>2, <2>1, <2>2
<1>3. CASE p # o
  <2>1. Blocked(p)' = Blocked(p)
    BY <1>3 DEF Blocked, Others, Counted
  <2>2. synchronisation[p] # m
    BY <1>3, NullFacts DEF RecordInv
  <2> QED BY <1>1, <2>1, <2>2
<1> QED BY <1>2, <1>3

LEMMA CountDown ==
    ASSUME BaseType, RecordInv, CountInv, UNCHANGED synchronisation, NEW t \in Thread, Others(t),
           NEW o \in Object, NEW m \in Record, synchronisation[o] = m,
           mon'[m].entry_count = mon[m].entry_count - 1,
           \A n \in Record \ {m} : mon'[n].entry_count = mon[n].entry_count,
           Counted(t), ~Counted(t)', thread[t].obj = o
    PROVE  CountInv'
<1> SUFFICES ASSUME NEW p \in Object, synchronisation[p] # NULL
             PROVE  mon'[synchronisation[p]].entry_count = Cardinality(Blocked(p)')
  BY DEF CountInv
<1>1. synchronisation[p] \in Record /\ mon[synchronisation[p]].entry_count = Cardinality(Blocked(p))
  BY DEF BaseType, CountInv
<1>2. CASE p = o
  <2>1. Blocked(p)' = Blocked(p) \ {t} /\ t \in Blocked(p)
    BY <1>2 DEF Blocked, Others, Counted
  <2>2. Cardinality(Blocked(p) \ {t}) = Cardinality(Blocked(p)) - 1
    BY <2>1, BlockedFinite, FS_RemoveElement
  <2> QED BY <1>1, <1>2, <2>1, <2>2
<1>3. CASE p # o
  <2>1. Blocked(p)' = Blocked(p)
    BY <1>3 DEF Blocked, Others, Counted
  <2>2. synchronisation[p] # m
    BY <1>3, NullFacts DEF RecordInv
  <2> QED BY <1>1, <2>1, <2>2
<1> QED BY <1>2, <1>3

\* A thread that is counted finds the count above zero.
LEMMA CountPositive ==
    ASSUME BaseType, CountInv, NEW t \in Thread, Counted(t), thread[t].obj \in Object, Mon(t) # NULL
    PROVE  mon[Mon(t)].entry_count > 0
<1>1. t \in Blocked(thread[t].obj)
  BY DEF Blocked, Counted
<1>2. mon[Mon(t)].entry_count = Cardinality(Blocked(thread[t].obj))
  BY DEF CountInv, Mon
<1>3. Cardinality(Blocked(thread[t].obj)) # 0
  BY <1>1, BlockedFinite, FS_EmptySet
<1> QED BY <1>2, <1>3, BlockedFinite

\* Wake-ups.
Asleep(t, o) == thread[t].obj = o /\ thread[t].pc = "asleep"

LEMMA StallKept ==
    ASSUME NEW o \in Object, StallOK(o), UNCHANGED synchronisation, NEW t \in Thread, Others(t),
           NEW m, m = synchronisation[o],
           m # NULL /\ mon'[m].owner = NULL /\ ~freedFast'[m] =>
             \/ Helps(t, o)' \/ mon'[m].entry_sem > 0 \/ ~Slept(o)'
             \/ /\ mon[m].owner = NULL /\ ~freedFast[m]
                /\ mon[m].entry_sem > 0 => mon'[m].entry_sem > 0
                /\ Asleep(t, o)' => Asleep(t, o)
                /\ Helps(t, o) => Helps(t, o)'
    PROVE  StallOK(o)'
<1> SUFFICES ASSUME m # NULL, mon'[m].owner = NULL, ~freedFast'[m], Slept(o)'
             PROVE  mon'[m].entry_sem > 0 \/ \E u \in Thread : Helps(u, o)'
  BY DEF StallOK
<1>1. \A u \in Thread \ {t} : (Helps(u, o)' <=> Helps(u, o)) /\ (Asleep(u, o)' <=> Asleep(u, o))
  BY DEF Others, Helps, Asleep
<1>2. Slept(o) <=> \E u \in Thread : Asleep(u, o)
  BY DEF Slept, Asleep
<1>3. PICK u \in Thread : Asleep(u, o)'
  BY DEF Slept, Asleep
<1>4. CASE /\ mon[m].owner = NULL /\ ~freedFast[m]
           /\ mon[m].entry_sem > 0 => mon'[m].entry_sem > 0
           /\ Asleep(t, o)' => Asleep(t, o)
           /\ Helps(t, o) => Helps(t, o)'
  <2>1. Slept(o)
    BY <1>1, <1>2, <1>3, <1>4
  <2>2. mon[m].entry_sem > 0 \/ \E v \in Thread : Helps(v, o)
    BY <1>4, <2>1 DEF StallOK
  <2> QED BY <1>1, <1>4, <2>2
<1> QED BY <1>4

\* The waiters, in a step that leaves the lists and the events alone.
LEMMA WaiterRecord ==
    ASSUME BaseType, ThreadInv, NEW t \in Thread, thread[t].event # NULL
    PROVE  thread[t].event \in Event /\ thread[t].obj \in Object /\ Mon(t) \in Record
<1>1. ThreadOK(t)
  BY DEF ThreadInv
<1>2. thread[t].pc # "idle"
  BY <1>1, IdleFacts DEF ThreadOK
<1>3. thread[t].obj \in Object /\ Mon(t) # NULL
  BY <1>1, <1>2, ThreadType DEF ThreadOK
<1>4. Mon(t) \in Record
  BY <1>3 DEF Mon, BaseType
<1> QED BY <1>3, <1>4, ThreadType

LEMMA WaitersKept ==
    ASSUME BaseType, ThreadInv, ListInv, WaiterInv, UNCHANGED <<synchronisation, event>>,
           NEW t \in Thread, Others(t),
           \A n \in Record : mon'[n].wait_list = mon[n].wait_list,
           \/ thread'[t].event = NULL
           \/ thread'[t].event = thread[t].event /\ thread'[t].woken = thread[t].woken
              /\ thread'[t].obj = thread[t].obj
    PROVE  ListInv' /\ WaiterInv'
<1>1. \A e, n : n \in Record => (Listed(e, n)' <=> Listed(e, n))
  BY DEF Listed
<1>2. ListInv'
  BY <1>1 DEF ListInv, ListOK
<1>3. ASSUME NEW u \in Thread PROVE WaiterOK(u)'
  <2>1. CASE thread'[u].event = NULL
    BY <2>1 DEF WaiterOK
  <2>2. CASE thread'[u].event # NULL
    <3>1. thread'[u].event = thread[u].event /\ thread'[u].woken = thread[u].woken
          /\ thread'[u].obj = thread[u].obj
      BY <2>2 DEF Others
    <3>2. PICK e \in Event, m \in Record : e = thread[u].event /\ m = Mon(u)
      BY <2>2, <3>1, WaiterRecord
    <3>3. WaitsWith(u, e, m)
      BY <2>2, <3>1, <3>2 DEF WaiterInv, WaiterOK
    <3>4. \A v \in Thread : thread'[v].event = thread[v].event \/ thread'[v].event = NULL
      BY DEF Others
    <3>5. e # NULL
      BY NullFacts
    <3>6. WaitsWith(u, e, m)'
      BY <1>1, <3>1, <3>3, <3>4, <3>5 DEF WaitsWith
    <3>7. thread'[u].event = e /\ Mon(u)' = m
      BY <3>1, <3>2 DEF Mon
    <3> QED BY <3>6, <3>7 DEF WaiterOK
  <2> QED BY <2>1, <2>2
<1> QED BY <1>2, <1>3 DEF WaiterInv

-----------------------------------------------------------------------------
\* A step of thread t that changes its own state and the record m of object o.

StallMove(t, o, m) ==
    mon'[m].owner = NULL /\ ~freedFast'[m] =>
      \/ Helps(t, o)' \/ mon'[m].entry_sem > 0 \/ ~Slept(o)'
      \/ /\ mon[m].owner = NULL /\ ~freedFast[m]
         /\ mon[m].entry_sem > 0 => mon'[m].entry_sem > 0
         /\ Asleep(t, o)' => Asleep(t, o)
         /\ Helps(t, o) => Helps(t, o)'

CountMove(t, o, m) ==
    \/ /\ mon'[m].entry_count = mon[m].entry_count
       /\ Counted(t)' <=> Counted(t)
       /\ Counted(t) => thread'[t].obj = thread[t].obj
    \/ /\ mon'[m].entry_count = mon[m].entry_count + 1
       /\ ~Counted(t) /\ Counted(t)' /\ thread'[t].obj = o
    \/ /\ mon'[m].entry_count = mon[m].entry_count - 1
       /\ Counted(t) /\ ~Counted(t)' /\ thread[t].obj = o

LEMMA LockStep ==
    ASSUME LockInv, NEW t \in Thread, NEW o \in Object, NEW m \in Record, synchronisation[o] = m,
           NEW r \in SyncState, mon' = [mon EXCEPT ![m] = r],
           NEW s \in ThreadState, thread' = [thread EXCEPT ![t] = s],
           thread[t].obj \in {o, NULL}, s.obj \in {o, NULL},
           UNCHANGED <<synchronisation, monitor_freelist, allocated, program>>,
           event' \in [Event -> {"closed", "reset", "set"}],
           freedFast' \in [Record -> BOOLEAN], \A n \in Record \ {m} : freedFast'[n] = freedFast[n],
           KeepsRecord(m, t), ThreadOK(t)', OwnOK(t)', SemOK(t)', CountMove(t, o, m), StallMove(t, o, m)
    PROVE  LockInv'
<1>1. BaseType /\ RecordInv /\ NestInv /\ ThreadInv /\ OwnInv /\ SemInv /\ CountInv /\ StallInv
  BY DEF LockInv
<1>2. /\ mon' \in [Record -> SyncState] /\ mon'[m] = r
      /\ \A n \in Record \ {m} : mon'[n] = mon[n]
  BY <1>1, MonEffect
<1>3. thread' \in [Thread -> ThreadState] /\ thread'[t] = s /\ Others(t)
  BY <1>1, ThreadEffect DEF Others
<1>4. BaseType'
  BY <1>1, <1>2, <1>3 DEF BaseType, SyncState, ThreadState
<1>5. \A n \in Record : KeepsRecord(n, t)
  BY <1>1, <1>2 DEF KeepsRecord, NestInv, NestOK
<1>6. SameRecords
  BY DEF SameRecords
<1>7. RecordInv' /\ NestInv' /\ ThreadInv' /\ OwnInv' /\ SemInv'
  BY <1>1, <1>3, <1>5, <1>6, LockMoves
<1>8. CountInv'
  <2>1. CASE mon'[m].entry_count = mon[m].entry_count /\ (Counted(t)' <=> Counted(t))
             /\ (Counted(t) => thread'[t].obj = thread[t].obj)
    <3>1. \A n \in Record : mon'[n].entry_count = mon[n].entry_count
      BY <1>2, <2>1
    <3> QED BY <1>1, <1>3, <2>1, <3>1, CountSame
  <2>2. CASE mon'[m].entry_count = mon[m].entry_count + 1 /\ ~Counted(t) /\ Counted(t)'
             /\ thread'[t].obj = o
    <3>1. \A n \in Record \ {m} : mon'[n].entry_count = mon[n].entry_count
      BY <1>2
    <3> QED BY <1>1, <1>3, <2>2, <3>1, CountUp
  <2>3. CASE mon'[m].entry_count = mon[m].entry_count - 1 /\ Counted(t) /\ ~Counted(t)'
             /\ thread[t].obj = o
    <3>1. \A n \in Record \ {m} : mon'[n].entry_count = mon[n].entry_count
      BY <1>2
    <3> QED BY <1>1, <1>3, <2>3, <3>1, CountDown
  <2> QED BY <2>1, <2>2, <2>3 DEF CountMove
<1>9. ASSUME NEW p \in Object PROVE StallOK(p)'
  <2>1. StallOK(p)
    BY <1>1 DEF StallInv
  <2>2. PICK n : n = synchronisation[p]
    OBVIOUS
  <2>3. CASE p = o
    <3>1. n = m
      BY <2>2, <2>3
    <3> QED BY <1>3, <2>1, <2>2, <2>3, <3>1, StallKept DEF StallMove
  <2>4. CASE p # o
    <3>1. ~Helps(t, p) /\ ~Asleep(t, p)'
      BY <1>3, <2>4, NullFacts DEF Helps, Asleep
    <3>2. n # NULL => n \in Record \ {m}
      BY <1>1, <2>2, <2>4, NullFacts DEF BaseType, RecordInv
    <3>3. n # NULL => mon'[n] = mon[n] /\ freedFast'[n] = freedFast[n]
      BY <1>2, <3>2
    <3> QED BY <1>3, <2>1, <2>2, <3>1, <3>3, StallKept
  <2> QED BY <2>3, <2>4
<1> QED BY <1>4, <1>7, <1>8, <1>9 DEF LockInv, StallInv

\* A step of thread t that changes its own state only.
LEMMA ThreadStep ==
    ASSUME LockInv, NEW t \in Thread, NEW s \in ThreadState, thread' = [thread EXCEPT ![t] = s],
           UNCHANGED <<synchronisation, mon, monitor_freelist, allocated, freedFast>>,
           program' \in Programs, program'.nest = program.nest,
           event' \in [Event -> {"closed", "reset", "set"}],
           ThreadOK(t)', OwnOK(t)', SemOK(t)',
           Counted(t)' <=> Counted(t), Counted(t) => s.obj = thread[t].obj,
           \A o \in Object :
             synchronisation[o] # NULL /\ mon[synchronisation[o]].owner = NULL =>
               /\ Asleep(t, o)' => Asleep(t, o)
               /\ Helps(t, o) => Helps(t, o)'
    PROVE  LockInv'
<1>1. BaseType /\ RecordInv /\ NestInv /\ ThreadInv /\ OwnInv /\ SemInv /\ CountInv /\ StallInv
  BY DEF LockInv
<1>2. thread' \in [Thread -> ThreadState] /\ thread'[t] = s /\ Others(t)
  BY <1>1, ThreadEffect DEF Others
<1>3. BaseType'
  BY <1>1, <1>2 DEF BaseType, SyncState, ThreadState
<1>4. \A n \in Record : KeepsRecord(n, t)
  BY <1>1 DEF KeepsRecord, NestInv, NestOK
<1>5. SameRecords
  BY DEF SameRecords
<1>6. RecordInv' /\ NestInv' /\ ThreadInv' /\ OwnInv' /\ SemInv'
  BY <1>1, <1>2, <1>4, <1>5, LockMoves
<1>7. CountInv'
  BY <1>1, <1>2, CountSame
<1>8. ASSUME NEW p \in Object PROVE StallOK(p)'
  <2>1. StallOK(p)
    BY <1>1 DEF StallInv
  <2>2. PICK n : n = synchronisation[p]
    OBVIOUS
  <2> QED BY <1>2, <2>1, <2>2, StallKept
<1> QED BY <1>3, <1>6, <1>7, <1>8 DEF LockInv, StallInv

-----------------------------------------------------------------------------
\* What a thread is after a step: still in its call, or idle.

SameCall(t, s) ==
    /\ s.obj = thread[t].obj /\ s.event = thread[t].event /\ s.call = thread[t].call
    /\ s.woken = thread[t].woken /\ s.nest = thread[t].nest

LEMMA InCall ==
    ASSUME BaseType, ThreadInv, NEW t \in Thread, thread[t].pc # "idle"
    PROVE  /\ thread[t].obj \in Object
           /\ thread[t].pc \notin {"retry", "allocate"} =>
                Mon(t) \in Record /\ synchronisation[thread[t].obj] = Mon(t)
<1>1. ThreadOK(t)
  BY DEF ThreadInv
<1>2. thread[t].obj \in Object
  BY <1>1, ThreadType DEF ThreadOK
<1>3. Mon(t) \in Record \cup {NULL}
  BY <1>2 DEF Mon, BaseType
<1> QED BY <1>1, <1>2, <1>3 DEF ThreadOK, Mon

LEMMA CallGoesOn ==
    ASSUME ThreadInv, NEW t \in Thread, thread[t].pc # "idle", NEW s \in ThreadState, SameCall(t, s),
           thread'[t] = s, UNCHANGED synchronisation, s.pc \notin {"idle", "fast_exit"},
           s.pc \in {"waiting", "regained"} => thread[t].event # NULL,
           s.pc \in {"wakeup", "release", "waiting"} => ~thread[t].woken,
           s.pc = "allocate" => thread[t].event = NULL,
           s.pc \notin {"retry", "allocate"} => Mon(t) # NULL
    PROVE  ThreadOK(t)'
<1>1. ThreadOK(t)
  BY DEF ThreadInv
<1>2. Mon(t)' = Mon(t)
  BY DEF Mon, SameCall
<1> QED BY <1>1, <1>2 DEF ThreadOK, SameCall

LEMMA CallOver ==
    ASSUME NEW t \in Thread, thread'[t] = Idle
    PROVE  /\ ThreadOK(t)' /\ OwnOK(t)' /\ SemOK(t)' /\ ~Counted(t)'
           /\ \A o \in Object : ~Asleep(t, o)' /\ ~Helps(t, o)'
BY IdleFacts, NullFacts DEF ThreadOK, OwnOK, SemOK, Counted, Asleep, Helps

\* The thread goes on in its call, or leaves it, and touches nothing else.
LEMMA MoveOn ==
    ASSUME IInv, NEW t \in Thread, thread[t].pc # "idle",
           NEW s \in ThreadState, thread' = [thread EXCEPT ![t] = s], SameCall(t, s),
           UNCHANGED <<synchronisation, mon, monitor_freelist, allocated, event, freedFast>>,
           program' \in Programs, program'.nest = program.nest,
           \/ s.pc \notin {"idle", "fast_exit", "wakeup", "release", "waiting", "regained"}
           \/ s.pc = thread[t].pc
           \/ thread[t].pc = "wakeup" /\ s.pc = "release",
           s.pc = "allocate" => thread[t].event = NULL,
           s.pc \notin {"retry", "allocate"} => Mon(t) # NULL,
           thread[t].pc \notin {"fast_exit", "regained"} \/ s.pc = thread[t].pc,
           Owns(t, thread[t].obj) => s.pc \in {"retry", "owner"} \/ s.pc = thread[t].pc,
           s.pc \in {"count", "again", "asleep", "awake", "release"} => mon[Mon(t)].entry_sem # NULL,
           Counted(t)' <=> Counted(t),
           thread[t].pc = "asleep" \/ s.pc # "asleep" \/ mon[Mon(t)].owner # NULL,
           \A o \in Object : Helps(t, o) => Helps(t, o)' \/ mon[Mon(t)].owner # NULL
    PROVE  IInv'
<1>1. LockInv /\ ListInv /\ WaiterInv
  BY DEF IInv
<1>2. BaseType /\ ThreadInv /\ OwnInv
  BY <1>1 DEF LockInv
<1>3. thread'[t] = s /\ Others(t)
  BY <1>2, ThreadEffect DEF Others
<1>4. thread[t].obj \in Object /\ ThreadOK(t) /\ OwnOK(t) /\ s.obj = thread[t].obj
  BY <1>2, InCall DEF ThreadInv, OwnInv, SameCall
<1>5. ThreadOK(t)'
  <2>1. CASE s.pc = thread[t].pc
    <3>1. Mon(t)' = Mon(t)
      BY <1>3 DEF Mon, SameCall
    <3> QED BY <1>3, <1>4, <2>1, <3>1 DEF ThreadOK, SameCall
  <2>2. CASE s.pc \notin {"idle", "fast_exit", "wakeup", "release", "waiting", "regained"}
    BY <1>2, <1>3, <2>2, CallGoesOn
  <2>3. CASE thread[t].pc = "wakeup" /\ s.pc = "release"
    <3>1. ~thread[t].woken
      BY <1>4, <2>3 DEF ThreadOK
    <3> QED BY <1>2, <1>3, <2>3, <3>1, CallGoesOn
  <2> QED BY <2>1, <2>2, <2>3
<1>6. Mon(t)' = Mon(t) /\ (Owns(t, thread[t].obj)' <=> Owns(t, thread[t].obj))
  BY <1>3, <1>4 DEF Mon, Owns
<1>7. OwnOK(t)'
  BY <1>3, <1>4, <1>6 DEF OwnOK, Entering, SameCall
<1>8. SemOK(t)'
  BY <1>3, <1>6 DEF SemOK
<1>9. \A o \in Object :
        synchronisation[o] # NULL /\ mon[synchronisation[o]].owner = NULL =>
          (Asleep(t, o)' => Asleep(t, o)) /\ (Helps(t, o) => Helps(t, o)')
  BY <1>3, <1>4 DEF Asleep, Helps, Mon
<1>10. LockInv'
  BY <1>1, <1>4, <1>5, <1>7, <1>8, <1>9, <1>2, ThreadStep DEF BaseType
<1>11. ListInv' /\ WaiterInv'
  BY <1>1, <1>2, <1>3, WaitersKept DEF SameCall
<1> QED BY <1>10, <1>11 DEF IInv

LEMMA GiveUp ==
    ASSUME IInv, NEW t \in Thread, thread' = [thread EXCEPT ![t] = Idle],
           UNCHANGED <<synchronisation, mon, monitor_freelist, allocated, event, freedFast, program>>,
           thread[t].pc \in {"owner", "waiting"}
    PROVE  IInv'
<1>1. LockInv /\ ListInv /\ WaiterInv
  BY DEF IInv
<1>2. BaseType /\ ThreadInv
  BY <1>1 DEF LockInv
<1>3. Idle \in ThreadState /\ Idle.event = NULL
  BY <1>2, IdleFacts
<1>4. thread'[t] = Idle /\ Others(t)
  BY <1>2, <1>3, ThreadEffect DEF Others
<1>5. \A o \in Object : ~Helps(t, o) /\ ~Counted(t)
  BY DEF Helps, Counted
<1>6. ThreadOK(t)' /\ OwnOK(t)' /\ SemOK(t)' /\ ~Counted(t)' /\ \A o \in Object : ~Asleep(t, o)'
  BY <1>4, CallOver
<1>7. ~Counted(t)
  BY DEF Counted
<1>8. LockInv'
  BY <1>1, <1>2, <1>3, <1>5, <1>6, <1>7, ThreadStep DEF BaseType
<1>9. ListInv' /\ WaiterInv'
  BY <1>1, <1>2, <1>3, <1>4, WaitersKept
<1> QED BY <1>8, <1>9 DEF IInv

-----------------------------------------------------------------------------
\* The steps that leave the records alone.

LEMMA GoToState ==
    ASSUME BaseType, NEW t \in Thread, NEW x \in Pc, GoTo(t, x)
    PROVE  \E s \in ThreadState : /\ thread' = [thread EXCEPT ![t] = s] /\ SameCall(t, s)
                                  /\ s.pc = x /\ s.ret = thread[t].ret
<1>1. PICK th \in ThreadState : th = thread[t]
  BY ThreadType
<1>2. PICK s : s = [th EXCEPT !.pc = x]
  OBVIOUS
<1>3. s \in ThreadState /\ s.pc = x /\ s.ret = th.ret /\ s.obj = th.obj /\ s.event = th.event
      /\ s.call = th.call /\ s.woken = th.woken /\ s.nest = th.nest
  BY <1>2 DEF ThreadState
<1>4. thread' = [thread EXCEPT ![t] = s]
  BY <1>1, <1>2 DEF GoTo, BaseType
<1> QED BY <1>1, <1>3, <1>4 DEF SameCall

LEMMA WakesState ==
    ASSUME BaseType, NEW t \in Thread,
           NEW x \in {"WAIT_OBJECT_0", "WAIT_TIMEOUT", "WAIT_IO_COMPLETION"}, Wakes(t, x)
    PROVE  \E s \in ThreadState : /\ thread' = [thread EXCEPT ![t] = s] /\ SameCall(t, s)
                                  /\ s.pc = "awake" /\ s.ret = x
<1>1. PICK th \in ThreadState : th = thread[t]
  BY ThreadType
<1>2. PICK s : s = [th EXCEPT !.pc = "awake", !.ret = x]
  OBVIOUS
<1>3. s \in ThreadState /\ s.pc = "awake" /\ s.ret = x /\ s.obj = th.obj /\ s.event = th.event
      /\ s.call = th.call /\ s.woken = th.woken /\ s.nest = th.nest
  BY <1>2 DEF ThreadState, Pc
<1>4. thread' = [thread EXCEPT ![t] = s]
  BY <1>1, <1>2 DEF Wakes, BaseType
<1> QED BY <1>1, <1>3, <1>4 DEF SameCall

LEMMA Unpack ==
    ASSUME IInv
    PROVE  BaseType /\ RecordInv /\ NestInv /\ ThreadInv /\ OwnInv /\ SemInv /\ CountInv /\ StallInv
           /\ ListInv /\ WaiterInv /\ LockInv /\ program \in Programs
BY DEF IInv, LockInv, BaseType

LEMMA LoadSyncInv == ASSUME IInv, NEW t \in Thread, LoadSync(t) PROVE IInv'
<1>1. BaseType /\ ThreadInv /\ OwnInv /\ program \in Programs
  BY Unpack
<1>2. PICK x \in {"allocate", "owner"} : GoTo(t, x) /\ x = IF Mon(t) = NULL THEN "allocate" ELSE "owner"
  BY DEF LoadSync
<1>3. PICK s \in ThreadState : /\ thread' = [thread EXCEPT ![t] = s] /\ SameCall(t, s)
                               /\ s.pc = x /\ s.ret = thread[t].ret
  BY <1>1, <1>2, GoToState DEF Pc
<1>4. ThreadOK(t) /\ OwnOK(t) /\ thread[t].pc = "retry" /\ thread'[t] = s
  BY <1>1, <1>3, ThreadEffect DEF ThreadInv, OwnInv, LoadSync, At
<1>5. thread[t].event # NULL => Mon(t) # NULL
  BY <1>4 DEF ThreadOK
<1>6. Owns(t, thread[t].obj) => Mon(t) # NULL
  BY DEF Owns, Mon
<1>7. ~Counted(t) /\ ~Counted(t)' /\ \A o \in Object : ~Helps(t, o)
  BY <1>3, <1>4 DEF Counted, Helps
<1> QED BY <1>1, <1>2, <1>3, <1>4, <1>5, <1>6, <1>7, MoveOn DEF LoadSync, records

LEMMA ReadOwnerInv == ASSUME IInv, NEW t \in Thread, ReadOwner(t) PROVE IInv'
<1>1. BaseType /\ ThreadInv /\ OwnInv /\ program \in Programs
  BY Unpack
<1>2. UNCHANGED <<synchronisation, mon, monitor_freelist, allocated, event, freedFast, program>>
      /\ thread[t].pc \in {"owner", "contended"}
  BY DEF ReadOwner, records, At
<1>3. CASE Failed(t) /\ At(t, "owner")
  BY <1>2, <1>3, GiveUp DEF Failed, At
<1>4. ASSUME NEW x \in {"swap", "contended", "swap_contended", "semaphore"}, GoTo(t, x),
             thread[t].pc = "owner" => mon[Mon(t)].owner # t,
             thread[t].pc = "contended" => x \in {"swap_contended", "semaphore"}
      PROVE  IInv'
  <2>1. PICK s \in ThreadState : /\ thread' = [thread EXCEPT ![t] = s] /\ SameCall(t, s)
                                 /\ s.pc = x /\ s.ret = thread[t].ret
    BY <1>1, <1>4, GoToState DEF Pc
  <2>2. ThreadOK(t) /\ OwnOK(t) /\ thread'[t] = s
    BY <1>1, <2>1, ThreadEffect DEF ThreadInv, OwnInv
  <2>3. Mon(t) # NULL
    BY <1>2, <2>2 DEF ThreadOK
  <2>4. ~Owns(t, thread[t].obj)
    BY <1>2, <1>4, <2>2 DEF Owns, Mon, OwnOK, Entering
  <2>5. ~Counted(t) /\ ~Counted(t)' /\ \A o \in Object : Helps(t, o) => Helps(t, o)'
    BY <1>2, <1>4, <2>1, <2>2 DEF Counted, Helps, SameCall
  <2> QED BY <1>1, <1>2, <1>4, <2>1, <2>2, <2>3, <2>4, <2>5, MoveOn
<1>5. thread[t].pc = "owner" /\ mon[Mon(t)].owner = NULL => mon[Mon(t)].owner # t
  BY NullFacts
<1> QED BY <1>3, <1>4, <1>5 DEF ReadOwner, At

\* The compare-and-swaps that find an owner.
LEMMA SwapFails ==
    ASSUME IInv, NEW t \in Thread, NEW x \in {"retry", "semaphore", "asleep"}, GoTo(t, x),
           \/ thread[t].pc = "swap" /\ x = "retry"
           \/ thread[t].pc = "swap_contended" /\ x = "semaphore"
           \/ thread[t].pc = "again" /\ x = "asleep",
           mon[Mon(t)].owner # NULL,
           UNCHANGED <<synchronisation, mon, monitor_freelist, allocated, event, freedFast, program>>
    PROVE  IInv'
<1>1. BaseType /\ ThreadInv /\ OwnInv /\ SemInv /\ program \in Programs
  BY Unpack
<1>2. PICK s \in ThreadState : /\ thread' = [thread EXCEPT ![t] = s] /\ SameCall(t, s)
                               /\ s.pc = x /\ s.ret = thread[t].ret
  BY <1>1, GoToState DEF Pc
<1>3. ThreadOK(t) /\ OwnOK(t) /\ SemOK(t) /\ thread'[t] = s
  BY <1>1, <1>2, ThreadEffect DEF ThreadInv, OwnInv, SemInv
<1>4. Mon(t) # NULL
  BY <1>3 DEF ThreadOK
<1>5. ~Owns(t, thread[t].obj)
  BY <1>3 DEF OwnOK, Entering
<1>6. Counted(t)' <=> Counted(t)
  BY <1>2, <1>3 DEF Counted
<1>7. x = "asleep" => mon[Mon(t)].entry_sem # NULL
  BY <1>3 DEF SemOK
<1> QED BY <1>1, <1>2, <1>3, <1>4, <1>5, <1>6, <1>7, MoveOn

\* The sleep that ends by a timeout or by an interruption.
LEMMA SleepEnds ==
    ASSUME IInv, NEW t \in Thread, thread[t].pc = "asleep",
           NEW x \in {"WAIT_TIMEOUT", "WAIT_IO_COMPLETION"}, Wakes(t, x),
           UNCHANGED <<synchronisation, mon, monitor_freelist, allocated, event, freedFast, program>>
    PROVE  IInv'
<1>1. BaseType /\ ThreadInv /\ OwnInv /\ SemInv /\ program \in Programs
  BY Unpack
<1>2. PICK s \in ThreadState : /\ thread' = [thread EXCEPT ![t] = s] /\ SameCall(t, s)
                               /\ s.pc = "awake" /\ s.ret = x
  BY <1>1, WakesState
<1>3. ThreadOK(t) /\ OwnOK(t) /\ SemOK(t) /\ thread'[t] = s
  BY <1>1, <1>2, ThreadEffect DEF ThreadInv, OwnInv, SemInv
<1>4. Mon(t) # NULL /\ mon[Mon(t)].entry_sem # NULL
  BY <1>3 DEF ThreadOK, SemOK
<1>5. ~Owns(t, thread[t].obj)
  BY <1>3 DEF OwnOK, Entering
<1>6. (Counted(t)' <=> Counted(t)) /\ \A o \in Object : ~Helps(t, o)
  BY <1>2, <1>3 DEF Counted, Helps
<1> QED BY <1>1, <1>2, <1>3, <1>4, <1>5, <1>6, MoveOn

LEMMA InterruptInv == ASSUME IInv, NEW t \in Thread, Interrupt(t) PROVE IInv'
<1>1. BaseType /\ ThreadInv /\ OwnInv /\ SemInv /\ program \in Programs
  BY Unpack
<1>2. PICK kind \in {"abort", "suspend"} : thread' = [thread EXCEPT ![t].interrupt = kind]
  BY DEF Interrupt
<1>3. PICK th \in ThreadState : th = thread[t]
  BY <1>1, ThreadType
<1>4. PICK s : s = [th EXCEPT !.interrupt = kind]
  OBVIOUS
<1>5. s \in ThreadState /\ s.pc = th.pc /\ s.ret = th.ret /\ s.obj = th.obj /\ s.event = th.event
      /\ s.call = th.call /\ s.woken = th.woken /\ s.nest = th.nest
  BY <1>4 DEF ThreadState
<1>6. thread' = [thread EXCEPT ![t] = s]
  BY <1>1, <1>2, <1>3, <1>4 DEF BaseType
<1>7. thread'[t] = s /\ ThreadOK(t) /\ SemOK(t) /\ thread[t].pc # "idle"
  BY <1>1, <1>5, <1>6, ThreadEffect DEF ThreadInv, SemInv, Interrupt, At
<1>8. (Counted(t)' <=> Counted(t)) /\ \A o \in Object : Helps(t, o) => Helps(t, o)'
  BY <1>3, <1>5, <1>7 DEF Counted, Helps
<1>9. program' \in Programs /\ program'.nest = program.nest
  BY <1>1 DEF Interrupt, Programs
<1>10. (s.pc = "allocate" => thread[t].event = NULL) /\ (s.pc \notin {"retry", "allocate"} => Mon(t) # NULL)
       /\ (s.pc \in {"count", "again", "asleep", "awake", "release"} => mon[Mon(t)].entry_sem # NULL)
  BY <1>3, <1>5, <1>7 DEF ThreadOK, SemOK
<1>11. SameCall(t, s)
  BY <1>3, <1>5 DEF SameCall
<1> QED BY <1>3, <1>5, <1>6, <1>7, <1>8, <1>9, <1>10, <1>11, MoveOn DEF Interrupt

LEMMA IdleThread ==
    ASSUME ThreadInv, NEW t \in Thread, At(t, "idle")
    PROVE  thread[t] = Idle /\ ~Counted(t) /\ \A o \in Object : ~Helps(t, o) /\ ~Asleep(t, o)
BY DEF ThreadInv, ThreadOK, At, Counted, Helps, Asleep

LEMMA TimeoutType == \A c : Timeout(c) \in 0..INFINITE
BY DEF Timeout, INFINITE

LEMMA StartInv ==
    ASSUME IInv, NEW t \in Thread, NEW c \in {"Enter", "TryEnter", "TryEnter0"}, NEW o \in Object,
           Start(t, c, o)
    PROVE  IInv'
<1>1. BaseType /\ ThreadInv /\ ListInv /\ WaiterInv /\ LockInv /\ program \in Programs
  BY Unpack
<1>2. PICK s : s = [Idle EXCEPT !.pc = "retry", !.call = c, !.obj = o, !.ms = Timeout(c)]
  OBVIOUS
<1>3. /\ s \in ThreadState /\ s.pc = "retry" /\ s.call = c /\ s.obj = o /\ s.event = NULL
      /\ s.woken = FALSE /\ s.ret = NULL
  <2>1. "retry" \in Pc /\ c \in Call /\ Timeout(c) \in 0..INFINITE
    BY TimeoutType DEF Pc, Call
  <2>2. s \in ThreadState
    BY <1>1, <1>2, <2>1, IdleFacts DEF ThreadState
  <2> QED BY <1>2, <2>2, IdleFacts DEF ThreadState, Idle
<1>4. thread' = [thread EXCEPT ![t] = s]
      /\ UNCHANGED <<synchronisation, mon, monitor_freelist, allocated, event, freedFast, program>>
  BY <1>2 DEF Start, records
<1>5. thread'[t] = s /\ Others(t)
  BY <1>1, <1>3, <1>4, ThreadEffect DEF Others
<1>6. thread[t] = Idle /\ ~Counted(t) /\ \A p \in Object : ~Helps(t, p) /\ ~Asleep(t, p)
  BY <1>1, IdleThread DEF Start
<1>7. ThreadOK(t)'
  BY <1>3, <1>5, NullFacts DEF ThreadOK, Waits
<1>8. OwnOK(t)'
  <2>1. Owns(t, o) => mon[synchronisation[o]].nest < program.nest
    BY DEF Start
  <2>2. (Owns(t, o)' <=> Owns(t, o)) /\ Mon(t)' = synchronisation[o]
    BY <1>3, <1>4, <1>5 DEF Owns, Mon
  <2> QED BY <1>3, <1>4, <1>5, <2>1, <2>2 DEF OwnOK, Entering
<1>9. SemOK(t)' /\ ~Counted(t)' /\ \A p \in Object : ~Asleep(t, p)'
  BY <1>3, <1>5 DEF SemOK, Counted, Asleep
<1>10. LockInv'
  BY <1>1, <1>3, <1>4, <1>6, <1>7, <1>8, <1>9, ThreadStep DEF BaseType
<1>11. ListInv' /\ WaiterInv'
  BY <1>1, <1>3, <1>4, <1>5, WaitersKept
<1> QED BY <1>10, <1>11 DEF IInv

LEMMA OwnedRecord ==
    ASSUME BaseType, NEW t \in Thread, NEW o \in Object, Owns(t, o)
    PROVE  synchronisation[o] \in Record /\ mon[synchronisation[o]].owner = t
BY DEF BaseType, Owns

LEMMA FastExitInv ==
    ASSUME IInv, NEW t \in Thread, NEW o \in Object, FastExit(t, o)
    PROVE  IInv'
<1>1. BaseType /\ ThreadInv /\ ListInv /\ WaiterInv /\ LockInv /\ program \in Programs
  BY Unpack
<1>2. PICK s : s = [Idle EXCEPT !.pc = "fast_exit", !.call = "FastExit", !.obj = o]
  OBVIOUS
<1>3. /\ s \in ThreadState /\ s.pc = "fast_exit" /\ s.call = "FastExit" /\ s.obj = o /\ s.event = NULL
      /\ s.woken = FALSE /\ s.ret = NULL
  <2>1. "fast_exit" \in Pc /\ "FastExit" \in Call /\ 0 \in 0..INFINITE
    BY DEF Pc, Call, INFINITE
  <2>2. s \in ThreadState
    BY <1>1, <1>2, <2>1, IdleFacts DEF ThreadState
  <2> QED BY <1>2, <2>2, IdleFacts DEF ThreadState, Idle
<1>4. thread' = [thread EXCEPT ![t] = s]
      /\ UNCHANGED <<synchronisation, mon, monitor_freelist, allocated, event, freedFast, program>>
  BY <1>2 DEF FastExit, records
<1>5. thread'[t] = s /\ Others(t)
  BY <1>1, <1>3, <1>4, ThreadEffect DEF Others
<1>6. thread[t] = Idle /\ ~Counted(t) /\ \A p \in Object : ~Helps(t, p) /\ ~Asleep(t, p)
  BY <1>1, IdleThread DEF FastExit
<1>7. Owns(t, o) /\ mon[synchronisation[o]].nest = 1 /\ synchronisation[o] # NULL
  BY DEF FastExit, Owns
<1>8. Mon(t)' = synchronisation[o] /\ Owns(t, o)'
  BY <1>3, <1>4, <1>5, <1>7 DEF Owns, Mon
<1>9. ThreadOK(t)'
  BY <1>3, <1>5, <1>7, <1>8, NullFacts DEF ThreadOK, Waits
<1>10. OwnOK(t)'
  BY <1>3, <1>4, <1>5, <1>7, <1>8 DEF OwnOK
<1>11. SemOK(t)' /\ ~Counted(t)' /\ \A p \in Object : ~Asleep(t, p)'
  BY <1>3, <1>5 DEF SemOK, Counted, Asleep
<1>12. LockInv'
  BY <1>1, <1>3, <1>4, <1>6, <1>9, <1>10, <1>11, ThreadStep DEF BaseType
<1>13. ListInv' /\ WaiterInv'
  BY <1>1, <1>3, <1>4, <1>5, WaitersKept
<1> QED BY <1>12, <1>13 DEF IInv

\* The wait for the event is over and the thread tries to regain the lock.
LEMMA RegainInv ==
    ASSUME IInv, NEW t \in Thread, thread[t].pc = "waiting", NEW woken \in BOOLEAN,
           thread' = [thread EXCEPT ![t].pc = "retry", ![t].ms = INFINITE, ![t].woken = woken],
           event' = [event EXCEPT ![thread[t].event] = "reset"],
           woken <=> event[thread[t].event] = "set",
           UNCHANGED <<synchronisation, mon, monitor_freelist, allocated, freedFast, program>>
    PROVE  IInv'
<1>1. BaseType /\ ThreadInv /\ OwnInv /\ ListInv /\ WaiterInv /\ LockInv /\ program \in Programs
  BY Unpack
<1>2. PICK th \in ThreadState : th = thread[t]
  BY <1>1, ThreadType
<1>3. PICK s : s = [th EXCEPT !.pc = "retry", !.ms = INFINITE, !.woken = woken]
  OBVIOUS
<1>4. s \in ThreadState /\ s.pc = "retry" /\ s.obj = th.obj /\ s.event = th.event
      /\ s.call = th.call /\ s.woken = woken /\ s.nest = th.nest
  <2>1. "retry" \in Pc /\ INFINITE \in 0..INFINITE
    BY DEF Pc, INFINITE
  <2> QED BY <1>3, <2>1 DEF ThreadState
<1>5. thread' = [thread EXCEPT ![t] = s]
  BY <1>1, <1>2, <1>3 DEF BaseType
<1>6. thread'[t] = s /\ Others(t)
  BY <1>1, <1>4, <1>5, ThreadEffect DEF Others
<1>7. ThreadOK(t) /\ OwnOK(t) /\ th.event # NULL /\ Mon(t)' = Mon(t)
  BY <1>1, <1>2, <1>4, <1>6 DEF ThreadInv, OwnInv, ThreadOK, Mon
<1>8. PICK e \in Event, m \in Record : e = th.event /\ m = Mon(t) /\ th.obj \in Object
  BY <1>1, <1>2, <1>7, WaiterRecord
<1>9. event' \in [Event -> {"closed", "reset", "set"}] /\ event'[e] = "reset"
      /\ \A f \in Event \ {e} : event'[f] = event[f]
  BY <1>1, <1>2, <1>8 DEF BaseType
<1>10. ThreadOK(t)'
  BY <1>2, <1>4, <1>6, <1>7 DEF ThreadOK
<1>11. OwnOK(t)' /\ SemOK(t)'
  <2>1. ~Owns(t, th.obj) /\ (Owns(t, th.obj)' <=> Owns(t, th.obj))
    BY <1>2, <1>7 DEF Owns, OwnOK, Entering
  <2> QED BY <1>4, <1>6, <2>1 DEF OwnOK, SemOK
<1>12. ~Counted(t) /\ ~Counted(t)' /\ \A p \in Object : ~Asleep(t, p)' /\ ~Helps(t, p)
  BY <1>4, <1>6 DEF Counted, Asleep, Helps
<1>13. LockInv'
  BY <1>1, <1>4, <1>5, <1>9, <1>10, <1>11, <1>12, ThreadStep DEF BaseType
<1>14. WaitsWith(t, e, m)
  BY <1>1, <1>2, <1>7, <1>8 DEF WaiterInv, WaiterOK
<1>15. \A f, n : n \in Record => (Listed(f, n)' <=> Listed(f, n))
  BY DEF Listed
<1>16. ListInv'
  BY <1>1, <1>9, <1>15 DEF ListInv, ListOK
<1>17. \A u \in Thread : thread'[u].event = thread[u].event
  BY <1>2, <1>4, <1>6 DEF Others
<1>18. WaiterOK(t)'
  <2>1. event[e] = "set" \/ event[e] = "reset"
    BY <1>1, <1>14 DEF BaseType, WaitsWith
  <2>2. ~th.woken
    BY <1>2, <1>7 DEF ThreadOK
  <2>3. Listed(e, m) <=> ~woken
    BY <1>2, <1>8, <1>14, <2>2 DEF WaitsWith
  <2>4. event'[e] # "closed" /\ (Listed(e, m)' <=> ~(event'[e] = "set" \/ thread'[t].woken))
    BY <1>4, <1>6, <1>9, <1>15, <2>3
  <2>5. WaitsWith(t, e, m)'
    BY <1>14, <1>15, <1>17, <2>4 DEF WaitsWith
  <2> QED BY <1>4, <1>6, <1>7, <1>8, <2>5 DEF WaiterOK
<1>19. ASSUME NEW u \in Thread \ {t} PROVE WaiterOK(u)'
  <2>1. CASE thread[u].event = NULL
    BY <1>17, <2>1 DEF WaiterOK
  <2>2. CASE thread[u].event # NULL
    <3>1. PICK f \in Event, n \in Record : f = thread[u].event /\ n = Mon(u)
      BY <1>1, <2>2, WaiterRecord
    <3>2. WaitsWith(u, f, n) /\ f # e
      BY <1>1, <1>2, <1>8, <2>2, <3>1 DEF WaiterInv, WaiterOK, WaitsWith
    <3>3. thread'[u] = thread[u] /\ Mon(u)' = n
      BY <1>6, <3>1 DEF Others, Mon
    <3>4. WaitsWith(u, f, n)'
      BY <1>9, <1>15, <1>17, <3>2, <3>3 DEF WaitsWith
    <3> QED BY <3>1, <3>3, <3>4 DEF WaiterOK
  <2> QED BY <2>1, <2>2
<1> QED BY <1>13, <1>16, <1>18, <1>19 DEF IInv, WaiterInv

LEMMA WaitEndsInv == ASSUME IInv, NEW t \in Thread, WaitEnds(t) PROVE IInv'
<1>1. BaseType /\ ThreadInv
  BY Unpack
<1>2. thread[t].pc = "waiting"
      /\ UNCHANGED <<synchronisation, mon, monitor_freelist, allocated, freedFast, program>>
  BY DEF WaitEnds, At, records
<1>3. CASE /\ thread[t].interrupt = NULL /\ event[thread[t].event] = "set"
           /\ event' = [event EXCEPT ![thread[t].event] = "reset"]
           /\ thread' = [thread EXCEPT ![t].pc = "retry", ![t].ms = INFINITE, ![t].woken = TRUE]
  BY <1>2, <1>3, RegainInv
<1>4. CASE /\ thread[t].interrupt = NULL /\ event[thread[t].event] = "reset"
           /\ thread' = [thread EXCEPT ![t].pc = "retry", ![t].ms = INFINITE, ![t].woken = FALSE]
           /\ UNCHANGED event
  <2>1. thread[t].event \in Event
    BY <1>1, <1>2, WaiterRecord DEF ThreadInv, ThreadOK
  <2>2. event' = [event EXCEPT ![thread[t].event] = "reset"]
    BY <1>1, <1>4, <2>1 DEF BaseType
  <2> QED BY <1>2, <1>4, <2>2, RegainInv
<1>5. CASE /\ thread[t].interrupt # NULL /\ thread' = [thread EXCEPT ![t] = Idle] /\ UNCHANGED event
  BY <1>2, <1>5, GiveUp
<1> QED BY <1>3, <1>4, <1>5 DEF WaitEnds

-----------------------------------------------------------------------------
\* The steps that change the record of the thread's object.

LEMMA RecordStep ==
    ASSUME IInv, NEW t \in Thread, NEW o \in Object, NEW m \in Record, synchronisation[o] = m,
           NEW r \in SyncState, mon' = [mon EXCEPT ![m] = r],
           NEW s \in ThreadState, thread' = [thread EXCEPT ![t] = s],
           thread[t].obj \in {o, NULL}, s.obj \in {o, NULL},
           UNCHANGED <<synchronisation, monitor_freelist, allocated, program, event>>,
           freedFast' \in [Record -> BOOLEAN], \A n \in Record \ {m} : freedFast'[n] = freedFast[n],
           r.data = mon[m].data, r.wait_list = mon[m].wait_list,
           r.owner \in {mon[m].owner, t, NULL},
           mon[m].owner \notin {t, NULL} => r.owner = mon[m].owner /\ r.nest = mon[m].nest,
           mon[m].entry_sem # NULL => r.entry_sem # NULL,
           r.nest >= 1, r.owner = NULL => r.nest = 1,
           s.event = NULL \/ SameCall(t, s),
           ThreadOK(t)', OwnOK(t)', SemOK(t)', CountMove(t, o, m), StallMove(t, o, m)
    PROVE  IInv'
<1>1. BaseType /\ RecordInv /\ ThreadInv /\ ListInv /\ WaiterInv /\ LockInv
  BY Unpack
<1>2. /\ mon'[m] = r
      /\ \A n \in Record \ {m} : mon'[n] = mon[n]
  BY <1>1, MonEffect
<1>3. thread'[t] = s /\ Others(t)
  BY <1>1, ThreadEffect DEF Others
<1>4. mon[m].data = o /\ o # NULL
  BY <1>1, NullFacts DEF RecordInv
<1>5. KeepsRecord(m, t)
  BY <1>2, <1>4 DEF KeepsRecord, NestOK
<1>6. event' \in [Event -> {"closed", "reset", "set"}]
  BY <1>1 DEF BaseType
<1>7. LockInv'
  BY <1>1, <1>5, <1>6, LockStep
<1>8. \A n \in Record : mon'[n].wait_list = mon[n].wait_list
  BY <1>2
<1>9. \/ thread'[t].event = NULL
      \/ thread'[t].event = thread[t].event /\ thread'[t].woken = thread[t].woken
         /\ thread'[t].obj = thread[t].obj
  BY <1>3 DEF SameCall
<1>10. ListInv' /\ WaiterInv'
  BY <1>1, <1>3, <1>8, <1>9, WaitersKept
<1> QED BY <1>7, <1>10 DEF IInv

LEMMA RegainedState ==
    ASSUME BaseType, ThreadInv, NEW t \in Thread, Acquired(t)
    PROVE  \E s \in ThreadState :
             /\ thread' = [thread EXCEPT ![t] = s]
             /\ \/ s = Idle /\ thread[t].event = NULL
                \/ SameCall(t, s) /\ s.pc = "regained" /\ thread[t].event # NULL
<1>1. PICK th \in ThreadState : th = thread[t]
  BY ThreadType
<1>2. ThreadOK(t)
  BY DEF ThreadInv
<1>3. CASE Waits(th.call)
  <2>1. PICK s : s = [th EXCEPT !.pc = "regained"]
    OBVIOUS
  <2>2. s \in ThreadState /\ s.pc = "regained" /\ s.obj = th.obj /\ s.event = th.event
        /\ s.call = th.call /\ s.woken = th.woken /\ s.nest = th.nest
    BY <2>1 DEF ThreadState, Pc
  <2>3. thread' = [thread EXCEPT ![t] = s]
    BY <1>1, <1>3, <2>1 DEF Acquired, BaseType
  <2>4. th.event # NULL
    BY <1>1, <1>2, <1>3 DEF ThreadOK
  <2> QED BY <1>1, <2>2, <2>3, <2>4 DEF SameCall
<1>4. CASE ~Waits(th.call)
  <2>1. thread' = [thread EXCEPT ![t] = Idle]
    BY <1>1, <1>4 DEF Acquired, BaseType
  <2>2. th.event = NULL
    BY <1>1, <1>2, <1>4 DEF ThreadOK
  <2> QED BY <1>1, <2>1, <2>2, IdleFacts
<1> QED BY <1>3, <1>4

LEMMA AcquireStep ==
    ASSUME IInv, NEW t \in Thread,
           thread[t].pc \in {"owner", "swap", "swap_contended", "again"},
           NEW m \in Record, m = Mon(t),
           NEW r \in SyncState, mon' = [mon EXCEPT ![m] = r],
           r.owner = t, mon[m].owner \in {t, NULL}, r.nest >= 1, thread[t].event # NULL => r.nest = 1,
           r.data = mon[m].data, r.wait_list = mon[m].wait_list, r.entry_sem = mon[m].entry_sem,
           r.entry_count = IF thread[t].pc = "again" THEN mon[m].entry_count - 1 ELSE mon[m].entry_count,
           Acquired(t), UNCHANGED <<synchronisation, monitor_freelist, allocated, program, event, freedFast>>
    PROVE  IInv'
<1>1. BaseType /\ ThreadInv
  BY Unpack
<1>2. PICK s \in ThreadState :
             /\ thread' = [thread EXCEPT ![t] = s]
             /\ \/ s = Idle /\ thread[t].event = NULL
                \/ SameCall(t, s) /\ s.pc = "regained" /\ thread[t].event # NULL
  BY <1>1, RegainedState
<1>3. PICK o \in Object : o = thread[t].obj /\ synchronisation[o] = m
  BY <1>1, InCall
<1>4. thread'[t] = s /\ mon'[m] = r
  BY <1>1, <1>2, ThreadEffect, MonEffect
<1>5. s.obj \in {o, NULL} /\ (s.event = NULL \/ SameCall(t, s)) /\ s.pc \in {"idle", "regained"}
  BY <1>2, <1>3, IdleFacts DEF SameCall
<1>6. m # NULL /\ t # NULL
  BY NullFacts
<1>7. ThreadOK(t)' /\ OwnOK(t)' /\ SemOK(t)'
  <2>1. CASE s = Idle
    BY <1>4, <2>1, CallOver
  <2>2. CASE SameCall(t, s) /\ s.pc = "regained" /\ thread[t].event # NULL
    <3>1. ThreadOK(t)'
      BY <1>1, <1>4, <1>6, <2>2, CallGoesOn
    <3>2. s.obj = o
      BY <1>3, <2>2 DEF SameCall
    <3>3. Mon(t)' = m /\ Owns(t, o)'
      BY <1>3, <1>4, <1>6, <3>2 DEF Mon, Owns
    <3> QED BY <1>4, <2>2, <3>1, <3>2, <3>3 DEF OwnOK, SemOK
  <2> QED BY <1>2, <2>1, <2>2
<1>8. CountMove(t, o, m)
  BY <1>3, <1>4, <1>5 DEF CountMove, Counted
<1>9. StallMove(t, o, m)
  BY <1>4, <1>6 DEF StallMove
<1>10. freedFast' \in [Record -> BOOLEAN] /\ \A n \in Record \ {m} : freedFast'[n] = freedFast[n]
  BY <1>1 DEF BaseType
<1>11. thread[t].obj \in {o, NULL} /\ r.owner \in {mon[m].owner, t, NULL}
  BY <1>3
<1>12. mon[m].entry_sem # NULL => r.entry_sem # NULL
  OBVIOUS
<1>13. r.owner = NULL => r.nest = 1
  BY <1>6
<1> QED BY <1>2, <1>3, <1>5, <1>7, <1>8, <1>9, <1>10, <1>11, <1>12, <1>13, RecordStep

LEMMA EnterAgainInv == ASSUME IInv, NEW t \in Thread, EnterAgain(t) PROVE IInv'
<1>1. BaseType /\ ThreadInv /\ OwnInv /\ NestInv /\ RecordInv
  BY Unpack
<1>2. /\ thread[t].pc = "owner" /\ mon[Mon(t)].owner = t /\ Acquired(t)
      /\ mon' = [mon EXCEPT ![Mon(t)].nest = @ + 1]
      /\ UNCHANGED <<synchronisation, monitor_freelist, allocated, program, event, freedFast>>
  BY DEF EnterAgain, At, records
<1>3. PICK m \in Record, o \in Object : m = Mon(t) /\ o = thread[t].obj /\ synchronisation[o] = m
  BY <1>1, <1>2, InCall
<1>4. PICK n : n = mon[m]
  OBVIOUS
<1>5. n \in SyncState /\ n.nest \in 0..program.nest /\ program.nest \in Nat
  BY <1>1, <1>4, MonType, ProgramType
<1>6. PICK r : r = [n EXCEPT !.nest = n.nest + 1]
  OBVIOUS
<1>7. Owns(t, o)
  BY <1>2, <1>3, NullFacts DEF Owns
<1>8. thread[t].event = NULL /\ n.nest < program.nest
  BY <1>1, <1>2, <1>3, <1>4, <1>7 DEF OwnInv, OwnOK, Entering
<1>9. r \in SyncState /\ r.owner = n.owner /\ r.nest = n.nest + 1 /\ r.entry_count = n.entry_count
      /\ r.entry_sem = n.entry_sem /\ r.wait_list = n.wait_list /\ r.data = n.data
  <2>1. n.nest + 1 \in 0..program.nest
    BY <1>5, <1>8
  <2> QED BY <1>5, <1>6, <2>1 DEF SyncState
<1>10. mon' = [mon EXCEPT ![m] = r]
  BY <1>1, <1>2, <1>3, <1>4, <1>6 DEF BaseType
<1>11. /\ r.owner = t /\ mon[m].owner \in {t, NULL} /\ r.nest >= 1
       /\ thread[t].event # NULL => r.nest = 1
       /\ r.data = mon[m].data /\ r.wait_list = mon[m].wait_list /\ r.entry_sem = mon[m].entry_sem
       /\ r.entry_count = IF thread[t].pc = "again" THEN mon[m].entry_count - 1 ELSE mon[m].entry_count
  BY <1>2, <1>3, <1>4, <1>5, <1>8, <1>9
<1>12. r \in SyncState /\ Acquired(t) /\ thread[t].pc = "owner"
       /\ UNCHANGED <<synchronisation, monitor_freelist, allocated, program, event, freedFast>>
  BY <1>2, <1>9
<1> QED BY <1>3, <1>10, <1>11, <1>12, AcquireStep

\* A record that an object has, when nobody owns it.
LEMMA FreeRecord ==
    ASSUME BaseType, RecordInv, NestInv, NEW o \in Object, NEW m \in Record, synchronisation[o] = m
    PROVE  mon[m].data = o /\ o # NULL /\ mon[m].nest \in Nat /\ mon[m].nest >= 1
           /\ (mon[m].owner = NULL => mon[m].nest = 1)
<1>1. mon[m].data = o /\ o # NULL
  BY NullFacts DEF RecordInv
<1>2. mon[m].nest \in Nat
  BY MonType, ProgramType
<1> QED BY <1>1, <1>2 DEF NestInv, NestOK

LEMMA SwapInv == ASSUME IInv, NEW t \in Thread, Swap(t) PROVE IInv'
<1>1. BaseType /\ ThreadInv /\ NestInv /\ RecordInv
  BY Unpack
<1>2. /\ thread[t].pc \in {"swap", "swap_contended"}
      /\ UNCHANGED <<synchronisation, monitor_freelist, allocated, program, event, freedFast>>
  BY DEF Swap, At, records
<1>3. PICK m \in Record, o \in Object : m = Mon(t) /\ o = thread[t].obj /\ synchronisation[o] = m
  BY <1>1, <1>2, InCall
<1>4. CASE mon[Mon(t)].owner = NULL /\ mon' = [mon EXCEPT ![Mon(t)].owner = t] /\ Acquired(t)
  <2>1. PICK n : n = mon[m]
    OBVIOUS
  <2>2. PICK r : r = [n EXCEPT !.owner = t]
    OBVIOUS
  <2>3. n \in SyncState /\ n.nest = 1
    BY <1>1, <1>3, <1>4, <2>1, MonType, FreeRecord
  <2>4. r \in SyncState /\ r.owner = t /\ r.nest = n.nest /\ r.entry_count = n.entry_count
        /\ r.entry_sem = n.entry_sem /\ r.wait_list = n.wait_list /\ r.data = n.data
    BY <2>2, <2>3 DEF SyncState
  <2>5. mon' = [mon EXCEPT ![m] = r]
    BY <1>1, <1>3, <1>4, <2>1, <2>2 DEF BaseType
  <2>6. /\ r.owner = t /\ mon[m].owner \in {t, NULL} /\ r.nest >= 1
        /\ thread[t].event # NULL => r.nest = 1
        /\ r.data = mon[m].data /\ r.wait_list = mon[m].wait_list /\ r.entry_sem = mon[m].entry_sem
        /\ r.entry_count = IF thread[t].pc = "again" THEN mon[m].entry_count - 1 ELSE mon[m].entry_count
    BY <1>2, <1>3, <1>4, <2>1, <2>3, <2>4
  <2> QED BY <1>2, <1>3, <1>4, <2>4, <2>5, <2>6, AcquireStep
<1>5. CASE mon[Mon(t)].owner # NULL /\ UNCHANGED mon
           /\ GoTo(t, IF At(t, "swap") THEN "retry" ELSE "semaphore")
  BY <1>2, <1>5, SwapFails DEF At
<1> QED BY <1>4, <1>5 DEF Swap

LEMMA SwapAgainInv == ASSUME IInv, NEW t \in Thread, SwapAgain(t) PROVE IInv'
<1>1. BaseType /\ ThreadInv /\ NestInv /\ RecordInv /\ CountInv
  BY Unpack
<1>2. /\ thread[t].pc = "again"
      /\ UNCHANGED <<synchronisation, monitor_freelist, allocated, program, event, freedFast>>
  BY DEF SwapAgain, At, records
<1>3. PICK m \in Record, o \in Object : m = Mon(t) /\ o = thread[t].obj /\ synchronisation[o] = m
  BY <1>1, <1>2, InCall
<1>4. CASE mon[Mon(t)].owner = NULL /\ Acquired(t)
           /\ mon' = [mon EXCEPT ![Mon(t)].owner = t, ![Mon(t)].entry_count = @ - 1]
  <2>1. PICK n : n = mon[m]
    OBVIOUS
  <2>2. PICK r : r = [n EXCEPT !.owner = t, !.entry_count = n.entry_count - 1]
    OBVIOUS
  <2>3. n \in SyncState /\ n.nest = 1 /\ n.entry_count \in Nat
    BY <1>1, <1>3, <1>4, <2>1, MonType, FreeRecord
  <2>4. n.entry_count > 0
    BY <1>1, <1>2, <1>3, <2>1, NullFacts, CountPositive DEF Counted
  <2>5. r \in SyncState /\ r.owner = t /\ r.nest = n.nest /\ r.entry_count = n.entry_count - 1
        /\ r.entry_sem = n.entry_sem /\ r.wait_list = n.wait_list /\ r.data = n.data
    <3>1. n.entry_count - 1 \in Nat
      BY <2>3, <2>4
    <3> QED BY <2>2, <2>3, <3>1 DEF SyncState
  <2>6. mon' = [mon EXCEPT ![m] = r]
    BY <1>1, <1>3, <1>4, <2>1, <2>2, <2>3 DEF BaseType, SyncState
  <2>7. /\ r.owner = t /\ mon[m].owner \in {t, NULL} /\ r.nest >= 1
        /\ thread[t].event # NULL => r.nest = 1
        /\ r.data = mon[m].data /\ r.wait_list = mon[m].wait_list /\ r.entry_sem = mon[m].entry_sem
        /\ r.entry_count = IF thread[t].pc = "again" THEN mon[m].entry_count - 1 ELSE mon[m].entry_count
    BY <1>2, <1>3, <1>4, <2>1, <2>3, <2>5
  <2> QED BY <1>2, <1>3, <1>4, <2>5, <2>6, <2>7, AcquireStep
<1>5. CASE mon[Mon(t)].owner # NULL /\ UNCHANGED mon /\ GoTo(t, "asleep")
  BY <1>2, <1>5, SwapFails
<1> QED BY <1>4, <1>5 DEF SwapAgain

\* A step on the record by a thread that does not own it.
LEMMA ContenderStep ==
    ASSUME IInv, NEW t \in Thread, NEW m \in Record, m = Mon(t), NEW o \in Object, o = thread[t].obj,
           thread[t].pc \in {"semaphore", "count", "asleep", "awake"},
           NEW r \in SyncState, mon' = [mon EXCEPT ![m] = r],
           r.owner = mon[m].owner, r.nest = mon[m].nest, r.data = mon[m].data,
           r.wait_list = mon[m].wait_list, mon[m].entry_sem # NULL => r.entry_sem # NULL,
           NEW s \in ThreadState, thread' = [thread EXCEPT ![t] = s],
           \/ s = Idle /\ thread[t].pc = "awake"
           \/ /\ SameCall(t, s)
              /\ s.pc \in {"retry", "contended", "count", "again", "awake"}
              /\ s.pc \in {"count", "again", "awake"} => r.entry_sem # NULL,
           UNCHANGED <<synchronisation, monitor_freelist, allocated, program, event, freedFast>>,
           CountMove(t, o, m), StallMove(t, o, m)
    PROVE  IInv'
<1>1. BaseType /\ ThreadInv /\ OwnInv /\ NestInv /\ RecordInv
  BY Unpack
<1>2. synchronisation[o] = m /\ m # NULL
  BY <1>1, InCall, NullFacts
<1>3. thread'[t] = s /\ mon'[m] = r
  BY <1>1, ThreadEffect, MonEffect
<1>4. ThreadOK(t)' /\ OwnOK(t)' /\ SemOK(t)' /\ s.obj \in {o, NULL} /\ (s.event = NULL \/ SameCall(t, s))
  <2>1. CASE s = Idle
    BY <1>3, <2>1, CallOver, IdleFacts
  <2>2. CASE SameCall(t, s) /\ s.pc \in {"retry", "contended", "count", "again", "awake"}
             /\ (s.pc \in {"count", "again", "awake"} => r.entry_sem # NULL)
    <3>1. ThreadOK(t)'
      BY <1>1, <1>2, <1>3, <2>2, CallGoesOn
    <3>2. s.obj = o /\ Mon(t)' = m
      BY <1>2, <1>3, <2>2 DEF SameCall, Mon
    <3>3. ~Owns(t, o)
      BY <1>1 DEF OwnInv, OwnOK, Entering
    <3>4. ~Owns(t, o)'
      BY <1>2, <1>3, <3>3 DEF Owns
    <3> QED BY <1>3, <2>2, <3>1, <3>2, <3>4 DEF OwnOK, SemOK
  <2> QED BY <2>1, <2>2
<1>5. freedFast' \in [Record -> BOOLEAN] /\ \A n \in Record \ {m} : freedFast'[n] = freedFast[n]
  BY <1>1 DEF BaseType
<1>6. r.nest >= 1 /\ (r.owner = NULL => r.nest = 1)
  BY <1>1, <1>2, FreeRecord
<1>7. thread[t].obj \in {o, NULL} /\ r.owner \in {mon[m].owner, t, NULL}
      /\ (mon[m].owner \notin {t, NULL} => r.owner = mon[m].owner /\ r.nest = mon[m].nest)
  OBVIOUS
<1> QED BY <1>2, <1>4, <1>5, <1>6, <1>7, RecordStep

LEMMA CreateSemInv == ASSUME IInv, NEW t \in Thread, CreateSem(t) PROVE IInv'
<1>1. BaseType /\ ThreadInv
  BY Unpack
<1>2. /\ thread[t].pc = "semaphore" /\ GoTo(t, "count")
      /\ mon' = [mon EXCEPT ![Mon(t)].entry_sem = IF @ = NULL THEN 0 ELSE @]
      /\ UNCHANGED <<synchronisation, monitor_freelist, allocated, program, event, freedFast>>
  BY DEF CreateSem, At, records
<1>3. PICK m \in Record, o \in Object : m = Mon(t) /\ o = thread[t].obj
  BY <1>1, <1>2, InCall
<1>4. PICK s \in ThreadState : /\ thread' = [thread EXCEPT ![t] = s] /\ SameCall(t, s)
                               /\ s.pc = "count" /\ s.ret = thread[t].ret
  BY <1>1, <1>2, GoToState DEF Pc
<1>5. PICK n \in SyncState : n = mon[m]
  BY <1>1, MonType
<1>6. PICK k \in 0..SEM_MAX : k = IF n.entry_sem = NULL THEN 0 ELSE n.entry_sem
  BY <1>1, <1>5, MonType, NullFacts
<1>7. PICK r : r = [n EXCEPT !.entry_sem = k]
  OBVIOUS
<1>8. r \in SyncState /\ r.owner = n.owner /\ r.nest = n.nest /\ r.entry_count = n.entry_count
      /\ r.entry_sem = k /\ r.wait_list = n.wait_list /\ r.data = n.data
  BY <1>5, <1>6, <1>7 DEF SyncState
<1>9. mon' = [mon EXCEPT ![m] = r]
  BY <1>1, <1>2, <1>3, <1>5, <1>6, <1>7 DEF BaseType
<1>10. thread'[t] = s /\ mon'[m] = r /\ s.obj = o
  BY <1>1, <1>3, <1>4, <1>8, <1>9, ThreadEffect, MonEffect DEF SameCall
<1>11. r.entry_sem # NULL
  BY <1>6, <1>8, NullFacts
<1>12. CountMove(t, o, m)
  BY <1>2, <1>4, <1>5, <1>8, <1>10 DEF CountMove, Counted
<1>13. StallMove(t, o, m)
  BY <1>4, <1>10 DEF StallMove, Helps
<1>14. r.owner = mon[m].owner /\ r.nest = mon[m].nest /\ r.data = mon[m].data
       /\ r.wait_list = mon[m].wait_list
  BY <1>5, <1>8
<1> QED BY <1>2, <1>3, <1>4, <1>8, <1>9, <1>11, <1>12, <1>13, <1>14, ContenderStep

LEMMA CountEntryInv == ASSUME IInv, NEW t \in Thread, CountEntry(t) PROVE IInv'
<1>1. BaseType /\ ThreadInv /\ SemInv
  BY Unpack
<1>2. /\ thread[t].pc = "count" /\ GoTo(t, "again")
      /\ mon' = [mon EXCEPT ![Mon(t)].entry_count = @ + 1]
      /\ UNCHANGED <<synchronisation, monitor_freelist, allocated, program, event, freedFast>>
  BY DEF CountEntry, At, records
<1>3. PICK m \in Record, o \in Object : m = Mon(t) /\ o = thread[t].obj
  BY <1>1, <1>2, InCall
<1>4. PICK s \in ThreadState : /\ thread' = [thread EXCEPT ![t] = s] /\ SameCall(t, s)
                               /\ s.pc = "again" /\ s.ret = thread[t].ret
  BY <1>1, <1>2, GoToState DEF Pc
<1>5. PICK n \in SyncState : n = mon[m]
  BY <1>1, MonType
<1>6. n.entry_count + 1 \in Nat
  BY <1>1, <1>5, MonType
<1>7. PICK r : r = [n EXCEPT !.entry_count = n.entry_count + 1]
  OBVIOUS
<1>8. r \in SyncState /\ r.owner = n.owner /\ r.nest = n.nest /\ r.entry_count = n.entry_count + 1
      /\ r.entry_sem = n.entry_sem /\ r.wait_list = n.wait_list /\ r.data = n.data
  BY <1>5, <1>6, <1>7 DEF SyncState
<1>9. mon' = [mon EXCEPT ![m] = r]
  BY <1>1, <1>2, <1>3, <1>5, <1>7 DEF BaseType
<1>10. thread'[t] = s /\ mon'[m] = r /\ s.obj = o
  BY <1>1, <1>3, <1>4, <1>8, <1>9, ThreadEffect, MonEffect DEF SameCall
<1>11. r.entry_sem # NULL
  BY <1>1, <1>2, <1>3, <1>5, <1>8 DEF SemInv, SemOK
<1>12. CountMove(t, o, m)
  BY <1>2, <1>4, <1>5, <1>8, <1>10 DEF CountMove, Counted
<1>13. StallMove(t, o, m)
  BY <1>4, <1>10 DEF StallMove, Helps
<1>14. r.owner = mon[m].owner /\ r.nest = mon[m].nest /\ r.data = mon[m].data
       /\ r.wait_list = mon[m].wait_list
  BY <1>5, <1>8
<1> QED BY <1>2, <1>3, <1>4, <1>8, <1>9, <1>11, <1>12, <1>13, <1>14, ContenderStep

LEMMA SleepInv == ASSUME IInv, NEW t \in Thread, Sleep(t) PROVE IInv'
<1>1. BaseType /\ ThreadInv /\ SemInv
  BY Unpack
<1>2. /\ thread[t].pc = "asleep"
      /\ UNCHANGED <<synchronisation, monitor_freelist, allocated, program, event, freedFast>>
  BY DEF Sleep, At, records
<1>3. CASE mon[Mon(t)].entry_sem > 0 /\ Wakes(t, "WAIT_OBJECT_0")
           /\ mon' = [mon EXCEPT ![Mon(t)].entry_sem = @ - 1]
  <2>1. PICK m \in Record, o \in Object : m = Mon(t) /\ o = thread[t].obj
    BY <1>1, <1>2, InCall
  <2>2. PICK s \in ThreadState : /\ thread' = [thread EXCEPT ![t] = s] /\ SameCall(t, s)
                                 /\ s.pc = "awake" /\ s.ret = "WAIT_OBJECT_0"
    BY <1>1, <1>3, WakesState
  <2>3. PICK n \in SyncState : n = mon[m]
    BY <1>1, MonType
  <2>4. n.entry_sem \in 0..SEM_MAX /\ SEM_MAX \in Nat
    BY <1>1, <1>2, <2>1, <2>3, MonType, NullFacts DEF SemInv, SemOK
  <2>5. PICK k \in 0..SEM_MAX : k = n.entry_sem - 1
    BY <1>3, <2>1, <2>3, <2>4
  <2>6. PICK r : r = [n EXCEPT !.entry_sem = k]
    OBVIOUS
  <2>7. r \in SyncState /\ r.owner = n.owner /\ r.nest = n.nest /\ r.entry_count = n.entry_count
        /\ r.entry_sem = k /\ r.wait_list = n.wait_list /\ r.data = n.data
    BY <2>3, <2>5, <2>6 DEF SyncState
  <2>8. mon' = [mon EXCEPT ![m] = r]
    BY <1>1, <1>3, <2>1, <2>3, <2>5, <2>6 DEF BaseType
  <2>9. thread'[t] = s /\ mon'[m] = r /\ s.obj = o
    BY <1>1, <2>1, <2>2, <2>7, <2>8, ThreadEffect, MonEffect DEF SameCall
  <2>10. r.entry_sem # NULL
    BY <2>4, <2>5, <2>7, NullFacts
  <2>11. CountMove(t, o, m)
    BY <1>2, <2>1, <2>2, <2>3, <2>7, <2>9 DEF CountMove, Counted
  <2>12. StallMove(t, o, m)
    BY <2>2, <2>9 DEF StallMove, Helps
  <2>13. r.owner = mon[m].owner /\ r.nest = mon[m].nest /\ r.data = mon[m].data
         /\ r.wait_list = mon[m].wait_list
    BY <2>3, <2>7
  <2> QED BY <1>2, <2>1, <2>2, <2>7, <2>8, <2>10, <2>11, <2>12, <2>13, ContenderStep
<1>4. CASE Wakes(t, "WAIT_TIMEOUT") /\ UNCHANGED mon
  BY <1>2, <1>4, SleepEnds
<1>5. CASE Wakes(t, "WAIT_IO_COMPLETION") /\ UNCHANGED mon
  BY <1>2, <1>5, SleepEnds
<1> QED BY <1>3, <1>4, <1>5 DEF Sleep

LEMMA AwakeState ==
    ASSUME BaseType, NEW t \in Thread, AfterSleep(t)
    PROVE  \E s \in ThreadState :
             /\ thread' = [thread EXCEPT ![t] = s]
             /\ \/ s = Idle /\ thread[t].ret # "WAIT_OBJECT_0"
                \/ SameCall(t, s) /\ s.pc = "retry" /\ thread[t].ret # "WAIT_OBJECT_0"
                \/ SameCall(t, s) /\ s.pc = "contended"
<1>1. PICK th \in ThreadState : th = thread[t]
  BY ThreadType
<1>2. "retry" \in Pc /\ "contended" \in Pc /\ INFINITE \in 0..INFINITE
  BY DEF Pc, INFINITE
<1>3. th.ms \in 0..INFINITE
  BY <1>1, ThreadType
<1>4. PICK left \in IF th.ms = INFINITE THEN {INFINITE} ELSE 0..th.ms :
        \/ Retry(t, left)
        \/ th.ret # "WAIT_OBJECT_0" /\ (Interrupted(t) \/ Failed(t))
  BY <1>1 DEF AfterSleep
<1>5. left \in 0..INFINITE
  BY <1>2, <1>3, <1>4 DEF INFINITE
<1>6. CASE Retry(t, left)
  <2>1. PICK x \in {"abort", "suspend", "served", NULL} :
          x = IF th.ret = "WAIT_IO_COMPLETION" THEN "served" ELSE th.interrupt
    BY <1>1, ThreadType
  <2>2. PICK s : s = [th EXCEPT !.pc = "contended", !.ms = left, !.ret = NULL, !.interrupt = x]
    OBVIOUS
  <2>3. s \in ThreadState /\ s.pc = "contended" /\ s.obj = th.obj /\ s.event = th.event
        /\ s.call = th.call /\ s.woken = th.woken /\ s.nest = th.nest
    BY <1>2, <1>5, <2>1, <2>2 DEF ThreadState
  <2>4. thread' = [thread EXCEPT ![t] = s]
    BY <1>1, <1>6, <2>1, <2>2 DEF Retry, BaseType
  <2> QED BY <1>1, <2>3, <2>4 DEF SameCall
<1>7. CASE th.ret # "WAIT_OBJECT_0" /\ Interrupted(t)
  <2>1. CASE AllowInterruption(t) /\ th.interrupt = "suspend"
    <3>1. PICK k \in 0..INFINITE : k = IF Waits(th.call) THEN INFINITE ELSE Timeout(th.call)
      BY <1>2, TimeoutType
    <3>2. PICK s : s = [th EXCEPT !.pc = "retry", !.interrupt = NULL, !.ret = NULL, !.ms = k]
      OBVIOUS
    <3>3. s \in ThreadState /\ s.pc = "retry" /\ s.obj = th.obj /\ s.event = th.event
          /\ s.call = th.call /\ s.woken = th.woken /\ s.nest = th.nest
      BY <1>2, <3>1, <3>2 DEF ThreadState
    <3>4. thread' = [thread EXCEPT ![t] = s]
      BY <1>1, <1>7, <2>1, <3>1, <3>2 DEF Interrupted
    <3> QED BY <1>1, <1>7, <3>3, <3>4 DEF SameCall
  <2>2. CASE ~(AllowInterruption(t) /\ th.interrupt = "suspend")
    <3>1. thread' = [thread EXCEPT ![t] = Idle]
      BY <1>1, <1>7, <2>2 DEF Interrupted
    <3> QED BY <1>1, <1>7, <3>1, IdleFacts
  <2> QED BY <2>1, <2>2
<1>8. CASE th.ret # "WAIT_OBJECT_0" /\ Failed(t)
  BY <1>1, <1>8, IdleFacts DEF Failed
<1> QED BY <1>4, <1>6, <1>7, <1>8

LEMMA AfterSleepInv == ASSUME IInv, NEW t \in Thread, AfterSleep(t) PROVE IInv'
<1>1. BaseType /\ ThreadInv /\ CountInv
  BY Unpack
<1>2. /\ thread[t].pc = "awake" /\ mon' = [mon EXCEPT ![Mon(t)].entry_count = @ - 1]
      /\ UNCHANGED <<synchronisation, monitor_freelist, allocated, program, event, freedFast>>
  BY DEF AfterSleep, At, records
<1>3. PICK m \in Record, o \in Object : m = Mon(t) /\ o = thread[t].obj
  BY <1>1, <1>2, InCall
<1>4. PICK s \in ThreadState :
             /\ thread' = [thread EXCEPT ![t] = s]
             /\ \/ s = Idle /\ thread[t].ret # "WAIT_OBJECT_0"
                \/ SameCall(t, s) /\ s.pc = "retry" /\ thread[t].ret # "WAIT_OBJECT_0"
                \/ SameCall(t, s) /\ s.pc = "contended"
  BY <1>1, AwakeState
<1>5. PICK n \in SyncState : n = mon[m]
  BY <1>1, MonType
<1>6. n.entry_count - 1 \in Nat
  <2>1. n.entry_count > 0
    BY <1>1, <1>2, <1>3, <1>5, NullFacts, CountPositive DEF Counted
  <2> QED BY <1>1, <1>5, <2>1, MonType
<1>7. PICK r : r = [n EXCEPT !.entry_count = n.entry_count - 1]
  OBVIOUS
<1>8. r \in SyncState /\ r.owner = n.owner /\ r.nest = n.nest /\ r.entry_count = n.entry_count - 1
      /\ r.entry_sem = n.entry_sem /\ r.wait_list = n.wait_list /\ r.data = n.data
  BY <1>5, <1>6, <1>7 DEF SyncState
<1>9. mon' = [mon EXCEPT ![m] = r]
  BY <1>1, <1>2, <1>3, <1>5, <1>7 DEF BaseType
<1>10. thread'[t] = s /\ mon'[m] = r
  BY <1>1, <1>4, <1>8, <1>9, ThreadEffect, MonEffect
<1>11. s.pc \in {"idle", "retry", "contended"} /\ (s.pc = "contended" => s.obj = o)
  BY <1>3, <1>4, IdleFacts DEF SameCall
<1>12. CountMove(t, o, m)
  BY <1>2, <1>3, <1>5, <1>8, <1>10, <1>11 DEF CountMove, Counted
<1>13. StallMove(t, o, m)
  <2>1. CASE s.pc = "contended"
    BY <1>10, <1>11, <2>1 DEF StallMove, Helps
  <2>2. CASE s.pc # "contended"
    <3>1. ~Helps(t, o) /\ ~Asleep(t, o)'
      BY <1>2, <1>4, <1>10, <1>11, <2>2 DEF Helps, Asleep
    <3> QED BY <1>2, <1>5, <1>8, <1>10, <3>1 DEF StallMove
  <2> QED BY <2>1, <2>2
<1>14. r.owner = mon[m].owner /\ r.nest = mon[m].nest /\ r.data = mon[m].data
       /\ r.wait_list = mon[m].wait_list /\ (mon[m].entry_sem # NULL => r.entry_sem # NULL)
  BY <1>5, <1>8
<1>15. \/ s = Idle
       \/ SameCall(t, s) /\ s.pc \in {"retry", "contended"}
  BY <1>4
<1> QED BY <1>2, <1>3, <1>4, <1>8, <1>9, <1>12, <1>13, <1>14, <1>15, ContenderStep

LEMMA ExitNestedInv ==
    ASSUME IInv, NEW t \in Thread, NEW o \in Object, ExitNested(t, o)
    PROVE  IInv'
<1>1. BaseType /\ ThreadInv /\ OwnInv /\ NestInv /\ RecordInv
  BY Unpack
<1>2. /\ At(t, "idle") /\ Owns(t, o) /\ mon[synchronisation[o]].nest > 1
      /\ mon' = [mon EXCEPT ![synchronisation[o]].nest = @ - 1]
      /\ UNCHANGED <<synchronisation, monitor_freelist, allocated, program, event, thread, freedFast>>
  BY DEF ExitNested, records
<1>3. PICK m \in Record : m = synchronisation[o] /\ mon[m].owner = t
  BY <1>1, <1>2, OwnedRecord
<1>4. thread[t] = Idle /\ ~Counted(t) /\ \A p \in Object : ~Helps(t, p) /\ ~Asleep(t, p)
  BY <1>1, <1>2, IdleThread
<1>5. PICK n \in SyncState : n = mon[m]
  BY <1>1, MonType
<1>6. n.nest - 1 \in 0..program.nest /\ n.nest - 1 >= 1
  BY <1>1, <1>2, <1>3, <1>5, MonType, ProgramType
<1>7. PICK r : r = [n EXCEPT !.nest = n.nest - 1]
  OBVIOUS
<1>8. r \in SyncState /\ r.owner = n.owner /\ r.nest = n.nest - 1 /\ r.entry_count = n.entry_count
      /\ r.entry_sem = n.entry_sem /\ r.wait_list = n.wait_list /\ r.data = n.data
  BY <1>5, <1>6, <1>7 DEF SyncState
<1>9. mon' = [mon EXCEPT ![m] = r]
  BY <1>1, <1>2, <1>3, <1>5, <1>7 DEF BaseType
<1>10. Idle \in ThreadState /\ thread' = [thread EXCEPT ![t] = Idle]
  BY <1>1, <1>2, <1>4, IdleFacts DEF BaseType
<1>11. thread'[t] = Idle /\ mon'[m] = r
  BY <1>1, <1>8, <1>9, <1>10, ThreadEffect, MonEffect
<1>12. ThreadOK(t)' /\ OwnOK(t)' /\ SemOK(t)' /\ ~Counted(t)'
  BY <1>11, CallOver
<1>13. CountMove(t, o, m)
  BY <1>4, <1>5, <1>8, <1>11, <1>12 DEF CountMove
<1>14. StallMove(t, o, m)
  BY <1>3, <1>5, <1>8, <1>11, NullFacts DEF StallMove
<1>15. freedFast' \in [Record -> BOOLEAN] /\ \A k \in Record \ {m} : freedFast'[k] = freedFast[k]
  BY <1>1, <1>2 DEF BaseType
<1>16. r.data = mon[m].data /\ r.wait_list = mon[m].wait_list
       /\ r.owner \in {mon[m].owner, t, NULL} /\ mon[m].owner \in {t, NULL}
       /\ (mon[m].entry_sem # NULL => r.entry_sem # NULL) /\ r.nest >= 1
       /\ (r.owner = NULL => r.nest = 1)
  BY <1>3, <1>5, <1>6, <1>8, NullFacts
<1>17. thread[t].obj \in {o, NULL} /\ Idle.obj \in {o, NULL} /\ Idle.event = NULL
  BY <1>4, IdleFacts
<1> QED BY <1>2, <1>3, <1>8, <1>9, <1>10, <1>12, <1>13, <1>14, <1>15, <1>16, <1>17, RecordStep

LEMMA ExitLastInv ==
    ASSUME IInv, NEW t \in Thread, NEW o \in Object, ExitLast(t, o)
    PROVE  IInv'
<1>1. BaseType /\ ThreadInv /\ OwnInv /\ NestInv /\ RecordInv
  BY Unpack
<1>2. PICK s : s = [Idle EXCEPT !.pc = "wakeup", !.call = "Exit", !.obj = o]
  OBVIOUS
<1>3. /\ s \in ThreadState /\ s.pc = "wakeup" /\ s.call = "Exit" /\ s.obj = o /\ s.event = NULL
      /\ s.woken = FALSE
  <2>1. "wakeup" \in Pc /\ "Exit" \in Call
    BY DEF Pc, Call
  <2>2. s \in ThreadState
    BY <1>1, <1>2, <2>1, IdleFacts DEF ThreadState
  <2> QED BY <1>2, <2>2, IdleFacts DEF ThreadState, Idle
<1>4. /\ At(t, "idle") /\ Owns(t, o) /\ mon[synchronisation[o]].nest = 1
      /\ mon' = [mon EXCEPT ![synchronisation[o]].owner = NULL]
      /\ freedFast' = [freedFast EXCEPT ![synchronisation[o]] = FALSE]
      /\ thread' = [thread EXCEPT ![t] = s]
      /\ UNCHANGED <<synchronisation, monitor_freelist, allocated, program, event>>
  BY <1>2 DEF ExitLast, records
<1>5. PICK m \in Record : m = synchronisation[o] /\ mon[m].owner = t
  BY <1>1, <1>4, OwnedRecord
<1>6. thread[t] = Idle /\ ~Counted(t)
  BY <1>1, <1>4, IdleThread
<1>7. PICK n \in SyncState : n = mon[m]
  BY <1>1, MonType
<1>8. PICK r : r = [n EXCEPT !.owner = NULL]
  OBVIOUS
<1>9. r \in SyncState /\ r.owner = NULL /\ r.nest = n.nest /\ r.entry_count = n.entry_count
      /\ r.entry_sem = n.entry_sem /\ r.wait_list = n.wait_list /\ r.data = n.data
  BY <1>7, <1>8 DEF SyncState
<1>10. mon' = [mon EXCEPT ![m] = r]
  BY <1>1, <1>4, <1>5, <1>7, <1>8 DEF BaseType
<1>11. thread'[t] = s /\ mon'[m] = r
  BY <1>1, <1>3, <1>4, <1>9, <1>10, ThreadEffect, MonEffect
<1>12. Mon(t)' = m /\ ~Owns(t, o)'
  BY <1>3, <1>4, <1>5, <1>9, <1>11, NullFacts DEF Mon, Owns
<1>13. ThreadOK(t)' /\ OwnOK(t)' /\ SemOK(t)' /\ ~Counted(t)'
  BY <1>3, <1>11, <1>12, NullFacts DEF ThreadOK, OwnOK, SemOK, Counted, Waits
<1>14. CountMove(t, o, m)
  BY <1>6, <1>7, <1>9, <1>11, <1>13 DEF CountMove
<1>15. StallMove(t, o, m)
  BY <1>3, <1>11 DEF StallMove, Helps
<1>16. freedFast' \in [Record -> BOOLEAN] /\ \A k \in Record \ {m} : freedFast'[k] = freedFast[k]
  BY <1>1, <1>4, <1>5 DEF BaseType
<1>17. r.data = mon[m].data /\ r.wait_list = mon[m].wait_list
       /\ r.owner \in {mon[m].owner, t, NULL} /\ mon[m].owner \in {t, NULL}
       /\ (mon[m].entry_sem # NULL => r.entry_sem # NULL) /\ r.nest = 1 /\ r.nest >= 1
  BY <1>4, <1>5, <1>7, <1>9
<1>18. thread[t].obj \in {o, NULL} /\ s.obj \in {o, NULL}
  BY <1>3, <1>6, IdleFacts
<1>19. r \in SyncState /\ s \in ThreadState /\ s.event = NULL /\ thread' = [thread EXCEPT ![t] = s]
       /\ UNCHANGED <<synchronisation, monitor_freelist, allocated, program, event>>
  BY <1>3, <1>4, <1>9
<1> QED BY <1>5, <1>10, <1>13, <1>14, <1>15, <1>16, <1>17, <1>18, <1>19, RecordStep

LEMMA FastFreeInv == ASSUME IInv, NEW t \in Thread, FastFree(t) PROVE IInv'
<1>1. BaseType /\ ThreadInv /\ OwnInv
  BY Unpack
<1>2. /\ thread[t].pc = "fast_exit"
      /\ mon' = [mon EXCEPT ![Mon(t)].owner = NULL]
      /\ freedFast' = [freedFast EXCEPT ![Mon(t)] = TRUE]
      /\ thread' = [thread EXCEPT ![t] = Idle]
      /\ UNCHANGED <<synchronisation, monitor_freelist, allocated, program, event>>
  BY DEF FastFree, At, records
<1>3. PICK m \in Record, o \in Object : m = Mon(t) /\ o = thread[t].obj /\ synchronisation[o] = m
  BY <1>1, <1>2, InCall
<1>4. mon[m].owner = t /\ mon[m].nest = 1
  BY <1>1, <1>2, <1>3 DEF OwnInv, OwnOK, Owns
<1>5. PICK n \in SyncState : n = mon[m]
  BY <1>1, MonType
<1>6. PICK r : r = [n EXCEPT !.owner = NULL]
  OBVIOUS
<1>7. r \in SyncState /\ r.owner = NULL /\ r.nest = n.nest /\ r.entry_count = n.entry_count
      /\ r.entry_sem = n.entry_sem /\ r.wait_list = n.wait_list /\ r.data = n.data
  BY <1>5, <1>6 DEF SyncState
<1>8. mon' = [mon EXCEPT ![m] = r]
  BY <1>1, <1>2, <1>3, <1>5, <1>6 DEF BaseType
<1>9. Idle \in ThreadState /\ Idle.obj = NULL /\ Idle.event = NULL
  BY <1>1, IdleFacts
<1>10. thread'[t] = Idle /\ mon'[m] = r
  BY <1>1, <1>2, <1>7, <1>8, <1>9, ThreadEffect, MonEffect
<1>11. ThreadOK(t)' /\ OwnOK(t)' /\ SemOK(t)' /\ ~Counted(t)'
  BY <1>10, CallOver
<1>12. CountMove(t, o, m)
  BY <1>2, <1>5, <1>7, <1>10, <1>11 DEF CountMove, Counted
<1>13. freedFast' \in [Record -> BOOLEAN] /\ freedFast'[m]
       /\ \A k \in Record \ {m} : freedFast'[k] = freedFast[k]
  BY <1>1, <1>2, <1>3 DEF BaseType
<1>14. StallMove(t, o, m)
  BY <1>13 DEF StallMove
<1>15. r.data = mon[m].data /\ r.wait_list = mon[m].wait_list
       /\ r.owner \in {mon[m].owner, t, NULL} /\ mon[m].owner \in {t, NULL}
       /\ (mon[m].entry_sem # NULL => r.entry_sem # NULL) /\ r.nest = 1 /\ r.nest >= 1
  BY <1>4, <1>5, <1>7
<1>16. thread[t].obj \in {o, NULL} /\ Idle.obj \in {o, NULL}
  BY <1>3, <1>9
<1> QED BY <1>2, <1>3, <1>7, <1>8, <1>9, <1>11, <1>12, <1>13, <1>14, <1>15, <1>16, RecordStep

\* mono_monitor_exit returns, with the semaphore up if a thread was counted.
LEMMA ExitedInv ==
    ASSUME IInv, NEW t \in Thread, thread[t].pc \in {"wakeup", "release"}, Exited(t),
           NEW k \in 0..SEM_MAX \cup {NULL}, mon[Mon(t)].entry_sem # NULL => k # NULL,
           mon' = [mon EXCEPT ![Mon(t)].entry_sem = k],
           mon[Mon(t)].entry_count = 0 \/ (k \in Nat /\ k > 0),
           UNCHANGED <<synchronisation, monitor_freelist, allocated, program, event, freedFast>>
    PROVE  IInv'
<1>1. BaseType /\ ThreadInv /\ OwnInv /\ CountInv /\ RecordInv /\ NestInv
  BY Unpack
<1>2. thread' = [thread EXCEPT ![t] = IF Waits(@.call) THEN [@ EXCEPT !.pc = "waiting"] ELSE Idle]
  BY DEF Exited
<1>3. PICK m \in Record, o \in Object : m = Mon(t) /\ o = thread[t].obj /\ synchronisation[o] = m
  BY <1>1, <1>2, InCall
<1>4. PICK s \in ThreadState :
        /\ thread' = [thread EXCEPT ![t] = s]
        /\ s = Idle \/ (SameCall(t, s) /\ s.pc = "waiting" /\ thread[t].event # NULL)
  <2>1. PICK th \in ThreadState : th = thread[t]
    BY <1>1, ThreadType
  <2>2. CASE Waits(th.call)
    <3>1. PICK s : s = [th EXCEPT !.pc = "waiting"]
      OBVIOUS
    <3>2. s \in ThreadState /\ s.pc = "waiting" /\ s.obj = th.obj /\ s.event = th.event
          /\ s.call = th.call /\ s.woken = th.woken /\ s.nest = th.nest
      BY <3>1 DEF ThreadState, Pc
    <3>3. thread' = [thread EXCEPT ![t] = s]
      BY <1>1, <1>2, <2>1, <2>2, <3>1 DEF BaseType
    <3>4. th.event # NULL
      BY <1>1, <2>1, <2>2 DEF ThreadInv, ThreadOK
    <3> QED BY <2>1, <3>2, <3>3, <3>4 DEF SameCall
  <2>3. CASE ~Waits(th.call)
    BY <1>1, <1>2, <2>1, <2>3, IdleFacts DEF BaseType
  <2> QED BY <2>2, <2>3
<1>5. PICK n \in SyncState : n = mon[m]
  BY <1>1, MonType
<1>8. n.entry_sem # NULL => k # NULL
  BY <1>3, <1>5
<1>9. PICK r : r = [n EXCEPT !.entry_sem = k]
  OBVIOUS
<1>10. r \in SyncState /\ r.owner = n.owner /\ r.nest = n.nest /\ r.entry_count = n.entry_count
      /\ r.entry_sem = k /\ r.wait_list = n.wait_list /\ r.data = n.data
  BY <1>5, <1>8, <1>9 DEF SyncState
<1>11. mon' = [mon EXCEPT ![m] = r]
  BY <1>1, <1>3, <1>5, <1>9 DEF BaseType
<1>12. thread'[t] = s /\ Others(t) /\ mon'[m] = r
  BY <1>1, <1>4, <1>10, <1>11, ThreadEffect, MonEffect DEF Others
<1>13. s.obj \in {o, NULL} /\ (s.event = NULL \/ SameCall(t, s)) /\ s.pc \in {"idle", "waiting"}
  BY <1>3, <1>4, IdleFacts DEF SameCall
<1>14. m # NULL
  BY NullFacts
<1>15. ThreadOK(t)' /\ OwnOK(t)' /\ SemOK(t)'
  <2>1. CASE s = Idle
    BY <1>12, <2>1, CallOver
  <2>2. CASE SameCall(t, s) /\ s.pc = "waiting" /\ thread[t].event # NULL
    <3>1. ThreadOK(t) /\ OwnOK(t)
      BY <1>1 DEF ThreadInv, OwnInv
    <3>2. ~thread[t].woken
      BY <1>2, <3>1 DEF ThreadOK
    <3>3. ThreadOK(t)'
      BY <1>1, <1>2, <1>3, <1>12, <1>14, <2>2, <3>2, CallGoesOn
    <3>4. s.obj = o /\ ~Owns(t, o)
      BY <1>2, <1>3, <2>2, <3>1 DEF SameCall, OwnOK, Entering
    <3>5. ~Owns(t, o)'
      BY <1>2, <1>3, <1>5, <1>10, <1>12, <3>4 DEF Owns
    <3> QED BY <1>12, <2>2, <3>3, <3>4, <3>5 DEF OwnOK, SemOK
  <2> QED BY <1>4, <2>1, <2>2
<1>16. CountMove(t, o, m)
  BY <1>2, <1>5, <1>10, <1>12, <1>13 DEF CountMove, Counted
<1>17. StallMove(t, o, m)
  <2>1. CASE k \in Nat /\ k > 0
    BY <1>10, <1>12, <2>1 DEF StallMove
  <2>2. CASE n.entry_count = 0
    <3>1. Cardinality(Blocked(o)) = 0
      BY <1>1, <1>3, <1>5, <1>14, <2>2, MonType DEF CountInv
    <3>2. Blocked(o) = {}
      BY <3>1, BlockedFinite, FS_EmptySet
    <3>3. ~Slept(o)'
      BY <1>12, <1>13, <3>2 DEF Slept, Blocked, Others
    <3> QED BY <3>3 DEF StallMove
  <2> QED BY <1>3, <1>5, <2>1, <2>2
<1>18. freedFast' \in [Record -> BOOLEAN] /\ \A i \in Record \ {m} : freedFast'[i] = freedFast[i]
  BY <1>1, <1>2 DEF BaseType
<1>19. r.data = mon[m].data /\ r.wait_list = mon[m].wait_list
       /\ r.owner = mon[m].owner /\ r.nest = mon[m].nest
       /\ (mon[m].entry_sem # NULL => r.entry_sem # NULL)
  BY <1>5, <1>8, <1>10
<1>20. r.nest >= 1 /\ (r.owner = NULL => r.nest = 1)
  BY <1>1, <1>3, <1>19, FreeRecord
<1>21. thread[t].obj \in {o, NULL} /\ r.owner \in {mon[m].owner, t, NULL}
  BY <1>3, <1>19
<1> QED BY <1>2, <1>3, <1>4, <1>10, <1>11, <1>13, <1>15, <1>16, <1>17, <1>18, <1>19, <1>20, <1>21, RecordStep

LEMMA WakeupInv == ASSUME IInv, NEW t \in Thread, Wakeup(t) PROVE IInv'
<1>1. BaseType /\ ThreadInv /\ OwnInv /\ CountInv /\ program \in Programs
  BY Unpack
<1>2. thread[t].pc = "wakeup"
      /\ UNCHANGED <<synchronisation, mon, monitor_freelist, allocated, program, event, freedFast>>
  BY DEF Wakeup, At, records
<1>3. PICK m \in Record, o \in Object : m = Mon(t) /\ o = thread[t].obj /\ synchronisation[o] = m
  BY <1>1, <1>2, InCall
<1>4. PICK n \in SyncState : n = mon[m]
  BY <1>1, MonType
<1>5. CASE n.entry_count > 0
  <2>1. GoTo(t, "release")
    BY <1>3, <1>4, <1>5 DEF Wakeup
  <2>2. PICK s \in ThreadState : /\ thread' = [thread EXCEPT ![t] = s] /\ SameCall(t, s)
                                 /\ s.pc = "release" /\ s.ret = thread[t].ret
    BY <1>1, <2>1, GoToState DEF Pc
  <2>3. ThreadOK(t) /\ OwnOK(t) /\ thread'[t] = s
    BY <1>1, <2>2, ThreadEffect DEF ThreadInv, OwnInv
  <2>4. Mon(t) # NULL /\ ~Owns(t, thread[t].obj)
    BY <1>2, <2>3 DEF ThreadOK, OwnOK, Entering
  <2>5. mon[Mon(t)].entry_sem # NULL
    <3>1. Cardinality(Blocked(o)) > 0
      BY <1>1, <1>3, <1>4, <1>5, NullFacts DEF CountInv
    <3>2. PICK u \in Blocked(o) : TRUE
      BY <3>1, BlockedFinite, FS_EmptySet
    <3>3. u \in Thread /\ thread[u].obj = o /\ thread[u].pc \in {"again", "asleep", "awake"}
      BY <3>2 DEF Blocked
    <3>4. SemOK(u)
      BY <3>3, Unpack DEF SemInv
    <3> QED BY <1>3, <3>3, <3>4 DEF SemOK, Mon
  <2>6. ~Counted(t) /\ ~Counted(t)' /\ \A p \in Object : Helps(t, p) => Helps(t, p)'
    BY <1>2, <2>2, <2>3 DEF Counted, Helps, SameCall
  <2> QED BY <1>1, <1>2, <2>2, <2>3, <2>4, <2>5, <2>6, MoveOn
<1>6. CASE ~(n.entry_count > 0)
  <2>1. Exited(t) /\ n.entry_count = 0
    BY <1>1, <1>3, <1>4, <1>6, MonType DEF Wakeup
  <2>2. n.entry_sem \in 0..SEM_MAX \cup {NULL}
    BY <1>1, <1>4, MonType
  <2>3. [n EXCEPT !.entry_sem = n.entry_sem] = n
    BY <1>4 DEF SyncState
  <2>4. mon' = [mon EXCEPT ![Mon(t)].entry_sem = n.entry_sem]
    BY <1>1, <1>2, <1>3, <1>4, <2>3 DEF BaseType
  <2> QED BY <1>2, <1>3, <1>4, <2>1, <2>2, <2>4, ExitedInv
<1> QED BY <1>5, <1>6

LEMMA ReleaseInv == ASSUME IInv, NEW t \in Thread, ReleaseSemaphore(t) PROVE IInv'
<1>1. BaseType /\ ThreadInv /\ SemInv
  BY Unpack
<1>2. /\ thread[t].pc = "release" /\ Exited(t)
      /\ mon' = [mon EXCEPT ![Mon(t)].entry_sem = IF @ < SEM_MAX THEN @ + 1 ELSE @]
      /\ UNCHANGED <<synchronisation, monitor_freelist, allocated, program, event, freedFast>>
  BY DEF ReleaseSemaphore, At, records
<1>3. PICK m \in Record : m = Mon(t)
  BY <1>1, <1>2, InCall
<1>4. PICK q : q = mon[m].entry_sem
  OBVIOUS
<1>5. q \in 0..SEM_MAX
  BY <1>1, <1>2, <1>3, <1>4, MonType DEF SemInv, SemOK
<1>6. PICK k : k = IF q < SEM_MAX THEN q + 1 ELSE q
  OBVIOUS
<1>7. k \in 0..SEM_MAX /\ k \in Nat /\ k > 0 /\ k # NULL
  BY <1>5, <1>6, NullFacts
<1>8. mon' = [mon EXCEPT ![Mon(t)].entry_sem = k]
  BY <1>1, <1>2, <1>3, <1>4, <1>6 DEF BaseType
<1> QED BY <1>2, <1>7, <1>8, ExitedInv

-----------------------------------------------------------------------------
\* The lists of waiters.

Distinct(q) == \A i, k \in DOMAIN q : q[i] = q[k] => i = k

LEMMA TailDistinct ==
    ASSUME NEW q \in Seq(Event), q # <<>>, Distinct(q)
    PROVE  /\ Tail(q) \in Seq(Event) /\ Distinct(Tail(q)) /\ Head(q) \in Event
           /\ \A f : f \in ToSet(Tail(q)) <=> f \in ToSet(q) /\ f # Head(q)
           /\ Head(q) \in ToSet(q)
<1>1. /\ Tail(q) \in Seq(Event) /\ Head(q) \in Event /\ Len(Tail(q)) = Len(q) - 1
      /\ \A i \in 1..Len(Tail(q)) : Tail(q)[i] = q[i + 1]
  BY HeadTailProperties
<1>2. Len(q) \in Nat /\ DOMAIN q = 1..Len(q) /\ Len(q) >= 1
  BY LenProperties, EmptySeq
<1>3. DOMAIN Tail(q) = 1..(Len(q) - 1)
  BY <1>1, LenProperties
<1>4. Head(q) = q[1]
  OBVIOUS
<1>5. Distinct(Tail(q))
  BY <1>1, <1>2, <1>3 DEF Distinct
<1>6. ASSUME NEW f, f \in ToSet(Tail(q)) PROVE f \in ToSet(q) /\ f # Head(q)
  <2>1. PICK i \in 1..(Len(q) - 1) : f = q[i + 1]
    BY <1>1, <1>3, <1>6 DEF ToSet
  <2>2. i + 1 \in DOMAIN q /\ 1 \in DOMAIN q /\ i + 1 # 1
    BY <1>2
  <2> QED BY <1>4, <2>1, <2>2 DEF ToSet, Distinct
<1>7. ASSUME NEW f, f \in ToSet(q), f # Head(q) PROVE f \in ToSet(Tail(q))
  <2>1. PICK i \in 1..Len(q) : f = q[i]
    BY <1>2, <1>7 DEF ToSet
  <2>2. i - 1 \in 1..(Len(q) - 1) /\ q[(i - 1) + 1] = f
    BY <1>2, <1>4, <1>7, <2>1
  <2>3. Tail(q)[i - 1] = f
    BY <1>1, <1>2, <2>2
  <2> QED BY <1>3, <2>2, <2>3 DEF ToSet
<1>8. Head(q) \in ToSet(q)
  BY <1>2, <1>4 DEF ToSet
<1> QED BY <1>1, <1>5, <1>6, <1>7, <1>8

LEMMA RemovedDistinct ==
    ASSUME NEW q \in Seq(Event), Distinct(q), NEW j \in DOMAIN q
    PROVE  /\ RemoveAt(q, j) \in Seq(Event) /\ Distinct(RemoveAt(q, j))
           /\ \A f : f \in ToSet(RemoveAt(q, j)) <=> f \in ToSet(q) /\ f # q[j]
<1>1. Len(q) \in Nat /\ DOMAIN q = 1..Len(q) /\ j \in 1..Len(q) /\ \A i \in 1..Len(q) : q[i] \in Event
  BY LenProperties, ElementOfSeq
<1>2. PICK a, b, c : a = SubSeq(q, 1, j - 1) /\ b = SubSeq(q, j + 1, Len(q)) /\ c = a \o b
  OBVIOUS
<1>3. a \in Seq(Event) /\ Len(a) = j - 1 /\ \A i \in 1..(j - 1) : a[i] = q[i]
  <2>1. \A i \in 1..(j - 1) : q[i] \in Event
    BY <1>1
  <2>2. /\ SubSeq(q, 1, j - 1) \in Seq(Event)
        /\ Len(SubSeq(q, 1, j - 1)) = IF 1 <= j - 1 THEN (j - 1) - 1 + 1 ELSE 0
        /\ \A i \in 1..((j - 1) - 1 + 1) : SubSeq(q, 1, j - 1)[i] = q[1 + i - 1]
    BY <1>1, <2>1, SubSeqProperties
  <2> QED BY <1>1, <1>2, <2>2
<1>4. b \in Seq(Event) /\ Len(b) = Len(q) - j /\ \A i \in 1..(Len(q) - j) : b[i] = q[i + j]
  <2>1. \A i \in (j + 1)..Len(q) : q[i] \in Event
    BY <1>1
  <2>2. /\ SubSeq(q, j + 1, Len(q)) \in Seq(Event)
        /\ Len(SubSeq(q, j + 1, Len(q))) = IF j + 1 <= Len(q) THEN Len(q) - (j + 1) + 1 ELSE 0
        /\ \A i \in 1..(Len(q) - (j + 1) + 1) : SubSeq(q, j + 1, Len(q))[i] = q[(j + 1) + i - 1]
    BY <1>1, <2>1, SubSeqProperties
  <2>3. \A i \in 1..(Len(q) - j) : i \in 1..(Len(q) - (j + 1) + 1) /\ (j + 1) + i - 1 = i + j
    BY <1>1
  <2> QED BY <1>1, <1>2, <2>2, <2>3
<1>5. /\ c \in Seq(Event) /\ Len(c) = Len(a) + Len(b)
      /\ \A i \in 1..Len(a) + Len(b) : c[i] = IF i <= Len(a) THEN a[i] ELSE b[i - Len(a)]
  <2>1. a \in Seq(Event) /\ b \in Seq(Event)
    BY <1>3, <1>4
  <2>2. /\ a \o b \in Seq(Event) /\ Len(a \o b) = Len(a) + Len(b)
        /\ \A i \in 1..Len(a) + Len(b) : (a \o b)[i] = IF i <= Len(a) THEN a[i] ELSE b[i - Len(a)]
    BY <2>1, ConcatProperties
  <2> QED BY <1>2, <2>2
<1>6. DOMAIN c = 1..(Len(q) - 1)
  BY <1>1, <1>3, <1>4, <1>5, LenProperties
<1>7. ASSUME NEW i \in 1..(Len(q) - 1) PROVE c[i] = q[IF i < j THEN i ELSE i + 1]
  <2>1. i \in 1..Len(a) + Len(b) /\ (i <= Len(a) <=> i < j)
    BY <1>1, <1>3, <1>4
  <2>2. CASE i < j
    BY <1>1, <1>3, <1>5, <2>1, <2>2
  <2>3. CASE ~(i < j)
    <3>1. i - Len(a) \in 1..(Len(q) - j) /\ (i - Len(a)) + j = i + 1
      BY <1>1, <1>3, <2>3
    <3> QED BY <1>4, <1>5, <2>1, <2>3, <3>1
  <2> QED BY <2>2, <2>3
<1>8. Distinct(c)
  <2> SUFFICES ASSUME NEW i \in 1..(Len(q) - 1), NEW k \in 1..(Len(q) - 1), c[i] = c[k] PROVE i = k
    BY <1>6 DEF Distinct
  <2>1. PICK x, y : x = (IF i < j THEN i ELSE i + 1) /\ y = (IF k < j THEN k ELSE k + 1)
    OBVIOUS
  <2>2. x \in DOMAIN q /\ y \in DOMAIN q /\ q[x] = q[y]
    BY <1>1, <1>7, <2>1
  <2>3. x = y
    BY <2>2 DEF Distinct
  <2> QED BY <1>1, <2>1, <2>3
<1>9. ASSUME NEW f, f \in ToSet(c) PROVE f \in ToSet(q) /\ f # q[j]
  <2>1. PICK i \in 1..(Len(q) - 1) : f = c[i]
    BY <1>6, <1>9 DEF ToSet
  <2>2. PICK x : x = IF i < j THEN i ELSE i + 1
    OBVIOUS
  <2>3. x \in DOMAIN q /\ x # j /\ f = q[x]
    BY <1>1, <1>7, <2>1, <2>2
  <2> QED BY <2>3 DEF ToSet, Distinct
<1>10. ASSUME NEW f, f \in ToSet(q), f # q[j] PROVE f \in ToSet(c)
  <2>1. PICK x \in 1..Len(q) : f = q[x]
    BY <1>1, <1>10 DEF ToSet
  <2>2. PICK i : i = IF x < j THEN x ELSE x - 1
    OBVIOUS
  <2>3. x # j
    BY <1>10, <2>1
  <2>4. i \in 1..(Len(q) - 1) /\ x = IF i < j THEN i ELSE i + 1
    BY <1>1, <2>2, <2>3
  <2>5. c[i] = f
    BY <1>7, <2>1, <2>4
  <2> QED BY <1>6, <2>4, <2>5 DEF ToSet
<1>11. RemoveAt(q, j) = c
  BY <1>2 DEF RemoveAt
<1> QED BY <1>5, <1>8, <1>9, <1>10, <1>11

LEMMA WithoutDistinct ==
    ASSUME NEW q \in Seq(Event), Distinct(q), NEW e \in Event
    PROVE  /\ Without(q, e) \in Seq(Event) /\ Distinct(Without(q, e))
           /\ \A f : f \in ToSet(Without(q, e)) <=> f \in ToSet(q) /\ f # e
<1>1. CASE e \in ToSet(q)
  <2>1. \E i \in DOMAIN q : q[i] = e
    BY <1>1 DEF ToSet
  <2>2. PICK j : j = CHOOSE i \in DOMAIN q : q[i] = e
    OBVIOUS
  <2>3. j \in DOMAIN q /\ q[j] = e
    BY <2>1, <2>2, Zenon
  <2>4. Without(q, e) = RemoveAt(q, j)
    BY <1>1, <2>2 DEF Without
  <2> QED BY <2>3, <2>4, RemovedDistinct
<1>2. CASE e \notin ToSet(q)
  BY <1>2 DEF Without
<1> QED BY <1>1, <1>2

LEMMA AppendDistinct ==
    ASSUME NEW q \in Seq(Event), Distinct(q), NEW e \in Event, e \notin ToSet(q)
    PROVE  /\ Append(q, e) \in Seq(Event) /\ Distinct(Append(q, e))
           /\ \A f : f \in ToSet(Append(q, e)) <=> f \in ToSet(q) \/ f = e
<1>1. Len(q) \in Nat /\ DOMAIN q = 1..Len(q)
  BY LenProperties
<1>2. PICK c : c = Append(q, e)
  OBVIOUS
<1>3. c \in Seq(Event) /\ Len(c) = Len(q) + 1 /\ c[Len(q) + 1] = e /\ \A i \in 1..Len(q) : c[i] = q[i]
  BY <1>2, AppendProperties
<1>4. DOMAIN c = 1..(Len(q) + 1)
  BY <1>3, LenProperties
<1>5. \A i \in 1..Len(q) : q[i] # e
  BY <1>1 DEF ToSet
<1>6. Distinct(c)
  BY <1>1, <1>3, <1>4, <1>5 DEF Distinct
<1>7. ASSUME NEW f, f \in ToSet(c) PROVE f \in ToSet(q) \/ f = e
  <2>1. PICK i \in 1..(Len(q) + 1) : f = c[i]
    BY <1>4, <1>7 DEF ToSet
  <2>2. CASE i \in 1..Len(q)
    BY <1>1, <1>3, <2>1, <2>2 DEF ToSet
  <2>3. CASE i = Len(q) + 1
    BY <1>3, <2>1, <2>3
  <2> QED BY <1>1, <2>1, <2>2, <2>3
<1>8. ASSUME NEW f, f \in ToSet(q) \/ f = e PROVE f \in ToSet(c)
  <2>1. CASE f = e
    BY <1>1, <1>3, <1>4, <2>1 DEF ToSet
  <2>2. CASE f \in ToSet(q)
    <3>1. PICK i \in 1..Len(q) : f = q[i]
      BY <1>1, <2>2 DEF ToSet
    <3>2. i \in 1..(Len(q) + 1) /\ f = c[i]
      BY <1>1, <1>3, <3>1
    <3> QED BY <1>4, <3>2 DEF ToSet
  <2> QED BY <1>8, <2>1, <2>2
<1> QED BY <1>2, <1>3, <1>6, <1>7, <1>8

\* Events leave the list of one record: their waiters are signalled, or gone.
LEMMA ListsShrink ==
    ASSUME BaseType, ThreadInv, ListInv, WaiterInv, UNCHANGED synchronisation,
           NEW t \in Thread, Others(t), NEW m \in Record, NEW E \in SUBSET Event,
           \A n \in Record \ {m} : mon'[n].wait_list = mon[n].wait_list,
           Distinct(mon'[m].wait_list),
           \A f \in Event : Listed(f, m)' <=> Listed(f, m) /\ f \notin E,
           \A f \in Event \ E : event'[f] = event[f],
           \A f \in E : \/ event'[f] = "set" /\ Listed(f, m)
                        \/ /\ \A u \in Thread : thread'[u].event # f
                           /\ \A n \in Record : Listed(f, n) => n = m,
           \/ thread'[t].event = NULL
           \/ thread'[t].event = thread[t].event /\ thread'[t].woken = thread[t].woken
              /\ thread'[t].obj = thread[t].obj
    PROVE  ListInv' /\ WaiterInv'
<1>1. \A n \in Record \ {m}, f \in Event : Listed(f, n)' <=> Listed(f, n)
  BY DEF Listed
<1>2. \A n \in Record, f \in Event : Listed(f, n) => \A k \in Record : Listed(f, k) => k = n
  BY DEF ListInv, ListOK
<1>3. \A n \in Record, f \in Event : Listed(f, n)' => Listed(f, n) /\ f \notin E
  BY <1>1, <1>2
<1>4. \A n \in Record : Distinct(mon'[n].wait_list)
  BY DEF ListInv, ListOK, Distinct
<1>5. ListInv'
  <2> SUFFICES ASSUME NEW n \in Record PROVE ListOK(n)'
    BY DEF ListInv
  <2>1. \A f \in Event : Listed(f, n)' => event'[f] = "reset"
    BY <1>3 DEF ListInv, ListOK
  <2>2. \A k \in Record, f \in Event : Listed(f, n)' /\ Listed(f, k)' => k = n
    BY <1>2, <1>3
  <2> QED BY <1>4, <2>1, <2>2 DEF ListOK, Distinct
<1>6. ASSUME NEW u \in Thread, thread'[u].event # NULL PROVE WaiterOK(u)'
  <2>1. thread'[u].event = thread[u].event /\ thread'[u].woken = thread[u].woken
        /\ thread'[u].obj = thread[u].obj
    BY <1>6 DEF Others
  <2>2. PICK f \in Event, n \in Record : f = thread[u].event /\ n = Mon(u)
    BY <1>6, <2>1, WaiterRecord
  <2>3. WaitsWith(u, f, n)
    BY <1>6, <2>1, <2>2 DEF WaiterInv, WaiterOK
  <2>4. \A v \in Thread : thread'[v].event = f => v = u
    <3>1. \A v \in Thread : thread'[v].event = thread[v].event \/ thread'[v].event = NULL
      BY DEF Others
    <3>2. f # NULL
      BY NullFacts
    <3> QED BY <2>3, <3>1, <3>2 DEF WaitsWith
  <2>5. \A k \in Record : Listed(f, k)' => k = n
    BY <1>3, <2>3 DEF WaitsWith
  <2>6. event'[f] # "closed" /\ (Listed(f, n)' <=> ~(event'[f] = "set" \/ thread'[u].woken))
    <3>1. CASE f \notin E
      <4>1. event'[f] = event[f] /\ (Listed(f, n)' <=> Listed(f, n))
        BY <1>1, <3>1
      <4> QED BY <2>1, <2>3, <4>1 DEF WaitsWith
    <3>2. CASE f \in E
      <4>1. event'[f] = "set" /\ Listed(f, m)
        BY <2>1, <2>2, <3>2
      <4>2. ~Listed(f, n)'
        BY <1>3, <3>2
      <4> QED BY <4>1, <4>2
    <3> QED BY <3>1, <3>2
  <2>7. WaitsWith(u, f, n)'
    BY <2>4, <2>5, <2>6 DEF WaitsWith
  <2>8. thread'[u].event = f /\ Mon(u)' = n
    BY <2>1, <2>2 DEF Mon
  <2> QED BY <2>7, <2>8 DEF WaiterOK
<1>7. \A u \in Thread : WaiterOK(u)'
  BY <1>6 DEF WaiterOK
<1> QED BY <1>5, <1>7 DEF WaiterInv

\* The owner of a record, in no call, changes its list and the events.
LEMMA OwnerStays ==
    ASSUME LockInv, NEW t \in Thread, At(t, "idle"), NEW o \in Object, NEW m \in Record,
           m = synchronisation[o], mon[m].owner = t,
           NEW r \in SyncState, mon' = [mon EXCEPT ![m] = r],
           r.owner = mon[m].owner, r.nest = mon[m].nest, r.entry_count = mon[m].entry_count,
           r.entry_sem = mon[m].entry_sem, r.data = mon[m].data,
           event' \in [Event -> {"closed", "reset", "set"}],
           UNCHANGED <<synchronisation, monitor_freelist, allocated, program, thread, freedFast>>
    PROVE  LockInv'
<1>1. BaseType /\ ThreadInv /\ RecordInv /\ NestInv
  BY DEF LockInv
<1>2. thread[t] = Idle /\ ~Counted(t)
  BY <1>1, IdleThread
<1>3. Idle \in ThreadState /\ thread' = [thread EXCEPT ![t] = Idle]
  BY <1>1, <1>2, IdleFacts DEF BaseType
<1>4. thread'[t] = Idle /\ mon'[m] = r
  BY <1>1, <1>2, MonEffect
<1>5. ThreadOK(t)' /\ OwnOK(t)' /\ SemOK(t)' /\ ~Counted(t)'
  BY <1>4, CallOver
<1>6. CountMove(t, o, m)
  BY <1>2, <1>4, <1>5 DEF CountMove
<1>7. StallMove(t, o, m)
  BY <1>4, NullFacts DEF StallMove
<1>8. mon[m].data = o /\ o # NULL /\ mon[m].nest \in Nat /\ mon[m].nest >= 1
  BY <1>1, FreeRecord
<1>9. KeepsRecord(m, t)
  BY <1>4, <1>8, NullFacts DEF KeepsRecord, NestOK
<1>10. freedFast' \in [Record -> BOOLEAN] /\ \A k \in Record \ {m} : freedFast'[k] = freedFast[k]
  BY <1>1 DEF BaseType
<1>11. thread[t].obj \in {o, NULL} /\ Idle.obj \in {o, NULL}
  BY <1>2, IdleFacts
<1> QED BY <1>3, <1>5, <1>6, <1>7, <1>9, <1>10, <1>11, LockStep

LEMMA PulseInv ==
    ASSUME IInv, NEW t \in Thread, NEW o \in Object, Pulse(t, o)
    PROVE  IInv'
<1>1. BaseType /\ ThreadInv /\ RecordInv /\ NestInv /\ ListInv /\ WaiterInv /\ LockInv
  BY Unpack
<1>2. PICK m \in Record : m = synchronisation[o] /\ mon[m].owner = t
  BY <1>1, OwnedRecord DEF Pulse
<1>3. PICK n \in SyncState : n = mon[m] /\ n.wait_list \in Seq(Event)
  BY <1>1, MonType
<1>4. PICK e : e = Head(n.wait_list)
  OBVIOUS
<1>5. /\ At(t, "idle") /\ n.wait_list # <<>> /\ event' = [event EXCEPT ![e] = "set"]
      /\ mon' = [mon EXCEPT ![m].wait_list = Tail(@)]
      /\ UNCHANGED <<synchronisation, monitor_freelist, allocated, program, thread, freedFast>>
  BY <1>2, <1>3, <1>4 DEF Pulse, records
<1>6. Distinct(n.wait_list)
  BY <1>1, <1>3 DEF ListInv, ListOK, Distinct
<1>7. PICK q : q = Tail(n.wait_list)
  OBVIOUS
<1>8. /\ q \in Seq(Event) /\ Distinct(q) /\ e \in Event /\ e \in ToSet(n.wait_list)
      /\ \A f : f \in ToSet(q) <=> f \in ToSet(n.wait_list) /\ f # e
  BY <1>3, <1>4, <1>5, <1>6, <1>7, TailDistinct
<1>9. PICK r : r = [n EXCEPT !.wait_list = q]
  OBVIOUS
<1>10. r \in SyncState /\ r.owner = n.owner /\ r.nest = n.nest /\ r.entry_count = n.entry_count
       /\ r.entry_sem = n.entry_sem /\ r.wait_list = q /\ r.data = n.data
  BY <1>3, <1>8, <1>9 DEF SyncState
<1>11. mon' = [mon EXCEPT ![m] = r]
  BY <1>1, <1>3, <1>5, <1>7, <1>9 DEF BaseType
<1>12. event' \in [Event -> {"closed", "reset", "set"}] /\ event'[e] = "set"
       /\ \A f \in Event \ {e} : event'[f] = event[f]
  BY <1>1, <1>5, <1>8 DEF BaseType
<1>13. LockInv'
  <2>1. r.owner = mon[m].owner /\ r.nest = mon[m].nest /\ r.entry_count = mon[m].entry_count
        /\ r.entry_sem = mon[m].entry_sem /\ r.data = mon[m].data
    BY <1>3, <1>10
  <2>2. At(t, "idle") /\ r \in SyncState /\ event' \in [Event -> {"closed", "reset", "set"}]
        /\ UNCHANGED <<synchronisation, monitor_freelist, allocated, program, thread, freedFast>>
    BY <1>5, <1>10, <1>12
  <2> QED BY <1>1, <1>2, <1>11, <2>1, <2>2, OwnerStays
<1>14. mon'[m] = r /\ \A k \in Record \ {m} : mon'[k].wait_list = mon[k].wait_list
  BY <1>1, <1>10, <1>11, MonEffect
<1>15. PICK E : E = {e}
  OBVIOUS
<1>16. Distinct(mon'[m].wait_list) /\ Listed(e, m)
       /\ \A f \in Event : Listed(f, m)' <=> Listed(f, m) /\ f \notin E
  BY <1>3, <1>8, <1>10, <1>14, <1>15 DEF Listed
<1>17. Others(t) /\ E \in SUBSET Event
       /\ (\A f \in E : event'[f] = "set" /\ Listed(f, m)) /\ \A f \in Event \ E : event'[f] = event[f]
  BY <1>5, <1>8, <1>12, <1>15, <1>16 DEF Others
<1>18. ListInv' /\ WaiterInv'
  BY <1>1, <1>5, <1>14, <1>16, <1>17, ListsShrink
<1> QED BY <1>13, <1>18 DEF IInv

LEMMA PulseAllInv ==
    ASSUME IInv, NEW t \in Thread, NEW o \in Object, PulseAll(t, o)
    PROVE  IInv'
<1>1. BaseType /\ ThreadInv /\ RecordInv /\ NestInv /\ ListInv /\ WaiterInv /\ LockInv
  BY Unpack
<1>2. PICK m \in Record : m = synchronisation[o] /\ mon[m].owner = t
  BY <1>1, OwnedRecord DEF PulseAll
<1>3. PICK n \in SyncState : n = mon[m] /\ n.wait_list \in Seq(Event)
  BY <1>1, MonType
<1>4. PICK E : E = ToSet(n.wait_list)
  OBVIOUS
<1>5. /\ At(t, "idle") /\ event' = [e \in Event |-> IF e \in E THEN "set" ELSE event[e]]
      /\ mon' = [mon EXCEPT ![m].wait_list = <<>>]
      /\ UNCHANGED <<synchronisation, monitor_freelist, allocated, program, thread, freedFast>>
  BY <1>2, <1>3, <1>4 DEF PulseAll, records
<1>6. E \in SUBSET Event
  BY <1>3, <1>4, LenProperties DEF ToSet
<1>7. PICK q : q = <<>>
  OBVIOUS
<1>8. q \in Seq(Event) /\ Distinct(q) /\ ToSet(q) = {}
  <2>1. q \in Seq(Event) /\ Len(q) = 0
    BY <1>7, EmptySeq
  <2>2. DOMAIN q = {}
    BY <2>1, LenProperties
  <2> QED BY <2>1, <2>2 DEF Distinct, ToSet
<1>9. PICK r : r = [n EXCEPT !.wait_list = q]
  OBVIOUS
<1>10. r \in SyncState /\ r.owner = n.owner /\ r.nest = n.nest /\ r.entry_count = n.entry_count
       /\ r.entry_sem = n.entry_sem /\ r.wait_list = q /\ r.data = n.data
  BY <1>3, <1>8, <1>9 DEF SyncState
<1>11. mon' = [mon EXCEPT ![m] = r]
  BY <1>1, <1>3, <1>5, <1>7, <1>9 DEF BaseType
<1>12. event' \in [Event -> {"closed", "reset", "set"}] /\ (\A f \in E : event'[f] = "set")
       /\ \A f \in Event \ E : event'[f] = event[f]
  BY <1>1, <1>5, <1>6 DEF BaseType
<1>13. LockInv'
  <2>1. r.owner = mon[m].owner /\ r.nest = mon[m].nest /\ r.entry_count = mon[m].entry_count
        /\ r.entry_sem = mon[m].entry_sem /\ r.data = mon[m].data
    BY <1>3, <1>10
  <2>2. At(t, "idle") /\ r \in SyncState /\ event' \in [Event -> {"closed", "reset", "set"}]
        /\ UNCHANGED <<synchronisation, monitor_freelist, allocated, program, thread, freedFast>>
    BY <1>5, <1>10, <1>12
  <2> QED BY <1>1, <1>2, <1>11, <2>1, <2>2, OwnerStays
<1>14. mon'[m] = r /\ \A k \in Record \ {m} : mon'[k].wait_list = mon[k].wait_list
  BY <1>1, <1>10, <1>11, MonEffect
<1>15. Distinct(mon'[m].wait_list)
       /\ (\A f \in E : Listed(f, m))
       /\ \A f \in Event : Listed(f, m)' <=> Listed(f, m) /\ f \notin E
  BY <1>3, <1>4, <1>8, <1>10, <1>14 DEF Listed
<1>16. Others(t)
  BY <1>5 DEF Others
<1>17. ListInv' /\ WaiterInv'
  BY <1>1, <1>5, <1>6, <1>12, <1>14, <1>15, <1>16, ListsShrink
<1> QED BY <1>13, <1>17 DEF IInv

LEMMA RegainedInv == ASSUME IInv, NEW t \in Thread, Regained(t) PROVE IInv'
<1>1. BaseType /\ ThreadInv /\ OwnInv /\ RecordInv /\ NestInv /\ ListInv /\ WaiterInv /\ LockInv
  BY Unpack
<1>2. thread[t].pc = "regained"
      /\ UNCHANGED <<synchronisation, monitor_freelist, allocated, program, freedFast>>
  BY DEF Regained, At, records
<1>3. PICK m \in Record, o \in Object : m = Mon(t) /\ o = thread[t].obj /\ synchronisation[o] = m
  BY <1>1, <1>2, InCall
<1>4. thread[t].event # NULL
  BY <1>1, <1>2 DEF ThreadInv, ThreadOK
<1>5. PICK e \in Event : e = thread[t].event
  BY <1>1, <1>4, WaiterRecord
<1>6. PICK k : k = thread[t].nest
  OBVIOUS
<1>7. k \in 0..program.nest /\ k >= 1
  BY <1>1, <1>4, <1>6, ThreadType DEF ThreadInv, ThreadOK
<1>8. PICK n \in SyncState : n = mon[m] /\ n.wait_list \in Seq(Event)
  BY <1>1, MonType
<1>9. PICK q : q = IF thread[t].woken \/ event[e] = "set" THEN n.wait_list ELSE Without(n.wait_list, e)
  OBVIOUS
<1>10. WaitsWith(t, e, m)
  BY <1>1, <1>3, <1>4, <1>5 DEF WaiterInv, WaiterOK
<1>11. Distinct(n.wait_list)
  BY <1>1, <1>8 DEF ListInv, ListOK, Distinct
<1>12. q \in Seq(Event) /\ Distinct(q) /\ \A f : f \in ToSet(q) <=> f \in ToSet(n.wait_list) /\ f # e
  <2>1. CASE thread[t].woken \/ event[e] = "set"
    <3>1. e \notin ToSet(n.wait_list)
      BY <1>8, <1>10, <2>1 DEF WaitsWith, Listed
    <3> QED BY <1>8, <1>9, <1>11, <2>1, <3>1
  <2>2. CASE ~(thread[t].woken \/ event[e] = "set")
    BY <1>8, <1>9, <1>11, <2>2, WithoutDistinct
  <2> QED BY <2>1, <2>2
<1>13. PICK r : r = [n EXCEPT !.nest = k, !.wait_list = q]
  OBVIOUS
<1>14. r \in SyncState /\ r.owner = n.owner /\ r.nest = k /\ r.entry_count = n.entry_count
       /\ r.entry_sem = n.entry_sem /\ r.wait_list = q /\ r.data = n.data
  BY <1>7, <1>8, <1>12, <1>13 DEF SyncState
<1>15. mon' = [mon EXCEPT ![m] = r]
  <2>1. mon' = [mon EXCEPT ![m].nest = k,
                  ![m].wait_list = IF thread[t].woken \/ event[e] = "set" THEN @ ELSE Without(@, e)]
    BY <1>3, <1>5, <1>6 DEF Regained
  <2> QED BY <1>1, <1>8, <1>9, <1>13, <2>1 DEF BaseType, SyncState
<1>16. event' = [event EXCEPT ![e] = "closed"] /\ thread' = [thread EXCEPT ![t] = Idle]
  BY <1>5 DEF Regained
<1>17. event' \in [Event -> {"closed", "reset", "set"}] /\ \A f \in Event \ {e} : event'[f] = event[f]
  BY <1>1, <1>16 DEF BaseType
<1>18. Idle \in ThreadState /\ Idle.obj = NULL /\ Idle.event = NULL
  BY <1>1, IdleFacts
<1>19. thread'[t] = Idle /\ Others(t) /\ mon'[m] = r
       /\ \A i \in Record \ {m} : mon'[i].wait_list = mon[i].wait_list
  BY <1>1, <1>14, <1>15, <1>16, <1>18, ThreadEffect, MonEffect DEF Others
<1>20. mon[m].owner = t /\ mon[m].data = o /\ o # NULL /\ t # NULL
  BY <1>1, <1>2, <1>3, FreeRecord, NullFacts DEF OwnInv, OwnOK, Owns
<1>21. LockInv'
  <2>1. ThreadOK(t)' /\ OwnOK(t)' /\ SemOK(t)' /\ ~Counted(t)'
    BY <1>19, CallOver
  <2>2. CountMove(t, o, m)
    BY <1>2, <1>8, <1>14, <1>19, <2>1 DEF CountMove, Counted
  <2>3. StallMove(t, o, m)
    BY <1>8, <1>14, <1>19, <1>20 DEF StallMove
  <2>4. KeepsRecord(m, t)
    BY <1>7, <1>8, <1>14, <1>19, <1>20 DEF KeepsRecord, NestOK
  <2>5. freedFast' \in [Record -> BOOLEAN] /\ \A i \in Record \ {m} : freedFast'[i] = freedFast[i]
    BY <1>1, <1>2 DEF BaseType
  <2>6. thread[t].obj \in {o, NULL} /\ Idle.obj \in {o, NULL} /\ r \in SyncState
        /\ event' \in [Event -> {"closed", "reset", "set"}]
        /\ thread' = [thread EXCEPT ![t] = Idle]
    BY <1>3, <1>14, <1>16, <1>17, <1>18
  <2> QED BY <1>1, <1>2, <1>3, <1>15, <1>18, <2>1, <2>2, <2>3, <2>4, <2>5, <2>6, LockStep
<1>22. PICK E : E = {e}
  OBVIOUS
<1>23. Distinct(mon'[m].wait_list)
       /\ \A f \in Event : Listed(f, m)' <=> Listed(f, m) /\ f \notin E
  BY <1>8, <1>12, <1>14, <1>19, <1>22 DEF Listed
<1>24. \A u \in Thread : thread'[u].event # e
  BY <1>5, <1>10, <1>18, <1>19, NullFacts DEF WaitsWith, Others
<1>25. /\ E \in SUBSET Event /\ (\A f \in Event \ E : event'[f] = event[f])
       /\ \A f \in E : (\A u \in Thread : thread'[u].event # f) /\ \A i \in Record : Listed(f, i) => i = m
  BY <1>10, <1>17, <1>22, <1>24 DEF WaitsWith
<1>26. thread'[t].event = NULL
  BY <1>18, <1>19
<1>27. ListInv' /\ WaiterInv'
  BY <1>1, <1>2, <1>19, <1>23, <1>25, <1>26, ListsShrink
<1> QED BY <1>21, <1>27 DEF IInv

LEMMA WaitInv ==
    ASSUME IInv, NEW t \in Thread, NEW o \in Object, Wait(t, o)
    PROVE  IInv'
<1>1. BaseType /\ ThreadInv /\ RecordInv /\ NestInv /\ ListInv /\ WaiterInv /\ LockInv
  BY Unpack
<1>2. PICK c \in {"Wait", "WaitTimeout"} :
        LET m == synchronisation[o]
            e == CHOOSE f \in Event : event[f] = "closed"
        IN  /\ At(t, "idle") /\ Owns(t, o)
            /\ \E f \in Event : event[f] = "closed"
            /\ event' = [event EXCEPT ![e] = "reset"]
            /\ mon' = [mon EXCEPT ![m].wait_list = Append(@, e), ![m].nest = 1, ![m].owner = NULL]
            /\ freedFast' = [freedFast EXCEPT ![m] = FALSE]
            /\ thread' = [thread EXCEPT ![t] =
                            [Idle EXCEPT !.pc = "wakeup", !.call = c, !.obj = o,
                                         !.ms = Timeout(c), !.event = e, !.nest = mon[m].nest]]
            /\ UNCHANGED <<synchronisation, monitor_freelist, allocated, program>>
  BY DEF Wait, records
<1>3. PICK e : e = CHOOSE f \in Event : event[f] = "closed"
  OBVIOUS
<1>4. e \in Event /\ event[e] = "closed"
  <2>1. \E f \in Event : event[f] = "closed"
    BY <1>2
  <2> QED BY <1>3, <2>1, Zenon
<1>5. PICK m \in Record : m = synchronisation[o] /\ mon[m].owner = t
  BY <1>1, <1>2, OwnedRecord
<1>6. PICK n \in SyncState : n = mon[m] /\ n.wait_list \in Seq(Event) /\ n.nest \in 0..program.nest
  BY <1>1, MonType
<1>7. n.nest >= 1 /\ n.data = o /\ o # NULL
  BY <1>1, <1>5, <1>6, FreeRecord
<1>8. PICK s : s = [Idle EXCEPT !.pc = "wakeup", !.call = c, !.obj = o,
                                !.ms = Timeout(c), !.event = e, !.nest = n.nest]
  OBVIOUS
<1>9. /\ At(t, "idle") /\ event' = [event EXCEPT ![e] = "reset"]
      /\ mon' = [mon EXCEPT ![m].wait_list = Append(@, e), ![m].nest = 1, ![m].owner = NULL]
      /\ freedFast' = [freedFast EXCEPT ![m] = FALSE]
      /\ thread' = [thread EXCEPT ![t] = s]
      /\ UNCHANGED <<synchronisation, monitor_freelist, allocated, program>>
  BY <1>2, <1>3, <1>5, <1>6, <1>8
<1>10. /\ s \in ThreadState /\ s.pc = "wakeup" /\ s.call = c /\ s.obj = o /\ s.event = e
       /\ s.woken = FALSE /\ s.nest = n.nest
  <2>1. "wakeup" \in Pc /\ c \in Call /\ Timeout(c) \in 0..INFINITE
    BY TimeoutType DEF Pc, Call
  <2>2. s \in ThreadState
    BY <1>1, <1>4, <1>6, <1>8, <2>1, IdleFacts DEF ThreadState
  <2> QED BY <1>8, <2>2, IdleFacts DEF ThreadState, Idle
<1>11. Distinct(n.wait_list) /\ e \notin ToSet(n.wait_list)
  BY <1>1, <1>4, <1>6 DEF ListInv, ListOK, Listed, Distinct
<1>12. PICK q : q = Append(n.wait_list, e)
  OBVIOUS
<1>13. q \in Seq(Event) /\ Distinct(q) /\ \A f : f \in ToSet(q) <=> f \in ToSet(n.wait_list) \/ f = e
  BY <1>4, <1>6, <1>11, <1>12, AppendDistinct
<1>14. PICK r : r = [n EXCEPT !.wait_list = q, !.nest = 1, !.owner = NULL]
  OBVIOUS
<1>15. r \in SyncState /\ r.owner = NULL /\ r.nest = 1 /\ r.entry_count = n.entry_count
       /\ r.entry_sem = n.entry_sem /\ r.wait_list = q /\ r.data = n.data
  <2>1. 1 \in 0..program.nest
    BY <1>1, ProgramType
  <2> QED BY <1>6, <1>13, <1>14, <2>1 DEF SyncState
<1>16. mon' = [mon EXCEPT ![m] = r]
  BY <1>1, <1>6, <1>9, <1>12, <1>14 DEF BaseType, SyncState
<1>17. event' \in [Event -> {"closed", "reset", "set"}] /\ event'[e] = "reset"
       /\ \A f \in Event \ {e} : event'[f] = event[f]
  BY <1>1, <1>4, <1>9 DEF BaseType
<1>18. thread'[t] = s /\ Others(t) /\ mon'[m] = r
       /\ \A i \in Record \ {m} : mon'[i].wait_list = mon[i].wait_list
  <2>1. thread' = [thread EXCEPT ![t] = s]
    BY <1>9
  <2>2. thread'[t] = s /\ Others(t)
    BY <1>1, <1>10, <2>1, ThreadEffect DEF Others
  <2>3. mon'[m] = r /\ \A i \in Record \ {m} : mon'[i].wait_list = mon[i].wait_list
    BY <1>1, <1>15, <1>16, MonEffect
  <2> QED BY <2>2, <2>3
<1>19. thread[t] = Idle /\ ~Counted(t)
  BY <1>1, <1>9, IdleThread
<1>20. Mon(t)' = m /\ ~Owns(t, o)' /\ m # NULL /\ e # NULL
  BY <1>4, <1>5, <1>9, <1>10, <1>15, <1>18, NullFacts DEF Mon, Owns
<1>21. LockInv'
  <2>1. ThreadOK(t)' /\ OwnOK(t)' /\ SemOK(t)' /\ ~Counted(t)'
    BY <1>7, <1>10, <1>18, <1>20 DEF ThreadOK, OwnOK, SemOK, Counted, Waits
  <2>2. CountMove(t, o, m)
    BY <1>6, <1>15, <1>18, <1>19, <2>1 DEF CountMove
  <2>3. StallMove(t, o, m)
    BY <1>10, <1>18 DEF StallMove, Helps
  <2>4. KeepsRecord(m, t)
    BY <1>5, <1>6, <1>7, <1>15, <1>18 DEF KeepsRecord, NestOK
  <2>5. freedFast' \in [Record -> BOOLEAN] /\ \A i \in Record \ {m} : freedFast'[i] = freedFast[i]
    BY <1>1, <1>9 DEF BaseType
  <2>6. thread[t].obj \in {o, NULL} /\ s.obj \in {o, NULL} /\ r \in SyncState /\ s \in ThreadState
        /\ event' \in [Event -> {"closed", "reset", "set"}]
        /\ thread' = [thread EXCEPT ![t] = s]
        /\ UNCHANGED <<synchronisation, monitor_freelist, allocated, program>>
    BY <1>9, <1>10, <1>15, <1>17, <1>19, IdleFacts
  <2> QED BY <1>1, <1>5, <1>16, <2>1, <2>2, <2>3, <2>4, <2>5, <2>6, LockStep
<1>22. \A i \in Record, f \in Event : Listed(f, i)' <=> Listed(f, i) \/ (i = m /\ f = e)
  BY <1>6, <1>13, <1>15, <1>18 DEF Listed
<1>23. \A i \in Record : ~Listed(e, i)
  BY <1>1, <1>4 DEF ListInv, ListOK
<1>24. ListInv'
  <2> SUFFICES ASSUME NEW i \in Record PROVE ListOK(i)'
    BY DEF ListInv
  <2>1. Distinct(mon'[i].wait_list)
    BY <1>1, <1>13, <1>15, <1>18 DEF ListInv, ListOK, Distinct
  <2>2. \A f \in Event : Listed(f, i)' => event'[f] = "reset"
    BY <1>1, <1>17, <1>22 DEF ListInv, ListOK
  <2>3. \A j \in Record, f \in Event : Listed(f, i)' /\ Listed(f, j)' => j = i
    BY <1>1, <1>22, <1>23 DEF ListInv, ListOK
  <2> QED BY <2>1, <2>2, <2>3 DEF ListOK, Distinct
<1>25. ASSUME NEW u \in Thread \ {t}, thread[u].event # NULL PROVE WaiterOK(u)' /\ thread[u].event # e
  <2>1. PICK f \in Event, i \in Record : f = thread[u].event /\ i = Mon(u)
    BY <1>1, <1>25, WaiterRecord
  <2>2. WaitsWith(u, f, i)
    BY <1>1, <1>25, <2>1 DEF WaiterInv, WaiterOK
  <2>3. f # e
    BY <1>4, <2>2 DEF WaitsWith
  <2>4. thread'[u] = thread[u] /\ Mon(u)' = i
    BY <1>9, <1>18, <2>1 DEF Others, Mon
  <2>5. \A v \in Thread : thread'[v].event = f => v = u
    BY <1>10, <1>18, <2>2, <2>3 DEF WaitsWith, Others
  <2>6. event'[f] = event[f] /\ \A j \in Record : Listed(f, j)' <=> Listed(f, j)
    BY <1>17, <1>22, <2>3
  <2>7. WaitsWith(u, f, i)'
    BY <2>2, <2>4, <2>5, <2>6 DEF WaitsWith
  <2> QED BY <2>1, <2>3, <2>4, <2>7 DEF WaiterOK
<1>26. WaiterOK(t)'
  <2>1. \A v \in Thread : thread'[v].event = e => v = t
    BY <1>18, <1>20, <1>25 DEF Others
  <2>2. WaitsWith(t, e, m)'
    BY <1>4, <1>10, <1>17, <1>18, <1>22, <1>23, <2>1 DEF WaitsWith
  <2> QED BY <1>10, <1>18, <1>20, <2>2 DEF WaiterOK
<1>27. \A u \in Thread : WaiterOK(u)'
  BY <1>18, <1>25, <1>26 DEF WaiterOK, Others
<1> QED BY <1>21, <1>24, <1>27 DEF IInv, WaiterInv

-----------------------------------------------------------------------------
\* The collector takes an object; a thread takes a record for one.

LEMMA CollectInv == ASSUME IInv, NEW o \in Object, Collect(o) PROVE IInv'
<1>1. BaseType /\ RecordInv /\ NestInv /\ ThreadInv /\ OwnInv /\ SemInv /\ CountInv /\ StallInv
      /\ ListInv /\ WaiterInv /\ program \in Programs
  BY Unpack
<1>2. PICK m \in Record : m = synchronisation[o]
  BY <1>1 DEF Collect, BaseType
<1>3. /\ \A t \in Thread : thread[t].obj # o
      /\ mon' = [mon EXCEPT ![m] = [@ EXCEPT !.data = NULL, !.owner = NULL, !.nest = 0]]
      /\ synchronisation' = [synchronisation EXCEPT ![o] = NULL]
      /\ program' = [program EXCEPT !.collections = @ - 1]
      /\ program.collections > 0
      /\ UNCHANGED <<monitor_freelist, allocated, event, thread, freedFast>>
  BY <1>2 DEF Collect
<1>4. PICK n \in SyncState : n = mon[m]
  BY <1>1, MonType
<1>5. PICK r : r = [n EXCEPT !.data = NULL, !.owner = NULL, !.nest = 0]
  OBVIOUS
<1>6. r \in SyncState /\ r.owner = NULL /\ r.nest = 0 /\ r.entry_count = n.entry_count
      /\ r.wait_list = n.wait_list /\ r.data = NULL
  <2>1. 0 \in 0..program.nest
    BY <1>1, ProgramType
  <2> QED BY <1>4, <1>5, <2>1 DEF SyncState
<1>7. mon' = [mon EXCEPT ![m] = r]
  BY <1>1, <1>3, <1>4, <1>5 DEF BaseType
<1>8. mon' \in [Record -> SyncState] /\ mon'[m] = r /\ \A k \in Record \ {m} : mon'[k] = mon[k]
  BY <1>1, <1>6, <1>7, MonEffect
<1>9. synchronisation' \in [Object -> Record \cup {NULL}] /\ synchronisation'[o] = NULL
      /\ \A p \in Object \ {o} : synchronisation'[p] = synchronisation[p]
  BY <1>1, <1>3 DEF BaseType
<1>10. program' \in Programs /\ program'.nest = program.nest
  BY <1>1, <1>3 DEF Programs
<1>11. BaseType'
  BY <1>1, <1>3, <1>8, <1>9, <1>10 DEF BaseType, SyncState, ThreadState
<1>12. mon[m].data = o /\ \A p \in Object \ {o} : synchronisation[p] # m
  BY <1>1, <1>2, NullFacts DEF RecordInv
<1>13. mon[m].entry_count = 0
  <2>1. Blocked(o) = {}
    BY <1>3 DEF Blocked
  <2> QED BY <1>1, <1>2, <2>1, NullFacts, FS_EmptySet DEF CountInv
<1>14. \A k \in Record : Unused(k) => k # m /\ Unused(k)'
  BY <1>8, <1>12, NullFacts DEF Unused
<1>15. RecordInv'
  <2>1. \A p \in Object : synchronisation'[p] # NULL => mon'[synchronisation'[p]].data = p
    <3> SUFFICES ASSUME NEW p \in Object, synchronisation'[p] # NULL
                 PROVE  mon'[synchronisation'[p]].data = p
      OBVIOUS
    <3>1. p # o /\ synchronisation'[p] = synchronisation[p]
      BY <1>9
    <3>2. synchronisation[p] \in Record \ {m}
      BY <1>1, <1>12, <3>1 DEF BaseType
    <3> QED BY <1>1, <1>8, <3>1, <3>2 DEF RecordInv
  <2>2. \A k \in Record : mon'[k].data # NULL => synchronisation'[mon'[k].data] = k
    <3> SUFFICES ASSUME NEW k \in Record, mon'[k].data # NULL PROVE synchronisation'[mon'[k].data] = k
      OBVIOUS
    <3>1. k # m /\ mon'[k] = mon[k]
      BY <1>6, <1>8
    <3>2. PICK p \in Object : p = mon[k].data
      BY <1>1, <3>1, MonType
    <3>3. synchronisation[p] = k /\ p # o
      BY <1>1, <1>2, <3>1, <3>2 DEF RecordInv
    <3> QED BY <1>9, <3>1, <3>2, <3>3
  <2>3. \A k \in Record : mon'[k].data = NULL => mon'[k].owner = NULL /\ mon'[k].entry_count = 0
    BY <1>1, <1>4, <1>6, <1>8, <1>13 DEF RecordInv
  <2>4. \A k \in monitor_freelist : Unused(k)'
    BY <1>1, <1>14 DEF RecordInv, BaseType
  <2>5. \A k \in (allocated + 1)..NumArray : \A i \in ArrayOf[k] : Unused(i)' /\ i \notin monitor_freelist
    <3>1. \A k \in (allocated + 1)..NumArray : k \in 1..Len(ArrayOf)
      BY <1>1, LenProperties, MonitorAssumption DEF BaseType, NumArray
    <3>2. \A k \in 1..Len(ArrayOf) : ArrayOf[k] \subseteq Record
      BY ElementOfSeq, MonitorAssumption
    <3> QED BY <1>1, <1>14, <3>1, <3>2 DEF RecordInv
  <2> QED BY <1>3, <2>1, <2>2, <2>3, <2>4, <2>5 DEF RecordInv
<1>16. NestInv'
  BY <1>1, <1>6, <1>8 DEF NestInv, NestOK
<1>17. ASSUME NEW t \in Thread PROVE ThreadOK(t)' /\ OwnOK(t)' /\ SemOK(t)' /\ WaiterOK(t)'
  <2>1. ThreadOK(t) /\ OwnOK(t) /\ SemOK(t) /\ WaiterOK(t) /\ thread'[t] = thread[t]
    BY <1>1, <1>3 DEF ThreadInv, OwnInv, SemInv, WaiterInv
  <2>2. CASE thread[t].pc = "idle"
    <3>1. thread'[t] = Idle
      BY <2>1, <2>2 DEF ThreadOK
    <3> QED BY <3>1, CallOver, IdleFacts DEF WaiterOK
  <2>3. CASE thread[t].pc # "idle"
    <3>1. PICK p \in Object : p = thread[t].obj /\ p # o
      BY <1>1, <1>3, <2>3, InCall
    <3>2. Mon(t) = synchronisation[p] /\ Mon(t)' = Mon(t)
      BY <1>9, <2>1, <3>1 DEF Mon
    <3>3. Mon(t) # NULL => Mon(t) \in Record \ {m}
      BY <1>1, <1>12, <3>1, <3>2 DEF BaseType
    <3>4. Mon(t) # NULL => mon'[Mon(t)] = mon[Mon(t)]
      BY <1>8, <3>3
    <3>5. ThreadOK(t)'
      BY <2>1, <3>2 DEF ThreadOK
    <3>6. (Owns(t, p)' <=> Owns(t, p)) /\ (Owns(t, p) => Mon(t) # NULL)
      BY <1>9, <3>1, <3>2, <3>4 DEF Owns
    <3>7. OwnOK(t)'
      BY <1>10, <2>1, <3>1, <3>2, <3>4, <3>6 DEF OwnOK, Entering
    <3>8. SemOK(t)'
      BY <2>1, <3>2, <3>4 DEF SemOK, ThreadOK
    <3>9. WaiterOK(t)'
      <4>1. CASE thread[t].event = NULL
        BY <2>1, <4>1 DEF WaiterOK
      <4>2. CASE thread[t].event # NULL
        <5>1. PICK e \in Event, k \in Record : e = thread[t].event /\ k = Mon(t)
          BY <1>1, <4>2, WaiterRecord
        <5>2. WaitsWith(t, e, k)
          BY <2>1, <4>2, <5>1 DEF WaiterOK
        <5>3. \A i \in Record : Listed(e, i)' <=> Listed(e, i)
          BY <1>4, <1>6, <1>8 DEF Listed
        <5>4. WaitsWith(t, e, k)'
          BY <1>3, <5>2, <5>3 DEF WaitsWith
        <5> QED BY <2>1, <3>2, <5>1, <5>4 DEF WaiterOK
      <4> QED BY <4>1, <4>2
    <3> QED BY <3>5, <3>7, <3>8, <3>9
  <2> QED BY <2>2, <2>3
<1>18. \A i \in Record : mon'[i].wait_list = mon[i].wait_list
  BY <1>4, <1>6, <1>8
<1>19. ListInv'
  <2>1. \A e, i : i \in Record => (Listed(e, i)' <=> Listed(e, i))
    BY <1>18 DEF Listed
  <2> QED BY <1>1, <1>3, <1>18, <2>1 DEF ListInv, ListOK
<1>20. ASSUME NEW p \in Object, synchronisation'[p] # NULL
       PROVE  /\ mon'[synchronisation'[p]].entry_count = Cardinality(Blocked(p)')
              /\ StallOK(p)'
  <2>1. p # o /\ synchronisation'[p] = synchronisation[p]
    BY <1>9, <1>20
  <2>2. synchronisation[p] \in Record \ {m}
    BY <1>1, <1>12, <1>20, <2>1 DEF BaseType
  <2>3. mon'[synchronisation[p]] = mon[synchronisation[p]]
    BY <1>8, <2>2
  <2>4. Blocked(p)' = Blocked(p)
    BY <1>3 DEF Blocked
  <2>5. mon[synchronisation[p]].entry_count = Cardinality(Blocked(p)) /\ StallOK(p)
    BY <1>1, <1>20, <2>1 DEF CountInv, StallInv
  <2>6. (Slept(p)' <=> Slept(p)) /\ \A u \in Thread : Helps(u, p)' <=> Helps(u, p)
    BY <1>3 DEF Slept, Helps
  <2>7. StallOK(p)'
    BY <1>3, <2>1, <2>3, <2>5, <2>6 DEF StallOK
  <2> QED BY <2>1, <2>3, <2>4, <2>5, <2>7
<1>21. CountInv' /\ StallInv'
  BY <1>20 DEF CountInv, StallInv, StallOK
<1> QED BY <1>11, <1>15, <1>16, <1>17, <1>19, <1>21 DEF IInv, LockInv, ThreadInv, OwnInv, SemInv, WaiterInv

\* The lists of records no object has are emptied and their events closed.
LEMMA ListsCleaned ==
    ASSUME BaseType, RecordInv, ThreadInv, ListInv, WaiterInv, NEW t \in Thread, Others(t),
           NEW R \in SUBSET Record, \A m \in R : mon[m].data = NULL,
           \A m \in R : mon'[m].wait_list = <<>>,
           \A m \in Record \ R : mon'[m].wait_list = mon[m].wait_list,
           \A f \in Event : event'[f] = IF \E m \in R : Listed(f, m) THEN "closed" ELSE event[f],
           thread[t].event = NULL, thread'[t].event = NULL,
           \A u \in Thread : thread[u].event # NULL => Mon(u)' = Mon(u)
    PROVE  ListInv' /\ WaiterInv'
<1>1. DOMAIN <<>> = {}
  OBVIOUS
<1>2. \A m \in Record, f \in Event : Listed(f, m)' <=> Listed(f, m) /\ m \notin R
  BY <1>1 DEF Listed, ToSet
<1>3. \A m, n \in Record, f \in Event : Listed(f, m) /\ Listed(f, n) => m = n
  BY DEF ListInv, ListOK
<1>4. \A m \in Record, f \in Event : Listed(f, m)' => event'[f] = "reset"
  BY <1>2, <1>3 DEF ListInv, ListOK
<1>5. \A m \in Record : Distinct(mon'[m].wait_list)
  BY <1>1 DEF ListInv, ListOK, Distinct
<1>6. ListInv'
  BY <1>2, <1>3, <1>4, <1>5 DEF ListInv, ListOK, Distinct
<1>7. ASSUME NEW u \in Thread, thread'[u].event # NULL PROVE WaiterOK(u)'
  <2>1. thread'[u] = thread[u] /\ u # t
    BY <1>7 DEF Others
  <2>2. PICK f \in Event, m \in Record : f = thread[u].event /\ m = Mon(u) /\ thread[u].obj \in Object
    BY <1>7, <2>1, WaiterRecord
  <2>3. WaitsWith(u, f, m)
    BY <1>7, <2>1, <2>2 DEF WaiterInv, WaiterOK
  <2>4. m \notin R
    BY <2>2, NullFacts DEF RecordInv, Mon
  <2>5. event'[f] = event[f]
    BY <2>3, <2>4 DEF WaitsWith
  <2>6. Listed(f, m)' <=> Listed(f, m)
    BY <1>2, <2>4
  <2>7. \A v \in Thread : thread'[v].event = f => v = u
    BY <2>3, NullFacts DEF WaitsWith, Others
  <2>8. WaitsWith(u, f, m)'
    BY <1>2, <2>1, <2>3, <2>5, <2>6, <2>7 DEF WaitsWith
  <2> QED BY <2>1, <2>2, <2>8 DEF WaiterOK
<1>8. \A u \in Thread : WaiterOK(u)'
  BY <1>7 DEF WaiterOK
<1> QED BY <1>6, <1>8 DEF WaiterInv

LEMMA ArrayType ==
    /\ NumArray \in Nat /\ \A k \in 1..NumArray : ArrayOf[k] \subseteq Record
    /\ \A i, k \in 1..NumArray : i # k => \A m \in ArrayOf[i] : m \notin ArrayOf[k]
<1>1. NumArray = Len(ArrayOf) /\ ArrayOf \in Seq(SUBSET Record)
  BY MonitorAssumption DEF NumArray
<1>2. NumArray \in Nat /\ \A k \in 1..NumArray : ArrayOf[k] \in SUBSET Record
  BY <1>1, LenProperties, ElementOfSeq
<1>3. \A i, k \in 1..NumArray : i # k => ArrayOf[i] \cap ArrayOf[k] = {}
  BY MonitorAssumption
<1> QED BY <1>2, <1>3

\* What mon_new may take: records no object has, and none of a later array.
LEMMA FreeListFacts ==
    ASSUME BaseType, RecordInv, NeedsArray => allocated < NumArray,
           allocated' = IF NeedsArray THEN allocated + 1 ELSE allocated
    PROVE  /\ Recycled \in SUBSET Record /\ \A m \in Recycled : mon[m].data = NULL
           /\ FreeList \in SUBSET Record
           /\ \A m \in FreeList : mon[m].data = NULL /\ (m \in Recycled \/ mon[m].wait_list = <<>>)
           /\ allocated' \in 0..NumArray /\ allocated' >= allocated
           /\ \A k \in (allocated' + 1)..NumArray : \A m \in ArrayOf[k] : m \notin FreeList /\ m \notin Recycled
<1>1. allocated \in Nat /\ allocated <= NumArray /\ NumArray \in Nat
  BY ArrayType DEF BaseType
<1>2. \A m \in Recycled : \E k \in 1..allocated : m \in Collected(k)
  BY DEF Recycled
<1>3. \A m \in Recycled : \E k \in 1..allocated : m \in ArrayOf[k] /\ mon[m].data = NULL
  BY <1>2 DEF Collected
<1>4. Recycled \in SUBSET Record
  BY <1>1, <1>3, ArrayType
<1>5. allocated' \in 0..NumArray /\ allocated' >= allocated
  BY <1>1
<1>6. \A k \in (allocated' + 1)..NumArray : k \in (allocated + 1)..NumArray /\ k \in 1..NumArray
  BY <1>1, <1>5
<1>7. \A k \in (allocated' + 1)..NumArray : \A m \in ArrayOf[k] : m \notin Recycled
  <2> SUFFICES ASSUME NEW k \in (allocated' + 1)..NumArray, NEW m \in ArrayOf[k], m \in Recycled
               PROVE  FALSE
    OBVIOUS
  <2>1. PICK i \in 1..allocated : m \in ArrayOf[i]
    BY <1>3
  <2>2. i \in 1..NumArray /\ i # k /\ k \in 1..NumArray
    BY <1>1, <1>5
  <2> QED BY <2>1, <2>2, ArrayType
<1>8. CASE NeedsArray
  <2>1. FreeList = ArrayOf[allocated + 1] /\ allocated' = allocated + 1 /\ allocated + 1 \in 1..NumArray
        /\ allocated + 1 \in (allocated + 1)..NumArray
    BY <1>1, <1>8 DEF FreeList
  <2>2. FreeList \in SUBSET Record
    BY <2>1, ArrayType
  <2>3. \A m \in FreeList : Unused(m)
    BY <2>1 DEF RecordInv
  <2>4. \A k \in (allocated' + 1)..NumArray : k # allocated + 1 /\ k \in 1..NumArray
    BY <1>1, <2>1
  <2>5. \A k \in (allocated' + 1)..NumArray : \A m \in ArrayOf[k] : m \notin FreeList
    BY <2>1, <2>4, ArrayType
  <2> QED BY <1>3, <1>4, <1>5, <1>7, <2>2, <2>3, <2>5 DEF Unused
<1>9. CASE ~NeedsArray
  <2>1. FreeList = monitor_freelist \cup Recycled /\ allocated' = allocated
    BY <1>9 DEF FreeList
  <2>2. \A m \in monitor_freelist : Unused(m) /\ m \in Record
    BY DEF RecordInv, BaseType
  <2>3. \A k \in (allocated' + 1)..NumArray : \A m \in ArrayOf[k] : m \notin FreeList
    BY <1>7, <2>1 DEF RecordInv
  <2> QED BY <1>3, <1>4, <1>5, <1>7, <2>1, <2>2, <2>3 DEF Unused
<1> QED BY <1>8, <1>9

LEMMA AllocateStall ==
    ASSUME NEW t \in Thread, thread[t].pc = "allocate", Others(t), thread'[t].pc \in {"idle", "owner"},
           NEW p \in Object, StallOK(p), synchronisation'[p] = synchronisation[p],
           synchronisation[p] # NULL =>
             LET m == synchronisation[p]
             IN  mon'[m].owner = mon[m].owner /\ mon'[m].entry_sem = mon[m].entry_sem
                 /\ freedFast'[m] = freedFast[m]
    PROVE  StallOK(p)'
<1>1. \A u \in Thread : Helps(u, p)' <=> Helps(u, p)
  BY DEF Helps, Others
<1>2. Slept(p)' <=> Slept(p)
  BY DEF Slept, Others
<1> QED BY <1>1, <1>2 DEF StallOK

\* The state of the locks: the record is taken for the object, or put back.
LEMMA AllocateLocks ==
    ASSUME BaseType, RecordInv, NestInv, ThreadInv, OwnInv, SemInv, CountInv, StallInv,
           NEW t \in Thread, thread[t].pc = "allocate", NEW o \in Object, thread[t].obj = o, Others(t),
           NEW new \in Record, mon[new].data = NULL, program' = program,
           \A n \in Record \ {new} :
             /\ mon'[n].owner = mon[n].owner /\ mon'[n].nest = mon[n].nest /\ mon'[n].data = mon[n].data
             /\ mon'[n].entry_count = mon[n].entry_count /\ mon'[n].entry_sem = mon[n].entry_sem
             /\ freedFast'[n] = freedFast[n],
           \A p \in Object \ {o} : synchronisation'[p] = synchronisation[p],
           \/ /\ synchronisation[o] = NULL /\ synchronisation'[o] = new
              /\ mon'[new].owner = t /\ mon'[new].nest = 1 /\ mon'[new].data = o
              /\ mon'[new].entry_count = mon[new].entry_count /\ thread'[t] = Idle
           \/ /\ synchronisation[o] # NULL /\ synchronisation'[o] = synchronisation[o]
              /\ mon'[new].owner = NULL /\ mon'[new].data = NULL /\ mon'[new].entry_count = 0
              /\ SameCall(t, thread'[t]) /\ thread'[t].pc = "owner"
    PROVE  NestInv' /\ ThreadInv' /\ OwnInv' /\ SemInv' /\ CountInv' /\ StallInv'
           /\ \A u \in Thread : thread[u].event # NULL => Mon(u)' = Mon(u)
<1>1. \A p \in Object : synchronisation[p] # new
  BY NullFacts DEF RecordInv
<1>0. thread'[t].pc \in {"idle", "owner"}
  BY IdleFacts
<1>2. NestInv'
  <2>1. \A n \in Record \ {new} : NestOK(n)'
    BY DEF NestInv, NestOK
  <2>2. NestOK(new)'
    BY NullFacts DEF NestOK
  <2> QED BY <2>1, <2>2 DEF NestInv
<1>3. \A p \in Object : synchronisation[p] # NULL =>
         /\ synchronisation[p] \in Record \ {new} /\ synchronisation'[p] = synchronisation[p]
  BY <1>1 DEF BaseType
<1>4. ASSUME NEW u \in Thread \ {t}
      PROVE  /\ ThreadOK(u)' /\ OwnOK(u)' /\ SemOK(u)'
             /\ thread[u].event # NULL => Mon(u)' = Mon(u)
             /\ thread[u].pc # "idle" => (Mon(u) = NULL => thread[u].pc \in {"retry", "allocate"})
  <2>1. ThreadOK(u) /\ OwnOK(u) /\ SemOK(u) /\ thread'[u] = thread[u] /\ u # NULL
    BY NullFacts DEF ThreadInv, OwnInv, SemInv, Others
  <2>2. CASE thread[u].pc = "idle"
    <3>1. thread'[u] = Idle /\ thread[u] = Idle
      BY <2>1, <2>2 DEF ThreadOK
    <3> QED BY <3>1, <2>2, CallOver, IdleFacts
  <2>3. CASE thread[u].pc # "idle"
    <3>1. PICK p \in Object : p = thread[u].obj /\ Mon(u) = synchronisation[p]
                              /\ Mon(u)' = synchronisation'[p]
      BY <2>1, <2>3, InCall DEF Mon
    <3>2. CASE Mon(u) # NULL
      <4>1. Mon(u) \in Record \ {new} /\ Mon(u)' = Mon(u)
        BY <1>3, <3>1, <3>2
      <4>2. ThreadOK(u)'
        BY <2>1, <4>1 DEF ThreadOK
      <4>3. Owns(u, p)' <=> Owns(u, p)
        BY <1>3, <3>1, <3>2, <4>1 DEF Owns
      <4>4. OwnOK(u)'
        BY <2>1, <3>1, <4>1, <4>3 DEF OwnOK, Entering
      <4>5. SemOK(u)'
        BY <2>1, <4>1 DEF SemOK
      <4> QED BY <3>2, <4>1, <4>2, <4>4, <4>5
    <3>3. CASE Mon(u) = NULL
      <4>1. thread[u].pc \in {"retry", "allocate"} /\ thread[u].event = NULL
        BY <2>1, <2>3, <3>3 DEF ThreadOK
      <4>2. ThreadOK(u)'
        BY <2>1, <4>1 DEF ThreadOK
      <4>3. ~Owns(u, p)'
        <5>1. CASE p # o
          BY <3>1, <3>3, <5>1 DEF Owns
        <5>2. CASE p = o
          BY <1>4, <3>1, <3>3, <5>2 DEF Owns
        <5> QED BY <5>1, <5>2
      <4>4. OwnOK(u)' /\ SemOK(u)'
        BY <2>1, <3>1, <4>1, <4>3 DEF OwnOK, SemOK
      <4> QED BY <4>1, <4>2, <4>4
    <3> QED BY <3>2, <3>3
  <2> QED BY <2>2, <2>3
<1>5. ThreadOK(t) /\ OwnOK(t) /\ thread[t].event = NULL
  BY DEF ThreadInv, OwnInv, ThreadOK
<1>6. ThreadOK(t)' /\ OwnOK(t)' /\ SemOK(t)' /\ ~Counted(t)'
  <2>1. CASE thread'[t] = Idle
    BY <2>1, CallOver
  <2>2. CASE synchronisation[o] # NULL /\ synchronisation'[o] = synchronisation[o]
             /\ SameCall(t, thread'[t]) /\ thread'[t].pc = "owner"
    <3>1. Mon(t)' = synchronisation[o] /\ thread'[t].obj = o /\ synchronisation[o] \in Record \ {new}
      BY <1>3, <2>2 DEF Mon, SameCall
    <3>2. ~Owns(t, o)
      BY <1>5 DEF OwnOK, Entering
    <3>3. ~Owns(t, o)'
      BY <2>2, <3>1, <3>2 DEF Owns
    <3>4. ThreadOK(t)'
      BY <1>5, <2>2, <3>1 DEF ThreadOK, SameCall
    <3> QED BY <2>2, <3>1, <3>3, <3>4 DEF OwnOK, SemOK, Counted
  <2> QED BY <2>1, <2>2
<1>7. ThreadInv' /\ OwnInv' /\ SemInv' /\ \A u \in Thread : thread[u].event # NULL => Mon(u)' = Mon(u)
  BY <1>4, <1>5, <1>6 DEF ThreadInv, OwnInv, SemInv
<1>8. \A p \in Object : Blocked(p)' = Blocked(p)
  BY <1>6 DEF Blocked, Others, Counted
<1>9. CASE synchronisation[o] = NULL /\ synchronisation'[o] = new
              /\ mon'[new].owner = t /\ mon'[new].entry_count = mon[new].entry_count
  <2>1. Blocked(o) = {}
    <3>1. \A u \in Thread \ {t} : thread[u].obj = o => Mon(u) = NULL
      BY <1>9 DEF Mon
    <3> QED BY <1>4, <3>1 DEF Blocked
  <2>2. mon[new].entry_count = 0
    BY DEF RecordInv
  <2>3. CountInv'
    <3> SUFFICES ASSUME NEW p \in Object, synchronisation'[p] # NULL
                 PROVE  mon'[synchronisation'[p]].entry_count = Cardinality(Blocked(p)')
      BY DEF CountInv
    <3>1. CASE p = o
      BY <1>8, <1>9, <2>1, <2>2, <3>1, FS_EmptySet
    <3>2. CASE p # o
      BY <1>3, <1>8, <3>2 DEF CountInv
    <3> QED BY <3>1, <3>2
  <2>4. ASSUME NEW p \in Object PROVE StallOK(p)'
    <3>1. CASE p = o
      BY <1>9, <3>1, NullFacts DEF StallOK
    <3>2. CASE p # o
      BY <1>0, <1>3, <3>2, AllocateStall DEF StallInv
    <3> QED BY <3>1, <3>2
  <2> QED BY <1>2, <1>7, <2>3, <2>4 DEF StallInv
<1>10. CASE synchronisation[o] # NULL /\ synchronisation'[o] = synchronisation[o]
  <2>1. CountInv'
    <3> SUFFICES ASSUME NEW p \in Object, synchronisation'[p] # NULL
                 PROVE  mon'[synchronisation'[p]].entry_count = Cardinality(Blocked(p)')
      BY DEF CountInv
    <3> QED BY <1>3, <1>8, <1>10 DEF CountInv
  <2>2. ASSUME NEW p \in Object PROVE StallOK(p)'
    BY <1>0, <1>3, <1>10, AllocateStall DEF StallInv
  <2> QED BY <1>2, <1>7, <2>1, <2>2 DEF StallInv
<1> QED BY <1>9, <1>10

LEMMA AllocateInv == ASSUME IInv, NEW t \in Thread, Allocate(t) PROVE IInv'
<1>1. BaseType /\ RecordInv /\ NestInv /\ ThreadInv /\ OwnInv /\ SemInv /\ CountInv /\ StallInv
      /\ ListInv /\ WaiterInv
  BY Unpack
<1>2. /\ thread[t].pc = "allocate" /\ (NeedsArray => allocated < NumArray)
      /\ allocated' = IF NeedsArray THEN allocated + 1 ELSE allocated
      /\ event' = [e \in Event |-> IF e \in Orphans THEN "closed" ELSE event[e]]
      /\ UNCHANGED program
  BY DEF Allocate, At
<1>3. PICK o \in Object : o = thread[t].obj
  BY <1>1, <1>2, InCall
<1>4. PICK new \in FreeList :
         /\ \/ /\ synchronisation[o] = NULL
               /\ mon' = [Cleaned EXCEPT ![new] = [@ EXCEPT !.owner = t, !.nest = 1, !.data = o]]
               /\ synchronisation' = [synchronisation EXCEPT ![o] = new]
               /\ monitor_freelist' = FreeList \ {new}
               /\ Acquired(t)
            \/ /\ synchronisation[o] # NULL
               /\ mon' = [Cleaned EXCEPT ![new] = [@ EXCEPT !.entry_sem = NULL, !.entry_count = 0]]
               /\ monitor_freelist' = FreeList
               /\ GoTo(t, "owner")
               /\ UNCHANGED synchronisation
         /\ freedFast' = [freedFast EXCEPT ![new] = FALSE]
  BY <1>3 DEF Allocate
<1>5. PICK R, F : R = Recycled /\ F = FreeList
  OBVIOUS
<1>6. /\ R \in SUBSET Record /\ \A m \in R : mon[m].data = NULL
      /\ F \in SUBSET Record
      /\ \A m \in F : mon[m].data = NULL /\ (m \in R \/ mon[m].wait_list = <<>>)
      /\ allocated' \in 0..NumArray /\ allocated' >= allocated
      /\ \A k \in (allocated' + 1)..NumArray : \A m \in ArrayOf[k] : m \notin F /\ m \notin R
  BY <1>1, <1>2, <1>5, FreeListFacts
<1>7. new \in Record /\ new \in F
  BY <1>4, <1>5, <1>6
<1>8. PICK C : C = Cleaned
  OBVIOUS
<1>9. /\ C \in [Record -> SyncState]
      /\ \A m \in Record : /\ C[m].owner = mon[m].owner /\ C[m].nest = mon[m].nest
                           /\ C[m].entry_count = mon[m].entry_count /\ C[m].entry_sem = mon[m].entry_sem
                           /\ C[m].data = mon[m].data
                           /\ C[m].wait_list = IF m \in R THEN <<>> ELSE mon[m].wait_list
  <2>1. C = [m \in Record |-> IF m \in R THEN [mon[m] EXCEPT !.wait_list = <<>>] ELSE mon[m]]
    BY <1>5, <1>8 DEF Cleaned
  <2>2. ASSUME NEW m \in Record
        PROVE  /\ C[m] \in SyncState /\ C[m].owner = mon[m].owner /\ C[m].nest = mon[m].nest
               /\ C[m].entry_count = mon[m].entry_count /\ C[m].entry_sem = mon[m].entry_sem
               /\ C[m].data = mon[m].data
               /\ C[m].wait_list = IF m \in R THEN <<>> ELSE mon[m].wait_list
    <3>1. PICK n \in SyncState : n = mon[m]
      BY <1>1, MonType
    <3>2. PICK c : c = [n EXCEPT !.wait_list = <<>>]
      OBVIOUS
    <3>3. c \in SyncState /\ c.owner = n.owner /\ c.nest = n.nest /\ c.entry_count = n.entry_count
          /\ c.entry_sem = n.entry_sem /\ c.data = n.data /\ c.wait_list = <<>>
      <4>1. <<>> \in Seq(Event)
        BY EmptySeq
      <4> QED BY <3>1, <3>2, <4>1 DEF SyncState
    <3>4. C[m] = IF m \in R THEN c ELSE n
      BY <2>1, <3>1, <3>2
    <3> QED BY <3>1, <3>3, <3>4
  <2>3. C \in [Record -> SyncState]
    BY <2>1, <2>2
  <2> QED BY <2>2, <2>3
<1>10. ThreadOK(t) /\ thread[t].event = NULL
  BY <1>1, <1>2 DEF ThreadInv, ThreadOK
<1>11. freedFast' \in [Record -> BOOLEAN] /\ \A n \in Record \ {new} : freedFast'[n] = freedFast[n]
  BY <1>1, <1>4, <1>7 DEF BaseType
<1>12. event' \in [Event -> {"closed", "reset", "set"}]
       /\ \A f \in Event : event'[f] = IF \E m \in R : Listed(f, m) THEN "closed" ELSE event[f]
  <2>1. \A f : f \in Orphans <=> \E m \in R : Listed(f, m)
    BY <1>5 DEF Orphans, Listed
  <2> QED BY <1>1, <1>2, <2>1 DEF BaseType
<1>13. \A k \in (allocated' + 1)..NumArray : k \in (allocated + 1)..NumArray /\ k \in 1..NumArray
  <2>1. allocated \in Nat /\ NumArray \in Nat /\ allocated' \in Nat /\ allocated' >= allocated
    BY <1>1, <1>6, ArrayType DEF BaseType
  <2>2. ASSUME NEW a \in Nat, NEW b \in Nat, NEW c \in Nat, b >= a, NEW k \in (b + 1)..c
        PROVE  k \in (a + 1)..c /\ k \in 1..c
    BY <2>2
  <2> QED BY <2>1, <2>2
<1>14. CASE /\ synchronisation[o] = NULL
            /\ mon' = [C EXCEPT ![new] = [@ EXCEPT !.owner = t, !.nest = 1, !.data = o]]
            /\ synchronisation' = [synchronisation EXCEPT ![o] = new]
            /\ monitor_freelist' = F \ {new}
            /\ Acquired(t)
  <2>1. PICK n \in SyncState : n = C[new]
    BY <1>7, <1>9
  <2>2. PICK r : r = [n EXCEPT !.owner = t, !.nest = 1, !.data = o]
    OBVIOUS
  <2>3. r \in SyncState /\ r.owner = t /\ r.nest = 1 /\ r.data = o /\ r.entry_count = n.entry_count
        /\ r.entry_sem = n.entry_sem /\ r.wait_list = n.wait_list
    <3>1. 1 \in 0..program.nest
      BY <1>1, ProgramType
    <3> QED BY <2>1, <2>2, <3>1 DEF SyncState
  <2>4. mon' \in [Record -> SyncState] /\ mon'[new] = r /\ \A m \in Record \ {new} : mon'[m] = C[m]
    BY <1>7, <1>9, <1>14, <2>1, <2>2, <2>3
  <2>5. synchronisation' \in [Object -> Record \cup {NULL}] /\ synchronisation'[o] = new
        /\ \A p \in Object \ {o} : synchronisation'[p] = synchronisation[p]
    BY <1>1, <1>7, <1>14 DEF BaseType
  <2>6. PICK s \in ThreadState : s = Idle /\ thread' = [thread EXCEPT ![t] = s]
    BY <1>1, <1>10, <1>14, RegainedState
  <2>7. thread' \in [Thread -> ThreadState] /\ thread'[t] = Idle /\ Others(t)
    BY <1>1, <2>6, ThreadEffect DEF Others
  <2>8. BaseType'
    BY <1>1, <1>2, <1>6, <1>11, <1>12, <1>14, <2>4, <2>5, <2>7 DEF BaseType, SyncState, ThreadState
  <2>9. mon[new].data = NULL /\ mon'[new].wait_list = <<>> /\ mon[new].entry_count = 0
    BY <1>1, <1>6, <1>7, <1>9, <2>1, <2>3, <2>4 DEF RecordInv
  <2>10. NestInv' /\ ThreadInv' /\ OwnInv' /\ SemInv' /\ CountInv' /\ StallInv'
         /\ \A u \in Thread : thread[u].event # NULL => Mon(u)' = Mon(u)
    <3>1. \A i \in Record \ {new} :
             /\ mon'[i].owner = mon[i].owner /\ mon'[i].nest = mon[i].nest /\ mon'[i].data = mon[i].data
             /\ mon'[i].entry_count = mon[i].entry_count /\ mon'[i].entry_sem = mon[i].entry_sem
             /\ freedFast'[i] = freedFast[i]
      BY <1>9, <1>11, <2>4
    <3>2. /\ synchronisation[o] = NULL /\ synchronisation'[o] = new
          /\ mon'[new].owner = t /\ mon'[new].nest = 1 /\ mon'[new].data = o
          /\ mon'[new].entry_count = mon[new].entry_count /\ thread'[t] = Idle
      BY <1>7, <1>9, <1>14, <2>1, <2>3, <2>4, <2>5, <2>7
    <3>3. program' = program /\ thread[t].pc = "allocate"
      BY <1>2
    <3> QED BY <1>1, <1>3, <1>7, <2>5, <2>7, <2>9, <3>1, <3>2, <3>3, AllocateLocks
  <2>11. RecordInv'
    <3>1. \A p \in Object : synchronisation[p] # new
      BY <1>1, <1>7, <2>9, NullFacts DEF RecordInv
    <3>2. \A p \in Object : synchronisation'[p] # NULL => mon'[synchronisation'[p]].data = p
      <4> SUFFICES ASSUME NEW p \in Object \ {o}, synchronisation[p] # NULL
                   PROVE  mon'[synchronisation[p]].data = p
        BY <2>3, <2>4, <2>5
      <4>1. synchronisation[p] \in Record \ {new}
        BY <1>1, <3>1 DEF BaseType
      <4> QED BY <1>1, <1>9, <2>4, <4>1 DEF RecordInv
    <3>3. \A m \in Record : mon'[m].data # NULL => synchronisation'[mon'[m].data] = m
      <4> SUFFICES ASSUME NEW m \in Record \ {new}, mon[m].data # NULL
                   PROVE  synchronisation'[mon[m].data] = m
        BY <1>9, <2>3, <2>4, <2>5
      <4>1. PICK p \in Object : p = mon[m].data
        BY <1>1, MonType
      <4>2. synchronisation[p] = m /\ p # o
        BY <1>1, <1>14, <4>1, NullFacts DEF RecordInv
      <4> QED BY <2>5, <4>1, <4>2
    <3>4. \A m \in Record : mon'[m].data = NULL => mon'[m].owner = NULL /\ mon'[m].entry_count = 0
      BY <1>1, <1>9, <2>3, <2>4, NullFacts DEF RecordInv
    <3>5. \A m \in Record : m # new /\ mon[m].data = NULL /\ (m \in R \/ mon[m].wait_list = <<>>) => Unused(m)'
      BY <1>9, <2>4 DEF Unused
    <3>6. \A m \in F \ {new} : Unused(m)'
      BY <1>6, <3>5
    <3>7. \A k \in (allocated' + 1)..NumArray : \A m \in ArrayOf[k] : Unused(m)' /\ m \notin F \ {new}
      <4> SUFFICES ASSUME NEW k \in (allocated' + 1)..NumArray, NEW m \in ArrayOf[k]
                   PROVE  Unused(m)' /\ m \notin F
        OBVIOUS
      <4>1. k \in (allocated + 1)..NumArray /\ k \in 1..NumArray
        BY <1>13
      <4>2. m \in Record /\ Unused(m) /\ m \notin F
        BY <1>1, <1>6, <4>1, ArrayType DEF RecordInv
      <4> QED BY <1>7, <3>5, <4>2 DEF Unused
    <3> QED BY <1>14, <3>2, <3>3, <3>4, <3>6, <3>7 DEF RecordInv
  <2>12. ListInv' /\ WaiterInv'
    <3>1. \A m \in R : mon'[m].wait_list = <<>>
      BY <1>6, <1>9, <2>4, <2>9
    <3>2. \A m \in Record \ R : mon'[m].wait_list = mon[m].wait_list
      BY <1>6, <1>7, <1>9, <2>4, <2>9
    <3>3. thread'[t].event = NULL
      BY <2>7, IdleFacts
    <3> QED BY <1>1, <1>6, <1>10, <1>12, <2>7, <2>10, <3>1, <3>2, <3>3, ListsCleaned
  <2> QED BY <2>8, <2>10, <2>11, <2>12 DEF IInv, LockInv
<1>15. CASE /\ synchronisation[o] # NULL
            /\ mon' = [C EXCEPT ![new] = [@ EXCEPT !.entry_sem = NULL, !.entry_count = 0]]
            /\ monitor_freelist' = F
            /\ GoTo(t, "owner")
            /\ UNCHANGED synchronisation
  <2>1. PICK n \in SyncState : n = C[new]
    BY <1>7, <1>9
  <2>2. PICK r : r = [n EXCEPT !.entry_sem = NULL, !.entry_count = 0]
    OBVIOUS
  <2>3. r \in SyncState /\ r.owner = n.owner /\ r.nest = n.nest /\ r.data = n.data
        /\ r.entry_count = 0 /\ r.entry_sem = NULL /\ r.wait_list = n.wait_list
    BY <2>1, <2>2 DEF SyncState
  <2>4. mon' \in [Record -> SyncState] /\ mon'[new] = r /\ \A m \in Record \ {new} : mon'[m] = C[m]
    BY <1>7, <1>9, <1>15, <2>1, <2>2, <2>3
  <2>5. PICK s \in ThreadState : /\ thread' = [thread EXCEPT ![t] = s] /\ SameCall(t, s)
                                 /\ s.pc = "owner"
    BY <1>1, <1>15, GoToState DEF Pc
  <2>6. thread' \in [Thread -> ThreadState] /\ thread'[t] = s /\ Others(t)
    BY <1>1, <2>5, ThreadEffect DEF Others
  <2>7. BaseType'
    BY <1>1, <1>2, <1>6, <1>11, <1>12, <1>15, <2>4, <2>6 DEF BaseType, SyncState, ThreadState
  <2>8. mon[new].data = NULL /\ mon[new].owner = NULL /\ mon'[new].wait_list = <<>>
        /\ mon[new].entry_count = 0
    BY <1>1, <1>6, <1>7, <1>9, <2>1, <2>3, <2>4 DEF RecordInv
  <2>9. mon'[new].data = NULL /\ mon'[new].owner = NULL /\ mon'[new].entry_count = 0
    BY <1>7, <1>9, <2>1, <2>3, <2>4, <2>8
  <2>10. NestInv' /\ ThreadInv' /\ OwnInv' /\ SemInv' /\ CountInv' /\ StallInv'
         /\ \A u \in Thread : thread[u].event # NULL => Mon(u)' = Mon(u)
    <3>1. \A i \in Record \ {new} :
             /\ mon'[i].owner = mon[i].owner /\ mon'[i].nest = mon[i].nest /\ mon'[i].data = mon[i].data
             /\ mon'[i].entry_count = mon[i].entry_count /\ mon'[i].entry_sem = mon[i].entry_sem
             /\ freedFast'[i] = freedFast[i]
      BY <1>9, <1>11, <2>4
    <3>2. synchronisation[o] # NULL /\ synchronisation'[o] = synchronisation[o]
          /\ SameCall(t, thread'[t]) /\ thread'[t].pc = "owner"
      BY <1>15, <2>5, <2>6
    <3>3. program' = program /\ thread[t].pc = "allocate"
          /\ \A p \in Object \ {o} : synchronisation'[p] = synchronisation[p]
      BY <1>2, <1>15
    <3> QED BY <1>1, <1>3, <1>7, <2>6, <2>8, <2>9, <3>1, <3>2, <3>3, AllocateLocks
  <2>11. RecordInv'
    <3>1. \A m \in Record : mon'[m].data = mon[m].data /\ mon'[m].owner = mon[m].owner
                            /\ mon'[m].entry_count = mon[m].entry_count
      BY <1>9, <2>4, <2>8, <2>9
    <3>2. \A p \in Object : synchronisation'[p] # NULL => mon'[synchronisation'[p]].data = p
      BY <1>1, <1>15, <3>1 DEF RecordInv, BaseType
    <3>3. \A m \in Record : mon'[m].data # NULL => synchronisation'[mon'[m].data] = m
      BY <1>1, <1>15, <3>1 DEF RecordInv
    <3>4. \A m \in Record : mon'[m].data = NULL => mon'[m].owner = NULL /\ mon'[m].entry_count = 0
      BY <1>1, <3>1 DEF RecordInv
    <3>5. \A m \in Record : mon[m].data = NULL /\ (m \in R \/ mon[m].wait_list = <<>>) => Unused(m)'
      BY <1>9, <2>4, <2>8, <3>1 DEF Unused
    <3>6. \A m \in F : Unused(m)'
      BY <1>6, <3>5
    <3>7. \A k \in (allocated' + 1)..NumArray : \A m \in ArrayOf[k] : Unused(m)' /\ m \notin F
      <4> SUFFICES ASSUME NEW k \in (allocated' + 1)..NumArray, NEW m \in ArrayOf[k]
                   PROVE  Unused(m)' /\ m \notin F
        OBVIOUS
      <4>1. k \in (allocated + 1)..NumArray /\ k \in 1..NumArray
        BY <1>13
      <4>2. m \in Record /\ Unused(m) /\ m \notin F
        BY <1>1, <1>6, <4>1, ArrayType DEF RecordInv
      <4> QED BY <3>5, <4>2 DEF Unused
    <3> QED BY <1>15, <3>2, <3>3, <3>4, <3>6, <3>7 DEF RecordInv
  <2>12. ListInv' /\ WaiterInv'
    <3>1. \A m \in R : mon'[m].wait_list = <<>>
      BY <1>6, <1>9, <2>4, <2>8
    <3>2. \A m \in Record \ R : mon'[m].wait_list = mon[m].wait_list
      BY <1>6, <1>7, <1>9, <2>4, <2>8
    <3>3. thread'[t].event = NULL
      BY <1>10, <2>5, <2>6 DEF SameCall
    <3> QED BY <1>1, <1>6, <1>10, <1>12, <2>6, <2>10, <3>1, <3>2, <3>3, ListsCleaned
  <2> QED BY <2>7, <2>10, <2>11, <2>12 DEF IInv, LockInv
<1> QED BY <1>4, <1>5, <1>8, <1>14, <1>15

-----------------------------------------------------------------------------
\* The inductive invariant.

LEMMA InitInv == Init => IInv
<1> SUFFICES ASSUME Init PROVE IInv
  OBVIOUS
<1>1. program \in Programs /\ program.nest \in Nat /\ program.nest >= 1
  BY MonitorAssumption DEF Init, Programs
<1>2. \A m \in Record : mon[m] = [owner |-> NULL, nest |-> 0, entry_count |-> 0,
                                 entry_sem |-> NULL, wait_list |-> <<>>, data |-> NULL]
  BY DEF Init
<1>3. \A m \in Record : mon[m].data = NULL /\ mon[m].owner = NULL /\ mon[m].entry_count = 0
                        /\ mon[m].wait_list = <<>>
  BY <1>2
<1>4. \A t \in Thread : thread[t] = Idle
  BY DEF Init
<1>5. \A o \in Object : synchronisation[o] = NULL
  BY DEF Init
<1>6. BaseType
  <2>1. mon \in [Record -> SyncState]
    <3>1. <<>> \in Seq(Event) /\ 0 \in 0..program.nest
      BY <1>1, EmptySeq
    <3> QED BY <3>1 DEF Init, SyncState
  <2>2. Idle \in ThreadState
    <3>1. 0 \in 0..program.nest
      BY <1>1
    <3> QED BY <3>1 DEF Idle, ThreadState, Pc, INFINITE
  <2> QED BY <1>1, <2>1, <2>2, ArrayType DEF Init, BaseType
<1>7. RecordInv
  <2>1. monitor_freelist = {} /\ allocated = 0
    BY DEF Init
  <2>2. \A k \in (allocated + 1)..NumArray : ArrayOf[k] \subseteq Record
    BY <2>1, ArrayType
  <2> QED BY <1>3, <1>5, <2>1, <2>2 DEF RecordInv, Unused
<1>8. NestInv
  BY <1>3 DEF NestInv, NestOK
<1>9. ThreadInv /\ OwnInv /\ SemInv /\ WaiterInv
  BY <1>4, IdleFacts DEF ThreadInv, ThreadOK, OwnInv, OwnOK, SemInv, SemOK, WaiterInv, WaiterOK
<1>10. CountInv /\ StallInv
  BY <1>5 DEF CountInv, StallInv, StallOK
<1>11. ListInv
  <2>1. DOMAIN <<>> = {}
    OBVIOUS
  <2> QED BY <1>3, <2>1 DEF ListInv, ListOK, Listed, ToSet
<1> QED BY <1>6, <1>7, <1>8, <1>9, <1>10, <1>11 DEF IInv, LockInv

LEMMA Unchanged == IInv /\ UNCHANGED vars => IInv'
<1> SUFFICES ASSUME IInv, UNCHANGED vars PROVE IInv'
  OBVIOUS
<1>1. UNCHANGED <<synchronisation, mon, monitor_freelist, allocated, event, thread, freedFast, program>>
  BY DEF vars
<1>2. BaseType' /\ RecordInv' /\ NestInv'
  BY <1>1, Unpack DEF BaseType, SyncState, ThreadState, RecordInv, Unused, NestInv, NestOK
<1>3. ThreadInv' /\ OwnInv' /\ SemInv'
  BY <1>1, Unpack DEF ThreadInv, ThreadOK, Mon, OwnInv, OwnOK, Owns, Entering, SemInv, SemOK
<1>4. CountInv' /\ StallInv'
  BY <1>1, Unpack DEF CountInv, Blocked, StallInv, StallOK, Slept, Helps
<1>5. ListInv' /\ WaiterInv'
  BY <1>1, Unpack DEF ListInv, ListOK, Listed, WaiterInv, WaiterOK, WaitsWith, Mon
<1> QED BY <1>2, <1>3, <1>4, <1>5 DEF IInv, LockInv

LEMMA NextInv == IInv /\ [Next]_vars => IInv'
<1> SUFFICES ASSUME IInv, [Next]_vars PROVE IInv'
  OBVIOUS
<1>1. CASE UNCHANGED vars
  BY <1>1, Unchanged
<1>2. ASSUME NEW t \in Thread, Step(t) PROVE IInv'
  BY <1>2, LoadSyncInv, AllocateInv, EnterAgainInv, ReadOwnerInv, SwapInv, CreateSemInv, CountEntryInv,
     SwapAgainInv, SleepInv, AfterSleepInv, WakeupInv, ReleaseInv, FastFreeInv, WaitEndsInv, RegainedInv DEF Step
<1>3. ASSUME NEW t \in Thread, NEW o \in Object, Begin(t, o) PROVE IInv'
  BY <1>3, StartInv, ExitNestedInv, ExitLastInv, FastExitInv, PulseInv, PulseAllInv, WaitInv DEF Begin, Enter
<1>4. ASSUME NEW t \in Thread, Interrupt(t) PROVE IInv'
  BY <1>4, InterruptInv
<1>5. ASSUME NEW o \in Object, Collect(o) PROVE IInv'
  BY <1>5, CollectInv
<1> QED BY <1>1, <1>2, <1>3, <1>4, <1>5 DEF Next

\* The inductive invariant holds in every state of every program, so the lock
\* records, the threads' calls, the counts and the lists agree.
THEOREM Invariance == Spec => []IInv
<1>1. Init => IInv
  BY InitInv
<1>2. IInv /\ [Next]_vars => IInv'
  BY NextInv
<1> QED BY <1>1, <1>2, PTL DEF Spec

\* Every variable of monitor.c keeps its type; entry_count does not pass the
\* number of threads and the semaphore not its maximum.
THEOREM TypeCorrect == Spec => []TypeOK
<1>1. IInv => TypeOK
  <2> SUFFICES ASSUME IInv PROVE TypeOK
    OBVIOUS
  <2>1. BaseType /\ RecordInv /\ CountInv
    BY Unpack
  <2>2. Cardinality(Thread) \in Nat
    BY MonitorAssumption, FS_CardinalityType
  <2>3. ASSUME NEW m \in Record PROVE mon[m] \in MonoThreadsSync
    <3>1. mon[m].entry_count \in 0..Cardinality(Thread)
      <4>1. CASE mon[m].data = NULL
        BY <2>1, <2>2, <4>1 DEF RecordInv
      <4>2. CASE mon[m].data # NULL
        <5>1. PICK o \in Object : synchronisation[o] = m
          BY <2>1, <4>2, MonType DEF RecordInv
        <5>2. mon[m].entry_count = Cardinality(Blocked(o))
          BY <2>1, <5>1, NullFacts DEF CountInv
        <5>3. Blocked(o) \subseteq Thread
          BY DEF Blocked
        <5>4. Cardinality(Blocked(o)) <= Cardinality(Thread)
          BY <5>3, MonitorAssumption, FS_Subset
        <5> QED BY <2>2, <5>2, <5>4, BlockedFinite
      <4> QED BY <4>1, <4>2
    <3>2. mon[m] \in SyncState
      BY <2>1, MonType
    <3> QED BY <3>1, <3>2 DEF SyncState, MonoThreadsSync
  <2>4. mon \in [Record -> MonoThreadsSync]
    BY <2>1, <2>3 DEF BaseType
  <2> QED BY <2>1, <2>4 DEF BaseType, TypeOK
<1> QED BY <1>1, Invariance, PTL

LEMMA CountedHasSem ==
    ASSUME IInv, NEW o \in Object, synchronisation[o] # NULL, mon[synchronisation[o]].entry_count > 0
    PROVE  mon[synchronisation[o]].entry_sem # NULL
<1>1. BaseType /\ SemInv /\ CountInv
  BY Unpack
<1>2. Cardinality(Blocked(o)) > 0
  BY <1>1 DEF CountInv
<1>3. PICK u \in Blocked(o) : TRUE
  BY <1>2, BlockedFinite, FS_EmptySet
<1>4. u \in Thread /\ thread[u].obj = o /\ thread[u].pc \in {"again", "asleep", "awake"}
  BY <1>3 DEF Blocked
<1> QED BY <1>1, <1>4 DEF SemInv, SemOK, Mon

\* The assertions of monitor.c hold: g_assert (mon->nest == 1) at each of the
\* compare-and-swaps, no waiter on the free list, no semaphore used before it is
\* created.
THEOREM Assertions == Spec => []AssertionsHold
<1>1. IInv => AssertionsHold
  <2> SUFFICES ASSUME IInv PROVE AssertionsHold
    OBVIOUS
  <2>1. BaseType /\ RecordInv /\ NestInv
    BY Unpack
  <2>2. ASSUME NEW m \in Installed
        PROVE  /\ mon[m].owner = NULL => mon[m].nest = 1
               /\ mon[m].entry_count > 0 => mon[m].entry_sem # NULL
               /\ m \in Record /\ mon[m].data # NULL
    <3>1. m \in Record
      BY DEF Installed
    <3>2. PICK o \in Object : synchronisation[o] = m
      BY DEF Installed
    <3>3. m # NULL
      BY <3>1, NullFacts
    <3> QED BY <2>1, <3>1, <3>2, <3>3, FreeRecord, CountedHasSem
  <2>3. \A m \in monitor_freelist : Unused(m)
    BY <2>1 DEF RecordInv
  <2>4. \A t \in Thread : At(t, "release") => mon[Mon(t)].entry_sem # NULL
    BY Unpack DEF SemInv, SemOK, At
  <2> QED BY <2>2, <2>3, <2>4 DEF AssertionsHold, Unused
<1> QED BY <1>1, Invariance, PTL

\* entry_count is exact, whatever the order of the increments, the decrements and
\* the compare-and-swaps of the blocked threads.
THEOREM CountExact == Spec => []EntryCounted
<1>1. IInv => EntryCounted
  BY Unpack DEF CountInv, EntryCounted, Blocked
<1> QED BY <1>1, Invariance, PTL

\* No wake-up of mono_monitor_exit is lost: a free lock with a sleeping thread has
\* its semaphore up or a thread on the way to it, unless the fast path freed it.
THEOREM WakeupsSuffice == Spec => []NoStall
<1>1. IInv => NoStall
  <2> SUFFICES ASSUME IInv, NEW t \in Thread, At(t, "asleep"), mon[Mon(t)].owner = NULL,
                      ~freedFast[Mon(t)]
               PROVE  \/ mon[Mon(t)].entry_sem > 0
                      \/ \E u \in Thread \ {t} :
                           /\ thread[u].obj = thread[t].obj
                           /\ thread[u].pc \notin {"idle", "asleep", "waiting", "allocate"}
    BY DEF NoStall
  <2>1. BaseType /\ ThreadInv /\ StallInv
    BY Unpack
  <2>2. PICK o \in Object : o = thread[t].obj /\ synchronisation[o] = Mon(t) /\ Mon(t) \in Record
    BY <2>1, InCall DEF At
  <2>3. StallOK(o) /\ Slept(o) /\ Mon(t) # NULL
    BY <2>1, <2>2, NullFacts DEF StallInv, Slept, At
  <2>4. mon[Mon(t)].entry_sem > 0 \/ \E u \in Thread : Helps(u, o)
    BY <2>2, <2>3 DEF StallOK
  <2>5. \A u \in Thread : Helps(u, o) => u # t
    BY DEF Helps, At
  <2> QED BY <2>2, <2>4, <2>5 DEF Helps
<1> QED BY <1>1, Invariance, PTL

\* A thread in Wait has an open event that no other thread has, and the list of
\* its object holds it once until Pulse takes it, never after.
THEOREM WaitersKnown == Spec => []WaitersListed
<1>1. IInv => WaitersListed
  <2> SUFFICES ASSUME IInv, NEW t \in Thread, NEW e, e = thread[t].event, e # NULL,
                      NEW S, S = {i \in DOMAIN mon[Mon(t)].wait_list : mon[Mon(t)].wait_list[i] = e}
               PROVE  /\ event[e] # "closed"
                      /\ Cardinality(S) = IF event[e] = "set" \/ thread[t].woken THEN 0 ELSE 1
                      /\ \A u \in Thread \ {t} : thread[u].event # e
    BY DEF WaitersListed
  <2>1. BaseType /\ ThreadInv /\ ListInv /\ WaiterInv
    BY Unpack
  <2>2. PICK m \in Record : m = Mon(t) /\ e \in Event
    BY <2>1, WaiterRecord
  <2>3. WaitsWith(t, e, m) /\ ListOK(m)
    BY <2>1, <2>2 DEF WaiterInv, WaiterOK, ListInv
  <2>4. CASE event[e] = "set" \/ thread[t].woken
    <3>1. S = {}
      BY <2>2, <2>3, <2>4 DEF WaitsWith, Listed, ToSet
    <3> QED BY <2>3, <2>4, <3>1, FS_EmptySet DEF WaitsWith
  <2>5. CASE ~(event[e] = "set" \/ thread[t].woken)
    <3>1. PICK i \in DOMAIN mon[m].wait_list : mon[m].wait_list[i] = e
      BY <2>3, <2>5 DEF WaitsWith, Listed, ToSet
    <3>2. S = {i}
      BY <2>2, <2>3, <3>1 DEF ListOK
    <3> QED BY <2>3, <2>5, <3>2, FS_Singleton DEF WaitsWith
  <2> QED BY <2>4, <2>5
<1> QED BY <1>1, Invariance, PTL
=============================================================================
