-------------------------- MODULE MonitorRefinement --------------------------
(***************************************************************************)
(* Monitor implements MonitorSpec: every step of a thread, of the garbage  *)
(* collector or of an interruption is a step of the monitor of an object   *)
(* as its users know it, or changes nothing they can see.                  *)
(***************************************************************************)
EXTENDS MonitorProofs

-----------------------------------------------------------------------------
\* Refinement.  What the steps do to the monitor as MonitorSpec sees it.

LEMMA HolderSame ==
    ASSUME BaseType, NEW t \in Thread, Others(t), NEW p \in Object,
           ~(thread[t].pc = "regained" /\ thread[t].obj = p),
           ~(thread'[t].pc = "regained" /\ thread'[t].obj = p),
           synchronisation'[p] = synchronisation[p],
           NEW m, m = synchronisation[p],
           m # NULL => mon'[m].owner = mon[m].owner /\ mon'[m].nest = mon[m].nest
    PROVE  Holder(p)' = Holder(p) /\ Depth(p)' = Depth(p)
<1>1. CASE m = NULL
  BY <1>1 DEF Holder, Depth
<1>2. CASE m # NULL
  <2>1. PICK w \in Thread \cup {NULL} : w = mon[m].owner /\ mon'[m].owner = w
    BY <1>2, MonType DEF BaseType
  <2>2. w # NULL /\ w # t => thread'[w] = thread[w]
    BY <2>1 DEF Others
  <2>3. Holder(p)' = Holder(p)
    BY <1>2, <2>1, <2>2 DEF Holder, At
  <2> QED BY <1>2, <2>3 DEF Depth
<1> QED BY <1>1, <1>2

LEMMA QueueSame ==
    ASSUME NEW p \in Object, synchronisation'[p] = synchronisation[p], NEW m, m = synchronisation[p],
           m # NULL => mon'[m].wait_list = mon[m].wait_list
    PROVE  Queue(p)' = Queue(p)
BY DEF Queue

LEMMA WaiterChosen ==
    ASSUME NEW e, WaiterOf(e) # {}
    PROVE  Waiter(e) \in WaiterOf(e)
<1>1. Waiter(e) = CHOOSE t \in WaiterOf(e) : TRUE
  BY DEF Waiter
<1>2. \E t \in WaiterOf(e) : TRUE
  OBVIOUS
<1> HIDE DEF WaiterOf
<1> QED BY <1>1, <1>2, Zenon

\* The waiters keep their events and what they have saved.
LEMMA WaitsSame ==
    ASSUME \A u \in Thread : thread'[u].event = thread[u].event,
           \A u \in Thread : thread[u].event # NULL => thread'[u].nest = thread[u].nest,
           \A u \in Thread : thread[u].event # NULL =>
             LET e == thread[u].event
             IN  (event'[e] = "set" \/ thread'[u].woken) <=> (event[e] = "set" \/ thread[u].woken)
    PROVE  \A e \in Event : /\ Waiter(e)' = Waiter(e) /\ Saved(e)' = Saved(e)
                            /\ Signalled(e)' <=> Signalled(e)
<1> SUFFICES ASSUME NEW e \in Event
             PROVE  Waiter(e)' = Waiter(e) /\ Saved(e)' = Saved(e) /\ (Signalled(e)' <=> Signalled(e))
  OBVIOUS
<1>1. WaiterOf(e)' = WaiterOf(e)
  BY DEF WaiterOf
<1>2. Waiter(e)' = Waiter(e)
  BY <1>1 DEF Waiter
<1>3. \A u \in WaiterOf(e) : u \in Thread /\ thread[u].event = e /\ e # NULL
  BY NullFacts DEF WaiterOf
<1>4. Saved(e)' = Saved(e)
  BY <1>1, <1>2, <1>3, WaiterChosen DEF Saved
<1>5. Signalled(e)' <=> Signalled(e)
  BY <1>1, <1>3 DEF Signalled
<1> QED BY <1>2, <1>4, <1>5

\* A waiter is gone.
LEMMA WaitsDropped ==
    ASSUME NEW t \in Thread, Others(t), NEW e \in Event, thread[t].event = e, thread'[t].event = NULL,
           \A u \in Thread : thread[u].event = e => u = t, \A f \in Event \ {e} : event'[f] = event[f]
    PROVE  /\ Waiter(e)' = NULL /\ Saved(e)' = 0 /\ ~Signalled(e)'
           /\ \A f \in Event \ {e} : /\ Waiter(f)' = Waiter(f) /\ Saved(f)' = Saved(f)
                                     /\ Signalled(f)' <=> Signalled(f)
<1>1. e # NULL
  BY NullFacts
<1>2. WaiterOf(e)' = {}
  BY <1>1 DEF WaiterOf, Others
<1>3. ASSUME NEW f \in Event \ {e}
      PROVE  Waiter(f)' = Waiter(f) /\ Saved(f)' = Saved(f) /\ (Signalled(f)' <=> Signalled(f))
  <2>1. WaiterOf(f)' = WaiterOf(f) /\ t \notin WaiterOf(f)
    BY NullFacts DEF WaiterOf, Others
  <2>2. \A u \in WaiterOf(f) : thread'[u] = thread[u]
    BY <2>1 DEF WaiterOf, Others
  <2>3. Waiter(f)' = Waiter(f)
    BY <2>1 DEF Waiter
  <2>4. Saved(f)' = Saved(f)
    BY <2>1, <2>2, <2>3, WaiterChosen DEF Saved
  <2> QED BY <2>1, <2>2, <2>3, <2>4 DEF Signalled
<1> QED BY <1>2, <1>3 DEF Waiter, Saved, Signalled

\* A waiter comes.
LEMMA WaitsAdded ==
    ASSUME NEW t \in Thread, Others(t), NEW e \in Event, thread[t].event = NULL, thread'[t].event = e,
           \A u \in Thread : thread[u].event # e, \A f \in Event \ {e} : event'[f] = event[f],
           event'[e] # "set", ~thread'[t].woken
    PROVE  /\ Waiter(e) = NULL /\ Waiter(e)' = t /\ Saved(e)' = thread'[t].nest
           /\ ~Signalled(e) /\ ~Signalled(e)'
           /\ \A f \in Event \ {e} : /\ Waiter(f)' = Waiter(f) /\ Saved(f)' = Saved(f)
                                     /\ Signalled(f)' <=> Signalled(f)
<1>1. e # NULL
  BY NullFacts
<1>2. WaiterOf(e)' = {t} /\ WaiterOf(e) = {}
  BY <1>1 DEF WaiterOf, Others
<1>3. ASSUME NEW f \in Event \ {e}
      PROVE  Waiter(f)' = Waiter(f) /\ Saved(f)' = Saved(f) /\ (Signalled(f)' <=> Signalled(f))
  <2>1. WaiterOf(f)' = WaiterOf(f) /\ t \notin WaiterOf(f)
    BY NullFacts DEF WaiterOf, Others
  <2>2. \A u \in WaiterOf(f) : thread'[u] = thread[u]
    BY <2>1 DEF WaiterOf, Others
  <2>3. Waiter(f)' = Waiter(f)
    BY <2>1 DEF Waiter
  <2>4. Saved(f)' = Saved(f)
    BY <2>1, <2>2, <2>3, WaiterChosen DEF Saved
  <2> QED BY <2>1, <2>2, <2>3, <2>4 DEF Signalled
<1>4. Waiter(e)' = t
  <2>1. Waiter(e)' = CHOOSE x \in {t} : TRUE
    BY <1>2 DEF Waiter
  <2>2. (CHOOSE x \in {t} : TRUE) \in {t}
    <3>1. \E x \in {t} : TRUE
      OBVIOUS
    <3> QED BY <3>1, Zenon
  <2> QED BY <2>1, <2>2
<1>5. Saved(e)' = thread'[t].nest
  BY <1>2, <1>4 DEF Saved
<1> QED BY <1>2, <1>3, <1>4, <1>5 DEF Waiter, Signalled

\* The waiter of an event is the thread that has it.
LEMMA WaiterIs ==
    ASSUME WaiterInv, NEW t \in Thread, NEW e \in Event, thread[t].event = e
    PROVE  /\ Waiter(e) = t /\ Saved(e) = thread[t].nest
           /\ Signalled(e) <=> event[e] = "set" \/ thread[t].woken
           /\ \A u \in Thread : thread[u].event = e => u = t
<1>1. e # NULL
  BY NullFacts
<1>2. \A u \in Thread : thread[u].event = e => u = t
  BY <1>1 DEF WaiterInv, WaiterOK, WaitsWith
<1>3. WaiterOf(e) = {t}
  BY <1>2 DEF WaiterOf
<1>4. Waiter(e) = t
  BY <1>3, WaiterChosen
<1>5. Saved(e) = thread[t].nest
  BY <1>3, <1>4 DEF Saved
<1> QED BY <1>2, <1>3, <1>4, <1>5 DEF Signalled

AbsUnchanged ==
    /\ \A o \in Object : Holder(o)' = Holder(o) /\ Depth(o)' = Depth(o) /\ Queue(o)' = Queue(o)
    /\ \A e \in Event : Waiter(e)' = Waiter(e) /\ Saved(e)' = Saved(e) /\ (Signalled(e)' <=> Signalled(e))

LEMMA AbsStutter == AbsUnchanged => UNCHANGED Contract!vars
BY DEF AbsUnchanged, Contract!vars

\* Of the other records, no owner, nest count or list of waiters changes.
OnlyRecord(m) ==
    \A n \in Record \ {m} : /\ mon'[n].owner = mon[n].owner /\ mon'[n].nest = mon[n].nest
                            /\ mon'[n].wait_list = mon[n].wait_list

\* The monitors of the other objects.
LEMMA OtherObjects ==
    ASSUME BaseType, RecordInv, NEW t \in Thread, Others(t), UNCHANGED synchronisation,
           NEW o \in Object, NEW m \in Record, synchronisation[o] = m,
           OnlyRecord(m),
           thread[t].pc = "regained" => thread[t].obj = o,
           thread'[t].pc = "regained" => thread'[t].obj = o
    PROVE  \A p \in Object \ {o} : Holder(p)' = Holder(p) /\ Depth(p)' = Depth(p) /\ Queue(p)' = Queue(p)
<1> SUFFICES ASSUME NEW p \in Object \ {o}
             PROVE  Holder(p)' = Holder(p) /\ Depth(p)' = Depth(p) /\ Queue(p)' = Queue(p)
  OBVIOUS
<1>1. PICK n : n = synchronisation[p]
  OBVIOUS
<1>2. n # NULL => n \in Record \ {m}
  BY <1>1, NullFacts DEF BaseType, RecordInv
<1>3. n # NULL => mon'[n].owner = mon[n].owner /\ mon'[n].nest = mon[n].nest
                  /\ mon'[n].wait_list = mon[n].wait_list
  BY <1>2 DEF OnlyRecord
<1> QED BY <1>1, <1>3, HolderSame, QueueSame

\* No owner, nest count or list of waiters changes.
SameLocks ==
    \A n \in Record : /\ mon'[n].owner = mon[n].owner /\ mon'[n].nest = mon[n].nest
                      /\ mon'[n].wait_list = mon[n].wait_list

\* A step that changes no owner, nest count or list, of a thread that stays in
\* its call or has no event.
LEMMA StutterStep ==
    ASSUME BaseType, WaiterInv, NEW t \in Thread, Others(t), UNCHANGED synchronisation,
           thread[t].pc # "regained", thread'[t].pc # "regained",
           SameLocks,
           NEW e, e = thread[t].event, thread'[t].event = e,
           e # NULL => /\ thread'[t].nest = thread[t].nest
                       /\ (event'[e] = "set" \/ thread'[t].woken) <=> (event[e] = "set" \/ thread[t].woken),
           \A f \in Event \ {e} : event'[f] = event[f]
    PROVE  AbsUnchanged
<1>1. ASSUME NEW p \in Object PROVE Holder(p)' = Holder(p) /\ Depth(p)' = Depth(p) /\ Queue(p)' = Queue(p)
  <2>1. PICK n : n = synchronisation[p]
    OBVIOUS
  <2>2. n # NULL => n \in Record
    BY <2>1 DEF BaseType
  <2>3. n # NULL => mon'[n].owner = mon[n].owner /\ mon'[n].nest = mon[n].nest
                    /\ mon'[n].wait_list = mon[n].wait_list
    BY <2>2 DEF SameLocks
  <2> QED BY <2>1, <2>3, HolderSame, QueueSame
<1>2. \A u \in Thread : thread'[u].event = thread[u].event
  BY DEF Others
<1>3. \A u \in Thread : thread[u].event # NULL => thread'[u].nest = thread[u].nest
  BY DEF Others
<1>4. ASSUME NEW u \in Thread, thread[u].event # NULL
      PROVE  LET f == thread[u].event
             IN  (event'[f] = "set" \/ thread'[u].woken) <=> (event[f] = "set" \/ thread[u].woken)
  <2>1. CASE u = t
    BY <1>4, <2>1
  <2>2. CASE u # t
    <3>1. thread'[u] = thread[u] /\ thread[u].event \in Event
      BY <1>4, <2>2, ThreadType DEF Others
    <3>2. thread[u].event # e
      <4>1. CASE e = NULL
        BY <1>4, <4>1
      <4>2. CASE e # NULL
        <5>1. WaitsWith(t, e, Mon(t))
          BY <4>2 DEF WaiterInv, WaiterOK
        <5> QED BY <2>2, <5>1 DEF WaitsWith
      <4> QED BY <4>1, <4>2
    <3> QED BY <3>1, <3>2
  <2> QED BY <2>1, <2>2
<1>5. \A f \in Event : Waiter(f)' = Waiter(f) /\ Saved(f)' = Saved(f) /\ (Signalled(f)' <=> Signalled(f))
  BY <1>2, <1>3, <1>4, WaitsSame
<1> QED BY <1>1, <1>5 DEF AbsUnchanged

\* The same, for a thread that goes on in its call.
LEMMA StutterCall ==
    ASSUME IInv, NEW t \in Thread, Others(t), UNCHANGED <<synchronisation, event>>,
           thread[t].pc # "regained", thread'[t].pc # "regained", SameCall(t, thread'[t]),
           SameLocks
    PROVE  AbsUnchanged
<1>1. BaseType /\ WaiterInv
  BY Unpack
<1>2. thread'[t].event = thread[t].event /\ thread'[t].nest = thread[t].nest /\ thread'[t].woken = thread[t].woken
  BY DEF SameCall
<1> QED BY <1>1, <1>2, StutterStep

\* The same, for a call that is none of Wait.
LEMMA StutterIdle ==
    ASSUME IInv, NEW t \in Thread, Others(t), UNCHANGED <<synchronisation, event>>,
           thread[t].pc # "regained", thread'[t].pc # "regained",
           thread[t].event = NULL, thread'[t].event = NULL,
           SameLocks
    PROVE  AbsUnchanged
<1>1. BaseType /\ WaiterInv
  BY Unpack
<1> QED BY <1>1, StutterStep

\* A thread that was in Wait goes without the lock.
LEMMA DesertStep ==
    ASSUME IInv, NEW t \in Thread, Others(t), UNCHANGED <<synchronisation, event>>,
           thread[t].pc # "regained", thread'[t] = Idle, thread[t].event # NULL,
           SameLocks
    PROVE  Contract!Next
<1>1. BaseType /\ WaiterInv /\ ThreadInv
  BY Unpack
<1>2. PICK e \in Event : e = thread[t].event
  BY <1>1, WaiterRecord
<1>3. Idle.event = NULL /\ Idle.pc = "idle"
  BY IdleFacts
<1>4. \A p \in Object : Holder(p)' = Holder(p) /\ Depth(p)' = Depth(p) /\ Queue(p)' = Queue(p)
  <2> SUFFICES ASSUME NEW p \in Object
               PROVE  Holder(p)' = Holder(p) /\ Depth(p)' = Depth(p) /\ Queue(p)' = Queue(p)
    OBVIOUS
  <2>1. PICK n : n = synchronisation[p]
    OBVIOUS
  <2>2. n # NULL => n \in Record
    BY <1>1, <2>1 DEF BaseType
  <2>3. n # NULL => mon'[n].owner = mon[n].owner /\ mon'[n].nest = mon[n].nest
                    /\ mon'[n].wait_list = mon[n].wait_list
    BY <2>2 DEF SameLocks
  <2> QED BY <1>1, <1>3, <2>1, <2>3, HolderSame, QueueSame
<1>5. Waiter(e) = t /\ \A u \in Thread : thread[u].event = e => u = t
  BY <1>1, <1>2, WaiterIs
<1>6. /\ Waiter(e)' = NULL /\ Saved(e)' = 0 /\ ~Signalled(e)'
      /\ \A f \in Event \ {e} : /\ Waiter(f)' = Waiter(f) /\ Saved(f)' = Saved(f)
                                /\ Signalled(f)' <=> Signalled(f)
  BY <1>2, <1>3, <1>5, WaitsDropped
<1>7. t # NULL
  BY NullFacts
<1>8. Contract!Desert(e)
  BY <1>4, <1>5, <1>6, <1>7 DEF Contract!Desert
<1> QED BY <1>8 DEF Contract!Next

LEMMA SemaphoreOnly ==
    ASSUME BaseType, NEW m \in Record, NEW k,
           \/ mon' = [mon EXCEPT ![m].entry_sem = k]
           \/ mon' = [mon EXCEPT ![m].entry_count = k]
    PROVE  SameLocks
<1>1. ASSUME NEW n \in Record
      PROVE  mon'[n].owner = mon[n].owner /\ mon'[n].nest = mon[n].nest /\ mon'[n].wait_list = mon[n].wait_list
  <2>1. PICK r \in SyncState : r = mon[n]
    BY MonType
  <2>2. \/ mon'[n] = r \/ mon'[n] = [r EXCEPT !.entry_sem = k] \/ mon'[n] = [r EXCEPT !.entry_count = k]
    BY <2>1 DEF BaseType
  <2>3. mon'[n].owner = r.owner /\ mon'[n].nest = r.nest /\ mon'[n].wait_list = r.wait_list
    BY <2>2 DEF SyncState
  <2> QED BY <2>1, <2>3
<1> QED BY <1>1 DEF SameLocks

\* A thread that goes to another place of its call.
LEMMA StutterGoTo ==
    ASSUME IInv, NEW t \in Thread, NEW x \in Pc, GoTo(t, x), x # "regained", thread[t].pc # "regained",
           SameLocks, UNCHANGED <<synchronisation, event>>
    PROVE  AbsUnchanged
<1>1. BaseType
  BY Unpack
<1>2. PICK s \in ThreadState : thread' = [thread EXCEPT ![t] = s] /\ SameCall(t, s) /\ s.pc = x
  BY <1>1, GoToState
<1>3. thread'[t] = s /\ Others(t)
  BY <1>1, <1>2, ThreadEffect DEF Others
<1>4. SameCall(t, thread'[t]) /\ thread'[t].pc # "regained"
  BY <1>2, <1>3
<1> QED BY <1>3, <1>4, StutterCall

\* A call ends without the lock.
LEMMA EndStep ==
    ASSUME IInv, NEW t \in Thread, thread' = [thread EXCEPT ![t] = Idle], thread[t].pc # "regained",
           SameLocks, UNCHANGED <<synchronisation, event>>
    PROVE  AbsUnchanged \/ Contract!Next
<1>1. BaseType
  BY Unpack
<1>2. Idle \in ThreadState /\ Idle.pc # "regained" /\ Idle.event = NULL
  BY <1>1, IdleFacts
<1>3. thread'[t] = Idle /\ Others(t)
  BY <1>1, <1>2, ThreadEffect DEF Others
<1>4. CASE thread[t].event = NULL
  BY <1>2, <1>3, <1>4, StutterIdle
<1>5. CASE thread[t].event # NULL
  BY <1>3, <1>5, DesertStep
<1> QED BY <1>4, <1>5

LEMMA LoadSyncAbs == ASSUME IInv, NEW t \in Thread, LoadSync(t) PROVE AbsUnchanged
<1>1. SameLocks /\ UNCHANGED <<synchronisation, event>> /\ thread[t].pc = "retry"
  BY DEF LoadSync, records, SameLocks, At
<1>2. PICK x \in {"allocate", "owner"} : GoTo(t, x)
  BY DEF LoadSync
<1> QED BY <1>1, <1>2, StutterGoTo DEF Pc

LEMMA ReadOwnerAbs ==
    ASSUME IInv, NEW t \in Thread, ReadOwner(t)
    PROVE  AbsUnchanged \/ Contract!Next
<1>1. SameLocks /\ UNCHANGED <<synchronisation, event>> /\ thread[t].pc \in {"owner", "contended"}
  BY DEF ReadOwner, records, SameLocks, At
<1>2. Failed(t) \/ \E x \in {"swap", "contended", "swap_contended", "semaphore"} : GoTo(t, x)
  BY DEF ReadOwner
<1>3. CASE Failed(t)
  BY <1>1, <1>3, EndStep DEF Failed
<1>4. CASE \E x \in {"swap", "contended", "swap_contended", "semaphore"} : GoTo(t, x)
  BY <1>1, <1>4, StutterGoTo DEF Pc
<1> QED BY <1>2, <1>3, <1>4

LEMMA CreateSemAbs == ASSUME IInv, NEW t \in Thread, CreateSem(t) PROVE AbsUnchanged
<1>1. BaseType /\ ThreadInv
  BY Unpack
<1>2. thread[t].pc = "semaphore" /\ GoTo(t, "count") /\ UNCHANGED <<synchronisation, event>>
  BY DEF CreateSem, At, records
<1>3. PICK m \in Record : m = Mon(t)
  BY <1>1, <1>2, InCall
<1>4. \E k : mon' = [mon EXCEPT ![m].entry_sem = k]
  BY <1>3 DEF CreateSem
<1>5. SameLocks
  BY <1>1, <1>4, SemaphoreOnly
<1> QED BY <1>2, <1>5, StutterGoTo DEF Pc

LEMMA CountEntryAbs == ASSUME IInv, NEW t \in Thread, CountEntry(t) PROVE AbsUnchanged
<1>1. BaseType /\ ThreadInv
  BY Unpack
<1>2. thread[t].pc = "count" /\ GoTo(t, "again") /\ UNCHANGED <<synchronisation, event>>
  BY DEF CountEntry, At, records
<1>3. PICK m \in Record : m = Mon(t)
  BY <1>1, <1>2, InCall
<1>4. \E k : mon' = [mon EXCEPT ![m].entry_count = k]
  BY <1>3 DEF CountEntry
<1>5. SameLocks
  BY <1>1, <1>4, SemaphoreOnly
<1> QED BY <1>2, <1>5, StutterGoTo DEF Pc

LEMMA SleepAbs == ASSUME IInv, NEW t \in Thread, Sleep(t) PROVE AbsUnchanged
<1>1. BaseType /\ ThreadInv
  BY Unpack
<1>2. thread[t].pc = "asleep" /\ UNCHANGED <<synchronisation, event>>
  BY DEF Sleep, At, records
<1>3. PICK m \in Record : m = Mon(t)
  BY <1>1, <1>2, InCall
<1>4. mon' = mon \/ \E k : mon' = [mon EXCEPT ![m].entry_sem = k]
  BY <1>3 DEF Sleep
<1>5. SameLocks
  <2>1. CASE mon' = mon
    BY <2>1 DEF SameLocks
  <2> QED BY <1>1, <1>4, <2>1, SemaphoreOnly
<1>6. PICK x \in {"WAIT_OBJECT_0", "WAIT_TIMEOUT", "WAIT_IO_COMPLETION"} : Wakes(t, x)
  BY DEF Sleep
<1>7. PICK s \in ThreadState : thread' = [thread EXCEPT ![t] = s] /\ SameCall(t, s) /\ s.pc = "awake"
  BY <1>1, <1>6, WakesState
<1>8. thread'[t] = s /\ Others(t)
  BY <1>1, <1>7, ThreadEffect DEF Others
<1>9. SameCall(t, thread'[t]) /\ thread'[t].pc # "regained" /\ thread[t].pc # "regained"
  BY <1>2, <1>7, <1>8
<1> QED BY <1>2, <1>5, <1>8, <1>9, StutterCall

LEMMA AfterSleepAbs ==
    ASSUME IInv, NEW t \in Thread, AfterSleep(t)
    PROVE  AbsUnchanged \/ Contract!Next
<1>1. BaseType /\ ThreadInv
  BY Unpack
<1>2. thread[t].pc = "awake" /\ UNCHANGED <<synchronisation, event>>
  BY DEF AfterSleep, At, records
<1>3. PICK m \in Record : m = Mon(t)
  BY <1>1, <1>2, InCall
<1>4. \E k : mon' = [mon EXCEPT ![m].entry_count = k]
  BY <1>3 DEF AfterSleep
<1>5. SameLocks
  BY <1>1, <1>4, SemaphoreOnly
<1>6. PICK s \in ThreadState : /\ thread' = [thread EXCEPT ![t] = s]
                               /\ s = Idle \/ (SameCall(t, s) /\ s.pc # "regained")
  BY <1>1, AwakeState
<1>7. CASE s = Idle
  BY <1>2, <1>5, <1>6, <1>7, EndStep
<1>8. CASE SameCall(t, s) /\ s.pc # "regained"
  <2>1. thread'[t] = s /\ Others(t)
    BY <1>1, <1>6, ThreadEffect DEF Others
  <2>2. SameCall(t, thread'[t]) /\ thread'[t].pc # "regained" /\ thread[t].pc # "regained"
    BY <1>2, <1>8, <2>1
  <2> QED BY <1>2, <1>5, <2>1, <2>2, StutterCall
<1> QED BY <1>6, <1>7, <1>8

LEMMA InterruptAbs == ASSUME IInv, NEW t \in Thread, Interrupt(t) PROVE AbsUnchanged
<1>1. BaseType /\ ThreadInv /\ WaiterInv
  BY Unpack
<1>2. SameLocks /\ UNCHANGED <<mon, synchronisation, event>>
  BY DEF Interrupt, SameLocks
<1>3. PICK kind : thread' = [thread EXCEPT ![t].interrupt = kind]
  BY DEF Interrupt
<1>4. Others(t)
  BY <1>1, <1>3 DEF BaseType, Others
<1>5. PICK r \in ThreadState : r = thread[t]
  BY <1>1, ThreadType
<1>6. thread'[t] = [r EXCEPT !.interrupt = kind]
  BY <1>1, <1>3, <1>5 DEF BaseType
<1>7. thread'[t].event = r.event /\ thread'[t].nest = r.nest /\ thread'[t].woken = r.woken
      /\ thread'[t].pc = r.pc /\ thread'[t].obj = r.obj
  BY <1>6 DEF ThreadState
<1>8. \A u \in Thread : /\ thread'[u].event = thread[u].event /\ thread'[u].nest = thread[u].nest
                        /\ thread'[u].woken = thread[u].woken /\ thread'[u].pc = thread[u].pc
                        /\ thread'[u].obj = thread[u].obj
  BY <1>4, <1>5, <1>7 DEF Others
<1>9. \A p \in Object : Holder(p)' = Holder(p)
  <2> SUFFICES ASSUME NEW p \in Object, NEW m, m = synchronisation[p] PROVE Holder(p)' = Holder(p)
    OBVIOUS
  <2>1. m = NULL \/ m \in Record
    BY <1>1 DEF BaseType
  <2>2. CASE m \in Record
    <3>1. PICK w \in Thread \cup {NULL} : w = mon[m].owner
      BY <1>1, <2>2, MonType
    <3>2. w # NULL => thread'[w].pc = thread[w].pc /\ thread'[w].obj = thread[w].obj
      BY <1>8, <3>1
    <3> QED BY <1>2, <3>1, <3>2 DEF Holder, At
  <2> QED BY <1>2, <2>1, <2>2 DEF Holder
<1>10. \A p \in Object : Depth(p)' = Depth(p) /\ Queue(p)' = Queue(p)
  BY <1>2, <1>9 DEF Depth, Queue
<1>11. \A e \in Event : Waiter(e)' = Waiter(e) /\ Saved(e)' = Saved(e) /\ (Signalled(e)' <=> Signalled(e))
  BY <1>2, <1>8, WaitsSame
<1> QED BY <1>9, <1>10, <1>11 DEF AbsUnchanged

\* mono_monitor_exit returns: the lock was given up before.
LEMMA ExitedAbs ==
    ASSUME IInv, NEW t \in Thread, thread[t].pc \in {"wakeup", "release"}, Exited(t), SameLocks,
           UNCHANGED <<synchronisation, event>>
    PROVE  AbsUnchanged
<1>1. BaseType /\ ThreadInv
  BY Unpack
<1>6. CASE Waits(thread[t].call)
  <2>1. GoTo(t, "waiting")
    BY <1>1, <1>6 DEF Exited, GoTo, BaseType
  <2> QED BY <2>1, StutterGoTo DEF Pc
<1>7. CASE ~Waits(thread[t].call)
  <2>1. thread[t].event = NULL
    BY <1>1, <1>7 DEF ThreadInv, ThreadOK
  <2>2. thread' = [thread EXCEPT ![t] = Idle]
    BY <1>1, <1>7 DEF Exited, BaseType
  <2>3. Idle \in ThreadState /\ Idle.pc # "regained" /\ Idle.event = NULL
    BY <1>1, IdleFacts
  <2>4. thread'[t] = Idle /\ Others(t)
    BY <1>1, <2>2, <2>3, ThreadEffect DEF Others
  <2> QED BY <2>1, <2>3, <2>4, StutterIdle
<1> QED BY <1>6, <1>7

LEMMA WakeupAbs == ASSUME IInv, NEW t \in Thread, Wakeup(t) PROVE AbsUnchanged
<1>1. BaseType
  BY Unpack
<1>2. thread[t].pc = "wakeup" /\ UNCHANGED <<synchronisation, mon, event>>
  BY DEF Wakeup, At, records
<1>3. SameLocks
  BY <1>2 DEF SameLocks
<1>4. CASE GoTo(t, "release")
  BY <1>2, <1>3, <1>4, StutterGoTo DEF Pc
<1>5. CASE Exited(t)
  BY <1>2, <1>3, <1>5, ExitedAbs
<1> QED BY <1>4, <1>5 DEF Wakeup

LEMMA ReleaseAbs == ASSUME IInv, NEW t \in Thread, ReleaseSemaphore(t) PROVE AbsUnchanged
<1>1. BaseType /\ ThreadInv
  BY Unpack
<1>2. thread[t].pc = "release" /\ Exited(t) /\ UNCHANGED <<synchronisation, event>>
  BY DEF ReleaseSemaphore, At, records
<1>3. PICK m \in Record : m = Mon(t)
  BY <1>1, <1>2, InCall
<1>4. \E k : mon' = [mon EXCEPT ![m].entry_sem = k]
  BY <1>3 DEF ReleaseSemaphore
<1>5. SameLocks
  BY <1>1, <1>4, SemaphoreOnly
<1> QED BY <1>2, <1>5, ExitedAbs

\* A call begins and does nothing yet.
LEMMA StutterBegin ==
    ASSUME IInv, NEW t \in Thread, thread[t].pc = "idle", SameLocks, UNCHANGED <<synchronisation, event>>,
           NEW s \in ThreadState, thread' = [thread EXCEPT ![t] = s], s.event = NULL, s.pc # "regained"
    PROVE  AbsUnchanged
<1>1. BaseType /\ ThreadInv
  BY Unpack
<1>2. thread[t].event = NULL
  BY <1>1, IdleThread, IdleFacts DEF At
<1>3. thread'[t] = s /\ Others(t)
  BY <1>1, ThreadEffect DEF Others
<1>4. thread'[t].event = NULL /\ thread'[t].pc # "regained" /\ thread[t].pc # "regained"
  BY <1>3
<1> QED BY <1>2, <1>3, <1>4, StutterIdle

LEMMA StartAbs ==
    ASSUME IInv, NEW t \in Thread, NEW c \in {"Enter", "TryEnter", "TryEnter0"}, NEW o \in Object,
           Start(t, c, o)
    PROVE  AbsUnchanged
<1>1. BaseType
  BY Unpack
<1>2. PICK s : s = [Idle EXCEPT !.pc = "retry", !.call = c, !.obj = o, !.ms = Timeout(c)]
  OBVIOUS
<1>3. s \in ThreadState
  <2>1. "retry" \in Pc /\ c \in Call /\ Timeout(c) \in 0..INFINITE
    BY TimeoutType DEF Pc, Call
  <2> QED BY <1>1, <1>2, <2>1, IdleFacts DEF ThreadState
<1>4. s.event = NULL /\ s.pc # "regained"
  BY <1>2, IdleFacts DEF Idle
<1>5. thread' = [thread EXCEPT ![t] = s] /\ SameLocks /\ UNCHANGED <<synchronisation, event>>
      /\ thread[t].pc = "idle"
  BY <1>2 DEF Start, records, SameLocks, At
<1> QED BY <1>3, <1>4, <1>5, StutterBegin

LEMMA FastExitAbs ==
    ASSUME IInv, NEW t \in Thread, NEW o \in Object, FastExit(t, o)
    PROVE  AbsUnchanged
<1>1. BaseType
  BY Unpack
<1>2. PICK s : s = [Idle EXCEPT !.pc = "fast_exit", !.call = "FastExit", !.obj = o]
  OBVIOUS
<1>3. s \in ThreadState
  <2>1. "fast_exit" \in Pc /\ "FastExit" \in Call
    BY DEF Pc, Call
  <2> QED BY <1>1, <1>2, <2>1, IdleFacts DEF ThreadState
<1>4. s.event = NULL /\ s.pc # "regained"
  BY <1>2, IdleFacts DEF Idle
<1>5. thread' = [thread EXCEPT ![t] = s] /\ SameLocks /\ UNCHANGED <<synchronisation, event>>
      /\ thread[t].pc = "idle"
  BY <1>2 DEF FastExit, records, SameLocks, At
<1> QED BY <1>3, <1>4, <1>5, StutterBegin

\* The wait ends.  A pulse that was received is remembered in success.
LEMMA RegainAbs ==
    ASSUME IInv, NEW t \in Thread, thread[t].pc = "waiting", NEW woken \in BOOLEAN,
           thread' = [thread EXCEPT ![t].pc = "retry", ![t].ms = INFINITE, ![t].woken = woken],
           event' = [event EXCEPT ![thread[t].event] = "reset"],
           woken <=> event[thread[t].event] = "set",
           UNCHANGED <<synchronisation, mon>>
    PROVE  AbsUnchanged
<1>1. BaseType /\ ThreadInv /\ WaiterInv
  BY Unpack
<1>2. PICK e \in Event : e = thread[t].event
  BY <1>1, WaiterRecord DEF ThreadInv, ThreadOK
<1>3. PICK r \in ThreadState : r = thread[t]
  BY <1>1, ThreadType
<1>4. PICK s : s = [r EXCEPT !.pc = "retry", !.ms = INFINITE, !.woken = woken]
  OBVIOUS
<1>5. /\ thread'[t].event = e /\ thread'[t].nest = thread[t].nest /\ thread'[t].pc = "retry"
      /\ thread'[t].woken = woken /\ Others(t)
  <2>1. s.event = r.event /\ s.nest = r.nest /\ s.pc = "retry" /\ s.woken = woken
    BY <1>4 DEF ThreadState
  <2>2. thread'[t] = s /\ Others(t)
    BY <1>1, <1>3, <1>4 DEF BaseType, Others
  <2> QED BY <1>2, <1>3, <2>1, <2>2
<1>6. ~thread[t].woken
  BY <1>1 DEF ThreadInv, ThreadOK
<1>7. event'[e] = "reset" /\ \A f \in Event \ {e} : event'[f] = event[f]
  BY <1>1, <1>2 DEF BaseType
<1>8. (event'[e] = "set" \/ thread'[t].woken) <=> (event[e] = "set" \/ thread[t].woken)
  BY <1>2, <1>5, <1>6, <1>7
<1>9. thread[t].pc # "regained" /\ thread'[t].pc # "regained"
  BY <1>5
<1>10. SameLocks
  BY DEF SameLocks
<1> QED BY <1>1, <1>2, <1>5, <1>7, <1>8, <1>9, <1>10, StutterStep

LEMMA WaitEndsAbs ==
    ASSUME IInv, NEW t \in Thread, WaitEnds(t)
    PROVE  AbsUnchanged \/ Contract!Next
<1>1. BaseType /\ ThreadInv
  BY Unpack
<1>2. thread[t].pc = "waiting" /\ UNCHANGED <<synchronisation, mon>> /\ SameLocks
  BY DEF WaitEnds, At, records, SameLocks
<1>3. CASE /\ thread[t].interrupt = NULL /\ event[thread[t].event] = "set"
           /\ event' = [event EXCEPT ![thread[t].event] = "reset"]
           /\ thread' = [thread EXCEPT ![t].pc = "retry", ![t].ms = INFINITE, ![t].woken = TRUE]
  BY <1>2, <1>3, RegainAbs
<1>4. CASE /\ thread[t].interrupt = NULL /\ event[thread[t].event] = "reset"
           /\ thread' = [thread EXCEPT ![t].pc = "retry", ![t].ms = INFINITE, ![t].woken = FALSE]
           /\ UNCHANGED event
  <2>1. thread[t].event \in Event
    BY <1>1, <1>2, WaiterRecord DEF ThreadInv, ThreadOK
  <2>2. event' = [event EXCEPT ![thread[t].event] = "reset"]
    BY <1>1, <1>4, <2>1 DEF BaseType
  <2> QED BY <1>2, <1>4, <2>2, RegainAbs
<1>5. CASE /\ thread[t].interrupt # NULL /\ thread' = [thread EXCEPT ![t] = Idle] /\ UNCHANGED event
  BY <1>2, <1>5, EndStep
<1> QED BY <1>3, <1>4, <1>5 DEF WaitEnds

-----------------------------------------------------------------------------
\* The lock changes hands.

AbsWaits ==
    \A e \in Event : Waiter(e)' = Waiter(e) /\ Saved(e)' = Saved(e) /\ (Signalled(e)' <=> Signalled(e))

LEMMA NoWaiterMoves ==
    ASSUME NEW t \in Thread, Others(t), UNCHANGED event, thread[t].event = NULL, thread'[t].event = NULL
    PROVE  AbsWaits
<1>1. \A u \in Thread : thread'[u].event = thread[u].event
  BY DEF Others
<1>2. \A u \in Thread : thread[u].event # NULL => thread'[u] = thread[u]
  BY DEF Others
<1> QED BY <1>1, <1>2, WaitsSame DEF AbsWaits

\* What MonitorSpec sees of a record and its owner.
LEMMA HolderIs ==
    ASSUME NEW o \in Object, NEW m \in Record, synchronisation[o] = m, NEW w, w = mon[m].owner
    PROVE  /\ w = NULL \/ (At(w, "regained") /\ thread[w].obj = o) => Holder(o) = NULL /\ Depth(o) = 0
           /\ w # NULL /\ ~At(w, "regained") => Holder(o) = w /\ Depth(o) = mon[m].nest
           /\ Queue(o) = mon[m].wait_list
BY NullFacts DEF Holder, Depth, Queue

\* A step by which a thread that is not in Wait enters an object.
LEMMA EnterStep ==
    ASSUME IInv, NEW t \in Thread, NEW o \in Object, NEW m \in Record, synchronisation[o] = m, Others(t),
           UNCHANGED <<synchronisation, event>>, thread[t].pc # "regained", thread[t].event = NULL,
           thread'[t] = Idle, mon[m].owner \in {NULL, t}, mon'[m].owner = t,
           mon'[m].nest = IF mon[m].owner = NULL THEN 1 ELSE mon[m].nest + 1,
           mon'[m].wait_list = mon[m].wait_list,
           OnlyRecord(m)
    PROVE  Contract!Next
<1>1. BaseType /\ RecordInv
  BY Unpack
<1>2. Idle.pc = "idle" /\ Idle.event = NULL /\ t # NULL /\ m # NULL
  BY IdleFacts, NullFacts
<1>3. AbsWaits
  BY <1>2, NoWaiterMoves
<1>4. Holder(o) \in {NULL, t} /\ Depth(o) = IF mon[m].owner = NULL THEN 0 ELSE mon[m].nest
  BY <1>2, HolderIs DEF At
<1>5. Holder(o)' = t /\ Depth(o)' = mon'[m].nest /\ Queue(o)' = Queue(o)
  BY <1>2 DEF At, Holder, Depth, Queue
<1>6. Depth(o)' = Depth(o) + 1
  BY <1>4, <1>5
<1>7. \A p \in Object \ {o} : Holder(p)' = Holder(p) /\ Depth(p)' = Depth(p) /\ Queue(p)' = Queue(p)
  BY <1>1, <1>2, OtherObjects
<1>8. Contract!Enter(t, o)
  BY <1>3, <1>4, <1>5, <1>6, <1>7 DEF AbsWaits, Contract!Enter, Contract!waits
<1> QED BY <1>8 DEF Contract!Next

\* A step by which a thread in Wait gets the lock back: it does not hold the monitor
\* before it has put back its nest count.
LEMMA RegainStep ==
    ASSUME IInv, NEW t \in Thread, NEW o \in Object, NEW m \in Record, synchronisation[o] = m, Others(t),
           UNCHANGED <<synchronisation, event>>, thread[t].pc # "regained", thread[t].obj = o,
           SameCall(t, thread'[t]), thread'[t].pc = "regained",
           mon[m].owner = NULL, mon'[m].owner = t, mon'[m].wait_list = mon[m].wait_list,
           OnlyRecord(m)
    PROVE  AbsUnchanged
<1>1. BaseType /\ RecordInv
  BY Unpack
<1>2. thread'[t].obj = o /\ thread'[t].event = thread[t].event /\ thread'[t].nest = thread[t].nest
      /\ thread'[t].woken = thread[t].woken
  BY DEF SameCall
<1>3. \A u \in Thread : /\ thread'[u].event = thread[u].event /\ thread'[u].nest = thread[u].nest
                        /\ thread'[u].woken = thread[u].woken
  BY <1>2 DEF Others
<1>4. AbsWaits
  BY <1>3, WaitsSame DEF AbsWaits
<1>5. Holder(o) = NULL /\ Depth(o) = 0
  BY HolderIs
<1>6. Holder(o)' = NULL /\ Depth(o)' = 0 /\ Queue(o)' = Queue(o)
  BY <1>2, NullFacts DEF Holder, Depth, Queue, At
<1>7. \A p \in Object \ {o} : Holder(p)' = Holder(p) /\ Depth(p)' = Depth(p) /\ Queue(p)' = Queue(p)
  BY <1>1, <1>2, OtherObjects
<1> QED BY <1>4, <1>5, <1>6, <1>7 DEF AbsUnchanged, AbsWaits

\* The two together: what mono_monitor_try_enter_internal does when it returns 1.
LEMMA AcquireAbs ==
    ASSUME IInv, NEW t \in Thread, thread[t].pc \in {"owner", "swap", "swap_contended", "again"},
           NEW m \in Record, m = Mon(t), OnlyRecord(m), mon'[m].owner = t, mon[m].owner \in {NULL, t},
           mon'[m].nest = IF mon[m].owner = NULL THEN 1 ELSE mon[m].nest + 1,
           mon'[m].wait_list = mon[m].wait_list, thread[t].event # NULL => mon[m].owner = NULL,
           Acquired(t), UNCHANGED <<synchronisation, event>>
    PROVE  AbsUnchanged \/ Contract!Next
<1>1. BaseType /\ ThreadInv
  BY Unpack
<1>2. PICK o \in Object : o = thread[t].obj /\ synchronisation[o] = m
  BY <1>1, InCall
<1>3. PICK s \in ThreadState : /\ thread' = [thread EXCEPT ![t] = s]
                               /\ \/ s = Idle /\ thread[t].event = NULL
                                  \/ SameCall(t, s) /\ s.pc = "regained" /\ thread[t].event # NULL
  BY <1>1, RegainedState
<1>4. thread'[t] = s /\ Others(t)
  BY <1>1, <1>3, ThreadEffect DEF Others
<1>5. CASE s = Idle /\ thread[t].event = NULL
  <2>1. thread'[t] = Idle /\ thread[t].event = NULL /\ thread[t].pc # "regained"
    BY <1>4, <1>5
  <2> QED BY <1>2, <1>4, <2>1, EnterStep
<1>6. CASE SameCall(t, s) /\ s.pc = "regained" /\ thread[t].event # NULL
  <2>1. SameCall(t, thread'[t]) /\ thread'[t].pc = "regained" /\ thread[t].pc # "regained"
        /\ mon[m].owner = NULL /\ thread[t].obj = o
    BY <1>2, <1>4, <1>6
  <2> QED BY <1>2, <1>4, <2>1, RegainStep
<1> QED BY <1>3, <1>5, <1>6

LEMMA EnterAgainAbs ==
    ASSUME IInv, NEW t \in Thread, EnterAgain(t)
    PROVE  AbsUnchanged \/ Contract!Next
<1>1. BaseType /\ ThreadInv /\ OwnInv
  BY Unpack
<1>2. /\ thread[t].pc = "owner" /\ mon[Mon(t)].owner = t /\ Acquired(t)
      /\ mon' = [mon EXCEPT ![Mon(t)].nest = @ + 1] /\ UNCHANGED <<synchronisation, event>>
  BY DEF EnterAgain, At, records
<1>3. PICK m \in Record, o \in Object : m = Mon(t) /\ o = thread[t].obj /\ synchronisation[o] = m
  BY <1>1, <1>2, InCall
<1>4. PICK n \in SyncState : n = mon[m]
  BY <1>1, MonType
<1>5. mon'[m] = [n EXCEPT !.nest = n.nest + 1] /\ OnlyRecord(m)
  BY <1>1, <1>2, <1>3, <1>4 DEF BaseType, OnlyRecord
<1>6. mon'[m].owner = n.owner /\ mon'[m].nest = n.nest + 1 /\ mon'[m].wait_list = n.wait_list
  BY <1>5 DEF SyncState
<1>7. Owns(t, o)
  BY <1>2, <1>3, NullFacts DEF Owns
<1>8. thread[t].event = NULL
  BY <1>1, <1>2, <1>3, <1>7 DEF OwnInv, OwnOK, Entering
<1>9. /\ mon'[m].owner = t /\ mon[m].owner \in {NULL, t} /\ mon'[m].wait_list = mon[m].wait_list
      /\ mon'[m].nest = IF mon[m].owner = NULL THEN 1 ELSE mon[m].nest + 1
  BY <1>2, <1>3, <1>4, <1>6, NullFacts
<1> QED BY <1>2, <1>3, <1>5, <1>8, <1>9, AcquireAbs

LEMMA SwapAbs ==
    ASSUME IInv, NEW t \in Thread, Swap(t)
    PROVE  AbsUnchanged \/ Contract!Next
<1>1. BaseType /\ ThreadInv /\ NestInv /\ RecordInv
  BY Unpack
<1>2. thread[t].pc \in {"swap", "swap_contended"} /\ UNCHANGED <<synchronisation, event>>
  BY DEF Swap, At, records
<1>3. PICK m \in Record, o \in Object : m = Mon(t) /\ o = thread[t].obj /\ synchronisation[o] = m
  BY <1>1, <1>2, InCall
<1>4. CASE mon[Mon(t)].owner = NULL /\ mon' = [mon EXCEPT ![Mon(t)].owner = t] /\ Acquired(t)
  <2>1. PICK n \in SyncState : n = mon[m] /\ n.nest = 1
    BY <1>1, <1>3, <1>4, MonType, FreeRecord
  <2>2. mon'[m] = [n EXCEPT !.owner = t] /\ OnlyRecord(m)
    BY <1>1, <1>3, <1>4, <2>1 DEF BaseType, OnlyRecord
  <2>3. mon'[m].owner = t /\ mon'[m].nest = n.nest /\ mon'[m].wait_list = n.wait_list
    BY <2>2 DEF SyncState
  <2>4. /\ mon'[m].owner = t /\ mon[m].owner = NULL /\ mon'[m].wait_list = mon[m].wait_list
        /\ mon'[m].nest = IF mon[m].owner = NULL THEN 1 ELSE mon[m].nest + 1
    BY <1>3, <1>4, <2>1, <2>3
  <2> QED BY <1>2, <1>3, <1>4, <2>2, <2>4, AcquireAbs
<1>5. CASE UNCHANGED mon /\ GoTo(t, IF At(t, "swap") THEN "retry" ELSE "semaphore")
  <2>1. \E x \in {"retry", "semaphore"} : GoTo(t, x)
    BY <1>5
  <2>2. SameLocks
    BY <1>5 DEF SameLocks
  <2> QED BY <1>2, <2>1, <2>2, StutterGoTo DEF Pc
<1> QED BY <1>4, <1>5 DEF Swap

LEMMA SwapAgainAbs ==
    ASSUME IInv, NEW t \in Thread, SwapAgain(t)
    PROVE  AbsUnchanged \/ Contract!Next
<1>1. BaseType /\ ThreadInv /\ NestInv /\ RecordInv
  BY Unpack
<1>2. thread[t].pc = "again" /\ UNCHANGED <<synchronisation, event>>
  BY DEF SwapAgain, At, records
<1>3. PICK m \in Record, o \in Object : m = Mon(t) /\ o = thread[t].obj /\ synchronisation[o] = m
  BY <1>1, <1>2, InCall
<1>4. CASE mon[Mon(t)].owner = NULL /\ Acquired(t)
           /\ mon' = [mon EXCEPT ![Mon(t)].owner = t, ![Mon(t)].entry_count = @ - 1]
  <2>1. PICK n \in SyncState : n = mon[m] /\ n.nest = 1
    BY <1>1, <1>3, <1>4, MonType, FreeRecord
  <2>2. mon'[m] = [n EXCEPT !.owner = t, !.entry_count = n.entry_count - 1] /\ OnlyRecord(m)
    BY <1>1, <1>3, <1>4, <2>1 DEF BaseType, OnlyRecord, SyncState
  <2>3. mon'[m].owner = t /\ mon'[m].nest = n.nest /\ mon'[m].wait_list = n.wait_list
    BY <2>2 DEF SyncState
  <2>4. /\ mon'[m].owner = t /\ mon[m].owner = NULL /\ mon'[m].wait_list = mon[m].wait_list
        /\ mon'[m].nest = IF mon[m].owner = NULL THEN 1 ELSE mon[m].nest + 1
    BY <1>3, <1>4, <2>1, <2>3
  <2> QED BY <1>2, <1>3, <1>4, <2>2, <2>4, AcquireAbs
<1>5. CASE UNCHANGED mon /\ GoTo(t, "asleep")
  <2>1. SameLocks
    BY <1>5 DEF SameLocks
  <2> QED BY <1>2, <1>5, <2>1, StutterGoTo DEF Pc
<1> QED BY <1>4, <1>5 DEF SwapAgain

\* A step by which the holder gives up one entry.
LEMMA ExitStep ==
    ASSUME IInv, NEW t \in Thread, NEW o \in Object, NEW m \in Record, synchronisation[o] = m, Others(t),
           UNCHANGED <<synchronisation, event>>, thread[t].pc # "regained", thread'[t].pc # "regained",
           thread[t].event = NULL, thread'[t].event = NULL, mon[m].owner = t, OnlyRecord(m),
           \/ mon'[m].owner = t /\ mon[m].nest > 1 /\ mon'[m].nest = mon[m].nest - 1
           \/ mon'[m].owner = NULL /\ mon[m].nest = 1,
           mon'[m].wait_list = mon[m].wait_list
    PROVE  Contract!Next
<1>1. BaseType /\ RecordInv
  BY Unpack
<1>2. t # NULL /\ m # NULL
  BY NullFacts
<1>3. AbsWaits
  BY NoWaiterMoves
<1>4. Holder(o) = t /\ Depth(o) = mon[m].nest
  BY <1>2, HolderIs DEF At
<1>5. /\ Holder(o)' = mon'[m].owner /\ Queue(o)' = Queue(o)
      /\ Depth(o)' = IF mon'[m].owner = NULL THEN 0 ELSE mon'[m].nest
  BY <1>2 DEF Holder, Depth, Queue, At
<1>6. mon[m].nest \in Nat
  BY <1>1, MonType, ProgramType
<1>7. Depth(o)' = Depth(o) - 1 /\ Holder(o)' = IF Depth(o) = 1 THEN NULL ELSE t
  BY <1>2, <1>4, <1>5, <1>6
<1>8. \A p \in Object \ {o} : Holder(p)' = Holder(p) /\ Depth(p)' = Depth(p) /\ Queue(p)' = Queue(p)
  BY <1>1, OtherObjects
<1>9. Contract!Exit(t, o)
  BY <1>3, <1>4, <1>5, <1>7, <1>8 DEF AbsWaits, Contract!Exit, Contract!waits
<1> QED BY <1>9 DEF Contract!Next

LEMMA ExitNestedAbs == ASSUME IInv, NEW t \in Thread, NEW o \in Object, ExitNested(t, o) PROVE Contract!Next
<1>1. BaseType /\ ThreadInv
  BY Unpack
<1>2. /\ At(t, "idle") /\ Owns(t, o) /\ mon[synchronisation[o]].nest > 1
      /\ mon' = [mon EXCEPT ![synchronisation[o]].nest = @ - 1]
      /\ UNCHANGED <<synchronisation, event, thread>>
  BY DEF ExitNested, records
<1>3. PICK m \in Record : m = synchronisation[o] /\ mon[m].owner = t
  BY <1>1, <1>2, OwnedRecord
<1>4. PICK n \in SyncState : n = mon[m]
  BY <1>1, MonType
<1>5. mon'[m] = [n EXCEPT !.nest = n.nest - 1] /\ OnlyRecord(m)
  BY <1>1, <1>2, <1>3, <1>4 DEF BaseType, OnlyRecord
<1>6. mon'[m].owner = n.owner /\ mon'[m].nest = n.nest - 1 /\ mon'[m].wait_list = n.wait_list
  BY <1>5 DEF SyncState
<1>7. /\ mon'[m].owner = t /\ mon[m].nest > 1 /\ mon'[m].nest = mon[m].nest - 1
      /\ mon'[m].wait_list = mon[m].wait_list
  BY <1>2, <1>3, <1>4, <1>6
<1>8. thread[t].pc = "idle" /\ thread[t].event = NULL /\ thread' = thread /\ Others(t)
  BY <1>1, <1>2, IdleThread, IdleFacts DEF Others
<1> QED BY <1>2, <1>3, <1>5, <1>7, <1>8, ExitStep

\* The last entry is given up.
LEMMA FreeStep ==
    ASSUME IInv, NEW t \in Thread, NEW o \in Object, NEW m \in Record, m = synchronisation[o],
           mon[m].owner = t, mon[m].nest = 1, mon' = [mon EXCEPT ![m].owner = NULL],
           thread[t].pc # "regained", thread[t].event = NULL,
           NEW s \in ThreadState, thread' = [thread EXCEPT ![t] = s], s.pc # "regained", s.event = NULL,
           UNCHANGED <<synchronisation, event>>
    PROVE  Contract!Next
<1>1. BaseType
  BY Unpack
<1>2. PICK n \in SyncState : n = mon[m]
  BY <1>1, MonType
<1>3. mon'[m] = [n EXCEPT !.owner = NULL] /\ OnlyRecord(m)
  BY <1>1, <1>2 DEF BaseType, OnlyRecord
<1>4. mon'[m].owner = NULL /\ mon'[m].wait_list = mon[m].wait_list
  BY <1>2, <1>3 DEF SyncState
<1>5. thread'[t] = s /\ Others(t)
  BY <1>1, ThreadEffect DEF Others
<1>6. thread'[t].pc # "regained" /\ thread'[t].event = NULL
  BY <1>5
<1> QED BY <1>3, <1>4, <1>5, <1>6, ExitStep

LEMMA ExitLastAbs == ASSUME IInv, NEW t \in Thread, NEW o \in Object, ExitLast(t, o) PROVE Contract!Next
<1>1. BaseType /\ ThreadInv
  BY Unpack
<1>2. /\ At(t, "idle") /\ Owns(t, o) /\ mon[synchronisation[o]].nest = 1
      /\ mon' = [mon EXCEPT ![synchronisation[o]].owner = NULL]
      /\ thread' = [thread EXCEPT ![t] = [Idle EXCEPT !.pc = "wakeup", !.call = "Exit", !.obj = o]]
      /\ UNCHANGED <<synchronisation, event>>
  BY DEF ExitLast, records
<1>3. PICK m \in Record : m = synchronisation[o] /\ mon[m].owner = t
  BY <1>1, <1>2, OwnedRecord
<1>4. PICK s : s = [Idle EXCEPT !.pc = "wakeup", !.call = "Exit", !.obj = o]
  OBVIOUS
<1>5. s \in ThreadState
  <2>1. "wakeup" \in Pc /\ "Exit" \in Call
    BY DEF Pc, Call
  <2> QED BY <1>1, <1>4, <2>1, IdleFacts DEF ThreadState
<1>6. s.event = NULL /\ s.pc # "regained"
  BY <1>4, IdleFacts DEF Idle
<1>7. thread[t].pc = "idle" /\ thread[t].event = NULL
  BY <1>1, <1>2, IdleThread, IdleFacts
<1>8. mon' = [mon EXCEPT ![m].owner = NULL] /\ mon[m].nest = 1 /\ thread' = [thread EXCEPT ![t] = s]
      /\ UNCHANGED <<synchronisation, event>>
  BY <1>2, <1>3, <1>4
<1> QED BY <1>3, <1>5, <1>6, <1>7, <1>8, FreeStep

LEMMA FastFreeAbs == ASSUME IInv, NEW t \in Thread, FastFree(t) PROVE Contract!Next
<1>1. BaseType /\ ThreadInv /\ OwnInv
  BY Unpack
<1>2. /\ thread[t].pc = "fast_exit" /\ mon' = [mon EXCEPT ![Mon(t)].owner = NULL]
      /\ thread' = [thread EXCEPT ![t] = Idle] /\ UNCHANGED <<synchronisation, event>>
  BY DEF FastFree, records, At
<1>3. PICK m \in Record, o \in Object : m = Mon(t) /\ o = thread[t].obj /\ synchronisation[o] = m
  BY <1>1, <1>2, InCall
<1>4. mon[m].owner = t /\ mon[m].nest = 1
  BY <1>1, <1>2, <1>3 DEF OwnInv, OwnOK, Owns
<1>5. thread[t].event = NULL
  BY <1>1, <1>2 DEF ThreadInv, ThreadOK
<1>6. Idle \in ThreadState /\ Idle.pc # "regained" /\ Idle.event = NULL
  BY <1>1, IdleFacts
<1>7. mon' = [mon EXCEPT ![m].owner = NULL] /\ thread[t].pc # "regained"
  BY <1>2, <1>3
<1> QED BY <1>2, <1>3, <1>4, <1>5, <1>6, <1>7, FreeStep

-----------------------------------------------------------------------------
\* Wait, Pulse and PulseAll.

LEMMA SameSet == \A s : Contract!ToSet(s) = ToSet(s)
BY DEF Contract!ToSet, ToSet

LEMMA WaitAbs == ASSUME IInv, NEW t \in Thread, NEW o \in Object, Wait(t, o) PROVE Contract!Next
<1>1. BaseType /\ ThreadInv /\ RecordInv /\ ListInv /\ WaiterInv
  BY Unpack
<1>2. PICK c \in {"Wait", "WaitTimeout"} :
        LET m == synchronisation[o]
            e == CHOOSE f \in Event : event[f] = "closed"
        IN  /\ At(t, "idle") /\ Owns(t, o)
            /\ \E f \in Event : event[f] = "closed"
            /\ event' = [event EXCEPT ![e] = "reset"]
            /\ mon' = [mon EXCEPT ![m].wait_list = Append(@, e), ![m].nest = 1, ![m].owner = NULL]
            /\ thread' = [thread EXCEPT ![t] =
                            [Idle EXCEPT !.pc = "wakeup", !.call = c, !.obj = o,
                                         !.ms = Timeout(c), !.event = e, !.nest = mon[m].nest]]
            /\ UNCHANGED synchronisation
  BY DEF Wait, records
<1>3. PICK e : e = CHOOSE f \in Event : event[f] = "closed"
  OBVIOUS
<1>4. e \in Event /\ event[e] = "closed"
  <2>1. \E f \in Event : event[f] = "closed"
    BY <1>2
  <2> QED BY <1>3, <2>1, Zenon
<1>5. PICK m \in Record : m = synchronisation[o] /\ mon[m].owner = t
  BY <1>1, <1>2, OwnedRecord
<1>6. PICK n \in SyncState : n = mon[m]
  BY <1>1, MonType
<1>7. PICK s : s = [Idle EXCEPT !.pc = "wakeup", !.call = c, !.obj = o,
                                !.ms = Timeout(c), !.event = e, !.nest = n.nest]
  OBVIOUS
<1>8. /\ At(t, "idle") /\ event' = [event EXCEPT ![e] = "reset"]
      /\ mon' = [mon EXCEPT ![m].wait_list = Append(@, e), ![m].nest = 1, ![m].owner = NULL]
      /\ thread' = [thread EXCEPT ![t] = s] /\ UNCHANGED synchronisation
  BY <1>2, <1>3, <1>5, <1>6, <1>7
<1>9. s.pc = "wakeup" /\ s.event = e /\ ~s.woken /\ s.nest = n.nest
  BY <1>7, IdleFacts DEF Idle
<1>10. thread'[t] = s /\ Others(t)
  BY <1>1, <1>8 DEF BaseType, Others
<1>11. mon'[m] = [n EXCEPT !.wait_list = Append(n.wait_list, e), !.nest = 1, !.owner = NULL] /\ OnlyRecord(m)
  BY <1>1, <1>6, <1>8 DEF BaseType, OnlyRecord, SyncState
<1>12. mon'[m].owner = NULL /\ mon'[m].wait_list = Append(mon[m].wait_list, e)
  BY <1>6, <1>11 DEF SyncState
<1>13. event'[e] = "reset" /\ \A f \in Event \ {e} : event'[f] = event[f]
  BY <1>1, <1>4, <1>8 DEF BaseType
<1>14. thread[t].pc = "idle" /\ thread[t].event = NULL /\ t # NULL /\ m # NULL
  BY <1>1, <1>8, IdleThread, IdleFacts, NullFacts
<1>15. \A u \in Thread : thread[u].event # e
  <2>1. e # NULL
    BY <1>4, NullFacts
  <2> QED BY <1>1, <1>4, <2>1 DEF WaiterInv, WaiterOK, WaitsWith
<1>16. Holder(o) = t /\ Depth(o) = mon[m].nest /\ Queue(o) = mon[m].wait_list
  BY <1>5, <1>14, HolderIs DEF At
<1>17. Holder(o)' = NULL /\ Depth(o)' = 0 /\ Queue(o)' = Append(Queue(o), e)
  BY <1>5, <1>8, <1>12, <1>14, <1>16 DEF Holder, Depth, Queue
<1>18. \A p \in Object \ {o} : Holder(p)' = Holder(p) /\ Depth(p)' = Depth(p) /\ Queue(p)' = Queue(p)
  <2>1. thread[t].pc # "regained" /\ thread'[t].pc # "regained"
    BY <1>9, <1>10, <1>14
  <2> QED BY <1>1, <1>5, <1>8, <1>10, <1>11, <2>1, OtherObjects
<1>19. /\ Waiter(e) = NULL /\ Waiter(e)' = t /\ Saved(e)' = thread'[t].nest
       /\ ~Signalled(e) /\ ~Signalled(e)'
       /\ \A f \in Event \ {e} : /\ Waiter(f)' = Waiter(f) /\ Saved(f)' = Saved(f)
                                 /\ Signalled(f)' <=> Signalled(f)
  <2>1. thread'[t].event = e /\ event'[e] # "set" /\ ~thread'[t].woken
    BY <1>9, <1>10, <1>13
  <2> QED BY <1>4, <1>10, <1>13, <1>14, <1>15, <2>1, WaitsAdded
<1>20. Saved(e)' = Depth(o)
  BY <1>6, <1>9, <1>10, <1>16, <1>19
<1>21. \A p \in Object : e \notin ToSet(Queue(p))
  <2> SUFFICES ASSUME NEW p \in Object PROVE e \notin ToSet(Queue(p))
    OBVIOUS
  <2>1. CASE synchronisation[p] = NULL
    BY <2>1 DEF Queue, ToSet
  <2>2. CASE synchronisation[p] # NULL
    <3>1. synchronisation[p] \in Record
      BY <1>1, <2>2 DEF BaseType
    <3>2. ~Listed(e, synchronisation[p])
      BY <1>1, <1>4, <3>1 DEF ListInv, ListOK
    <3> QED BY <2>2, <3>2 DEF Queue, Listed
  <2> QED BY <2>1, <2>2
<1>22. Contract!Wait(t, o, e)
  <2>1. [p \in Object |-> Holder(p)]' = [[p \in Object |-> Holder(p)] EXCEPT ![o] = NULL]
    BY <1>17, <1>18
  <2>2. [p \in Object |-> Depth(p)]' = [[p \in Object |-> Depth(p)] EXCEPT ![o] = 0]
    BY <1>17, <1>18
  <2>3. [p \in Object |-> Queue(p)]' = [[p \in Object |-> Queue(p)] EXCEPT ![o] = Append(@, e)]
    BY <1>17, <1>18
  <2>4. [f \in Event |-> Waiter(f)]' = [[f \in Event |-> Waiter(f)] EXCEPT ![e] = t]
    BY <1>4, <1>19
  <2>5. [f \in Event |-> Saved(f)]' = [[f \in Event |-> Saved(f)] EXCEPT ![e] = Depth(o)]
    BY <1>4, <1>19, <1>20
  <2>6. {f \in Event : Signalled(f)}' = {f \in Event : Signalled(f)}
    BY <1>19
  <2>7. \A p \in Object : e \notin Contract!ToSet([q \in Object |-> Queue(q)][p])
    BY <1>21, SameSet
  <2> QED BY <1>4, <1>16, <1>19, <2>1, <2>2, <2>3, <2>4, <2>5, <2>6, <2>7 DEF Contract!Wait
<1> QED BY <1>4, <1>22 DEF Contract!Next

\* The first waiters of a monitor are woken, one or all of them.
LEMMA PulseStep ==
    ASSUME IInv, NEW t \in Thread, At(t, "idle"), NEW o \in Object, NEW m \in Record, m = synchronisation[o],
           mon[m].owner = t, UNCHANGED <<synchronisation, thread>>, OnlyRecord(m),
           mon'[m].owner = mon[m].owner, mon'[m].nest = mon[m].nest,
           NEW q, q = mon[m].wait_list, NEW k \in Nat, k <= Len(q),
           mon'[m].wait_list = SubSeq(q, k + 1, Len(q)),
           NEW E, E = ToSet(SubSeq(q, 1, k)), E \subseteq Event,
           event' = [f \in Event |-> IF f \in E THEN "set" ELSE event[f]]
    PROVE  Contract!Pulse(t, o, k)
<1>1. BaseType /\ RecordInv /\ ThreadInv
  BY Unpack
<1>2. t # NULL /\ m # NULL /\ thread[t].pc = "idle" /\ Others(t)
  BY NullFacts DEF At, Others
<1>3. Holder(o) = t /\ Queue(o) = q
  BY <1>2, HolderIs DEF At
<1>4. Holder(o)' = Holder(o) /\ Depth(o)' = Depth(o) /\ Queue(o)' = SubSeq(Queue(o), k + 1, Len(Queue(o)))
  BY <1>2, <1>3 DEF Holder, Depth, Queue, At
<1>5. \A p \in Object \ {o} : Holder(p)' = Holder(p) /\ Depth(p)' = Depth(p) /\ Queue(p)' = Queue(p)
  BY <1>1, <1>2, OtherObjects
<1>6. \A f : WaiterOf(f)' = WaiterOf(f)
  BY DEF WaiterOf
<1>7. ASSUME NEW f \in Event PROVE Waiter(f)' = Waiter(f)
  <2>1. WaiterOf(f)' = WaiterOf(f)
    BY <1>6
  <2> QED BY <2>1 DEF Waiter
<1>8. \A f \in Event : Saved(f)' = Saved(f)
  BY <1>6, <1>7 DEF Saved
<1>9. ASSUME NEW f \in Event
      PROVE  Signalled(f)' <=> Signalled(f) \/ (f \in E /\ Waiter(f) # NULL)
  <2>1. Waiter(f) # NULL <=> WaiterOf(f) # {}
    <3>1. WaiterOf(f) # {} => Waiter(f) \in Thread
      BY WaiterChosen DEF WaiterOf
    <3> QED BY <3>1, NullFacts DEF Waiter
  <2>2. CASE f \in E
    BY <1>6, <2>1, <2>2 DEF Signalled
  <2>3. CASE f \notin E
    <3>1. event'[f] = event[f]
      BY <2>3
    <3> QED BY <1>6, <2>3, <3>1 DEF Signalled
  <2> QED BY <2>2, <2>3
<1>10. [p \in Object |-> Queue(p)]' = [[p \in Object |-> Queue(p)] EXCEPT ![o] = SubSeq(@, k + 1, Len(@))]
  BY <1>4, <1>5
<1>11. [p \in Object |-> Holder(p)]' = [p \in Object |-> Holder(p)]
       /\ [p \in Object |-> Depth(p)]' = [p \in Object |-> Depth(p)]
  BY <1>4, <1>5
<1>12. [f \in Event |-> Waiter(f)]' = [f \in Event |-> Waiter(f)]
       /\ [f \in Event |-> Saved(f)]' = [f \in Event |-> Saved(f)]
  BY <1>7, <1>8
<1>13. Contract!ToSet(SubSeq([p \in Object |-> Queue(p)][o], 1, k)) = E
  BY <1>3, SameSet
<1>14. {f \in Event : Signalled(f)}' =
         {f \in Event : Signalled(f)}
           \cup {f \in Contract!ToSet(SubSeq([p \in Object |-> Queue(p)][o], 1, k)) :
                   [g \in Event |-> Waiter(g)][f] # NULL}
  <2>1. {f \in Event : Signalled(f)}' =
          {f \in Event : Signalled(f)} \cup {f \in E : [g \in Event |-> Waiter(g)][f] # NULL}
    BY <1>9
  <2> QED BY <1>13, <2>1
<1>15. [p \in Object |-> Holder(p)][o] = t /\ k <= Len([p \in Object |-> Queue(p)][o])
  BY <1>3
<1> QED BY <1>10, <1>11, <1>12, <1>14, <1>15 DEF Contract!Pulse

LEMMA PulseAbs == ASSUME IInv, NEW t \in Thread, NEW o \in Object, Pulse(t, o) PROVE Contract!Next
<1>1. BaseType
  BY Unpack
<1>2. /\ At(t, "idle") /\ Owns(t, o) /\ UNCHANGED <<synchronisation, thread>>
      /\ mon[synchronisation[o]].wait_list # <<>>
      /\ event' = [event EXCEPT ![Head(mon[synchronisation[o]].wait_list)] = "set"]
      /\ mon' = [mon EXCEPT ![synchronisation[o]].wait_list = Tail(@)]
  BY DEF Pulse, records
<1>3. PICK m \in Record : m = synchronisation[o] /\ mon[m].owner = t
  BY <1>1, <1>2, OwnedRecord
<1>4. PICK n \in SyncState : n = mon[m]
  BY <1>1, MonType
<1>5. PICK q \in Seq(Event) : q = mon[m].wait_list /\ q # <<>>
  BY <1>1, <1>2, <1>3, MonType
<1>6. mon'[m] = [n EXCEPT !.wait_list = Tail(q)] /\ OnlyRecord(m)
  BY <1>1, <1>2, <1>3, <1>4, <1>5 DEF BaseType, OnlyRecord
<1>7. mon'[m].owner = mon[m].owner /\ mon'[m].nest = mon[m].nest /\ mon'[m].wait_list = Tail(q)
  BY <1>4, <1>6 DEF SyncState
<1>8. Tail(q) = SubSeq(q, 1 + 1, Len(q))
  BY <1>5, TailIsSubSeq
<1>9. Head(q) \in Event /\ Len(q) \in Nat /\ 1 <= Len(q) /\ q[1] = Head(q)
  BY <1>5, HeadTailProperties, LenProperties, EmptySeq
<1>10. PICK E : E = ToSet(SubSeq(q, 1, 1))
  OBVIOUS
<1>11. E = {Head(q)}
  <2>1. /\ SubSeq(q, 1, 1) \in Seq(Event) /\ Len(SubSeq(q, 1, 1)) = 1 /\ SubSeq(q, 1, 1)[1] = q[1]
    <3>1. \A i \in 1..1 : q[i] \in Event
      BY <1>9
    <3> QED BY <3>1, SubSeqProperties
  <2>2. DOMAIN SubSeq(q, 1, 1) = {1}
    BY <2>1, LenProperties
  <2> QED BY <1>9, <1>10, <2>1, <2>2 DEF ToSet
<1>12. event' = [f \in Event |-> IF f \in E THEN "set" ELSE event[f]] /\ E \subseteq Event
  BY <1>1, <1>2, <1>3, <1>5, <1>9, <1>11 DEF BaseType
<1>13. mon'[m].wait_list = SubSeq(q, 1 + 1, Len(q)) /\ 1 \in Nat
  BY <1>7, <1>8
<1>14. At(t, "idle") /\ UNCHANGED <<synchronisation, thread>> /\ OnlyRecord(m)
       /\ mon'[m].owner = mon[m].owner /\ mon'[m].nest = mon[m].nest
  BY <1>2, <1>6, <1>7
<1>15. Contract!Pulse(t, o, 1)
  BY <1>3, <1>5, <1>9, <1>10, <1>12, <1>13, <1>14, PulseStep
<1> QED BY <1>15 DEF Contract!Next

LEMMA PulseAllAbs == ASSUME IInv, NEW t \in Thread, NEW o \in Object, PulseAll(t, o) PROVE Contract!Next
<1>1. BaseType
  BY Unpack
<1>2. /\ At(t, "idle") /\ Owns(t, o) /\ UNCHANGED <<synchronisation, thread>>
      /\ event' = [e \in Event |-> IF e \in ToSet(mon[synchronisation[o]].wait_list) THEN "set" ELSE event[e]]
      /\ mon' = [mon EXCEPT ![synchronisation[o]].wait_list = <<>>]
  BY DEF PulseAll, records
<1>3. PICK m \in Record : m = synchronisation[o] /\ mon[m].owner = t
  BY <1>1, <1>2, OwnedRecord
<1>4. PICK n \in SyncState : n = mon[m]
  BY <1>1, MonType
<1>5. PICK q \in Seq(Event) : q = mon[m].wait_list
  BY <1>1, <1>3, MonType
<1>6. mon'[m] = [n EXCEPT !.wait_list = <<>>] /\ OnlyRecord(m)
  BY <1>1, <1>2, <1>3, <1>4 DEF BaseType, OnlyRecord
<1>7. mon'[m].owner = mon[m].owner /\ mon'[m].nest = mon[m].nest /\ mon'[m].wait_list = <<>>
  BY <1>4, <1>6 DEF SyncState
<1>8. PICK k \in Nat : k = Len(q)
  BY <1>5, LenProperties
<1>9. SubSeq(q, k + 1, Len(q)) = <<>>
  BY <1>8, SubSeqEmpty
<1>10. PICK E : E = ToSet(SubSeq(q, 1, k))
  OBVIOUS
<1>11. E = ToSet(q)
  BY <1>5, <1>8, <1>10, SubSeqFull
<1>12. E \subseteq Event
  BY <1>5, <1>11, ElementOfSeq, LenProperties DEF ToSet
<1>13. event' = [f \in Event |-> IF f \in E THEN "set" ELSE event[f]]
  BY <1>2, <1>3, <1>5, <1>11
<1>14. mon'[m].wait_list = SubSeq(q, k + 1, Len(q)) /\ k <= Len(q)
  BY <1>7, <1>8, <1>9
<1>15. Contract!Pulse(t, o, k)
  <2>1. At(t, "idle") /\ UNCHANGED <<synchronisation, thread>> /\ OnlyRecord(m)
        /\ mon'[m].owner = mon[m].owner /\ mon'[m].nest = mon[m].nest
    BY <1>2, <1>6, <1>7
  <2> QED BY <1>3, <1>5, <1>10, <1>12, <1>13, <1>14, <2>1, PulseStep
<1>16. k = Len([p \in Object |-> Queue(p)][o])
  BY <1>3, <1>5, <1>8, HolderIs
<1>17. Contract!Pulse(t, o, Len([p \in Object |-> Queue(p)][o]))
  BY <1>15, <1>16
<1> QED BY <1>17 DEF Contract!Next

LEMMA SameWithout == \A s, e : Contract!Without(s, e) = Without(s, e)
BY SameSet DEF Contract!Without, Without, Contract!RemoveAt, RemoveAt

\* The event of a waiter that nobody pulsed is in the queue of its object.
LEMMA WaiterListed ==
    ASSUME IInv, NEW t \in Thread, NEW e \in Event, e = thread[t].event
    PROVE  LET q == mon[Mon(t)].wait_list
           IN  e \in ToSet(q) <=> ~Signalled(e)
<1>1. WaiterInv /\ e # NULL
  BY Unpack, NullFacts
<1>2. WaitsWith(t, e, Mon(t))
  BY <1>1 DEF WaiterInv, WaiterOK
<1>3. Signalled(e) <=> event[e] = "set" \/ thread[t].woken
  BY <1>1, WaiterIs
<1> QED BY <1>2, <1>3 DEF WaitsWith, Listed

\* The end of a Wait that has the lock again.
LEMMA RegainedAbs == ASSUME IInv, NEW t \in Thread, Regained(t) PROVE Contract!Next
<1>1. BaseType /\ ThreadInv /\ OwnInv /\ RecordInv /\ ListInv /\ WaiterInv
  BY Unpack
<1>2. thread[t].pc = "regained" /\ UNCHANGED synchronisation
  BY DEF Regained, At, records
<1>3. PICK m \in Record, o \in Object : m = Mon(t) /\ o = thread[t].obj /\ synchronisation[o] = m
  BY <1>1, <1>2, InCall
<1>4. thread[t].event # NULL
  BY <1>1, <1>2 DEF ThreadInv, ThreadOK
<1>5. PICK e \in Event : e = thread[t].event
  BY <1>1, <1>4, WaiterRecord
<1>6. PICK n \in SyncState : n = mon[m] /\ n.wait_list \in Seq(Event)
  BY <1>1, MonType
<1>7. PICK k : k = thread[t].nest /\ k >= 1
  BY <1>1, <1>4 DEF ThreadInv, ThreadOK
<1>8. /\ Waiter(e) = t /\ Saved(e) = k /\ (Signalled(e) <=> event[e] = "set" \/ thread[t].woken)
      /\ \A u \in Thread : thread[u].event = e => u = t
  BY <1>1, <1>5, <1>7, WaiterIs
<1>9. e \in ToSet(n.wait_list) <=> ~Signalled(e)
  BY <1>3, <1>5, <1>6, WaiterListed
<1>10. PICK q : q = Without(n.wait_list, e)
  OBVIOUS
<1>11. mon'[m] = [n EXCEPT !.nest = k, !.wait_list = q] /\ OnlyRecord(m)
  <2>1. mon' = [mon EXCEPT ![m].nest = k,
                  ![m].wait_list = IF thread[t].woken \/ event[e] = "set" THEN @ ELSE Without(@, e)]
    BY <1>3, <1>5, <1>7 DEF Regained
  <2>2. q = IF thread[t].woken \/ event[e] = "set" THEN n.wait_list ELSE Without(n.wait_list, e)
    BY <1>8, <1>9, <1>10 DEF Without
  <2>3. mon'[m] = [n EXCEPT !.nest = k, !.wait_list =
                     IF thread[t].woken \/ event[e] = "set" THEN n.wait_list ELSE Without(n.wait_list, e)]
    BY <1>1, <1>6, <2>1 DEF BaseType, SyncState
  <2> QED BY <1>1, <2>1, <2>2, <2>3 DEF BaseType, OnlyRecord
<1>12. mon'[m].owner = n.owner /\ mon'[m].nest = k /\ mon'[m].wait_list = q
  BY <1>6, <1>11 DEF SyncState
<1>13. event' = [event EXCEPT ![e] = "closed"] /\ thread' = [thread EXCEPT ![t] = Idle]
  BY <1>5 DEF Regained
<1>14. \A f \in Event \ {e} : event'[f] = event[f]
  BY <1>1, <1>13 DEF BaseType
<1>15. Idle \in ThreadState /\ Idle.pc = "idle" /\ Idle.event = NULL
  BY <1>1, IdleFacts
<1>16. thread'[t] = Idle /\ Others(t)
  BY <1>1, <1>13, <1>15, ThreadEffect DEF Others
<1>17. mon[m].owner = t /\ t # NULL /\ m # NULL
  BY <1>1, <1>2, <1>3, NullFacts DEF OwnInv, OwnOK, Owns
<1>18. Holder(o) = NULL /\ Queue(o) = n.wait_list
  BY <1>2, <1>3, <1>6, <1>17, HolderIs DEF At
<1>19. Holder(o)' = t /\ Depth(o)' = k /\ Queue(o)' = q
  BY <1>2, <1>3, <1>6, <1>12, <1>15, <1>16, <1>17 DEF Holder, Depth, Queue, At
<1>20. \A p \in Object \ {o} : Holder(p)' = Holder(p) /\ Depth(p)' = Depth(p) /\ Queue(p)' = Queue(p)
  <2>1. (thread[t].pc = "regained" => thread[t].obj = o) /\ thread'[t].pc # "regained" /\ OnlyRecord(m)
    BY <1>3, <1>11, <1>15, <1>16
  <2> QED BY <1>1, <1>2, <1>3, <1>16, <2>1, OtherObjects
<1>21. /\ Waiter(e)' = NULL /\ Saved(e)' = 0 /\ ~Signalled(e)'
       /\ \A f \in Event \ {e} : /\ Waiter(f)' = Waiter(f) /\ Saved(f)' = Saved(f)
                                 /\ Signalled(f)' <=> Signalled(f)
  BY <1>5, <1>8, <1>14, <1>15, <1>16, WaitsDropped
<1>22. Contract!Resume(t, o, e)
  <2>1. [p \in Object |-> Holder(p)]' = [[p \in Object |-> Holder(p)] EXCEPT ![o] = t]
    BY <1>19, <1>20
  <2>2. [p \in Object |-> Depth(p)]' = [[p \in Object |-> Depth(p)] EXCEPT ![o] = [f \in Event |-> Saved(f)][e]]
    BY <1>8, <1>19, <1>20
  <2>3. [p \in Object |-> Queue(p)]' = [[p \in Object |-> Queue(p)] EXCEPT ![o] = Contract!Without(@, e)]
    <3>1. Queue(o)' = Contract!Without(Queue(o), e)
      BY <1>10, <1>18, <1>19, SameWithout
    <3> QED BY <1>20, <3>1
  <2>4. [f \in Event |-> Waiter(f)]' = [[f \in Event |-> Waiter(f)] EXCEPT ![e] = NULL]
    BY <1>21
  <2>5. [f \in Event |-> Saved(f)]' = [[f \in Event |-> Saved(f)] EXCEPT ![e] = 0]
    BY <1>21
  <2>6. {f \in Event : Signalled(f)}' = {f \in Event : Signalled(f)} \ {e}
    BY <1>21
  <2>7. \/ e \in {f \in Event : Signalled(f)}
        \/ e \in Contract!ToSet([p \in Object |-> Queue(p)][o])
    BY <1>9, <1>18, SameSet
  <2>8. [p \in Object |-> Holder(p)][o] = NULL /\ [f \in Event |-> Waiter(f)][e] = t
    BY <1>8, <1>18
  <2> QED BY <2>1, <2>2, <2>3, <2>4, <2>5, <2>6, <2>7, <2>8 DEF Contract!Resume
<1> QED BY <1>22 DEF Contract!Next

-----------------------------------------------------------------------------
\* The collector and the records.

LEMMA CollectAbs == ASSUME IInv, NEW o \in Object, Collect(o) PROVE Contract!Next
<1>1. BaseType /\ RecordInv /\ ThreadInv /\ WaiterInv
  BY Unpack
<1>2. PICK m \in Record : m = synchronisation[o]
  BY <1>1 DEF Collect, BaseType
<1>3. /\ \A t \in Thread : thread[t].obj # o
      /\ mon' = [mon EXCEPT ![m] = [@ EXCEPT !.data = NULL, !.owner = NULL, !.nest = 0]]
      /\ synchronisation' = [synchronisation EXCEPT ![o] = NULL]
      /\ UNCHANGED <<event, thread>>
  BY <1>2 DEF Collect
<1>4. \A k \in Record \ {m} : mon'[k] = mon[k]
  BY <1>1, <1>3 DEF BaseType
<1>5. synchronisation'[o] = NULL /\ \A p \in Object \ {o} : synchronisation'[p] = synchronisation[p]
  BY <1>1, <1>3 DEF BaseType
<1>6. \A p \in Object \ {o} : Holder(p)' = Holder(p) /\ Depth(p)' = Depth(p) /\ Queue(p)' = Queue(p)
  <2> SUFFICES ASSUME NEW p \in Object \ {o}
               PROVE  Holder(p)' = Holder(p) /\ Depth(p)' = Depth(p) /\ Queue(p)' = Queue(p)
    OBVIOUS
  <2>1. PICK n : n = synchronisation[p] /\ synchronisation'[p] = n
    BY <1>5
  <2>2. n # NULL => mon'[n] = mon[n]
    BY <1>1, <1>2, <1>4, <2>1, NullFacts DEF BaseType, RecordInv
  <2>3. thread' = thread
    BY <1>3
  <2>4. Holder(p)' = Holder(p)
    BY <2>1, <2>2, <2>3 DEF Holder, At
  <2>5. n = NULL => Holder(p) = NULL
    BY <2>1 DEF Holder
  <2> QED BY <2>1, <2>2, <2>4, <2>5 DEF Depth, Queue
<1>7. Holder(o)' = NULL /\ Depth(o)' = 0 /\ Queue(o)' = <<>>
  BY <1>5 DEF Holder, Depth, Queue
<1>8. AbsWaits
  <2>1. \A u \in Thread : thread'[u] = thread[u]
    BY <1>3
  <2> QED BY <1>3, <2>1, WaitsSame DEF AbsWaits
<1>9. ASSUME NEW e \in ToSet(Queue(o)) PROVE e \in Event /\ Waiter(e) = NULL
  <2>1. Queue(o) = mon[m].wait_list /\ mon[m].wait_list \in Seq(Event)
    BY <1>1, <1>2, HolderIs, MonType
  <2>2. e \in Event /\ Listed(e, m)
    BY <1>9, <2>1, ElementOfSeq, LenProperties DEF ToSet, Listed
  <2>3. ASSUME NEW u \in Thread, thread[u].event = e PROVE FALSE
    <3>1. thread[u].event # NULL
      BY <2>2, <2>3, NullFacts
    <3>2. WaitsWith(u, e, Mon(u)) /\ thread[u].obj \in Object
      BY <1>1, <2>3, <3>1, WaiterRecord DEF WaiterInv, WaiterOK
    <3>3. m = synchronisation[thread[u].obj]
      BY <2>2, <3>2 DEF WaitsWith, Mon
    <3>4. thread[u].obj = o
      BY <1>1, <1>2, <3>2, <3>3, NullFacts DEF RecordInv
    <3> QED BY <1>3, <3>4
  <2>4. WaiterOf(e) = {}
    BY <2>3 DEF WaiterOf
  <2> QED BY <2>2, <2>4 DEF Waiter
<1>10. Contract!Replace(o)
  <2>1. [p \in Object |-> Holder(p)]' = [[p \in Object |-> Holder(p)] EXCEPT ![o] = NULL]
    BY <1>6, <1>7
  <2>2. [p \in Object |-> Depth(p)]' = [[p \in Object |-> Depth(p)] EXCEPT ![o] = 0]
    BY <1>6, <1>7
  <2>3. [p \in Object |-> Queue(p)]' = [[p \in Object |-> Queue(p)] EXCEPT ![o] = <<>>]
    BY <1>6, <1>7
  <2>4. /\ [f \in Event |-> Waiter(f)]' = [f \in Event |-> Waiter(f)]
        /\ [f \in Event |-> Saved(f)]' = [f \in Event |-> Saved(f)]
        /\ {f \in Event : Signalled(f)}' = {f \in Event : Signalled(f)}
    BY <1>8 DEF AbsWaits
  <2>5. \A e \in Contract!ToSet([p \in Object |-> Queue(p)][o]) : [f \in Event |-> Waiter(f)][e] = NULL
    BY <1>9, SameSet
  <2> QED BY <2>1, <2>2, <2>3, <2>4, <2>5 DEF Contract!Replace
<1> QED BY <1>10 DEF Contract!Next

\* What mon_new does to the records and events of objects and waiters: nothing.
LEMMA AllocateFrame ==
    ASSUME IInv, NEW t \in Thread, Allocate(t)
    PROVE  \E o \in Object, new \in Record :
             /\ o = thread[t].obj /\ thread[t].event = NULL /\ mon[new].data = NULL
             /\ mon'[new].wait_list = <<>>
             /\ \A n \in Record \ {new} : mon[n].data # NULL => mon'[n] = mon[n]
             /\ \A u \in Thread : thread[u].event # NULL => event'[thread[u].event] = event[thread[u].event]
             /\ \/ /\ synchronisation[o] = NULL /\ synchronisation' = [synchronisation EXCEPT ![o] = new]
                   /\ mon'[new].owner = t /\ mon'[new].nest = 1 /\ Acquired(t)
                \/ UNCHANGED synchronisation /\ GoTo(t, "owner")
<1>1. BaseType /\ RecordInv /\ ThreadInv /\ WaiterInv
  BY Unpack
<1>2. /\ thread[t].pc = "allocate" /\ (NeedsArray => allocated < NumArray)
      /\ allocated' = IF NeedsArray THEN allocated + 1 ELSE allocated
      /\ event' = [e \in Event |-> IF e \in Orphans THEN "closed" ELSE event[e]]
  BY DEF Allocate, At
<1>3. PICK o \in Object : o = thread[t].obj
  BY <1>1, <1>2, InCall
<1>4. PICK R, F : R = Recycled /\ F = FreeList
  OBVIOUS
<1>5. PICK C : C = Cleaned
  OBVIOUS
<1>6. PICK new \in F :
         \/ /\ synchronisation[o] = NULL
            /\ mon' = [C EXCEPT ![new] = [@ EXCEPT !.owner = t, !.nest = 1, !.data = o]]
            /\ synchronisation' = [synchronisation EXCEPT ![o] = new]
            /\ Acquired(t)
         \/ /\ mon' = [C EXCEPT ![new] = [@ EXCEPT !.entry_sem = NULL, !.entry_count = 0]]
            /\ GoTo(t, "owner") /\ UNCHANGED synchronisation
  BY <1>3, <1>4, <1>5 DEF Allocate
<1>7. /\ R \in SUBSET Record /\ \A m \in R : mon[m].data = NULL
      /\ F \in SUBSET Record
      /\ \A m \in F : mon[m].data = NULL /\ (m \in R \/ mon[m].wait_list = <<>>)
  BY <1>1, <1>2, <1>4, FreeListFacts
<1>8. new \in Record /\ mon[new].data = NULL
  BY <1>7
<1>9. C = [m \in Record |-> IF m \in R THEN [mon[m] EXCEPT !.wait_list = <<>>] ELSE mon[m]]
  BY <1>4, <1>5 DEF Cleaned
<1>10. PICK c : c = C[new]
  OBVIOUS
<1>11. c \in SyncState /\ c.wait_list = <<>>
  <2>1. PICK n \in SyncState : n = mon[new]
    BY <1>1, <1>8, MonType
  <2>2. <<>> \in Seq(Event)
    BY EmptySeq
  <2>3. c = IF new \in R THEN [n EXCEPT !.wait_list = <<>>] ELSE n
    BY <1>8, <1>9, <1>10, <2>1
  <2>4. new \in R \/ n.wait_list = <<>>
    BY <1>7, <2>1
  <2> QED BY <2>1, <2>2, <2>3, <2>4 DEF SyncState
<1>12. \A n \in Record \ {new} : mon'[n] = C[n]
  BY <1>6, <1>9
<1>13. \A n \in Record \ {new} : mon[n].data # NULL => mon'[n] = mon[n]
  BY <1>7, <1>9, <1>12
<1>14. ASSUME NEW u \in Thread, thread[u].event # NULL
       PROVE  event'[thread[u].event] = event[thread[u].event]
  <2>1. PICK e \in Event, m \in Record : e = thread[u].event /\ m = Mon(u) /\ thread[u].obj \in Object
    BY <1>1, <1>14, WaiterRecord
  <2>2. WaitsWith(u, e, m)
    BY <1>1, <1>14, <2>1 DEF WaiterInv, WaiterOK
  <2>3. mon[m].data # NULL
    BY <1>1, <2>1, NullFacts DEF RecordInv, Mon
  <2>4. e \notin Orphans
    <3> SUFFICES ASSUME NEW n \in R, e \in ToSet(mon[n].wait_list) PROVE FALSE
      BY <1>4 DEF Orphans
    <3>1. n = m
      BY <1>7, <2>2 DEF WaitsWith, Listed
    <3> QED BY <1>7, <2>3, <3>1
  <2> QED BY <1>2, <2>1, <2>4
<1>15. thread[t].event = NULL
  BY <1>1, <1>2 DEF ThreadInv, ThreadOK
<1>16. CASE /\ synchronisation[o] = NULL
            /\ mon' = [C EXCEPT ![new] = [@ EXCEPT !.owner = t, !.nest = 1, !.data = o]]
            /\ synchronisation' = [synchronisation EXCEPT ![o] = new]
            /\ Acquired(t)
  <2>1. mon'[new] = [c EXCEPT !.owner = t, !.nest = 1, !.data = o]
    BY <1>8, <1>9, <1>10, <1>16
  <2>2. mon'[new].owner = t /\ mon'[new].nest = 1 /\ mon'[new].wait_list = <<>>
    BY <1>11, <2>1 DEF SyncState
  <2> QED BY <1>3, <1>8, <1>13, <1>14, <1>15, <1>16, <2>2
<1>17. CASE /\ mon' = [C EXCEPT ![new] = [@ EXCEPT !.entry_sem = NULL, !.entry_count = 0]]
            /\ GoTo(t, "owner") /\ UNCHANGED synchronisation
  <2>1. mon'[new] = [c EXCEPT !.entry_sem = NULL, !.entry_count = 0]
    BY <1>8, <1>9, <1>10, <1>17
  <2>2. mon'[new].wait_list = <<>>
    BY <1>11, <2>1 DEF SyncState
  <2> QED BY <1>3, <1>8, <1>13, <1>14, <1>15, <1>17, <2>2
<1> QED BY <1>6, <1>16, <1>17

LEMMA AllocateAbs ==
    ASSUME IInv, NEW t \in Thread, Allocate(t)
    PROVE  AbsUnchanged \/ Contract!Next
<1>1. BaseType /\ RecordInv /\ ThreadInv
  BY Unpack
<1>2. PICK o \in Object, new \in Record :
         /\ o = thread[t].obj /\ thread[t].event = NULL /\ mon[new].data = NULL
         /\ mon'[new].wait_list = <<>>
         /\ \A n \in Record \ {new} : mon[n].data # NULL => mon'[n] = mon[n]
         /\ \A u \in Thread : thread[u].event # NULL => event'[thread[u].event] = event[thread[u].event]
         /\ \/ /\ synchronisation[o] = NULL /\ synchronisation' = [synchronisation EXCEPT ![o] = new]
               /\ mon'[new].owner = t /\ mon'[new].nest = 1 /\ Acquired(t)
            \/ UNCHANGED synchronisation /\ GoTo(t, "owner")
  BY AllocateFrame
<1>3. thread[t].pc = "allocate"
  BY DEF Allocate, At
<1>4. PICK s \in ThreadState : thread' = [thread EXCEPT ![t] = s] /\ s.event = NULL /\ s.pc # "regained"
                               /\ (Acquired(t) => s.pc = "idle")
  <2>1. CASE Acquired(t)
    BY <1>1, <1>2, <2>1, RegainedState, IdleFacts
  <2>2. CASE ~Acquired(t) /\ GoTo(t, "owner")
    BY <1>1, <1>2, <2>2, GoToState DEF Pc, SameCall
  <2> QED BY <1>2, <2>1, <2>2
<1>5. thread'[t] = s /\ Others(t)
  BY <1>1, <1>4, ThreadEffect DEF Others
<1>6. thread'[t].event = NULL /\ thread'[t].pc # "regained" /\ thread[t].pc # "regained"
  BY <1>3, <1>4, <1>5
<1>7. AbsWaits
  <2>1. \A u \in Thread : thread'[u].event = thread[u].event
    BY <1>2, <1>5, <1>6 DEF Others
  <2>2. \A u \in Thread : thread[u].event # NULL => thread'[u] = thread[u]
    BY <1>2, <1>5 DEF Others
  <2>3. \A u \in Thread : thread[u].event # NULL => event'[thread[u].event] = event[thread[u].event]
    BY <1>2
  <2> QED BY <2>1, <2>2, <2>3, WaitsSame DEF AbsWaits
<1>8. ASSUME NEW p \in Object, synchronisation'[p] = synchronisation[p]
      PROVE  Holder(p)' = Holder(p) /\ Depth(p)' = Depth(p) /\ Queue(p)' = Queue(p)
  <2>1. PICK n : n = synchronisation[p]
    OBVIOUS
  <2>2. n # NULL => mon'[n] = mon[n]
    BY <1>1, <1>2, <2>1, NullFacts DEF BaseType, RecordInv
  <2> QED BY <1>1, <1>5, <1>6, <1>8, <2>1, <2>2, HolderSame, QueueSame
<1>9. CASE UNCHANGED synchronisation
  BY <1>7, <1>8, <1>9 DEF AbsUnchanged, AbsWaits
<1>10. CASE /\ synchronisation[o] = NULL /\ synchronisation' = [synchronisation EXCEPT ![o] = new]
            /\ mon'[new].owner = t /\ mon'[new].nest = 1 /\ Acquired(t)
  <2>1. synchronisation'[o] = new /\ \A p \in Object \ {o} : synchronisation'[p] = synchronisation[p]
    BY <1>1, <1>10 DEF BaseType
  <2>2. Holder(o) = NULL /\ Depth(o) = 0 /\ Queue(o) = <<>>
    BY <1>10 DEF Holder, Depth, Queue
  <2>3. Holder(o)' = t /\ Depth(o)' = 1 /\ Queue(o)' = <<>>
    <3>1. t # NULL /\ new # NULL /\ thread'[t].pc = "idle" /\ mon'[new].owner = t
          /\ mon'[new].nest = 1 /\ mon'[new].wait_list = <<>> /\ synchronisation'[o] = new
      BY <1>2, <1>4, <1>5, <1>10, <2>1, NullFacts
    <3>2. Holder(o)' = t
      BY <3>1 DEF Holder, At
    <3> QED BY <3>1, <3>2 DEF Depth, Queue
  <2>4. \A p \in Object \ {o} : Holder(p)' = Holder(p) /\ Depth(p)' = Depth(p) /\ Queue(p)' = Queue(p)
    BY <1>8, <2>1
  <2>5. Contract!Enter(t, o)
    <3>1. [p \in Object |-> Holder(p)]' = [[p \in Object |-> Holder(p)] EXCEPT ![o] = t]
      BY <2>3, <2>4
    <3>2. [p \in Object |-> Depth(p)]' = [[p \in Object |-> Depth(p)] EXCEPT ![o] = @ + 1]
      <4>1. Depth(o)' = Depth(o) + 1
        BY <2>2, <2>3
      <4> QED BY <2>4, <4>1
    <3>3. [p \in Object |-> Queue(p)]' = [p \in Object |-> Queue(p)]
      BY <2>2, <2>3, <2>4
    <3>4. /\ [f \in Event |-> Waiter(f)]' = [f \in Event |-> Waiter(f)]
          /\ [f \in Event |-> Saved(f)]' = [f \in Event |-> Saved(f)]
          /\ {f \in Event : Signalled(f)}' = {f \in Event : Signalled(f)}
      BY <1>7 DEF AbsWaits
    <3>5. [p \in Object |-> Holder(p)][o] = NULL
      BY <2>2
    <3> QED BY <3>1, <3>2, <3>3, <3>4, <3>5 DEF Contract!Enter, Contract!waits
  <2> QED BY <2>5 DEF Contract!Next
<1> QED BY <1>2, <1>9, <1>10

-----------------------------------------------------------------------------
\* The refinement.

LEMMA InitAbs == Init => Contract!Init
<1> SUFFICES ASSUME Init PROVE Contract!Init
  OBVIOUS
<1>1. \A o \in Object : Holder(o) = NULL /\ Depth(o) = 0 /\ Queue(o) = <<>>
  BY DEF Init, Holder, Depth, Queue
<1>2. \A e \in Event : WaiterOf(e) = {}
  BY IdleFacts, NullFacts DEF Init, WaiterOf
<1>3. \A e \in Event : Waiter(e) = NULL /\ Saved(e) = 0 /\ ~Signalled(e)
  BY <1>2 DEF Waiter, Saved, Signalled
<1> QED BY <1>1, <1>3 DEF Contract!Init

LEMMA NextAbs == IInv /\ [Next]_vars => [Contract!Next]_Contract!vars
<1> SUFFICES ASSUME IInv, [Next]_vars PROVE AbsUnchanged \/ Contract!Next
  BY AbsStutter
<1>1. ASSUME NEW t \in Thread, Step(t) PROVE AbsUnchanged \/ Contract!Next
  BY <1>1, LoadSyncAbs, AllocateAbs, EnterAgainAbs, ReadOwnerAbs, SwapAbs, CreateSemAbs, CountEntryAbs,
     SwapAgainAbs, SleepAbs, AfterSleepAbs, WakeupAbs, ReleaseAbs, FastFreeAbs, WaitEndsAbs, RegainedAbs DEF Step
<1>2. ASSUME NEW t \in Thread, NEW o \in Object, Begin(t, o) PROVE AbsUnchanged \/ Contract!Next
  BY <1>2, StartAbs, ExitNestedAbs, ExitLastAbs, FastExitAbs, PulseAbs, PulseAllAbs, WaitAbs DEF Begin, Enter
<1>3. CASE UNCHANGED vars
  <2>1. UNCHANGED <<synchronisation, mon, event, thread>>
    BY <1>3 DEF vars
  <2>2. \A o \in Object : Holder(o)' = Holder(o) /\ Depth(o)' = Depth(o) /\ Queue(o)' = Queue(o)
    BY <2>1 DEF Holder, Depth, Queue, At
  <2>3. AbsWaits
    BY <2>1, WaitsSame DEF AbsWaits
  <2> QED BY <2>2, <2>3 DEF AbsUnchanged, AbsWaits
<1> QED BY <1>1, <1>2, <1>3, InterruptAbs, CollectAbs DEF Next

\* The records of monitor.c, with the races for them, implement the monitors of
\* MonitorSpec: one holder at a time, a Wait that gives back what it took, pulses
\* that go to the oldest waiters, each to one.
THEOREM Refinement == Spec => KeepsContract
BY InitAbs, NextAbs, Invariance, PTL DEF Spec, KeepsContract, Contract!Spec
=============================================================================
