------------------------------- MODULE Monitor -------------------------------
(***************************************************************************)
(* The monitors of objects, metadata/monitor.c: lock records and their     *)
(* free list, Enter, TryEnter and Exit with their fast paths, Wait, Pulse  *)
(* and PulseAll.  The collector does not move objects                      *)
(* (HAVE_MOVING_COLLECTOR is off), so a lock word is NULL or a record.     *)
(*                                                                         *)
(* Reads of the owner, compare-and-swaps, the counting of blocked threads  *)
(* and waits are steps of their own.  What only the owner of a record does *)
(* to it is one step with the access by which it gets or gives up the      *)
(* record.  Time is abstracted: a wait that may end ends at any time.      *)
(***************************************************************************)
EXTENDS Naturals, Sequences, FiniteSets, SequencesExt

CONSTANTS
    Thread,
    Object,
    Event,          \* bound: the handles CreateEvent can return
    Record,         \* the MonoThreadsSync there may be
    ArrayOf,        \* bound: the arrays of records there may be, in a sequence
    SEM_MAX,        \* the count CreateSemaphore allows, 0x7fffffff in the code
    Program,        \* what the threads may do, see below
    NULL

Call == {"Enter", "TryEnter", "TryEnter0", "Exit", "FastExit",
         "Wait", "WaitTimeout", "Pulse", "PulseAll"}

\* What the threads of a program call, and bounds: how deep they nest Enter, how
\* often one is aborted or suspended, how often an object is collected.
Programs == [calls : [Thread -> SUBSET Call], nest : Nat \ {0}, interrupts : Nat, collections : Nat]

NumArray == Len(ArrayOf)

\* The arrays of records are disjoint; in the code each is twice as long as the last.
ASSUME MonitorAssumption ==
    /\ IsFiniteSet(Thread)
    /\ ArrayOf \in Seq(SUBSET Record)
    /\ \A k \in 1..NumArray : ArrayOf[k] # {}
    /\ \A i, k \in 1..NumArray : i # k => ArrayOf[i] \cap ArrayOf[k] = {}
    /\ SEM_MAX \in Nat \ {0}
    /\ Program \subseteq Programs
    /\ NULL \notin Thread \cup Object \cup Event \cup Record \cup Nat \cup Call

VARIABLES
    synchronisation,    \* [Object -> Record \cup {NULL}]
    mon,                \* [Record -> MonoThreadsSync]
    monitor_freelist,   \* the records linked by data; their order is left out
    allocated,          \* the number of arrays of monitor_allocated
    event,              \* [Event -> {"closed", "reset", "set"}]
    thread,             \* [Thread -> pc and locals of its call]
    freedFast,          \* ghost: [Record -> BOOLEAN], the fast path freed it last
    program             \* the program; its interrupts and collections still to come

vars == <<synchronisation, mon, monitor_freelist, allocated, event, thread, freedFast, program>>
records == <<synchronisation, monitor_freelist, allocated, program>>

Idle == [pc |-> "idle", call |-> NULL, obj |-> NULL, ms |-> 0, ret |-> NULL,
         event |-> NULL, nest |-> 0, woken |-> FALSE, interrupt |-> NULL]

Init ==
    /\ synchronisation = [o \in Object |-> NULL]
    /\ mon = [m \in Record |-> [owner |-> NULL, nest |-> 0, entry_count |-> 0,
                                entry_sem |-> NULL, wait_list |-> <<>>, data |-> NULL]]
    /\ monitor_freelist = {}
    /\ allocated = 0
    /\ event = [e \in Event |-> "closed"]
    /\ thread = [t \in Thread |-> Idle]
    /\ freedFast = [m \in Record |-> FALSE]
    /\ program \in Program

Mon(t) == synchronisation[thread[t].obj]
At(t, pc) == thread[t].pc = pc
GoTo(t, pc) == thread' = [thread EXCEPT ![t].pc = pc]

-----------------------------------------------------------------------------
\* How mono_monitor_try_enter_internal returns, to the call it is part of.

INFINITE == 2
Timeout(c) == CASE c = "TryEnter0" -> 0
                [] c \in {"TryEnter", "WaitTimeout"} -> 1
                [] OTHER -> INFINITE
Waits(c) == c \in {"Wait", "WaitTimeout"}

\* mono_monitor_enter and mono_monitor_try_enter pass FALSE; the icall of
\* TryEnter and Wait pass TRUE.
AllowInterruption(t) == thread[t].call # "Enter"

\* 1: a Wait has the lock and goes on, any other call is over.
Acquired(t) ==
    thread' = [thread EXCEPT ![t] = IF Waits(@.call) THEN [@ EXCEPT !.pc = "regained"] ELSE Idle]

\* 0
Failed(t) == thread' = [thread EXCEPT ![t] = Idle]

\* -1: mono_monitor_enter gives up.  The other callers go to the interruption
\* checkpoint, which throws, or suspends the thread and lets it try again.
Interrupted(t) ==
    LET th == thread[t]
    IN  thread' = [thread EXCEPT ![t] =
                     IF AllowInterruption(t) /\ th.interrupt = "suspend"
                     THEN [th EXCEPT !.pc = "retry", !.interrupt = NULL, !.ret = NULL,
                                     !.ms = IF Waits(th.call) THEN INFINITE ELSE Timeout(th.call)]
                     ELSE Idle]

-----------------------------------------------------------------------------
\* Records.

Collected(k) == {m \in ArrayOf[k] : mon[m].data = NULL}

\* Mutant: the records of live objects are taken as well.
RecycledLive ==
    IF monitor_freelist = {} /\ allocated > 0 THEN ArrayOf[1] ELSE {}

\* The records mon_new takes from collected objects when the free list is empty:
\* those of the first array that has any.
Recycled ==
    UNION {Collected(k) : k \in {i \in 1..allocated : /\ monitor_freelist = {}
                                                     /\ \A j \in 1..(i - 1) : Collected(j) = {}}}

\* The free list mon_new takes a record of: a new array if nothing can be recycled.
NeedsArray == monitor_freelist = {} /\ Recycled = {}
FreeList == IF NeedsArray THEN ArrayOf[allocated + 1] ELSE monitor_freelist \cup Recycled

\* The events interrupted waiters have left behind are closed and forgotten.
Orphans == UNION {ToSet(mon[m].wait_list) : m \in Recycled}

\* Mutant: they stay in the list.
CleanedNot == mon

Cleaned == [m \in Record |-> IF m \in Recycled THEN [mon[m] EXCEPT !.wait_list = <<>>] ELSE mon[m]]

\* mon_new, and the record of the lock word if that is still NULL; mon_finalize
\* puts the record back if it is not.  All of it with monitor_mutex held.  The
\* owner and nest of a record that no object has are dead and kept at one value.
Allocate(t) ==
    LET o == thread[t].obj IN
    /\ At(t, "allocate")
    /\ NeedsArray => allocated < NumArray
    /\ \E new \in FreeList :
         /\ IF synchronisation[o] = NULL
            THEN /\ mon' = [Cleaned EXCEPT ![new] = [@ EXCEPT !.owner = t, !.nest = 1, !.data = o]]
                 /\ synchronisation' = [synchronisation EXCEPT ![o] = new]
                 /\ monitor_freelist' = FreeList \ {new}
                 /\ Acquired(t)
            ELSE /\ mon' = [Cleaned EXCEPT ![new] = [@ EXCEPT !.entry_sem = NULL, !.entry_count = 0]]
                 /\ monitor_freelist' = FreeList
                 /\ GoTo(t, "owner")
                 /\ UNCHANGED synchronisation
         /\ freedFast' = [freedFast EXCEPT ![new] = FALSE]
    /\ allocated' = IF NeedsArray THEN allocated + 1 ELSE allocated
    /\ event' = [e \in Event |-> IF e \in Orphans THEN "closed" ELSE event[e]]
    /\ UNCHANGED program

\* External: no thread refers to the object, the collector clears its weak link,
\* and a new object takes its place.  This is one step: a finalizer that locks the
\* object after its link was cleared is left out.
Collect(o) ==
    /\ program.collections > 0 /\ synchronisation[o] # NULL
    /\ \A t \in Thread : thread[t].obj # o
    /\ mon' = [mon EXCEPT ![synchronisation[o]] = [@ EXCEPT !.data = NULL, !.owner = NULL, !.nest = 0]]
    /\ synchronisation' = [synchronisation EXCEPT ![o] = NULL]
    /\ program' = [program EXCEPT !.collections = @ - 1]
    /\ UNCHANGED <<monitor_freelist, allocated, event, thread, freedFast>>

-----------------------------------------------------------------------------
\* Enter and TryEnter.  The fast path the JIT emits takes the same steps as the
\* function up to the first compare-and-swap, and calls it if that fails.

Owns(t, o) == synchronisation[o] # NULL /\ mon[synchronisation[o]].owner = t

Start(t, c, o) ==
    /\ At(t, "idle") /\ c \in program.calls[t]
    /\ Owns(t, o) => mon[synchronisation[o]].nest < program.nest
    /\ thread' = [thread EXCEPT ![t] =
                    [Idle EXCEPT !.pc = "retry", !.call = c, !.obj = o, !.ms = Timeout(c)]]
    /\ UNCHANGED <<records, mon, event, freedFast>>

Enter(t, o) == \E c \in {"Enter", "TryEnter", "TryEnter0"} : Start(t, c, o)

LoadSync(t) ==
    /\ At(t, "retry")
    /\ GoTo(t, IF Mon(t) = NULL THEN "allocate" ELSE "owner")
    /\ UNCHANGED <<records, mon, event, freedFast>>

\* The thread finds itself to be the owner.
EnterAgain(t) ==
    /\ At(t, "owner") /\ mon[Mon(t)].owner = t
    /\ mon' = [mon EXCEPT ![Mon(t)].nest = @ + 1]
    /\ Acquired(t)
    /\ UNCHANGED <<records, event, freedFast>>

\* The owner is read, at retry and at retry_contended.
ReadOwner(t) ==
    /\ LET owner == mon[Mon(t)].owner
       IN  \/ At(t, "owner") /\ owner = NULL /\ GoTo(t, "swap")
           \/ At(t, "owner") /\ owner \notin {t, NULL} /\ thread[t].ms # 0 /\ GoTo(t, "contended")
           \/ At(t, "owner") /\ owner \notin {t, NULL} /\ thread[t].ms = 0 /\ Failed(t)
           \/ At(t, "contended") /\ GoTo(t, IF owner = NULL THEN "swap_contended" ELSE "semaphore")
    /\ UNCHANGED <<records, mon, event, freedFast>>

\* The compare-and-swap of the owner that follows.
Swap(t) ==
    /\ At(t, "swap") \/ At(t, "swap_contended")
    /\ \/ /\ mon[Mon(t)].owner = NULL
          /\ mon' = [mon EXCEPT ![Mon(t)].owner = t]
          /\ Acquired(t)
       \/ /\ mon[Mon(t)].owner # NULL
          /\ GoTo(t, IF At(t, "swap") THEN "retry" ELSE "semaphore")
          /\ UNCHANGED mon
    /\ UNCHANGED <<records, event, freedFast>>

\* The semaphore is created; if another thread was first, its semaphore stays.
CreateSem(t) ==
    /\ At(t, "semaphore")
    /\ mon' = [mon EXCEPT ![Mon(t)].entry_sem = IF @ = NULL THEN 0 ELSE @]
    /\ GoTo(t, "count")
    /\ UNCHANGED <<records, event, freedFast>>

CountEntry(t) ==
    /\ At(t, "count")
    /\ mon' = [mon EXCEPT ![Mon(t)].entry_count = @ + 1]
    /\ GoTo(t, "again")
    /\ UNCHANGED <<records, event, freedFast>>

\* Mutant: the thread goes to sleep without another look at the owner.
SwapAgainNot(t) ==
    /\ At(t, "again")
    /\ GoTo(t, "asleep")
    /\ UNCHANGED <<records, mon, event, freedFast>>

\* Mutant: the thread that gets the lock stays counted.
SwapAgainLeaks(t) ==
    /\ At(t, "again")
    /\ \/ /\ mon[Mon(t)].owner = NULL
          /\ mon' = [mon EXCEPT ![Mon(t)].owner = t]
          /\ Acquired(t)
       \/ /\ mon[Mon(t)].owner # NULL
          /\ GoTo(t, "asleep")
          /\ UNCHANGED mon
    /\ UNCHANGED <<records, event, freedFast>>

\* The double check, after the thread has counted itself.
SwapAgain(t) ==
    /\ At(t, "again")
    /\ \/ /\ mon[Mon(t)].owner = NULL
          /\ mon' = [mon EXCEPT ![Mon(t)].owner = t, ![Mon(t)].entry_count = @ - 1]
          /\ Acquired(t)
       \/ /\ mon[Mon(t)].owner # NULL
          /\ GoTo(t, "asleep")
          /\ UNCHANGED mon
    /\ UNCHANGED <<records, event, freedFast>>

Wakes(t, ret) == thread' = [thread EXCEPT ![t].pc = "awake", ![t].ret = ret]

\* Mutant: the special timeout logic is removed.
SleepForever(t) ==
    /\ At(t, "asleep")
    /\ \/ /\ mon[Mon(t)].entry_sem > 0
          /\ mon' = [mon EXCEPT ![Mon(t)].entry_sem = @ - 1]
          /\ Wakes(t, "WAIT_OBJECT_0")
       \/ /\ thread[t].interrupt \in {"abort", "suspend"}
          /\ Wakes(t, "WAIT_IO_COMPLETION")
          /\ UNCHANGED mon
    /\ UNCHANGED <<records, event, freedFast>>

\* WaitForSingleObjectEx on the semaphore, for at most 100 ms.
Sleep(t) ==
    /\ At(t, "asleep")
    /\ \/ /\ mon[Mon(t)].entry_sem > 0
          /\ mon' = [mon EXCEPT ![Mon(t)].entry_sem = @ - 1]
          /\ Wakes(t, "WAIT_OBJECT_0")
       \/ /\ mon[Mon(t)].entry_sem = 0
          /\ Wakes(t, "WAIT_TIMEOUT")
          /\ UNCHANGED mon
       \/ /\ thread[t].interrupt \in {"abort", "suspend"}
          /\ Wakes(t, "WAIT_IO_COMPLETION")
          /\ UNCHANGED mon
    /\ UNCHANGED <<records, event, freedFast>>

\* Back at retry_contended, with the time that is left.  The APC was delivered.
Retry(t, left) ==
    thread' = [thread EXCEPT ![t].pc = "contended", ![t].ms = left, ![t].ret = NULL,
                 ![t].interrupt = IF thread[t].ret = "WAIT_IO_COMPLETION" THEN "served" ELSE @]

\* What follows the wait: the thread uncounts itself and looks at why it woke and
\* at the time it has left.
AfterSleep(t) ==
    LET th == thread[t]
        io == th.ret = "WAIT_IO_COMPLETION"
        goes_on == th.ret = "WAIT_TIMEOUT" \/ (io /\ ~AllowInterruption(t))
    IN  /\ At(t, "awake")
        /\ mon' = [mon EXCEPT ![Mon(t)].entry_count = @ - 1]
        /\ \E left \in IF th.ms = INFINITE THEN {INFINITE} ELSE 0..th.ms :
             IF th.ret = "WAIT_OBJECT_0" THEN Retry(t, left)
             ELSE IF left = INFINITE /\ goes_on /\ io /\ th.interrupt = "suspend" THEN Interrupted(t)
             ELSE IF left # 0 /\ goes_on THEN Retry(t, left)
             ELSE IF io THEN Interrupted(t) ELSE Failed(t)
        /\ UNCHANGED <<records, event, freedFast>>

\* External: another thread aborts or suspends this one, which is in unmanaged code.
Interrupt(t) ==
    /\ program.interrupts > 0 /\ ~At(t, "idle") /\ thread[t].interrupt = NULL
    /\ \E kind \in {"abort", "suspend"} : thread' = [thread EXCEPT ![t].interrupt = kind]
    /\ program' = [program EXCEPT !.interrupts = @ - 1]
    /\ UNCHANGED <<synchronisation, monitor_freelist, allocated, mon, event, freedFast>>

-----------------------------------------------------------------------------
\* Exit.  One that does not own the object returns at once.

ExitNested(t, o) ==
    /\ At(t, "idle") /\ program.calls[t] \cap {"Exit", "FastExit"} # {}
    /\ Owns(t, o) /\ mon[synchronisation[o]].nest > 1
    /\ mon' = [mon EXCEPT ![synchronisation[o]].nest = @ - 1]
    /\ UNCHANGED <<records, event, thread, freedFast>>

\* mono_monitor_exit gives up the lock...
ExitLast(t, o) ==
    /\ At(t, "idle") /\ "Exit" \in program.calls[t]
    /\ Owns(t, o) /\ mon[synchronisation[o]].nest = 1
    /\ mon' = [mon EXCEPT ![synchronisation[o]].owner = NULL]
    /\ freedFast' = [freedFast EXCEPT ![synchronisation[o]] = FALSE]
    /\ thread' = [thread EXCEPT ![t] = [Idle EXCEPT !.pc = "wakeup", !.call = "Exit", !.obj = o]]
    /\ UNCHANGED <<records, event>>

\* How mono_monitor_exit returns: a Wait goes on to wait for its event.
Exited(t) ==
    thread' = [thread EXCEPT ![t] = IF Waits(@.call) THEN [@ EXCEPT !.pc = "waiting"] ELSE Idle]

\* ...then looks whether a thread has counted itself...
Wakeup(t) ==
    /\ At(t, "wakeup")
    /\ IF mon[Mon(t)].entry_count > 0 THEN GoTo(t, "release") ELSE Exited(t)
    /\ UNCHANGED <<records, mon, event, freedFast>>

\* ...and wakes one.  The count of a semaphore that is full stays.
ReleaseSemaphore(t) ==
    /\ At(t, "release")
    /\ mon' = [mon EXCEPT ![Mon(t)].entry_sem = IF @ < SEM_MAX THEN @ + 1 ELSE @]
    /\ Exited(t)
    /\ UNCHANGED <<records, event, freedFast>>

\* The fast path finds that nobody is counted...
FastExit(t, o) ==
    /\ At(t, "idle") /\ "FastExit" \in program.calls[t]
    /\ Owns(t, o) /\ mon[synchronisation[o]].nest = 1
    /\ mon[synchronisation[o]].entry_count = 0
    /\ thread' = [thread EXCEPT ![t] = [Idle EXCEPT !.pc = "fast_exit", !.call = "FastExit", !.obj = o]]
    /\ UNCHANGED <<records, mon, event, freedFast>>

\* ...and gives up the lock by a store.
FastFree(t) ==
    /\ At(t, "fast_exit")
    /\ mon' = [mon EXCEPT ![Mon(t)].owner = NULL]
    /\ freedFast' = [freedFast EXCEPT ![Mon(t)] = TRUE]
    /\ thread' = [thread EXCEPT ![t] = Idle]
    /\ UNCHANGED <<records, event>>

-----------------------------------------------------------------------------
\* Pulse, PulseAll and Wait.  They raise an exception if the caller does not own
\* the object.

\* Mutant: the event is signalled and stays in the list.
PulseKeeps(t, o) ==
    LET m == synchronisation[o]
    IN  /\ At(t, "idle") /\ "Pulse" \in program.calls[t] /\ Owns(t, o)
        /\ mon[m].wait_list # <<>>
        /\ event' = [event EXCEPT ![Head(mon[m].wait_list)] = "set"]
        /\ UNCHANGED <<records, mon, thread, freedFast>>

Pulse(t, o) ==
    LET m == synchronisation[o]
    IN  /\ At(t, "idle") /\ "Pulse" \in program.calls[t] /\ Owns(t, o)
        /\ mon[m].wait_list # <<>>
        /\ event' = [event EXCEPT ![Head(mon[m].wait_list)] = "set"]
        /\ mon' = [mon EXCEPT ![m].wait_list = Tail(@)]
        /\ UNCHANGED <<records, thread, freedFast>>

PulseAll(t, o) ==
    LET m == synchronisation[o]
    IN  /\ At(t, "idle") /\ "PulseAll" \in program.calls[t] /\ Owns(t, o)
        /\ event' = [e \in Event |-> IF e \in ToSet(mon[m].wait_list) THEN "set" ELSE event[e]]
        /\ mon' = [mon EXCEPT ![m].wait_list = <<>>]
        /\ UNCHANGED <<records, thread, freedFast>>

\* The event is queued, the nest count saved, and mono_monitor_exit called.  With
\* no handle left the caller gets an exception and keeps the lock.
Wait(t, o) ==
    LET m == synchronisation[o]
        e == CHOOSE f \in Event : event[f] = "closed"
    IN  \E c \in {"Wait", "WaitTimeout"} \cap program.calls[t] :
          /\ At(t, "idle") /\ Owns(t, o)
          /\ \E f \in Event : event[f] = "closed"
          /\ event' = [event EXCEPT ![e] = "reset"]
          /\ mon' = [mon EXCEPT ![m].wait_list = Append(@, e), ![m].nest = 1, ![m].owner = NULL]
          /\ freedFast' = [freedFast EXCEPT ![m] = FALSE]
          /\ thread' = [thread EXCEPT ![t] =
                          [Idle EXCEPT !.pc = "wakeup", !.call = c, !.obj = o,
                                       !.ms = Timeout(c), !.event = e, !.nest = mon[m].nest]]
          /\ UNCHANGED records

\* The wait for the event ends: by a pulse, by its timeout, or because the thread
\* is interrupted; that one returns without the lock, its event still queued.
WaitEnds(t) ==
    LET th == thread[t]
        Regain(woken) == thread' = [thread EXCEPT ![t].pc = "retry", ![t].ms = INFINITE,
                                                  ![t].woken = woken]
    IN  /\ At(t, "waiting")
        /\ \/ /\ th.interrupt = NULL /\ event[th.event] = "set"
              /\ event' = [event EXCEPT ![th.event] = "reset"]
              /\ Regain(TRUE)
           \/ /\ th.interrupt = NULL /\ event[th.event] = "reset" /\ th.ms # INFINITE
              /\ Regain(FALSE)
              /\ UNCHANGED event
           \/ /\ th.interrupt # NULL
              /\ thread' = [thread EXCEPT ![t] = Idle]
              /\ UNCHANGED event
        /\ UNCHANGED <<records, mon, freedFast>>

\* g_slist_remove
Without(s, e) == IF e \in ToSet(s) THEN RemoveAt(s, CHOOSE i \in DOMAIN s : s[i] = e) ELSE s

\* Mutant: the saved nest count is added to the one of the new entry.
RegainedAdds(t) ==
    LET th == thread[t]
        success == th.woken \/ event[th.event] = "set"
    IN  /\ At(t, "regained")
        /\ mon' = [mon EXCEPT ![Mon(t)].nest = @ + th.nest,
                     ![Mon(t)].wait_list =
                        IF success THEN @ ELSE Without(@, th.event)]
        /\ event' = [event EXCEPT ![th.event] = "closed"]
        /\ thread' = [thread EXCEPT ![t] = Idle]
        /\ UNCHANGED <<records, freedFast>>

\* The lock is regained: the nest count is restored, the event polled once more
\* after a timeout, taken from the list if nobody pulsed it, and closed.
Regained(t) ==
    LET th == thread[t]
        success == th.woken \/ event[th.event] = "set"
    IN  /\ At(t, "regained")
        /\ mon' = [mon EXCEPT ![Mon(t)].nest = th.nest,
                     ![Mon(t)].wait_list =
                        IF success THEN @ ELSE Without(@, th.event)]
        /\ event' = [event EXCEPT ![th.event] = "closed"]
        /\ thread' = [thread EXCEPT ![t] = Idle]
        /\ UNCHANGED <<records, freedFast>>

-----------------------------------------------------------------------------
\* What a thread does once it is in a call.
Step(t) ==
    \/ LoadSync(t) \/ Allocate(t) \/ EnterAgain(t) \/ ReadOwner(t) \/ Swap(t)
    \/ CreateSem(t) \/ CountEntry(t) \/ SwapAgain(t) \/ Sleep(t) \/ AfterSleep(t)
    \/ Wakeup(t) \/ ReleaseSemaphore(t) \/ FastFree(t) \/ WaitEnds(t) \/ Regained(t)

\* What its program makes it call.
Begin(t, o) ==
    \/ Enter(t, o) \/ ExitNested(t, o) \/ ExitLast(t, o) \/ FastExit(t, o)
    \/ Pulse(t, o) \/ PulseAll(t, o) \/ Wait(t, o)

Next ==
    \/ \E t \in Thread : Step(t) \/ Interrupt(t)
    \/ \E t \in Thread, o \in Object : Begin(t, o)
    \/ \E o \in Object : Collect(o)

\* A thread in a call is scheduled, and the sleep of 100 ms ends.  Nothing makes
\* a program call, the collector run, or a thread be interrupted.
Spec == Init /\ [][Next]_vars /\ \A t \in Thread : WF_vars(Step(t))

-----------------------------------------------------------------------------
\* Properties.

Pc == {"idle", "retry", "allocate", "owner", "swap", "contended", "swap_contended", "semaphore",
       "count", "again", "asleep", "awake", "wakeup", "release", "fast_exit", "waiting",
       "regained"}

MonoThreadsSync ==
    [owner : Thread \cup {NULL}, nest : 0..program.nest, entry_count : 0..Cardinality(Thread),
     entry_sem : 0..SEM_MAX \cup {NULL}, wait_list : Seq(Event), data : Object \cup {NULL}]
ThreadState ==
    [pc : Pc, call : Call \cup {NULL}, obj : Object \cup {NULL}, ms : 0..INFINITE,
     ret : {"WAIT_OBJECT_0", "WAIT_TIMEOUT", "WAIT_IO_COMPLETION", NULL},
     event : Event \cup {NULL}, nest : 0..program.nest, woken : BOOLEAN,
     interrupt : {"abort", "suspend", "served", NULL}]

\* Every variable has values of its type.
TypeOK ==
    /\ synchronisation \in [Object -> Record \cup {NULL}]
    /\ mon \in [Record -> MonoThreadsSync]
    /\ monitor_freelist \subseteq Record
    /\ allocated \in 0..NumArray
    /\ event \in [Event -> {"closed", "reset", "set"}]
    /\ thread \in [Thread -> ThreadState]
    /\ freedFast \in [Record -> BOOLEAN]
    /\ program \in Programs

Installed == {m \in Record : \E o \in Object : synchronisation[o] = m}

\* The assertions of monitor.c: whoever wins the owner finds the nest count at 1,
\* a record that goes to the free list has no waiter, and a semaphore that is
\* released or waited on was created.
AssertionsHold ==
    /\ \A m \in Installed : mon[m].owner = NULL => mon[m].nest = 1
    /\ \A m \in monitor_freelist : m \notin Installed /\ mon[m].wait_list = <<>>
    /\ \A m \in Installed : mon[m].entry_count > 0 => mon[m].entry_sem # NULL
    /\ \A t \in Thread : At(t, "release") => mon[Mon(t)].entry_sem # NULL

\* entry_count is the number of threads that are between its increment and its
\* decrement: the exit that reads it neither misses one nor wakes nobody for ever.
EntryCounted ==
    \A o \in Object :
      synchronisation[o] # NULL =>
        mon[synchronisation[o]].entry_count =
          Cardinality({t \in Thread : thread[t].obj = o /\ thread[t].pc \in {"again", "asleep", "awake"}})

\* A thread does not sleep on a free lock: the semaphore is up, or a thread is
\* about to raise it or to try for the lock itself.  The one exception is a lock
\* that the fast path of Exit freed, which does not look at entry_count again.
NoStall ==
    \A t \in Thread :
      (At(t, "asleep") /\ mon[Mon(t)].owner = NULL /\ ~freedFast[Mon(t)]) =>
        \/ mon[Mon(t)].entry_sem > 0
        \/ \E u \in Thread \ {t} :
             /\ thread[u].obj = thread[t].obj
             /\ thread[u].pc \notin {"idle", "asleep", "waiting", "allocate"}

\* A thread that waits has an open event of its own, which is in the list until it
\* is pulsed and not after that: no pulse is spent on it twice, and none is lost.
WaitersListed ==
    \A t \in Thread :
      LET e == thread[t].event
          n == Cardinality({i \in DOMAIN mon[Mon(t)].wait_list : mon[Mon(t)].wait_list[i] = e})
      IN  e # NULL =>
            /\ event[e] # "closed"
            /\ n = IF event[e] = "set" \/ thread[t].woken THEN 0 ELSE 1
            /\ \A u \in Thread \ {t} : thread[u].event # e

\* The monitor of an object as MonitorSpec describes it: while a waiter that has
\* regained the lock restores its state, it does not count as the holder yet.
Holder(o) ==
    LET w == mon[synchronisation[o]].owner
    IN  IF synchronisation[o] = NULL THEN NULL
        ELSE IF w # NULL /\ At(w, "regained") /\ thread[w].obj = o THEN NULL ELSE w
Depth(o) == IF Holder(o) = NULL THEN 0 ELSE mon[synchronisation[o]].nest
Queue(o) == IF synchronisation[o] = NULL THEN <<>> ELSE mon[synchronisation[o]].wait_list

\* The waiters, by their events.
WaiterOf(e) == {t \in Thread : thread[t].event = e}
Waiter(e) == IF WaiterOf(e) = {} THEN NULL ELSE CHOOSE t \in WaiterOf(e) : TRUE
Saved(e) == IF WaiterOf(e) = {} THEN 0 ELSE thread[Waiter(e)].nest
Signalled(e) == \E t \in WaiterOf(e) : event[e] = "set" \/ thread[t].woken

Contract == INSTANCE MonitorSpec WITH
    Ticket <- Event,
    holder <- [o \in Object |-> Holder(o)],
    depth  <- [o \in Object |-> Depth(o)],
    queue  <- [o \in Object |-> Queue(o)],
    pulsed <- {e \in Event : Signalled(e)},
    waiter <- [e \in Event |-> Waiter(e)],
    saved  <- [e \in Event |-> Saved(e)]

\* The records, the races for them, the nest counts and the events implement a
\* monitor: one holder at a time, Wait gives back what it took, pulses in order.
KeepsContract == Contract!Spec

FreeObjects == {o \in Object : synchronisation[o] = NULL \/ mon[synchronisation[o]].owner = NULL}

\* A free lock for which a thread has called Enter does not stay free while the
\* thread stays in the call: the sleep of 100 ms makes good for a lost wakeup.
FreeLockTaken ==
    \A t \in Thread :
      (thread[t].call = "Enter" /\ thread[t].obj \in FreeObjects) ~>
        (thread[t].call # "Enter" \/ thread[t].obj \notin FreeObjects)
=============================================================================
