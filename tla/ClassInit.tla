----------------------------- MODULE ClassInit ------------------------------
(***************************************************************************)
(* mono_runtime_class_init_full of metadata/object.c: threads that need a  *)
(* class initialized agree on the one that runs its static constructor,    *)
(* and the others wait, unless waiting would close a cycle.                *)
(*                                                                         *)
(* A thread is a stack of frames, one for each call that has not returned: *)
(* a static constructor needs other classes.  Reads and writes that no     *)
(* lock orders are steps of their own.  type_initialization_section is     *)
(* held for one step, or through the walk along blocked_thread_hash.       *)
(***************************************************************************)
EXTENDS Naturals, Sequences, FiniteSets

CONSTANTS
    Thread,
    Class,       \* the vtables of one image in one domain
    Cctor,       \* classes with a static constructor
    Needs,       \* [Cctor -> SUBSET Class], what the constructor uses
    Throws,      \* constructors that throw by themselves
    Gone,        \* classes of a domain that was unloaded
    Module,      \* the class <Module> if it has a static constructor, or NULL
    TypeInitializationException,  \* the class of that name, or NULL
    Mortal,      \* threads that may exit inside a static constructor
    MaxCalls,    \* bound: uses of classes a thread makes by itself
    NULL

ASSUME ClassAssumption ==
    /\ IsFiniteSet(Thread) /\ NULL \notin Thread \cup Class
    /\ Cctor \subseteq Class /\ Gone \subseteq Class
    /\ Throws \subseteq Cctor /\ Mortal \subseteq Thread
    /\ Needs \in [Cctor -> SUBSET Class]
    /\ Module \in Cctor \cup {NULL}
    /\ TypeInitializationException \in Class \cup {NULL}
    /\ MaxCalls \in Nat

VARIABLES
    initialized,           \* [Class -> BOOLEAN], vtable->initialized
    init_failed,           \* [Class -> BOOLEAN], vtable->init_failed
    type_init_exception,   \* the classes in domain->type_init_exception_hash
    lock,                  \* [Class -> TypeInitializationLock or NULL], type_initialization_hash
    blocked,               \* [Thread -> Class or NULL], blocked_thread_hash
    section,               \* the owner of type_initialization_section, or NULL
    checked_module_cctor,  \* of the image
    frames,                \* [Thread -> Seq(Frame)], the innermost call first
    calls                  \* [Thread -> 0..MaxCalls], calls the thread may still make

lockVars == <<lock, blocked, section>>
vtableVars == <<initialized, init_failed, type_init_exception>>
vars == <<vtableVars, lockVars, checked_module_cctor, frames, calls>>

Pcs == {"check", "module", "mark", "module_done", "enter", "walk", "wait", "run",
        "fail", "store", "done", "leave", "finish", "raise"}
Frame == [class : Class,
          pc : Pcs,
          todo : SUBSET Class,            \* what the constructor still uses
          cursor : Thread \cup {NULL},    \* the walk: blocked
          exc : BOOLEAN]                  \* the call inside raised an exception
Lock == [initializing_tid : Thread, waiting_count : 1..Cardinality(Thread),
         done : BOOLEAN, held : BOOLEAN]

ASSUME NullAssumption == NULL \notin Lock

Init ==
    /\ initialized = [c \in Class |-> FALSE]
    /\ init_failed = [c \in Class |-> FALSE]
    /\ type_init_exception = {}
    /\ lock = [c \in Class |-> NULL]
    /\ blocked = [t \in Thread |-> NULL]
    /\ section = NULL
    /\ checked_module_cctor = FALSE
    /\ frames = [t \in Thread |-> <<>>]
    /\ calls = [t \in Thread |-> MaxCalls]

-----------------------------------------------------------------------------
\* Frames.

NewFrame(c) == [class |-> c, pc |-> "check", todo |-> {}, cursor |-> NULL, exc |-> FALSE]
Busy(t) == frames[t] # <<>>
At(t, pc) == Busy(t) /\ Head(frames[t]).pc = pc
Cur(t) == Head(frames[t]).class

Goto(t, pc) == frames' = [frames EXCEPT ![t][1].pc = pc]
Call(t, c, rest) == frames' = [frames EXCEPT ![t] = <<NewFrame(c)>> \o rest]

\* Return to the caller, with an exception or without.
Return(t, exc) ==
    LET callers == Tail(frames[t])
    IN  frames' = [frames EXCEPT ![t] =
                     IF callers = <<>> THEN <<>>
                     ELSE <<[Head(callers) EXCEPT !.exc = exc]>> \o Tail(callers)]

-----------------------------------------------------------------------------
\* Before the lock.

\* Jitted code uses a class.
Use(t, c) ==
    /\ ~Busy(t) /\ calls[t] > 0
    /\ calls' = [calls EXCEPT ![t] = @ - 1]
    /\ Call(t, c, <<>>)
    /\ UNCHANGED <<vtableVars, lockVars, checked_module_cctor>>

\* The read of vtable->initialized without a lock.
Check(t) ==
    /\ At(t, "check")
    /\ IF initialized[Cur(t)] THEN Return(t, FALSE) ELSE Goto(t, "module")
    /\ UNCHANGED <<vtableVars, lockVars, checked_module_cctor, calls>>

ModuleCheck(t) ==
    /\ At(t, "module")
    /\ Goto(t, IF checked_module_cctor THEN "enter" ELSE "mark")
    /\ UNCHANGED <<vtableVars, lockVars, checked_module_cctor, calls>>

\* mono_image_check_for_module_cctor, and the constructor of <Module> before
\* that of the class.
ModuleMark(t) ==
    /\ At(t, "mark")
    /\ checked_module_cctor' = TRUE
    /\ IF Module = NULL
       THEN Goto(t, "enter")
       ELSE Call(t, Module,
                 <<[Head(frames[t]) EXCEPT !.pc = "module_done"]>> \o Tail(frames[t]))
    /\ UNCHANGED <<vtableVars, lockVars, calls>>

ModuleDone(t) ==
    /\ At(t, "module_done")
    /\ IF Head(frames[t]).exc THEN Return(t, TRUE) ELSE Goto(t, "enter")
    /\ UNCHANGED <<vtableVars, lockVars, checked_module_cctor, calls>>

NoCctor(t) ==
    /\ At(t, "enter") /\ Cur(t) \notin Cctor
    /\ initialized' = [initialized EXCEPT ![Cur(t)] = TRUE]
    /\ Return(t, FALSE)
    /\ UNCHANGED <<init_failed, type_init_exception, lockVars, checked_module_cctor, calls>>

-----------------------------------------------------------------------------
\* Under type_initialization_section.

Entering(t) == At(t, "enter") /\ Cur(t) \in Cctor /\ section = NULL

\* The double check.
DoubleCheck(t) ==
    /\ Entering(t) /\ (initialized[Cur(t)] \/ init_failed[Cur(t)])
    /\ IF initialized[Cur(t)] THEN Return(t, FALSE) ELSE Goto(t, "raise")
    /\ UNCHANGED <<vtableVars, lockVars, checked_module_cctor, calls>>

\* Is this thread the first?
First(t) ==
    LET c == Cur(t)
    IN  Entering(t) /\ ~initialized[c] /\ ~init_failed[c] /\ lock[c] = NULL

\* mono_domain_set refuses the domain.
EnterUnloaded(t) ==
    /\ First(t) /\ Cur(t) \in Gone
    /\ initialized' = [initialized EXCEPT ![Cur(t)] = TRUE]
    /\ Return(t, TRUE)
    /\ UNCHANGED <<init_failed, type_init_exception, lockVars, checked_module_cctor, calls>>

\* Mutant: the initializing thread does not count itself.
EnterFirstUncounted(t) ==
    /\ First(t) /\ Cur(t) \notin Gone
    /\ lock' = [lock EXCEPT ![Cur(t)] =
                  [initializing_tid |-> t, waiting_count |-> 0, done |-> FALSE, held |-> TRUE]]
    /\ frames' = [frames EXCEPT ![t][1].pc = "run", ![t][1].todo = Needs[Cur(t)]]
    /\ UNCHANGED <<vtableVars, blocked, section, checked_module_cctor, calls>>

\* This thread will get to do the initialization.
EnterFirst(t) ==
    /\ First(t) /\ Cur(t) \notin Gone
    /\ lock' = [lock EXCEPT ![Cur(t)] =
                  [initializing_tid |-> t, waiting_count |-> 1, done |-> FALSE, held |-> TRUE]]
    /\ frames' = [frames EXCEPT ![t][1].pc = "run", ![t][1].todo = Needs[Cur(t)]]
    /\ UNCHANGED <<vtableVars, blocked, section, checked_module_cctor, calls>>

\* Another thread, or a caller further up, got there first.
EnterOther(t) ==
    LET c == Cur(t)
        l == lock[c]
    IN  /\ Entering(t) /\ ~initialized[c] /\ ~init_failed[c] /\ l # NULL
        /\ IF l.initializing_tid = t \/ l.done
           THEN Return(t, FALSE) /\ UNCHANGED section
           ELSE /\ section' = t
                /\ frames' = [frames EXCEPT ![t][1].pc = "walk",
                                            ![t][1].cursor = l.initializing_tid]
        /\ UNCHANGED <<vtableVars, lock, blocked, checked_module_cctor, calls>>

\* Wait for the thread that has the lock of the class.
Register(t) ==
    /\ lock' = [lock EXCEPT ![Cur(t)].waiting_count = @ + 1]
    /\ blocked' = [blocked EXCEPT ![t] = Cur(t)]
    /\ section' = NULL
    /\ frames' = [frames EXCEPT ![t][1].pc = "wait", ![t][1].cursor = NULL]

\* Mutant: a wait for this thread ends the walk even if it is already over.
WalkNoDone(t) ==
    LET pending == blocked[Head(frames[t]).cursor]
    IN  /\ At(t, "walk")
        /\ IF pending = NULL
           THEN Register(t)
           ELSE /\ UNCHANGED <<lock, blocked>>
                /\ IF lock[pending].initializing_tid = t
                   THEN section' = NULL /\ Return(t, FALSE)
                   ELSE /\ frames' = [frames EXCEPT ![t][1].cursor = lock[pending].initializing_tid]
                        /\ UNCHANGED section
        /\ UNCHANGED <<vtableVars, checked_module_cctor, calls>>

\* Mutant: the thread waits without looking at blocked_thread_hash.
WalkNever(t) ==
    /\ At(t, "walk")
    /\ Register(t)
    /\ UNCHANGED <<vtableVars, checked_module_cctor, calls>>

\* One turn of the loop that follows the threads that wait for each other.
Walk(t) ==
    LET pending == blocked[Head(frames[t]).cursor]
    IN  /\ At(t, "walk")
        /\ IF pending = NULL \/ (lock[pending].initializing_tid = t /\ lock[pending].done)
           THEN Register(t)
           ELSE /\ UNCHANGED <<lock, blocked>>
                /\ IF lock[pending].initializing_tid = t
                   THEN section' = NULL /\ Return(t, FALSE)
                   ELSE /\ frames' = [frames EXCEPT ![t][1].cursor = lock[pending].initializing_tid]
                        /\ UNCHANGED section
        /\ UNCHANGED <<vtableVars, checked_module_cctor, calls>>

\* EnterCriticalSection and LeaveCriticalSection of the lock.
Wait(t) ==
    /\ At(t, "wait") /\ ~lock[Cur(t)].held
    /\ Goto(t, "finish")
    /\ UNCHANGED <<vtableVars, lockVars, checked_module_cctor, calls>>

-----------------------------------------------------------------------------
\* The static constructor, in mono_runtime_invoke.

CctorUses(t) ==
    /\ At(t, "run") /\ ~Head(frames[t]).exc
    /\ \E c \in Head(frames[t]).todo :
         Call(t, c, <<[Head(frames[t]) EXCEPT !.todo = @ \ {c}]>> \o Tail(frames[t]))
    /\ UNCHANGED <<vtableVars, lockVars, checked_module_cctor, calls>>

\* Class initialization treats its own exception class as initialized
\* whatever happens, to avoid infinite loops.
AfterThrow(c) == IF c = TypeInitializationException THEN "done" ELSE "fail"

CctorCatches(t) ==
    /\ At(t, "run") /\ Head(frames[t]).exc
    /\ frames' = [frames EXCEPT ![t][1].exc = FALSE]
    /\ UNCHANGED <<vtableVars, lockVars, checked_module_cctor, calls>>

CctorRethrows(t) ==
    /\ At(t, "run") /\ Head(frames[t]).exc
    /\ frames' = [frames EXCEPT ![t][1].exc = FALSE, ![t][1].todo = {},
                                ![t][1].pc = AfterThrow(Cur(t))]
    /\ UNCHANGED <<vtableVars, lockVars, checked_module_cctor, calls>>

CctorEnds(t) ==
    /\ At(t, "run") /\ ~Head(frames[t]).exc /\ Head(frames[t]).todo = {}
    /\ Goto(t, IF Cur(t) \in Throws THEN AfterThrow(Cur(t)) ELSE "done")
    /\ UNCHANGED <<vtableVars, lockVars, checked_module_cctor, calls>>

\* Mutant: the waiters are let go before the exception is stored.
FailLeaves(t) ==
    /\ At(t, "fail")
    /\ init_failed' = [init_failed EXCEPT ![Cur(t)] = TRUE]
    /\ lock' = [lock EXCEPT ![Cur(t)].done = TRUE, ![Cur(t)].held = FALSE]
    /\ Goto(t, "store")
    /\ UNCHANGED <<initialized, type_init_exception, blocked, section, checked_module_cctor, calls>>

Fail(t) ==
    /\ At(t, "fail")
    /\ init_failed' = [init_failed EXCEPT ![Cur(t)] = TRUE]
    /\ Goto(t, "store")
    /\ UNCHANGED <<initialized, type_init_exception, lockVars, checked_module_cctor, calls>>

Store(t) ==
    /\ At(t, "store")
    /\ type_init_exception' = type_init_exception \cup {Cur(t)}
    /\ Goto(t, "done")
    /\ UNCHANGED <<initialized, init_failed, lockVars, checked_module_cctor, calls>>

Done(t) ==
    /\ At(t, "done")
    /\ lock' = [lock EXCEPT ![Cur(t)].done = TRUE]
    /\ Goto(t, "leave")
    /\ UNCHANGED <<vtableVars, blocked, section, checked_module_cctor, calls>>

Leave(t) ==
    /\ At(t, "leave")
    /\ lock' = [lock EXCEPT ![Cur(t)].held = FALSE]
    /\ Goto(t, "finish")
    /\ UNCHANGED <<vtableVars, blocked, section, checked_module_cctor, calls>>

-----------------------------------------------------------------------------
\* The end, for the initializing thread and for those that waited.

\* Mutant: the initializing thread frees the lock without regard to the count.
FinishFrees(t) ==
    LET c == Cur(t)
    IN  /\ At(t, "finish") /\ section = NULL
        /\ blocked' = IF lock[c].initializing_tid # t THEN [blocked EXCEPT ![t] = NULL] ELSE blocked
        /\ lock' = [lock EXCEPT ![c] = IF lock[c].waiting_count = 1 \/ lock[c].initializing_tid = t
                                       THEN NULL ELSE [lock[c] EXCEPT !.waiting_count = @ - 1]]
        /\ initialized' = [initialized EXCEPT ![c] = @ \/ ~init_failed[c]]
        /\ IF init_failed[c] THEN Goto(t, "raise") ELSE Return(t, FALSE)
        /\ UNCHANGED <<init_failed, type_init_exception, section, checked_module_cctor, calls>>

Finish(t) ==
    LET c == Cur(t)
    IN  /\ At(t, "finish") /\ section = NULL
        /\ blocked' = IF lock[c].initializing_tid # t THEN [blocked EXCEPT ![t] = NULL] ELSE blocked
        /\ lock' = [lock EXCEPT ![c] = IF lock[c].waiting_count = 1
                                       THEN NULL ELSE [lock[c] EXCEPT !.waiting_count = @ - 1]]
        /\ initialized' = [initialized EXCEPT ![c] = @ \/ ~init_failed[c]]
        /\ IF init_failed[c] THEN Goto(t, "raise") ELSE Return(t, FALSE)
        /\ UNCHANGED <<init_failed, type_init_exception, section, checked_module_cctor, calls>>

\* get_type_init_exception_for_vtable
Raise(t) ==
    /\ At(t, "raise")
    /\ Return(t, TRUE)
    /\ UNCHANGED <<vtableVars, lockVars, checked_module_cctor, calls>>

\* The classes whose constructors end with thread t.
Released(t) == {c \in Class : lock[c] # NULL /\ lock[c].initializing_tid = t /\ ~lock[c].done}

\* Mutant: the classes of a thread that exited can be initialized again.
ExitForgets(t) ==
    /\ t \in Mortal /\ At(t, "run") /\ section = NULL
    /\ lock' = [c \in Class |->
                  IF c \notin Released(t) THEN lock[c]
                  ELSE IF lock[c].waiting_count = 1 THEN NULL
                  ELSE [lock[c] EXCEPT !.done = TRUE, !.held = FALSE, !.waiting_count = @ - 1]]
    /\ frames' = [frames EXCEPT ![t] = <<>>]
    /\ calls' = [calls EXCEPT ![t] = 0]
    /\ UNCHANGED <<vtableVars, blocked, section, checked_module_cctor>>

\* The thread exits inside a constructor: thread_cleanup calls
\* mono_release_type_locks.
Exit(t) ==
    /\ t \in Mortal /\ At(t, "run") /\ section = NULL
    /\ lock' = [c \in Class |->
                  IF c \notin Released(t) THEN lock[c]
                  ELSE IF lock[c].waiting_count = 1 THEN NULL
                  ELSE [lock[c] EXCEPT !.done = TRUE, !.held = FALSE, !.waiting_count = @ - 1]]
    /\ init_failed' = [c \in Class |-> init_failed[c] \/ c \in Released(t)]
    /\ frames' = [frames EXCEPT ![t] = <<>>]
    /\ calls' = [calls EXCEPT ![t] = 0]
    /\ UNCHANGED <<initialized, type_init_exception, blocked, section, checked_module_cctor>>

-----------------------------------------------------------------------------
\* The steps of a thread inside a call.
Step(t) ==
    \/ Check(t) \/ ModuleCheck(t) \/ ModuleMark(t) \/ ModuleDone(t) \/ NoCctor(t)
    \/ DoubleCheck(t) \/ EnterUnloaded(t) \/ EnterFirst(t) \/ EnterOther(t)
    \/ Walk(t) \/ Wait(t)
    \/ CctorUses(t) \/ CctorCatches(t) \/ CctorRethrows(t) \/ CctorEnds(t)
    \/ Fail(t) \/ Store(t) \/ Done(t) \/ Leave(t) \/ Finish(t) \/ Raise(t)

Next == \E t \in Thread : Step(t) \/ Exit(t) \/ \E c \in Class : Use(t, c)

Fairness == \A t \in Thread : WF_vars(Step(t))

Spec == Init /\ [][Next]_vars /\ Fairness

-----------------------------------------------------------------------------
\* Properties.

\* The types; a lock that is not freed counts at least one thread.
TypeOK ==
    /\ initialized \in [Class -> BOOLEAN] /\ init_failed \in [Class -> BOOLEAN]
    /\ type_init_exception \subseteq Class
    /\ lock \in [Class -> Lock \cup {NULL}]
    /\ blocked \in [Thread -> Class \cup {NULL}]
    /\ section \in Thread \cup {NULL}
    /\ checked_module_cctor \in BOOLEAN
    /\ frames \in [Thread -> Seq(Frame)]
    /\ calls \in [Thread -> 0..MaxCalls]

\* The threads with a call that holds a reference to the lock of class c.
HolderPc == {"wait", "run", "fail", "store", "done", "leave", "finish"}
Holders(c) ==
    {t \in Thread : \E i \in DOMAIN frames[t] :
        frames[t][i].class = c /\ frames[t][i].pc \in HolderPc}

\* A lock lives exactly as long as some call uses it: waiting_count is the
\* number of those calls; and blocked_thread_hash, along which the walk
\* reads the locks, has the threads that wait for another and no others.
LockLives ==
    /\ \A c \in Class :
         IF lock[c] = NULL THEN Holders(c) = {}
         ELSE Cardinality(Holders(c)) = lock[c].waiting_count
    /\ \A t \in Thread, c \in Class : blocked[t] = c <=>
         t \in Holders(c) /\ lock[c] # NULL /\ lock[c].initializing_tid # t

\* A thread that waited for an initializer that failed raises the exception
\* that was stored, unless the initializing thread died.
WaiterSeesCause ==
    \A t \in Thread, c \in Class :
        /\ t \in Holders(c) /\ init_failed[c]
        /\ lock[c] # NULL /\ lock[c].initializing_tid # t /\ ~lock[c].held
        => c \in type_init_exception \/ ~Busy(lock[c].initializing_tid)

Status(c) ==
    IF init_failed[c] THEN "failed"
    ELSE IF initialized[c] \/ (lock[c] # NULL /\ lock[c].done) THEN "ready"
    ELSE IF lock[c] # NULL THEN "running" ELSE "new"

Promise == INSTANCE OnceInit WITH
    status <- [c \in Class |-> Status(c)],
    runner <- [c \in Class |-> IF Status(c) = "running" THEN lock[c].initializing_tid ELSE NULL]

\* Class initialization implements OnceInit: no static constructor runs
\* twice, and the outcome of one stays, whichever threads raced for it.
InitializedOnce == Promise!Spec

\* Thread t is in blocked_thread_hash with a lock of thread u...
BlockedOn(t, u) == blocked[t] # NULL /\ lock[blocked[t]].initializing_tid = u

\* ... and waits for a constructor that has not ended.
WaitsFor(t, u) == BlockedOn(t, u) /\ ~lock[blocked[t]].done

\* Thread u is reached from thread t along blocked_thread_hash: it is in every
\* set that has t and, with a thread, the one that thread is blocked on.
Reaches(t, u) ==
    \A S \in SUBSET Thread :
        t \in S /\ (\A v \in S, w \in Thread : BlockedOn(v, w) => w \in S) => u \in S

\* A call of thread t ends without an exception.
GoesOn(t) ==
    /\ Busy(t) /\ Len(frames'[t]) < Len(frames[t])
    /\ Head(frames[t]).pc \notin {"module_done", "raise", "run"}

\* A thread goes on with a class that is not initialized yet only if it is
\* initializing the class itself, or if the thread that does is blocked, over
\* any number of others, on one that waits for it.
EarlyOnlyInCycle ==
    [][\A t \in Thread :
         GoesOn(t) /\ Status(Cur(t)) = "running" =>
            \/ lock[Cur(t)].initializing_tid = t
            \/ \E u \in Thread : Reaches(lock[Cur(t)].initializing_tid, u) /\ WaitsFor(u, t)]_vars

\* Every use of a class returns: no wait is for ever, whatever the classes
\* need of each other and whoever dies.
CallReturns == \A t \in Thread : Busy(t) ~> ~Busy(t)
=============================================================================
