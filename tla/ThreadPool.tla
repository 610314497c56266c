----------------------------- MODULE ThreadPool -----------------------------
(***************************************************************************)
(* The thread pool of metadata/threadpool.c and the unloading of a domain  *)
(* whose jobs it runs (metadata/appdomain.c, metadata/threads.c).          *)
(*                                                                         *)
(* Every job has a thread that submits it.  A worker is a thread of        *)
(* async_invoke_thread; the starter is the thread of start_idle_threads.   *)
(* Interlocked operations, critical sections and waits are steps of their  *)
(* own; the shutdown of the runtime and the socket queue are left out.     *)
(***************************************************************************)
EXTENDS Naturals, Sequences, FiniteSets

CONSTANTS
    NumJob,                \* bound: the number of jobs
    Domain,
    DomainOf,              \* [Job -> Domain], ar->vtable->domain
    Unloadable,            \* the domains somebody unloads
    Worker,                \* bound: the worker threads there may be
    INITIAL_QUEUE_LENGTH,
    mono_min_worker_threads,
    mono_max_worker_threads,
    NULL

\* Jobs are numbered in the order in which mono_thread_pool_add is called.
Job == 1..NumJob

ASSUME PoolAssumption ==
    /\ NumJob \in Nat
    /\ DomainOf \in [Job -> Domain]
    /\ Unloadable \subseteq Domain
    /\ IsFiniteSet(Worker)
    /\ NULL \notin Nat
    /\ INITIAL_QUEUE_LENGTH \in Nat \ {0}
    /\ mono_min_worker_threads \in Nat
    /\ mono_max_worker_threads \in Nat

VARIABLES
    queue,                \* async_call_queue: array, first_elem, next_elem
    job_added,            \* the count of the semaphore
    tp_idle_started,
    mono_worker_threads,
    busy_worker_threads,
    client,               \* [Job -> pc of the thread that submits the job]
    starter,              \* the thread of start_idle_threads: pc and data
    worker,               \* [Worker -> pc, data, abort (THREAD_ABORT_REQUESTED)]
    domain,               \* [Domain -> state, threadpool_jobs, cleanup_semaphore]
    unload,               \* [Domain -> pc of its unload thread]
    ran                   \* ghost: [Job -> Nat], how often the job was invoked

poolVars == <<queue, job_added, tp_idle_started, mono_worker_threads, busy_worker_threads>>
vars == <<poolVars, client, starter, worker, domain, unload, ran>>

\* The pool was never used, or it has been and its workers are idle.
Init ==
    /\ queue = [array |-> <<>>, first_elem |-> 0, next_elem |-> 0]
    /\ job_added = 0
    /\ tp_idle_started \in BOOLEAN
    /\ mono_worker_threads = IF tp_idle_started THEN mono_min_worker_threads ELSE 0
    /\ busy_worker_threads = 0
    /\ client = [j \in Job |-> "new"]
    /\ starter = [pc |-> "off", data |-> NULL]
    /\ \E idle \in SUBSET Worker :
         /\ Cardinality(idle) = mono_worker_threads
         /\ worker = [w \in Worker |-> [pc |-> IF w \in idle THEN "idle" ELSE "off",
                                        data |-> NULL, abort |-> FALSE]]
    /\ domain = [d \in Domain |->
                   [state |-> "CREATED", threadpool_jobs |-> 0, cleanup_semaphore |-> NULL]]
    /\ unload = [d \in Domain |-> "none"]
    /\ ran = [j \in Job |-> 0]

Doomed(d) == domain[d].state \in {"UNLOADING", "UNLOADED", "FREED"}

-----------------------------------------------------------------------------
\* TPQueue.  An array that was not allocated yet is <<>>; indexes from 0.

Items(q) == SubSeq(q.array, q.first_elem + 1, q.next_elem)
Nulls(n) == [i \in 1..n |-> NULL]
Padded(s, n) == s \o Nulls(n - Len(s))
Put(q, j) == [q EXCEPT !.array[q.next_elem + 1] = j, !.next_elem = @ + 1]
Packed(s, n) == [array |-> Padded(s, n), first_elem |-> 0, next_elem |-> Len(s)]

\* The array part of append_job: slide the elements down or double the array.
Appended(q, j) ==
    LET len == Len(q.array)
    IN  IF q.next_elem < len THEN Put(q, j)
        ELSE IF len = 0 THEN Put(Packed(<<>>, INITIAL_QUEUE_LENGTH), j)
        ELSE Put(Packed(Items(q), IF q.first_elem > 0 THEN len ELSE 2 * len), j)

\* Mutant: the array shrinks to the size it has to hold at least.
DequeuedTight(q) ==
    LET r == [q EXCEPT !.array[q.first_elem + 1] = NULL, !.first_elem = @ + 1]
        count == r.next_elem - r.first_elem
    IN  IF Len(q.array) > INITIAL_QUEUE_LENGTH /\ count < Len(q.array) \div 2
        THEN [Packed(SubSeq(Items(r), 2, count), Len(q.array) \div 2) EXCEPT !.next_elem = count]
        ELSE r

\* dequeue_job of a queue that is not empty: take the first element, and halve
\* the array if it is mostly empty.
Dequeued(q) ==
    LET r == [q EXCEPT !.array[q.first_elem + 1] = NULL, !.first_elem = @ + 1]
        count == r.next_elem - r.first_elem
    IN  IF Len(q.array) > INITIAL_QUEUE_LENGTH /\ count < Len(q.array) \div 3
        THEN Packed(Items(r), Len(q.array) \div 2)
        ELSE r
Empty(q) == q.first_elem = q.next_elem
HeadOf(q) == IF Empty(q) THEN NULL ELSE q.array[q.first_elem + 1]
AfterDequeue(q) == IF Empty(q) THEN q ELSE Dequeued(q)

\* The slots in use, those of a domain, and how many jobs clear_queue removes.
Slots(q) == (q.first_elem + 1)..q.next_elem
Mine(q, d) == {i \in Slots(q) : q.array[i] # NULL /\ DomainOf[q.array[i]] = d}
ClearedCount(q, d) == Cardinality(Mine(q, d))

\* clear_queue: the elements that stay are moved to the front, and next_elem
\* becomes the number of those that go.
Cleared(q, d) ==
    LET Stays(j) == j # NULL /\ DomainOf[j] # d
        kept == SelectSeq(Items(q), Stays)
        idx == Cardinality({i \in Slots(q) : Stays(q.array[i])})
    IN  IF Mine(q, d) = {} THEN q
        ELSE [array |-> [i \in DOMAIN q.array |->
                           IF i <= idx THEN kept[i]
                           ELSE IF i \in Mine(q, d) THEN NULL ELSE q.array[i]],
              first_elem |-> 0,
              next_elem |-> ClearedCount(q, d)]

-----------------------------------------------------------------------------
\* Counting the jobs of a domain.

JobsInc(j) == [domain EXCEPT ![DomainOf[j]].threadpool_jobs = @ + 1]

\* threadpool_jobs_dec is two steps: the decrement...
JobsDec(j) == [domain EXCEPT ![DomainOf[j]].threadpool_jobs = @ - 1]
LastJob(j) == domain[DomainOf[j]].threadpool_jobs = 1

\* ... and, for the thread that reached zero, a look at cleanup_semaphore, whose
\* maximum is one.
Waited(j) == domain[DomainOf[j]].cleanup_semaphore # NULL
Pulse(j) == IF Waited(j) THEN [domain EXCEPT ![DomainOf[j]].cleanup_semaphore = 1] ELSE domain

\* start_tpthread
StartTpThread(data) ==
    /\ mono_worker_threads' = mono_worker_threads + 1
    /\ busy_worker_threads' = busy_worker_threads + 1
    /\ domain' = IF data = NULL THEN domain ELSE JobsInc(data)
    /\ \E w \in Worker :
         /\ worker[w].pc = "off"
         /\ worker' = [worker EXCEPT ![w] = [pc |-> "top", data |-> data, abort |-> FALSE]]
    /\ UNCHANGED <<queue, job_added, tp_idle_started>>

-----------------------------------------------------------------------------
\* Submitting a job.

Client(j, pc) == client' = [client EXCEPT ![j] = pc]

\* The thread that submits j runs in the domain of j, unless it is the starter.
InDomain(j) == client[j] \notin {"new", "done"} /\ starter.data # j

\* The threads of a domain that is past "abort" are gone.
MaySubmit(j) == client[j] = "new" /\ unload[DomainOf[j]] \in {"none", "notify", "abort"}

\* mono_thread_pool_add
Submit(j) ==
    /\ MaySubmit(j) /\ \A i \in 1..(j - 1) : ~MaySubmit(i)
    /\ Client(j, IF Doomed(DomainOf[j]) THEN "done" ELSE "start")
    /\ UNCHANGED <<poolVars, starter, worker, domain, unload, ran>>

\* start_thread_or_queue: the first job starts the starter...
StartIdle(j) ==
    /\ client[j] = "start" /\ ~tp_idle_started
    /\ tp_idle_started' = TRUE
    /\ domain' = JobsInc(j)
    /\ starter' = [pc |-> "loop", data |-> j]
    /\ Client(j, "done")
    /\ UNCHANGED <<queue, job_added, mono_worker_threads, busy_worker_threads, worker, unload, ran>>

\* ... the others look at the counters...
Choose(j) ==
    /\ client[j] = "start" /\ tp_idle_started
    /\ Client(j, IF /\ mono_worker_threads <= busy_worker_threads + 1
                    /\ mono_worker_threads < mono_max_worker_threads
                 THEN "thread" ELSE "inc")
    /\ UNCHANGED <<poolVars, starter, worker, domain, unload, ran>>

\* ... and start a worker with the job...
StartThread(j) ==
    /\ client[j] = "thread"
    /\ StartTpThread(j)
    /\ Client(j, "done")
    /\ UNCHANGED <<starter, unload, ran>>

\* ... or queue it: append_job counts the job first.
AppendInc(j) ==
    /\ client[j] = "inc"
    /\ domain' = JobsInc(j)
    /\ Client(j, "append")
    /\ UNCHANGED <<poolVars, starter, worker, unload, ran>>

\* A job that is refused stays counted.
AppendJob(j) ==
    /\ client[j] = "append"
    /\ queue' = IF Doomed(DomainOf[j]) THEN queue ELSE Appended(queue, j)
    /\ Client(j, "release")
    /\ UNCHANGED <<job_added, tp_idle_started, mono_worker_threads, busy_worker_threads,
                   starter, worker, domain, unload, ran>>

\* Mutant: no token if no worker waits at the moment.
ReleaseIfWaiting(j) ==
    /\ client[j] = "release"
    /\ job_added' = IF \E w \in Worker : worker[w].pc \in {"timed", "idle"}
                    THEN job_added + 1 ELSE job_added
    /\ Client(j, "done")
    /\ UNCHANGED <<queue, tp_idle_started, mono_worker_threads, busy_worker_threads,
                   starter, worker, domain, unload, ran>>

Release(j) ==
    /\ client[j] = "release"
    /\ job_added' = job_added + 1
    /\ Client(j, "done")
    /\ UNCHANGED <<queue, tp_idle_started, mono_worker_threads, busy_worker_threads,
                   starter, worker, domain, unload, ran>>

ClientStep(j) == StartIdle(j) \/ Choose(j) \/ StartThread(j) \/ AppendInc(j) \/ AppendJob(j) \/ Release(j)

-----------------------------------------------------------------------------
\* start_idle_threads

Starter(pc, data) == starter' = [pc |-> pc, data |-> data]

\* Mutant: the job is forgotten if the starter starts no worker.
StarterLoopForgets ==
    /\ starter.pc = "loop"
    /\ IF mono_worker_threads < mono_min_worker_threads
       THEN Starter("spawn", starter.data)
       ELSE Starter("off", NULL)
    /\ UNCHANGED <<poolVars, client, worker, domain, unload, ran>>

\* The loop: start workers until there are enough of them.  If there are, the
\* job is submitted again.
StarterLoop ==
    /\ starter.pc = "loop"
    /\ IF mono_worker_threads < mono_min_worker_threads
       THEN Starter("spawn", starter.data) /\ UNCHANGED client
       ELSE IF starter.data = NULL
       THEN Starter("off", NULL) /\ UNCHANGED client
       ELSE Starter("again", starter.data) /\ Client(starter.data, "start")
    /\ UNCHANGED <<poolVars, worker, domain, unload, ran>>

StarterSpawn ==
    /\ starter.pc = "spawn"
    /\ StartTpThread(starter.data)
    /\ Starter(IF starter.data = NULL THEN "loop" ELSE "dec", starter.data)
    /\ UNCHANGED <<client, unload, ran>>

\* threadpool_jobs_dec, once a worker has the job or it was submitted again.
StarterDec ==
    /\ starter.pc = "dec" \/ (starter.pc = "again" /\ client[starter.data] = "done")
    /\ domain' = JobsDec(starter.data)
    /\ IF LastJob(starter.data)
       THEN Starter(IF starter.pc = "dec" THEN "pulse_loop" ELSE "pulse_off", starter.data)
       ELSE Starter(IF starter.pc = "dec" THEN "loop" ELSE "off", NULL)
    /\ UNCHANGED <<poolVars, client, worker, unload, ran>>

StarterPulse ==
    /\ starter.pc \in {"pulse_loop", "pulse_off"}
    /\ domain' = Pulse(starter.data)
    /\ Starter(IF starter.pc = "pulse_loop" THEN "loop" ELSE "off", NULL)
    /\ UNCHANGED <<poolVars, client, worker, unload, ran>>

StarterStep == StarterLoop \/ StarterSpawn \/ StarterDec \/ StarterPulse

-----------------------------------------------------------------------------
\* async_invoke_thread

WorkerAt(w, pc) == worker[w].pc = pc
Goto(w, pc) == worker' = [worker EXCEPT ![w].pc = pc]
Drop(w, pc) == worker' = [worker EXCEPT ![w].pc = pc, ![w].data = NULL]

\* With a job: look at the state of its domain.
Top(w) ==
    /\ WorkerAt(w, "top")
    /\ Goto(w, IF worker[w].data = NULL THEN "dequeue"
               ELSE IF Doomed(DomainOf[worker[w].data]) THEN "refuse" ELSE "push")
    /\ UNCHANGED <<poolVars, client, starter, domain, unload, ran>>

\* The domain is being unloaded: busy_worker_threads stays as it is.
Refuse(w) ==
    /\ WorkerAt(w, "refuse")
    /\ domain' = JobsDec(worker[w].data)
    /\ IF LastJob(worker[w].data) THEN Goto(w, "refused") ELSE Drop(w, "dequeue")
    /\ UNCHANGED <<poolVars, client, starter, unload, ran>>

RefusePulse(w) ==
    /\ WorkerAt(w, "refused")
    /\ domain' = Pulse(worker[w].data)
    /\ Drop(w, "dequeue")
    /\ UNCHANGED <<poolVars, client, starter, unload, ran>>

\* mono_thread_push_appdomain_ref
PushRef(w) ==
    /\ WorkerAt(w, "push")
    /\ Goto(w, "dec")
    /\ UNCHANGED <<poolVars, client, starter, domain, unload, ran>>
HasRef(w, d) == worker[w].pc \in {"dec", "zero", "set", "run", "pop"} /\ DomainOf[worker[w].data] = d

Dec(w) ==
    /\ WorkerAt(w, "dec")
    /\ domain' = JobsDec(worker[w].data)
    /\ Goto(w, IF LastJob(worker[w].data) THEN "zero" ELSE "set")
    /\ UNCHANGED <<poolVars, client, starter, unload, ran>>

\* The last job of a domain whose unload thread waits is not run.
Zero(w) ==
    /\ WorkerAt(w, "zero")
    /\ domain' = Pulse(worker[w].data)
    /\ IF Waited(worker[w].data) THEN Drop(w, "dequeue") ELSE Goto(w, "set")
    /\ UNCHANGED <<poolVars, client, starter, unload, ran>>

\* mono_domain_set, and mono_async_invoke if it succeeds.
SetDomain(w) ==
    LET j == worker[w].data
    IN  /\ WorkerAt(w, "set")
        /\ IF domain[DomainOf[j]].state \in {"UNLOADED", "FREED"}
           THEN Goto(w, "pop") /\ UNCHANGED ran
           ELSE Goto(w, "run") /\ ran' = [ran EXCEPT ![j] = @ + 1]
        /\ UNCHANGED <<poolVars, client, starter, domain, unload>>

\* The job ends, by itself or because it is aborted.
Run(w) ==
    /\ WorkerAt(w, "run")
    /\ Goto(w, "pop")
    /\ UNCHANGED <<poolVars, client, starter, domain, unload, ran>>

PopRef(w) ==
    /\ WorkerAt(w, "pop")
    /\ Drop(w, "dequeue")
    /\ busy_worker_threads' = busy_worker_threads - 1
    /\ UNCHANGED <<queue, job_added, tp_idle_started, mono_worker_threads,
                   client, starter, domain, unload, ran>>

\* Take a job; without one the worker goes on as "none" says.
Take(w, none) ==
    /\ queue' = AfterDequeue(queue)
    /\ IF HeadOf(queue) = NULL
       THEN Goto(w, none)
       ELSE worker' = [worker EXCEPT ![w].pc = "taken", ![w].data = HeadOf(queue)]
    /\ UNCHANGED <<tp_idle_started, mono_worker_threads, busy_worker_threads, client, starter,
                   domain, unload, ran>>

\* Mutant: a worker that takes a job from the queue does not count as busy.
CountBusyNot(w) ==
    /\ WorkerAt(w, "taken")
    /\ Goto(w, "top")
    /\ UNCHANGED <<poolVars, client, starter, domain, unload, ran>>

\* The end of the loop: only now is the worker that has a job counted as busy.
CountBusy(w) ==
    /\ WorkerAt(w, "taken")
    /\ busy_worker_threads' = busy_worker_threads + 1
    /\ Goto(w, "top")
    /\ UNCHANGED <<queue, job_added, tp_idle_started, mono_worker_threads,
                   client, starter, domain, unload, ran>>

Dequeue(w) ==
    /\ WorkerAt(w, "dequeue")
    /\ Take(w, IF worker[w].abort THEN "exit" ELSE "timed")
    /\ UNCHANGED job_added

\* WaitForSingleObjectEx on job_added, with a timeout...
TimedWait(w) ==
    /\ WorkerAt(w, "timed") /\ job_added > 0
    /\ job_added' = job_added - 1
    /\ Goto(w, "timed_dequeue")
    /\ UNCHANGED <<queue, tp_idle_started, mono_worker_threads, busy_worker_threads,
                   client, starter, domain, unload, ran>>

\* ... which goes on until there is a job, or the time is up.
TimedDequeue(w) ==
    /\ WorkerAt(w, "timed_dequeue")
    /\ Take(w, "timed")
    /\ UNCHANGED job_added

TimedOut(w) ==
    /\ WorkerAt(w, "timed")
    /\ Goto(w, "count")
    /\ UNCHANGED <<poolVars, client, starter, domain, unload, ran>>

\* A worker that is not needed exits, the others wait without a timeout.
Stay(w) == mono_worker_threads <= mono_min_worker_threads /\ ~worker[w].abort

CountWorkers(w) ==
    /\ WorkerAt(w, "count")
    /\ Goto(w, IF Stay(w) THEN "idle" ELSE "exit")
    /\ UNCHANGED <<poolVars, client, starter, domain, unload, ran>>

IdleWait(w) ==
    /\ WorkerAt(w, "idle") /\ job_added > 0
    /\ job_added' = job_added - 1
    /\ Goto(w, "idle_dequeue")
    /\ UNCHANGED <<queue, tp_idle_started, mono_worker_threads, busy_worker_threads,
                   client, starter, domain, unload, ran>>

IdleDequeue(w) ==
    /\ WorkerAt(w, "idle_dequeue")
    /\ Take(w, "count")
    /\ UNCHANGED job_added

ExitWorker(w) ==
    /\ WorkerAt(w, "exit")
    /\ mono_worker_threads' = mono_worker_threads - 1
    /\ Goto(w, "off")
    /\ UNCHANGED <<queue, job_added, tp_idle_started, busy_worker_threads,
                   client, starter, domain, unload, ran>>

WorkerStep(w) ==
    \/ Top(w) \/ Refuse(w) \/ RefusePulse(w) \/ PushRef(w) \/ Dec(w) \/ Zero(w)
    \/ SetDomain(w) \/ Run(w) \/ PopRef(w) \/ Dequeue(w) \/ CountBusy(w)
    \/ TimedWait(w) \/ TimedDequeue(w) \/ TimedOut(w) \/ CountWorkers(w)
    \/ IdleWait(w) \/ IdleDequeue(w) \/ ExitWorker(w)

-----------------------------------------------------------------------------
\* mono_domain_try_unload and unload_thread_main_inner

Unload(d, pc) == unload' = [unload EXCEPT ![d] = pc]
SetState(d, s) == domain' = [domain EXCEPT ![d].state = s]

TryUnload(d) ==
    /\ d \in Unloadable /\ unload[d] = "none"
    /\ domain[d].state = "CREATED"
    /\ SetState(d, "UNLOADING_START")
    /\ Unload(d, "notify")
    /\ UNCHANGED <<poolVars, client, starter, worker, ran>>

\* DoDomainUnload throws and the state is rolled back...
NotifyFails(d) ==
    /\ unload[d] = "notify"
    /\ SetState(d, "CREATED")
    /\ Unload(d, "none")
    /\ UNCHANGED <<poolVars, client, starter, worker, ran>>

\* ... or the unload thread is created.
NotifyDone(d) ==
    /\ unload[d] = "notify"
    /\ SetState(d, "UNLOADING")
    /\ Unload(d, "abort")
    /\ UNCHANGED <<poolVars, client, starter, worker, ran>>

\* mono_threads_abort_appdomain_threads: abort the threads with a reference to
\* the domain until there are none.
AbortThreads(d) ==
    /\ unload[d] = "abort"
    /\ LET referring == {w \in Worker : HasRef(w, d)}
           inside == {j \in Job : DomainOf[j] = d /\ InDomain(j)}
       IN  /\ worker' = [w \in Worker |-> IF w \in referring THEN [worker[w] EXCEPT !.abort = TRUE]
                                          ELSE worker[w]]
           /\ Unload(d, IF referring \cup inside = {} THEN "clear" ELSE "abort")
    /\ UNCHANGED <<poolVars, client, starter, domain, ran>>

\* mono_thread_pool_remove_domain_jobs: clear the queue, with a
\* threadpool_jobs_dec for each job...
ClearQueue(d) ==
    /\ unload[d] = "clear"
    /\ queue' = Cleared(queue, d)
    /\ domain' = [domain EXCEPT ![d].threadpool_jobs = @ - ClearedCount(queue, d)]
    /\ Unload(d, "semaphore")
    /\ UNCHANGED <<job_added, tp_idle_started, mono_worker_threads, busy_worker_threads,
                   client, starter, worker, ran>>

\* ... set up the semaphore...
CreateSem(d) ==
    /\ unload[d] = "semaphore"
    /\ domain' = [domain EXCEPT ![d].cleanup_semaphore = 0]
    /\ Unload(d, "look")
    /\ UNCHANGED <<poolVars, client, starter, worker, ran>>

\* Mutant: the unload thread goes on when the semaphore is pulsed.
LookOnce(d) ==
    /\ unload[d] = "look"
    /\ Unload(d, "close")
    /\ UNCHANGED <<poolVars, client, starter, worker, domain, ran>>

\* ... and wait on it as long as there are jobs.
Look(d) ==
    /\ unload[d] = "look"
    /\ Unload(d, IF domain[d].threadpool_jobs = 0 THEN "close" ELSE "wait")
    /\ UNCHANGED <<poolVars, client, starter, worker, domain, ran>>

WaitSem(d) ==
    /\ unload[d] = "wait" /\ domain[d].cleanup_semaphore = 1
    /\ domain' = [domain EXCEPT ![d].cleanup_semaphore = 0]
    /\ Unload(d, "look")
    /\ UNCHANGED <<poolVars, client, starter, worker, ran>>

CloseSem(d) ==
    /\ unload[d] = "close"
    /\ domain' = [domain EXCEPT ![d].cleanup_semaphore = NULL]
    /\ Unload(d, "finalize")
    /\ UNCHANGED <<poolVars, client, starter, worker, ran>>

\* The finalizers have run.
Unloaded(d) ==
    /\ unload[d] = "finalize"
    /\ SetState(d, "UNLOADED")
    /\ Unload(d, "free")
    /\ UNCHANGED <<poolVars, client, starter, worker, ran>>

\* mono_domain_free
FreeDomain(d) ==
    /\ unload[d] = "free"
    /\ SetState(d, "FREED")
    /\ Unload(d, "done")
    /\ UNCHANGED <<poolVars, client, starter, worker, ran>>

UnloadStep(d) ==
    \/ NotifyFails(d) \/ NotifyDone(d) \/ AbortThreads(d) \/ ClearQueue(d) \/ CreateSem(d)
    \/ Look(d) \/ WaitSem(d) \/ CloseSem(d) \/ Unloaded(d) \/ FreeDomain(d)

-----------------------------------------------------------------------------
Next ==
    \/ \E j \in Job : Submit(j) \/ ClientStep(j)
    \/ StarterStep
    \/ \E w \in Worker : WorkerStep(w)
    \/ \E d \in Domain : TryUnload(d) \/ UnloadStep(d)

Spec == Init /\ [][Next]_vars

-----------------------------------------------------------------------------
\* Properties.

Held(w) == worker[w].data
Queued(j) == \E i \in (queue.first_elem + 1)..queue.next_elem : queue.array[i] = j

TPQueue == [array : Seq(Job \cup {NULL}), first_elem : Nat, next_elem : Nat]
ClientPc == {"new", "start", "thread", "inc", "append", "release", "done"}
StarterState ==
    [pc : {"off", "loop", "spawn", "again", "dec", "pulse_loop", "pulse_off"},
     data : Job \cup {NULL}]
WorkerPc == {"off", "taken", "top", "refuse", "refused", "push", "dec", "zero", "set", "run",
             "pop", "dequeue", "timed", "timed_dequeue", "count", "idle", "idle_dequeue", "exit"}
WorkerState == [pc : WorkerPc, data : Job \cup {NULL}, abort : BOOLEAN]
DomainState ==
    [state : {"CREATED", "UNLOADING_START", "UNLOADING", "UNLOADED", "FREED"},
     threadpool_jobs : Nat, cleanup_semaphore : {0, 1, NULL}]
UnloadPc == {"none", "notify", "abort", "clear", "semaphore", "look", "wait", "close",
             "finalize", "free", "done"}

\* The types; the counters stay natural numbers and the indexes in the array.
TypeOK ==
    /\ queue \in TPQueue
    /\ queue.first_elem <= queue.next_elem /\ queue.next_elem <= Len(queue.array)
    /\ job_added \in Nat /\ mono_worker_threads \in Nat /\ busy_worker_threads \in Nat
    /\ tp_idle_started \in BOOLEAN
    /\ client \in [Job -> ClientPc]
    /\ starter \in StarterState
    /\ worker \in [Worker -> WorkerState]
    /\ domain \in [Domain -> DomainState]
    /\ unload \in [Domain -> UnloadPc]
    /\ ran \in [Job -> Nat]

\* The places a job that is not done can be in: the queue, the hands of a
\* worker, of the starter or of the thread that submits it.
Places(j) ==
    {<<"queue", i>> : i \in {k \in (queue.first_elem + 1)..queue.next_elem : queue.array[k] = j}}
    \cup {<<"worker", w>> : w \in {v \in Worker : Held(v) = j}}
    \cup {<<"client", c>> : c \in {k \in {j} : client[j] \notin {"done", "release"}}}
    \cup {<<"starter", s>> : s \in {k \in {j} : starter.data = j /\ starter.pc \in {"loop", "spawn"}}}

\* A job is in one place at a time, is invoked at most once, and is only ever
\* given up, without being invoked, if its domain is being unloaded: none is
\* lost or doubled when the queue slides, grows and shrinks, when the starter
\* passes it on, or when workers come and go.
JobOnce ==
    \A j \in Job :
        /\ ran[j] <= 1
        /\ Cardinality(Places(j)) <= 1
        /\ Places(j) = {} => ran[j] = 1 \/ Doomed(DomainOf[j])

\* Jobs of domain d that may still be run: queued, or with a worker that has
\* not counted them down.
Pending(d) ==
    {j \in Job : DomainOf[j] = d /\
        \/ Queued(j)
        \/ \E w \in Worker : Held(w) = j
              /\ worker[w].pc \in {"taken", "top", "refuse", "push", "dec"}}

\* The unload thread does not get past its wait while a job of the domain is
\* queued or on its way to a worker: threadpool_jobs is never too small.  And
\* no slot of the array, in the queue or left behind by it, still refers to a
\* job of the domain that is then taken apart (dequeue_job, null_array).
UnloadWaits ==
    \A d \in Domain :
        unload[d] \in {"close", "finalize", "free", "done"} =>
            /\ Pending(d) = {}
            /\ \A i \in DOMAIN queue.array :
                 queue.array[i] # NULL => DomainOf[queue.array[i]] # d

\* The jobs in the queue in order.
Contents == SelectSeq(Items(queue), LAMBDA j : j # NULL)

\* TPQueue is a first-in first-out queue: a step adds one job at the end, takes
\* the first one, or is clear_queue, after which no job of the domain is left and
\* no job is in the queue that was not there.  What clear_queue does to jobs of
\* other domains is not said: it may lose or double them (threadpool.c:1326).
FifoQueue ==
    [][\/ Contents' = Contents
       \/ \E j \in Job : Contents' = Append(Contents, j)
       \/ Contents # <<>> /\ Contents' = Tail(Contents)
       \/ \E d \in Domain :
             /\ unload[d] = "clear"
             /\ \A k \in DOMAIN Contents' :
                  /\ DomainOf[Contents'[k]] # d
                  /\ \E i \in DOMAIN Contents : Contents[i] = Contents'[k]]_vars

\* No wake-up is lost: when a job is queued, its token was released and every
\* worker is waiting or leaving, a token is left to wake the next one, though
\* workers take jobs without their tokens and clear_queue leaves tokens behind.
NoLostWakeup ==
    /\ \E j \in Job : Queued(j)
    /\ \A j \in Job : client[j] # "release"
    /\ \A w \in Worker : worker[w].pc \in {"off", "timed", "count", "idle", "exit"}
    => job_added > 0

\* No job runs in a domain that is unloaded or freed.
NoRunInUnloaded ==
    \A w \in Worker : WorkerAt(w, "run") => domain[DomainOf[Held(w)]].state \notin {"UNLOADED", "FREED"}
=============================================================================
