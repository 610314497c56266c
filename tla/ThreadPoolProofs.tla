-------------------------- MODULE ThreadPoolProofs --------------------------
(***************************************************************************)
(* Proofs about ThreadPool for any number of jobs and workers: no job is   *)
(* lost, doubled or forgotten, no wake-up is lost, and the unload thread   *)
(* waits for all jobs of its domain.  All of it is under UnloadedAlone: a  *)
(* domain with jobs is unloaded only if all jobs are its own.  Without it  *)
(* the theorems are false, because clear_queue loses jobs of the other     *)
(* domains or queues them twice (threadpool.c:1326).                       *)
(***************************************************************************)
EXTENDS ThreadPool, FiniteSetTheorems, SequenceTheorems, TLAPS

\* The jobs of a domain that is unloaded are the only ones in the pool, or there
\* are none.
Alone(d) == \A i, j \in Job : DomainOf[i] = d => DomainOf[j] = d
UnloadedAlone == \A d \in Unloadable : Alone(d)

JobsIn(q) == {j \in Job : \E i \in Slots(q) : q.array[i] = j}

\* The slots that are not in use are empty, and a job is in one slot.
QueueOK(q) ==
    /\ q \in TPQueue
    /\ q.first_elem <= q.next_elem /\ q.next_elem <= Len(q.array)
    /\ \A i \in 1..Len(q.array) : i \notin Slots(q) => q.array[i] = NULL
    /\ \A i, k \in Slots(q) : q.array[i] = q.array[k] /\ q.array[i] # NULL => i = k
QueueInv == QueueOK(queue)

\* How far the unload thread of a domain is.
DomainInv ==
    \A d \in Domain :
        /\ domain[d].state =
             CASE unload[d] = "none" -> "CREATED"
               [] unload[d] = "notify" -> "UNLOADING_START"
               [] unload[d] = "free" -> "UNLOADED"
               [] unload[d] = "done" -> "FREED"
               [] OTHER -> "UNLOADING"
        /\ domain[d].cleanup_semaphore # NULL <=> unload[d] \in {"look", "wait", "close"}

\* There is one starter, and the thread that gave it its job is done.
StarterInv ==
    /\ starter.pc # "off" => tp_idle_started
    /\ starter.pc = "off" => starter.data = NULL
    /\ starter.pc \in {"again", "dec", "pulse_loop", "pulse_off"} => starter.data # NULL
    /\ starter.data # NULL /\ starter.pc # "again" => client[starter.data] = "done"

\* The workers with a job.
JobPc == {"taken", "refuse", "refused", "push", "dec", "zero", "set", "run", "pop"}
WorkerOK(w) ==
    /\ worker[w].pc \in JobPc => worker[w].data # NULL
    /\ worker[w].data # NULL => worker[w].pc \in JobPc \cup {"top"}
    /\ worker[w].pc \in {"refuse", "refused"} => Doomed(DomainOf[worker[w].data])
WorkerInv == \A w \in Worker : WorkerOK(w)

\* Where a job is.  A job that is nowhere was run or its domain is unloaded.
EarlyPc == {"new", "start", "thread", "inc", "append"}
AtClient(j) == client[j] \in EarlyPc
AtStarter(j) == starter.data = j /\ starter.pc \in {"loop", "spawn"}
AtWorker(j, w) == worker[w].data = j
InQueue(j) == j \in JobsIn(queue)

Placed(j) ==
    /\ AtClient(j) => ~AtStarter(j) /\ ~InQueue(j)
    /\ AtStarter(j) => ~InQueue(j)
    /\ \A w \in Worker : AtWorker(j, w) =>
         /\ ~AtClient(j) /\ ~AtStarter(j) /\ ~InQueue(j)
         /\ \A v \in Worker : AtWorker(j, v) => v = w
PlaceInv == \A j \in Job : Placed(j)

RanOK(j) ==
    /\ ran[j] <= 1
    /\ AtClient(j) \/ AtStarter(j) \/ InQueue(j) => ran[j] = 0
    /\ \A w \in Worker : AtWorker(j, w) =>
         /\ worker[w].pc \notin {"run", "pop"} => ran[j] = 0
         /\ worker[w].pc \in {"run", "pop"} => ran[j] = 1 \/ Doomed(DomainOf[j])
    /\ ran[j] = 0 /\ ~AtClient(j) /\ ~AtStarter(j) /\ ~InQueue(j)
       /\ (\A w \in Worker : ~AtWorker(j, w)) => Doomed(DomainOf[j])
RanInv == \A j \in Job : RanOK(j)

\* The unload thread gets on when no thread submits a job of its domain, but for
\* the starter, when none is in the queue, and when none is counted.
Past == {"clear", "semaphore", "look", "wait", "close", "finalize", "free", "done"}
Closed == {"close", "finalize", "free", "done"}
CountedPc == {"taken", "top", "refuse", "push", "dec"}
StarterPc == {"loop", "spawn", "again", "dec"}
UnloadOK(j) ==
    /\ unload[DomainOf[j]] \in Past =>
         client[j] \in {"new", "done"} \/ (starter.data = j /\ starter.pc = "again")
    /\ unload[DomainOf[j]] \in Past \ {"clear"} => ~InQueue(j)
    /\ unload[DomainOf[j]] \in Closed =>
         /\ starter.data = j => starter.pc \notin StarterPc
         /\ \A w \in Worker : AtWorker(j, w) => worker[w].pc \notin CountedPc
UnloadInv == \A j \in Job : UnloadOK(j)

\* threadpool_jobs is at least the number of those that have counted a job up and
\* not down again.
QueueCounts(d) == {j \in Job : InQueue(j) /\ DomainOf[j] = d}
ClientCounts(d) == {j \in Job : client[j] = "append" /\ DomainOf[j] = d}
StarterCounts(d) == {j \in Job : starter.data = j /\ starter.pc \in StarterPc /\ DomainOf[j] = d}
WorkerCounts(d) == {w \in Worker : /\ worker[w].data # NULL /\ worker[w].pc \in CountedPc
                                   /\ DomainOf[worker[w].data] = d}
Counts(d) == Cardinality(QueueCounts(d)) + Cardinality(ClientCounts(d))
             + Cardinality(StarterCounts(d)) + Cardinality(WorkerCounts(d))
CountInv == \A d \in Domain : domain[d].threadpool_jobs >= Counts(d)

\* The counters of workers.  One that has just taken a job is not busy yet.
Started == {w \in Worker : worker[w].pc # "off"}
Working == {w \in Worker : worker[w].data # NULL /\ worker[w].pc # "taken"}
PoolInv == /\ mono_worker_threads = Cardinality(Started)
           /\ busy_worker_threads >= Cardinality(Working)

\* Every slot in use has a token: released, about to be, or in the hands of a
\* worker that is about to look at the queue.
Releasing == {j \in Job : client[j] = "release"}
Woken == {w \in Worker : worker[w].pc \in {"timed_dequeue", "idle_dequeue"}}
WakeInv ==
    queue.next_elem - queue.first_elem <= job_added + Cardinality(Releasing) + Cardinality(Woken)

IInv == TypeOK /\ QueueInv /\ DomainInv /\ StarterInv /\ WorkerInv /\ PlaceInv /\ RanInv
        /\ UnloadInv /\ CountInv /\ PoolInv /\ WakeInv
-----------------------------------------------------------------------------
\* TPQueue.

LEMMA NullFacts == NULL \notin Job /\ NULL # 0 /\ NULL # 1 /\ Job \subseteq Nat /\ IsFiniteSet(Job)
<1>1. Job \subseteq Nat
  BY PoolAssumption DEF Job
<1>2. IsFiniteSet(Job)
  BY PoolAssumption, FS_Interval DEF Job
<1>3. NULL \notin Nat
  BY PoolAssumption
<1>4. 0 \in Nat /\ 1 \in Nat
  OBVIOUS
<1> QED BY <1>1, <1>2, <1>3, <1>4

\* Moving the items to the front of an array of n slots.
LEMMA RepackFacts ==
    ASSUME NEW q, QueueOK(q), NEW n \in Nat, q.next_elem - q.first_elem <= n
    PROVE  /\ QueueOK(Packed(Items(q), n))
           /\ JobsIn(Packed(Items(q), n)) = JobsIn(q)
           /\ Packed(Items(q), n).first_elem = 0
           /\ Packed(Items(q), n).next_elem = q.next_elem - q.first_elem
           /\ Len(Packed(Items(q), n).array) = n
<1> DEFINE s == Items(q)
           f == q.first_elem
           len == q.next_elem - q.first_elem
           a == Padded(s, n)
           p == Packed(s, n)
<1>1. /\ q.array \in Seq(Job \cup {NULL}) /\ f \in Nat /\ q.next_elem \in Nat
      /\ f <= q.next_elem /\ q.next_elem <= Len(q.array) /\ len \in Nat
  BY DEF QueueOK, TPQueue
<1>2. s \in Seq(Job \cup {NULL}) /\ Len(s) = len /\ \A i \in 1..len : s[i] = q.array[f + i]
  <2>1. \A i \in f + 1 .. q.next_elem : q.array[i] \in Job \cup {NULL}
    BY <1>1, ElementOfSeq
  <2>2. f + 1 \in Int /\ q.next_elem \in Int
    BY <1>1
  <2>3. /\ s \in Seq(Job \cup {NULL})
        /\ Len(s) = IF f + 1 <= q.next_elem THEN q.next_elem - (f + 1) + 1 ELSE 0
        /\ \A i \in 1 .. q.next_elem - (f + 1) + 1 : s[i] = q.array[(f + 1) + i - 1]
    BY <2>1, <2>2, SubSeqProperties DEF Items
  <2> HIDE DEF s
  <2>4. \A i \in 1..len : i \in 1 .. q.next_elem - (f + 1) + 1 /\ (f + 1) + i - 1 = f + i
    BY <1>1
  <2>5. Len(s) = len
    BY <1>1, <2>3
  <2>6. ASSUME NEW i \in 1..len PROVE s[i] = q.array[f + i]
    <3>1. i \in 1 .. q.next_elem - (f + 1) + 1 /\ (f + 1) + i - 1 = f + i
      BY <2>4
    <3>2. s[i] = q.array[(f + 1) + i - 1]
      BY <2>3, <3>1
    <3> QED BY <3>1, <3>2
  <2> QED BY <2>3, <2>5, <2>6
<1>3. \A i \in 1..len : f + i \in Slots(q)
  BY <1>1 DEF Slots
<1>4. \A i \in Slots(q) : i - f \in 1..len /\ f + (i - f) = i
  BY <1>1 DEF Slots
<1> HIDE DEF s
<1>5. PICK z \in Seq(Job \cup {NULL}) :
        z = Nulls(n - len) /\ Len(z) = n - len /\ \A i \in 1..n - len : z[i] = NULL
  <2>1. n - len \in Nat
    BY <1>1
  <2>2. /\ Nulls(n - len) \in Seq(Job \cup {NULL}) /\ Len(Nulls(n - len)) = n - len
        /\ \A i \in 1..n - len : Nulls(n - len)[i] = NULL
    BY <2>1 DEF Nulls
  <2> QED BY <2>2
<1>6. a \in Seq(Job \cup {NULL}) /\ Len(a) = n /\ (\A i \in 1..len : a[i] = s[i])
      /\ \A i \in 1..n : i > len => a[i] = NULL
  <2>1. a = s \o z
    BY <1>2, <1>5 DEF Padded
  <2> HIDE DEF a
  <2>2. /\ a \in Seq(Job \cup {NULL}) /\ Len(a) = len + (n - len)
        /\ \A i \in 1 .. len + (n - len) : a[i] = IF i <= len THEN s[i] ELSE z[i - len]
    <3>1. /\ s \o z \in Seq(Job \cup {NULL}) /\ Len(s \o z) = Len(s) + Len(z)
          /\ \A i \in 1 .. Len(s) + Len(z) : (s \o z)[i] = IF i <= Len(s) THEN s[i] ELSE z[i - Len(s)]
      BY <1>2, <1>5, ConcatProperties
    <3> QED BY <1>2, <1>5, <2>1, <3>1
  <2>3. ASSUME NEW i \in 1..n, i > len PROVE a[i] = NULL
    <3>1. i - len \in 1..n - len
      BY <1>1, <2>3
    <3>2. a[i] = z[i - len]
      <4>1. i \in 1 .. len + (n - len) /\ ~(i <= len)
        BY <1>1, <2>3
      <4> QED BY <2>2, <4>1
    <3> QED BY <1>5, <3>1, <3>2
  <2>4. \A i \in 1..len : a[i] = s[i]
    <3>1. \A i \in 1..len : i \in 1 .. len + (n - len) /\ i <= len
      BY <1>1
    <3> QED BY <2>2, <3>1
  <2> QED BY <1>1, <2>2, <2>3, <2>4
<1>7. p.array = a /\ p.first_elem = 0 /\ p.next_elem = len /\ p \in TPQueue
  BY <1>1, <1>2, <1>6 DEF Packed, TPQueue
<1> HIDE DEF p, a
<1>8. Slots(p) = 1..len
  BY <1>7 DEF Slots
<1>9. \A i \in 1..len : p.array[i] = q.array[f + i]
  BY <1>2, <1>6, <1>7
<1>10. ASSUME NEW i \in 1..len, NEW k \in 1..len, p.array[i] = p.array[k], p.array[i] # NULL
       PROVE  i = k
  <2>1. f + i \in Slots(q) /\ f + k \in Slots(q) /\ q.array[f + i] = q.array[f + k]
        /\ q.array[f + i] # NULL
    BY <1>3, <1>9, <1>10
  <2>2. f + i = f + k
    BY <2>1 DEF QueueOK
  <2> QED BY <1>1, <2>2
<1>11. QueueOK(p)
  <2>1. \A i \in 1..Len(p.array) : i \notin Slots(p) => p.array[i] = NULL
    BY <1>1, <1>6, <1>7, <1>8
  <2> QED BY <1>1, <1>6, <1>7, <1>8, <1>10, <2>1 DEF QueueOK
<1>12. ASSUME NEW j \in Job PROVE j \in JobsIn(p) <=> j \in JobsIn(q)
  <2>1. ASSUME NEW i \in Slots(p), p.array[i] = j PROVE j \in JobsIn(q)
    BY <1>3, <1>8, <1>9, <2>1 DEF JobsIn
  <2>2. ASSUME NEW i \in Slots(q), q.array[i] = j PROVE j \in JobsIn(p)
    <3>1. i - f \in Slots(p) /\ p.array[i - f] = q.array[i]
      BY <1>4, <1>8, <1>9
    <3> QED BY <2>2, <3>1 DEF JobsIn
  <2> QED BY <2>1, <2>2 DEF JobsIn
<1>13. JobsIn(p) = JobsIn(q)
  BY <1>12 DEF JobsIn
<1> QED BY <1>6, <1>7, <1>11, <1>13 DEF p, s, len

\* A queue that has room.
LEMMA PutFacts ==
    ASSUME NEW q, QueueOK(q), q.next_elem < Len(q.array), NEW j \in Job, j \notin JobsIn(q)
    PROVE  /\ QueueOK(Put(q, j))
           /\ JobsIn(Put(q, j)) = JobsIn(q) \cup {j}
           /\ Put(q, j).next_elem - Put(q, j).first_elem = (q.next_elem - q.first_elem) + 1
<1> DEFINE n == q.next_elem
           p == Put(q, j)
<1>1. /\ q \in TPQueue /\ q.array \in Seq(Job \cup {NULL}) /\ q.first_elem \in Nat /\ n \in Nat
      /\ q.first_elem <= n /\ n < Len(q.array) /\ Len(q.array) \in Nat
  BY DEF QueueOK, TPQueue
<1>2. n + 1 \in 1..Len(q.array)
  BY <1>1
<1>3. /\ p.first_elem = q.first_elem /\ p.next_elem = n + 1
      /\ p.array = [q.array EXCEPT ![n + 1] = j] /\ p \in TPQueue
  <2>1. [q.array EXCEPT ![n + 1] = j] \in Seq(Job \cup {NULL})
    BY <1>1, <1>2, ExceptSeq
  <2>a. p = [q EXCEPT !.array[n + 1] = j, !.next_elem = @ + 1]
    BY DEF Put
  <2> HIDE DEF p
  <2>2. p = [array |-> [q.array EXCEPT ![n + 1] = j], first_elem |-> q.first_elem, next_elem |-> n + 1]
    BY <1>1, <2>a DEF TPQueue
  <2> QED BY <1>1, <2>1, <2>2 DEF TPQueue
<1> HIDE DEF p
<1>4. Len(p.array) = Len(q.array) /\ p.array[n + 1] = j
      /\ \A i \in 1..Len(q.array) : i # n + 1 => p.array[i] = q.array[i]
  BY <1>1, <1>2, <1>3
<1>5. Slots(p) = Slots(q) \cup {n + 1} /\ Slots(q) \subseteq 1..Len(q.array)
      /\ n + 1 \notin Slots(q)
  BY <1>1, <1>3 DEF Slots
<1>6. \A i \in Slots(q) : p.array[i] = q.array[i] /\ q.array[i] # j
  BY <1>4, <1>5 DEF JobsIn
<1>7. QueueOK(p)
  <2>1. \A i \in 1..Len(p.array) : i \notin Slots(p) => p.array[i] = NULL
    BY <1>4, <1>5 DEF QueueOK
  <2>2. \A i, k \in Slots(p) : p.array[i] = p.array[k] /\ p.array[i] # NULL => i = k
    BY <1>4, <1>5, <1>6 DEF QueueOK
  <2> QED BY <1>1, <1>3, <1>4, <2>1, <2>2 DEF QueueOK
<1>8. JobsIn(p) = JobsIn(q) \cup {j}
  BY <1>4, <1>5, <1>6 DEF JobsIn
<1> QED BY <1>1, <1>3, <1>7, <1>8 DEF p

\* append_job: the job comes to those that are in the queue.
LEMMA AppendedFacts ==
    ASSUME NEW q, QueueOK(q), NEW j \in Job, j \notin JobsIn(q)
    PROVE  /\ QueueOK(Appended(q, j))
           /\ JobsIn(Appended(q, j)) = JobsIn(q) \cup {j}
           /\ Appended(q, j).next_elem - Appended(q, j).first_elem = (q.next_elem - q.first_elem) + 1
<1> DEFINE len == Len(q.array)
<1>1. /\ q.first_elem \in Nat /\ q.next_elem \in Nat /\ len \in Nat
      /\ q.first_elem <= q.next_elem /\ q.next_elem <= len
  BY LenProperties DEF QueueOK, TPQueue
<1>2. CASE q.next_elem < len
  <2>1. Appended(q, j) = Put(q, j)
    BY <1>2 DEF Appended
  <2> QED BY <1>2, <2>1, PutFacts
<1>3. CASE ~(q.next_elem < len)
  <2>1. PICK n \in Nat : /\ Appended(q, j) = Put(Packed(Items(q), n), j)
                         /\ q.next_elem - q.first_elem < n
    <3>1. CASE len = 0
      <4>1. Items(q) = <<>>
        BY <1>1, <3>1, SubSeqEmpty DEF Items
      <4>2. Appended(q, j) = Put(Packed(Items(q), INITIAL_QUEUE_LENGTH), j)
        BY <1>3, <3>1, <4>1 DEF Appended
      <4>3. INITIAL_QUEUE_LENGTH \in Nat /\ 0 < INITIAL_QUEUE_LENGTH
        BY PoolAssumption
      <4> QED BY <1>1, <3>1, <4>2, <4>3
    <3>2. CASE len # 0 /\ q.first_elem > 0
      <4>1. Appended(q, j) = Put(Packed(Items(q), len), j)
        BY <1>3, <3>2 DEF Appended
      <4> QED BY <1>1, <3>2, <4>1
    <3>3. CASE len # 0 /\ ~(q.first_elem > 0)
      <4>1. Appended(q, j) = Put(Packed(Items(q), 2 * len), j)
        BY <1>3, <3>3 DEF Appended
      <4>2. 2 * len \in Nat /\ q.next_elem - q.first_elem < 2 * len
        BY <1>1, <3>3
      <4> QED BY <4>1, <4>2
    <3> QED BY <3>1, <3>2, <3>3
  <2>2. PICK p : p = Packed(Items(q), n)
    OBVIOUS
  <2>3. /\ QueueOK(p) /\ JobsIn(p) = JobsIn(q) /\ p.first_elem = 0
        /\ p.next_elem = q.next_elem - q.first_elem /\ Len(p.array) = n
    BY <1>1, <2>1, <2>2, RepackFacts
  <2>4. p.next_elem < Len(p.array) /\ j \notin JobsIn(p)
    BY <2>1, <2>3
  <2>5. /\ QueueOK(Put(p, j)) /\ JobsIn(Put(p, j)) = JobsIn(p) \cup {j}
        /\ Put(p, j).next_elem - Put(p, j).first_elem = (p.next_elem - p.first_elem) + 1
    BY <2>3, <2>4, PutFacts
  <2>6. Appended(q, j) = Put(p, j)
    BY <2>1, <2>2
  <2> QED BY <1>1, <2>3, <2>5, <2>6
<1> QED BY <1>2, <1>3

\* Taking the first element.
LEMMA RestFacts ==
    ASSUME NEW q, QueueOK(q), ~Empty(q), NEW r,
           r = [q EXCEPT !.array[q.first_elem + 1] = NULL, !.first_elem = @ + 1]
    PROVE  /\ HeadOf(q) \in Job \cup {NULL}
           /\ HeadOf(q) # NULL => HeadOf(q) \in JobsIn(q)
           /\ QueueOK(r) /\ JobsIn(r) = JobsIn(q) \ {HeadOf(q)}
           /\ r.next_elem = q.next_elem /\ r.first_elem = q.first_elem + 1
<1> DEFINE f == q.first_elem
           n == q.next_elem
           h == q.array[f + 1]
<1>1. /\ q \in TPQueue /\ q.array \in Seq(Job \cup {NULL}) /\ f \in Nat /\ n \in Nat /\ Len(q.array) \in Nat
      /\ f < n /\ n <= Len(q.array) /\ f + 1 \in 1..Len(q.array) /\ f + 1 \in Slots(q)
  BY LenProperties DEF QueueOK, TPQueue, Empty, Slots
<1>2. HeadOf(q) = h /\ h \in Job \cup {NULL}
  BY <1>1, ElementOfSeq DEF HeadOf
<1>3. r = [array |-> [q.array EXCEPT ![f + 1] = NULL], first_elem |-> f + 1, next_elem |-> n]
  BY <1>1 DEF TPQueue
<1>4. /\ [q.array EXCEPT ![f + 1] = NULL] \in Seq(Job \cup {NULL})
      /\ Len([q.array EXCEPT ![f + 1] = NULL]) = Len(q.array)
      /\ \A i \in 1..Len(q.array) :
           [q.array EXCEPT ![f + 1] = NULL][i] = IF i = f + 1 THEN NULL ELSE q.array[i]
  BY <1>1, ExceptSeq
<1>5. /\ r \in TPQueue /\ r.first_elem = f + 1 /\ r.next_elem = n /\ Len(r.array) = Len(q.array)
      /\ \A i \in 1..Len(q.array) : r.array[i] = IF i = f + 1 THEN NULL ELSE q.array[i]
  BY <1>1, <1>3, <1>4 DEF TPQueue
<1>6. /\ Slots(r) = Slots(q) \ {f + 1} /\ Slots(q) \subseteq 1..Len(q.array)
  BY <1>1, <1>5 DEF Slots
<1>7. \A i \in Slots(r) : r.array[i] = q.array[i] /\ i \in Slots(q) /\ i # f + 1
  BY <1>5, <1>6
<1>8. QueueOK(r)
  <2>1. \A i \in 1..Len(r.array) : i \notin Slots(r) => r.array[i] = NULL
    BY <1>5, <1>6 DEF QueueOK
  <2>2. \A i, k \in Slots(r) : r.array[i] = r.array[k] /\ r.array[i] # NULL => i = k
    BY <1>7 DEF QueueOK
  <2>3. r.first_elem <= r.next_elem /\ r.next_elem <= Len(r.array)
    BY <1>1, <1>5
  <2> QED BY <1>5, <2>1, <2>2, <2>3 DEF QueueOK
<1>9. ASSUME NEW j \in Job PROVE j \in JobsIn(r) <=> j \in JobsIn(q) /\ j # h
  <2>1. NULL # j
    BY NullFacts
  <2>2. ASSUME NEW i \in Slots(r), r.array[i] = j PROVE j \in JobsIn(q) /\ j # h
    <3>1. q.array[i] = j /\ i \in Slots(q) /\ i # f + 1
      BY <1>7, <2>2
    <3> QED BY <1>1, <2>1, <3>1 DEF QueueOK, JobsIn
  <2>3. ASSUME NEW i \in Slots(q), q.array[i] = j, j # h PROVE j \in JobsIn(r)
    <3>1. i # f + 1
      BY <2>3
    <3> QED BY <1>6, <1>7, <2>3, <3>1 DEF JobsIn
  <2> QED BY <2>2, <2>3 DEF JobsIn
<1>10. JobsIn(r) = JobsIn(q) \ {h}
  BY <1>9 DEF JobsIn
<1>11. h # NULL => h \in JobsIn(q)
  BY <1>1, <1>2 DEF JobsIn
<1> QED BY <1>2, <1>5, <1>8, <1>10, <1>11

\* dequeue_job: the first element leaves the queue, the others stay.
LEMMA DequeuedFacts ==
    ASSUME NEW q, QueueOK(q)
    PROVE  /\ HeadOf(q) \in Job \cup {NULL}
           /\ HeadOf(q) # NULL => HeadOf(q) \in JobsIn(q)
           /\ QueueOK(AfterDequeue(q))
           /\ JobsIn(AfterDequeue(q)) = JobsIn(q) \ {HeadOf(q)}
           /\ AfterDequeue(q).next_elem - AfterDequeue(q).first_elem =
                IF Empty(q) THEN 0 ELSE (q.next_elem - q.first_elem) - 1
<1>1. /\ q.first_elem \in Nat /\ q.next_elem \in Nat /\ Len(q.array) \in Nat
      /\ q.first_elem <= q.next_elem /\ q.next_elem <= Len(q.array)
  BY LenProperties DEF QueueOK, TPQueue
<1>2. CASE Empty(q)
  <2>1. HeadOf(q) = NULL /\ AfterDequeue(q) = q
    BY <1>2 DEF HeadOf, AfterDequeue
  <2>2. NULL \notin JobsIn(q)
    BY NullFacts DEF JobsIn
  <2>3. q.next_elem - q.first_elem = 0
    BY <1>1, <1>2 DEF Empty
  <2> QED BY <1>2, <2>1, <2>2, <2>3
<1>3. CASE ~Empty(q)
  <2>1. PICK r : r = [q EXCEPT !.array[q.first_elem + 1] = NULL, !.first_elem = @ + 1]
    OBVIOUS
  <2>2. /\ HeadOf(q) \in Job \cup {NULL}
        /\ HeadOf(q) # NULL => HeadOf(q) \in JobsIn(q)
        /\ QueueOK(r) /\ JobsIn(r) = JobsIn(q) \ {HeadOf(q)}
        /\ r.next_elem = q.next_elem /\ r.first_elem = q.first_elem + 1
    BY <1>3, <2>1, RestFacts
  <2>3. r.next_elem - r.first_elem = (q.next_elem - q.first_elem) - 1
    BY <1>1, <2>2
  <2>4. /\ QueueOK(Dequeued(q)) /\ JobsIn(Dequeued(q)) = JobsIn(r)
        /\ Dequeued(q).next_elem - Dequeued(q).first_elem = r.next_elem - r.first_elem
    <3>1. CASE Len(q.array) > INITIAL_QUEUE_LENGTH /\ r.next_elem - r.first_elem < Len(q.array) \div 3
      <4>1. PICK n : n = Len(q.array) \div 2
        OBVIOUS
      <4>2. n \in Nat /\ r.next_elem - r.first_elem <= n
        <5>1. \A k \in Nat : k \div 2 \in Nat /\ k \div 3 \in Nat /\ k \div 3 <= k \div 2
          OBVIOUS
        <5>2. PICK k \in Nat : k = Len(q.array)
          BY <1>1
        <5>3. PICK c \in Int : c = r.next_elem - r.first_elem
          BY <1>1, <2>2
        <5>4. n = k \div 2 /\ c < k \div 3
          BY <3>1, <4>1, <5>2, <5>3
        <5>5. n \in Nat /\ c <= n
          BY <5>1, <5>4
        <5> QED BY <5>3, <5>5
      <4>3. Dequeued(q) = Packed(Items(r), n)
        BY <2>1, <3>1, <4>1 DEF Dequeued
      <4>4. /\ QueueOK(Packed(Items(r), n)) /\ JobsIn(Packed(Items(r), n)) = JobsIn(r)
            /\ Packed(Items(r), n).first_elem = 0
            /\ Packed(Items(r), n).next_elem = r.next_elem - r.first_elem
        BY <2>2, <4>2, RepackFacts
      <4> QED BY <1>1, <2>2, <4>3, <4>4
    <3>2. CASE ~(Len(q.array) > INITIAL_QUEUE_LENGTH /\ r.next_elem - r.first_elem < Len(q.array) \div 3)
      <4>1. Dequeued(q) = r
        BY <2>1, <3>2 DEF Dequeued
      <4> QED BY <2>2, <4>1
    <3> QED BY <3>1, <3>2
  <2>5. AfterDequeue(q) = Dequeued(q)
    BY <1>3 DEF AfterDequeue
  <2> QED BY <1>3, <2>2, <2>3, <2>4, <2>5
<1> QED BY <1>2, <1>3

\* clear_queue, of a domain that has all jobs or none: all are removed or none is.
LEMMA ClearedFacts ==
    ASSUME NEW q, QueueOK(q), NEW d \in Domain, Alone(d)
    PROVE  /\ QueueOK(Cleared(q, d))
           /\ JobsIn(Cleared(q, d)) = {j \in JobsIn(q) : DomainOf[j] # d}
           /\ ClearedCount(q, d) = Cardinality({j \in JobsIn(q) : DomainOf[j] = d})
           /\ ClearedCount(q, d) \in Nat
           /\ Cleared(q, d).next_elem - Cleared(q, d).first_elem <= q.next_elem - q.first_elem
<1> DEFINE f == q.first_elem
           n == q.next_elem
           len == Len(q.array)
           J == {j \in JobsIn(q) : DomainOf[j] = d}
<1>1. /\ q \in TPQueue /\ q.array \in Seq(Job \cup {NULL}) /\ f \in Nat /\ n \in Nat /\ len \in Nat
      /\ f <= n /\ n <= len /\ DOMAIN q.array = 1..len
  BY LenProperties DEF QueueOK, TPQueue
<1>2. /\ Slots(q) \subseteq 1..len
      /\ \A i \in Slots(q) : q.array[i] \in Job \cup {NULL}
  BY <1>1, ElementOfSeq DEF Slots
<1>3. IsFiniteSet(Slots(q)) /\ Cardinality(Slots(q)) = n - f
  <2>1. f + 1 \in Int /\ n \in Int
    BY <1>1
  <2>2. IsFiniteSet(Slots(q)) /\ Cardinality(Slots(q)) = IF f + 1 > n THEN 0 ELSE n - (f + 1) + 1
    BY <2>1, FS_Interval DEF Slots
  <2> QED BY <1>1, <2>2
<1>4. IsFiniteSet(Mine(q, d)) /\ Cardinality(Mine(q, d)) <= n - f /\ Cardinality(Mine(q, d)) \in Nat
  <2>1. Mine(q, d) \in SUBSET Slots(q)
    BY DEF Mine
  <2>2. IsFiniteSet(Mine(q, d)) /\ Cardinality(Mine(q, d)) <= Cardinality(Slots(q))
    BY <1>3, <2>1, FS_Subset
  <2> QED BY <1>3, <2>2, FS_CardinalityType
<1>5. \A i \in Mine(q, d) : /\ i \in Slots(q) /\ q.array[i] \in Job /\ q.array[i] # NULL
                            /\ DomainOf[q.array[i]] = d
  BY <1>2 DEF Mine
<1>6. Cardinality(Mine(q, d)) = Cardinality(J)
  <2> DEFINE g == [i \in Mine(q, d) |-> q.array[i]]
  <2>1. g \in [Mine(q, d) -> J]
    BY <1>5 DEF JobsIn
  <2>2. ASSUME NEW i \in Mine(q, d), NEW k \in Mine(q, d), g[i] = g[k] PROVE i = k
    <3>1. q.array[i] = q.array[k] /\ q.array[i] # NULL /\ i \in Slots(q) /\ k \in Slots(q)
      BY <1>5, <2>2
    <3> QED BY <3>1 DEF QueueOK
  <2>3. ASSUME NEW j \in J PROVE \E i \in Mine(q, d) : g[i] = j
    <3>1. PICK i \in Slots(q) : q.array[i] = j
      BY <2>3 DEF JobsIn
    <3>2. j # NULL /\ DomainOf[j] = d
      BY <2>3, NullFacts DEF JobsIn
    <3>3. i \in Mine(q, d)
      BY <3>1, <3>2 DEF Mine
    <3> QED BY <3>1, <3>3
  <2> HIDE DEF g, J
  <2>4. g \in Bijection(Mine(q, d), J)
    BY <2>1, <2>2, <2>3 DEF Bijection, Injection, Surjection, IsInjective
  <2>5. ExistsBijection(Mine(q, d), J)
    BY <2>4 DEF ExistsBijection
  <2> QED BY <1>4, <2>5, FS_Bijection
<1>7. CASE Mine(q, d) = {}
  <2>1. Cleared(q, d) = q
    BY <1>7 DEF Cleared
  <2>2. ASSUME NEW j \in JobsIn(q) PROVE DomainOf[j] # d
    <3>1. PICK i \in Slots(q) : q.array[i] = j
      BY DEF JobsIn
    <3>2. j # NULL
      BY NullFacts DEF JobsIn
    <3> QED BY <1>7, <3>1, <3>2 DEF Mine
  <2>3. n - f <= n - f
    BY <1>1
  <2> QED BY <1>4, <1>6, <2>1, <2>2, <2>3 DEF ClearedCount
<1>8. CASE Mine(q, d) # {}
  <2>1. \A j \in Job : DomainOf[j] = d
    <3>1. PICK i : i \in Mine(q, d)
      BY <1>8
    <3>2. q.array[i] \in Job /\ DomainOf[q.array[i]] = d
      BY <1>5, <3>1
    <3> QED BY <3>2 DEF Alone
  <2>2. \A i \in 1..len : i \notin Mine(q, d) => q.array[i] = NULL
    BY <1>2, <2>1 DEF Mine, QueueOK
  <2>3. PICK p : p = Cleared(q, d)
    OBVIOUS
  <2>4. PICK kept : kept = SelectSeq(Items(q), LAMBDA j : j # NULL /\ DomainOf[j] # d)
    OBVIOUS
  <2>5. {i \in Slots(q) : q.array[i] # NULL /\ DomainOf[q.array[i]] # d} = {}
    BY <1>2, <2>1
  <2>6. p = [array |-> [i \in DOMAIN q.array |->
                          IF i <= Cardinality({}) THEN kept[i]
                          ELSE IF i \in Mine(q, d) THEN NULL ELSE q.array[i]],
             first_elem |-> 0, next_elem |-> Cardinality(Mine(q, d))]
    BY <1>8, <2>3, <2>4, <2>5 DEF Cleared, ClearedCount
  <2>7. \A i \in 1..len : ~(i <= Cardinality({}))
    BY <1>1, FS_EmptySet
  <2>8. p = [array |-> [i \in 1..len |-> NULL], first_elem |-> 0, next_elem |-> Cardinality(Mine(q, d))]
    BY <1>1, <2>2, <2>6, <2>7
  <2>9. [i \in 1..len |-> NULL] \in Seq(Job \cup {NULL}) /\ Len([i \in 1..len |-> NULL]) = len
    BY <1>1
  <2>10. /\ p \in TPQueue /\ p.first_elem = 0 /\ p.next_elem = Cardinality(Mine(q, d))
         /\ Len(p.array) = len /\ \A i \in 1..len : p.array[i] = NULL
    BY <1>1, <1>4, <2>8, <2>9 DEF TPQueue
  <2>11. p.first_elem <= p.next_elem /\ p.next_elem <= len /\ p.next_elem - p.first_elem <= n - f
         /\ Slots(p) \subseteq 1..len
    BY <1>1, <1>4, <2>10 DEF Slots
  <2>12. QueueOK(p)
    BY <2>10, <2>11 DEF QueueOK
  <2>13. JobsIn(p) = {}
    BY <2>10, <2>11, NullFacts DEF JobsIn
  <2>14. {j \in JobsIn(q) : DomainOf[j] # d} = {}
    BY <2>1 DEF JobsIn
  <2> QED BY <1>4, <1>6, <2>3, <2>11, <2>12, <2>13, <2>14 DEF ClearedCount
<1> QED BY <1>7, <1>8

-----------------------------------------------------------------------------
\* Cardinalities.

LEMMA CardSub ==
    ASSUME NEW S, NEW T, IsFiniteSet(S), T \subseteq S
    PROVE  /\ Cardinality(S) \in Nat /\ Cardinality(T) \in Nat /\ Cardinality(T) <= Cardinality(S)
BY FS_Subset, FS_CardinalityType

LEMMA CardGrow ==
    ASSUME NEW S, NEW T, NEW x, IsFiniteSet(S), T \subseteq S \cup {x}
    PROVE  /\ Cardinality(S) \in Nat /\ Cardinality(T) \in Nat /\ Cardinality(T) <= Cardinality(S) + 1
<1>1. /\ IsFiniteSet(S \cup {x})
      /\ Cardinality(S \cup {x}) = IF x \in S THEN Cardinality(S) ELSE Cardinality(S) + 1
  BY FS_AddElement
<1>2. Cardinality(T) \in Nat /\ Cardinality(T) <= Cardinality(S \cup {x})
  BY <1>1, CardSub
<1>3. Cardinality(S) \in Nat
  BY FS_CardinalityType
<1> QED BY <1>1, <1>2, <1>3

LEMMA CardShrink ==
    ASSUME NEW S, NEW T, NEW x \in S, IsFiniteSet(S), T \subseteq S \ {x}
    PROVE  /\ Cardinality(S) \in Nat /\ Cardinality(T) \in Nat /\ Cardinality(T) <= Cardinality(S) - 1
<1>1. IsFiniteSet(S \ {x}) /\ Cardinality(S \ {x}) = Cardinality(S) - 1
  BY FS_RemoveElement
<1>2. Cardinality(T) \in Nat /\ Cardinality(T) <= Cardinality(S \ {x})
  BY <1>1, CardSub
<1>3. Cardinality(S) \in Nat
  BY FS_CardinalityType
<1> QED BY <1>1, <1>2, <1>3

LEMMA FiniteSubsets == \A T : T \subseteq Job \/ T \subseteq Worker => IsFiniteSet(T)
BY NullFacts, PoolAssumption, FS_Subset

LEMMA CountsFacts ==
    ASSUME NEW d
    PROVE  /\ IsFiniteSet(QueueCounts(d)) /\ IsFiniteSet(ClientCounts(d))
           /\ IsFiniteSet(StarterCounts(d)) /\ IsFiniteSet(WorkerCounts(d))
           /\ Cardinality(QueueCounts(d)) \in Nat /\ Cardinality(ClientCounts(d)) \in Nat
           /\ Cardinality(StarterCounts(d)) \in Nat /\ Cardinality(WorkerCounts(d)) \in Nat
<1>1. /\ QueueCounts(d) \subseteq Job /\ ClientCounts(d) \subseteq Job
      /\ StarterCounts(d) \subseteq Job /\ WorkerCounts(d) \subseteq Worker
  BY DEF QueueCounts, ClientCounts, StarterCounts, WorkerCounts
<1>2. /\ IsFiniteSet(QueueCounts(d)) /\ IsFiniteSet(ClientCounts(d))
      /\ IsFiniteSet(StarterCounts(d)) /\ IsFiniteSet(WorkerCounts(d))
  BY <1>1, FiniteSubsets
<1> QED BY <1>2, FS_CardinalityType

\* The sets of the other invariants.
LEMMA PoolSets ==
    /\ IsFiniteSet(Started) /\ IsFiniteSet(Working) /\ IsFiniteSet(Woken) /\ IsFiniteSet(Releasing)
    /\ Cardinality(Started) \in Nat /\ Cardinality(Working) \in Nat
    /\ Cardinality(Woken) \in Nat /\ Cardinality(Releasing) \in Nat
<1>1. Started \subseteq Worker /\ Working \subseteq Worker /\ Woken \subseteq Worker /\ Releasing \subseteq Job
  BY DEF Started, Working, Woken, Releasing
<1>2. IsFiniteSet(Started) /\ IsFiniteSet(Working) /\ IsFiniteSet(Woken) /\ IsFiniteSet(Releasing)
  BY <1>1, FiniteSubsets
<1> QED BY <1>2, FS_CardinalityType

-----------------------------------------------------------------------------
\* What the parts of the actions do.

\* The states of the domains and whether their semaphores exist do not change.
SameState ==
    \A d \in Domain :
        /\ domain'[d].state = domain[d].state
        /\ domain'[d].cleanup_semaphore = NULL <=> domain[d].cleanup_semaphore = NULL

LEMMA GotoEffect ==
    ASSUME TypeOK, NEW w \in Worker, NEW pc \in WorkerPc, Goto(w, pc)
    PROVE  /\ worker' \in [Worker -> WorkerState]
           /\ worker'[w].pc = pc /\ worker'[w].data = worker[w].data
           /\ \A v \in Worker \ {w} : worker'[v] = worker[v]
BY DEF TypeOK, WorkerState, Goto

LEMMA DataEffect ==
    ASSUME TypeOK, NEW w \in Worker, NEW pc \in WorkerPc, NEW data \in Job \cup {NULL},
           worker' = [worker EXCEPT ![w].pc = pc, ![w].data = data]
    PROVE  /\ worker' \in [Worker -> WorkerState]
           /\ worker'[w].pc = pc /\ worker'[w].data = data
           /\ \A v \in Worker \ {w} : worker'[v] = worker[v]
BY DEF TypeOK, WorkerState

LEMMA DropEffect ==
    ASSUME TypeOK, NEW w \in Worker, NEW pc \in WorkerPc, Drop(w, pc)
    PROVE  /\ worker' \in [Worker -> WorkerState]
           /\ worker'[w].pc = pc /\ worker'[w].data = NULL
           /\ \A v \in Worker \ {w} : worker'[v] = worker[v]
BY DataEffect DEF Drop

LEMMA ClientEffect ==
    ASSUME TypeOK, NEW j \in Job, NEW pc \in ClientPc, Client(j, pc)
    PROVE  /\ client' \in [Job -> ClientPc] /\ client'[j] = pc
           /\ \A i \in Job \ {j} : client'[i] = client[i]
BY DEF TypeOK, Client

LEMMA IncEffect ==
    ASSUME TypeOK, NEW j \in Job, domain' = JobsInc(j)
    PROVE  /\ domain' \in [Domain -> DomainState] /\ SameState
           /\ \A d \in Domain : domain'[d].threadpool_jobs =
                IF d = DomainOf[j] THEN domain[d].threadpool_jobs + 1 ELSE domain[d].threadpool_jobs
<1>1. PICK e \in Domain : e = DomainOf[j]
  BY PoolAssumption
<1>2. domain' = [domain EXCEPT ![e].threadpool_jobs = @ + 1]
  BY <1>1 DEF JobsInc
<1>3. domain \in [Domain -> DomainState] /\ domain[e].threadpool_jobs + 1 \in Nat
  BY <1>1 DEF TypeOK, DomainState
<1>4. domain' \in [Domain -> DomainState]
  BY <1>2, <1>3 DEF DomainState
<1>5. \A d \in Domain : /\ domain'[d].state = domain[d].state
                        /\ domain'[d].cleanup_semaphore = domain[d].cleanup_semaphore
                        /\ domain'[d].threadpool_jobs = IF d = e THEN domain[d].threadpool_jobs + 1
                                                        ELSE domain[d].threadpool_jobs
  BY <1>2, <1>3 DEF DomainState
<1> QED BY <1>1, <1>4, <1>5 DEF SameState

LEMMA DecEffect ==
    ASSUME TypeOK, NEW j \in Job, domain' = JobsDec(j), domain[DomainOf[j]].threadpool_jobs > 0
    PROVE  /\ domain' \in [Domain -> DomainState] /\ SameState
           /\ \A d \in Domain : domain'[d].threadpool_jobs =
                IF d = DomainOf[j] THEN domain[d].threadpool_jobs - 1 ELSE domain[d].threadpool_jobs
<1>1. PICK e \in Domain : e = DomainOf[j]
  BY PoolAssumption
<1>2. domain' = [domain EXCEPT ![e].threadpool_jobs = @ - 1]
  BY <1>1 DEF JobsDec
<1>3. domain \in [Domain -> DomainState] /\ domain[e].threadpool_jobs - 1 \in Nat
  BY <1>1 DEF TypeOK, DomainState
<1>4. domain' \in [Domain -> DomainState]
  BY <1>2, <1>3 DEF DomainState
<1>5. \A d \in Domain : /\ domain'[d].state = domain[d].state
                        /\ domain'[d].cleanup_semaphore = domain[d].cleanup_semaphore
                        /\ domain'[d].threadpool_jobs = IF d = e THEN domain[d].threadpool_jobs - 1
                                                        ELSE domain[d].threadpool_jobs
  BY <1>2, <1>3 DEF DomainState
<1> QED BY <1>1, <1>4, <1>5 DEF SameState

LEMMA PulseEffect ==
    ASSUME TypeOK, NEW j \in Job, domain' = Pulse(j)
    PROVE  /\ domain' \in [Domain -> DomainState] /\ SameState
           /\ \A d \in Domain : domain'[d].threadpool_jobs = domain[d].threadpool_jobs
<1>1. PICK e \in Domain : e = DomainOf[j]
  BY PoolAssumption
<1>2. domain \in [Domain -> DomainState]
  BY DEF TypeOK
<1>3. CASE domain[e].cleanup_semaphore = NULL
  <2>1. domain' = domain
    BY <1>1, <1>3 DEF Pulse, Waited
  <2> QED BY <1>2, <2>1 DEF SameState
<1>4. CASE domain[e].cleanup_semaphore # NULL
  <2>1. domain' = [domain EXCEPT ![e].cleanup_semaphore = 1]
    BY <1>1, <1>4 DEF Pulse, Waited
  <2>2. domain' \in [Domain -> DomainState]
    BY <1>2, <2>1 DEF DomainState
  <2>3. \A d \in Domain : /\ domain'[d].state = domain[d].state
                          /\ domain'[d].threadpool_jobs = domain[d].threadpool_jobs
                          /\ domain'[d].cleanup_semaphore = IF d = e THEN 1 ELSE domain[d].cleanup_semaphore
    BY <1>2, <2>1 DEF DomainState
  <2>4. SameState
    BY <1>4, <2>3, NullFacts DEF SameState
  <2> QED BY <2>2, <2>3, <2>4
<1> QED BY <1>3, <1>4

\* start_tpthread, with a job or without.
LEMMA StartEffect ==
    ASSUME TypeOK, NEW data \in Job \cup {NULL}, StartTpThread(data)
    PROVE  /\ worker' \in [Worker -> WorkerState]
           /\ \E w \in Worker : /\ worker[w].pc = "off" /\ worker'[w].pc = "top" /\ worker'[w].data = data
                                /\ \A v \in Worker \ {w} : worker'[v] = worker[v]
           /\ domain' \in [Domain -> DomainState] /\ SameState
           /\ \A d \in Domain : domain'[d].threadpool_jobs =
                IF data # NULL /\ d = DomainOf[data] THEN domain[d].threadpool_jobs + 1
                ELSE domain[d].threadpool_jobs
<1>1. PICK w \in Worker : /\ worker[w].pc = "off"
                          /\ worker' = [worker EXCEPT ![w] = [pc |-> "top", data |-> data, abort |-> FALSE]]
  BY DEF StartTpThread
<1>2. /\ worker' \in [Worker -> WorkerState]
      /\ worker'[w].pc = "top" /\ worker'[w].data = data
      /\ \A v \in Worker \ {w} : worker'[v] = worker[v]
  BY <1>1 DEF TypeOK, WorkerState, WorkerPc
<1>3. /\ domain' \in [Domain -> DomainState] /\ SameState
      /\ \A d \in Domain : domain'[d].threadpool_jobs =
           IF data # NULL /\ d = DomainOf[data] THEN domain[d].threadpool_jobs + 1
           ELSE domain[d].threadpool_jobs
  <2>1. CASE data = NULL
    <3>1. domain' = domain
      BY <2>1 DEF StartTpThread
    <3> QED BY <2>1, <3>1 DEF TypeOK, SameState
  <2>2. CASE data # NULL
    <3>1. data \in Job /\ domain' = JobsInc(data)
      BY <2>2 DEF StartTpThread
    <3> QED BY <2>2, <3>1, IncEffect
  <2> QED BY <2>1, <2>2
<1> QED BY <1>1, <1>2, <1>3

-----------------------------------------------------------------------------
\* What leaves an invariant as it is.

LEMMA DomainFrame ==
    ASSUME DomainInv, SameState, UNCHANGED unload
    PROVE  DomainInv' /\ \A d \in Domain : Doomed(d)' <=> Doomed(d)
BY DEF DomainInv, SameState, Doomed

LEMMA QueueFrame ==
    ASSUME UNCHANGED queue
    PROVE  /\ QueueInv => QueueInv'
           /\ \A i \in Job : InQueue(i)' <=> InQueue(i)
BY DEF QueueInv, InQueue

LEMMA StarterFrame ==
    ASSUME TypeOK, StarterInv, UNCHANGED <<starter, tp_idle_started>>,
           \A i \in Job : client[i] = "done" => client'[i] = "done"
    PROVE  StarterInv' /\ \A i \in Job : AtStarter(i)' <=> AtStarter(i)
BY DEF TypeOK, StarterState, StarterInv, AtStarter

LEMMA WorkerFrame ==
    ASSUME TypeOK, NEW v \in Worker, WorkerOK(v), worker'[v].pc = worker[v].pc, worker'[v].data = worker[v].data,
           \A d \in Domain : Doomed(d) => Doomed(d)'
    PROVE  WorkerOK(v)'
<1>1. worker[v].data \in Job \cup {NULL}
  BY DEF TypeOK, WorkerState
<1>2. worker[v].pc \in {"refuse", "refused"} => worker[v].data \in Job
  BY <1>1 DEF WorkerOK, JobPc
<1>3. worker[v].pc \in {"refuse", "refused"} => DomainOf[worker[v].data] \in Domain
  BY <1>2, PoolAssumption
<1>4. worker[v].pc \in {"refuse", "refused"} => Doomed(DomainOf[worker[v].data])'
  BY <1>3 DEF WorkerOK
<1> QED BY <1>4 DEF WorkerOK

LEMMA PlaceFrame ==
    ASSUME PlaceInv,
           \A i \in Job : /\ AtClient(i)' => AtClient(i)
                          /\ AtStarter(i)' => AtStarter(i)
                          /\ InQueue(i)' => InQueue(i),
           \A v \in Worker : worker'[v].data \in {worker[v].data, NULL}
    PROVE  PlaceInv'
<1> SUFFICES ASSUME NEW i \in Job PROVE Placed(i)'
  BY DEF PlaceInv
<1>1. \A v \in Worker : AtWorker(i, v)' => AtWorker(i, v)
  BY NullFacts DEF AtWorker
<1> QED BY <1>1 DEF PlaceInv, Placed

LEMMA CountFrame ==
    ASSUME CountInv, TypeOK, NEW d \in Domain,
           QueueCounts(d)' \subseteq QueueCounts(d), ClientCounts(d)' \subseteq ClientCounts(d),
           StarterCounts(d)' \subseteq StarterCounts(d), WorkerCounts(d)' \subseteq WorkerCounts(d),
           domain'[d].threadpool_jobs \in Nat,
           domain'[d].threadpool_jobs >= domain[d].threadpool_jobs
    PROVE  domain'[d].threadpool_jobs >= Counts(d)'
<1>1. /\ Cardinality(QueueCounts(d)) \in Nat /\ Cardinality(QueueCounts(d)') \in Nat
      /\ Cardinality(QueueCounts(d)') <= Cardinality(QueueCounts(d))
  BY CountsFacts, CardSub
<1>2. /\ Cardinality(ClientCounts(d)) \in Nat /\ Cardinality(ClientCounts(d)') \in Nat
      /\ Cardinality(ClientCounts(d)') <= Cardinality(ClientCounts(d))
  BY CountsFacts, CardSub
<1>3. /\ Cardinality(StarterCounts(d)) \in Nat /\ Cardinality(StarterCounts(d)') \in Nat
      /\ Cardinality(StarterCounts(d)') <= Cardinality(StarterCounts(d))
  BY CountsFacts, CardSub
<1>4. /\ Cardinality(WorkerCounts(d)) \in Nat /\ Cardinality(WorkerCounts(d)') \in Nat
      /\ Cardinality(WorkerCounts(d)') <= Cardinality(WorkerCounts(d))
  BY CountsFacts, CardSub
<1>5. domain[d].threadpool_jobs \in Nat /\ domain[d].threadpool_jobs >= Counts(d)
  BY DEF TypeOK, DomainState, CountInv
<1> QED BY <1>1, <1>2, <1>3, <1>4, <1>5 DEF Counts

LEMMA PoolFrame ==
    ASSUME PoolInv, TypeOK, UNCHANGED <<mono_worker_threads, busy_worker_threads>>,
           \A v \in Worker : /\ worker'[v].data \in {worker[v].data, NULL}
                             /\ worker'[v].pc = "off" <=> worker[v].pc = "off"
                             /\ worker[v].pc = "taken" => worker'[v].pc = "taken"
    PROVE  PoolInv'
<1>1. Started' = Started /\ Working' \subseteq Working
  BY DEF Started, Working
<1>2. /\ Cardinality(Working) \in Nat /\ Cardinality(Working') \in Nat
      /\ Cardinality(Working') <= Cardinality(Working)
  BY <1>1, PoolSets, CardSub
<1>3. busy_worker_threads \in Nat
  BY DEF TypeOK
<1> QED BY <1>1, <1>2, <1>3 DEF PoolInv

LEMMA WakeFrame ==
    ASSUME WakeInv, TypeOK, QueueInv', job_added' \in Nat, job_added' >= job_added,
           queue'.next_elem - queue'.first_elem <= queue.next_elem - queue.first_elem,
           Releasing' = Releasing, Woken' = Woken
    PROVE  WakeInv'
<1>1. Cardinality(Releasing) \in Nat /\ Cardinality(Woken) \in Nat
  BY PoolSets
<1>2. /\ queue.next_elem \in Nat /\ queue.first_elem \in Nat /\ job_added \in Nat
      /\ queue'.next_elem \in Nat /\ queue'.first_elem \in Nat
  BY DEF TypeOK, QueueInv, QueueOK, TPQueue
<1> QED BY <1>1, <1>2 DEF WakeInv

LEMMA RanFrame ==
    ASSUME RanInv, TypeOK, UNCHANGED ran, \A d \in Domain : Doomed(d) => Doomed(d)',
           \A i \in Job : AtClient(i)' \/ AtStarter(i)' \/ InQueue(i)'
                          <=> AtClient(i) \/ AtStarter(i) \/ InQueue(i),
           \A v \in Worker : /\ worker'[v].data = worker[v].data
                             /\ worker'[v].data # NULL =>
                                  (worker'[v].pc \in {"run", "pop"} <=> worker[v].pc \in {"run", "pop"})
    PROVE  RanInv'
<1> SUFFICES ASSUME NEW i \in Job PROVE RanOK(i)'
  BY DEF RanInv
<1>1. RanOK(i) /\ DomainOf[i] \in Domain /\ i # NULL
  BY NullFacts, PoolAssumption DEF RanInv
<1>2. \A v \in Worker : AtWorker(i, v)' <=> AtWorker(i, v)
  BY DEF AtWorker
<1>3. \A v \in Worker : AtWorker(i, v) => (worker'[v].pc \in {"run", "pop"} <=> worker[v].pc \in {"run", "pop"})
  BY <1>1 DEF AtWorker
<1>4. Doomed(DomainOf[i]) => Doomed(DomainOf[i])'
  BY <1>1
<1> QED BY <1>1, <1>2, <1>3, <1>4 DEF RanOK

LEMMA UnloadFrame ==
    ASSUME UnloadInv, TypeOK, UNCHANGED <<unload, starter, worker>>,
           \A i \in Job : /\ InQueue(i)' => InQueue(i)
                          /\ \/ client'[i] = client[i] \/ client'[i] \in {"new", "done"}
                             \/ client[i] \notin {"new", "done"}
                             \/ unload[DomainOf[i]] \notin Past
    PROVE  UnloadInv'
<1> SUFFICES ASSUME NEW i \in Job PROVE UnloadOK(i)'
  BY DEF UnloadInv
<1>1. UnloadOK(i) /\ (InQueue(i)' => InQueue(i))
      /\ \/ client'[i] = client[i] \/ client'[i] \in {"new", "done"}
         \/ client[i] \notin {"new", "done"}
         \/ unload[DomainOf[i]] \notin Past
  BY DEF UnloadInv
<1> QED BY <1>1 DEF UnloadOK, AtWorker

-----------------------------------------------------------------------------
\* The thread that submits a job.

\* The steps that only move this thread.
LEMMA ClientMoves ==
    ASSUME IInv, NEW j \in Job, NEW pc \in {"start", "thread", "inc", "done"}, Client(j, pc),
           UNCHANGED <<poolVars, starter, worker, domain, unload, ran>>,
           client[j] \in {"new", "start"},
           client[j] = "new" => unload[DomainOf[j]] \notin Past,
           pc = "done" => Doomed(DomainOf[j])
    PROVE  IInv'
<1>1. /\ TypeOK /\ QueueInv /\ DomainInv /\ StarterInv /\ WorkerInv /\ PlaceInv /\ RanInv
      /\ UnloadInv /\ CountInv /\ PoolInv /\ WakeInv
  BY DEF IInv
<1>2. /\ client' \in [Job -> ClientPc] /\ client'[j] = pc
      /\ \A i \in Job \ {j} : client'[i] = client[i]
  BY <1>1, ClientEffect DEF ClientPc
<1>3. UNCHANGED <<queue, job_added, tp_idle_started, mono_worker_threads, busy_worker_threads>>
  BY DEF poolVars
<1>4. SameState
  BY DEF SameState
<1>5. DomainInv' /\ \A d \in Domain : Doomed(d)' <=> Doomed(d)
  BY <1>1, <1>4, DomainFrame
<1>6. QueueInv' /\ \A i \in Job : InQueue(i)' <=> InQueue(i)
  BY <1>1, <1>3, QueueFrame
<1>7. TypeOK'
  BY <1>1, <1>2, <1>3 DEF TypeOK
<1>8. StarterInv' /\ \A i \in Job : AtStarter(i)' <=> AtStarter(i)
  BY <1>1, <1>2, <1>3, StarterFrame
<1>9. WorkerInv'
  BY <1>1, <1>5, WorkerFrame DEF WorkerInv
<1>10. \A i \in Job : AtClient(i)' => AtClient(i)
  BY <1>2 DEF AtClient, EarlyPc
<1>11. PlaceInv'
  BY <1>1, <1>6, <1>8, <1>10, PlaceFrame
<1>12. ASSUME NEW i \in Job PROVE RanOK(i)'
  <2>1. RanOK(i) /\ DomainOf[i] \in Domain
    BY <1>1, PoolAssumption DEF RanInv
  <2>2. AtClient(i) => AtClient(i)' \/ Doomed(DomainOf[i])
    BY <1>2 DEF AtClient, EarlyPc
  <2>3. \A v \in Worker : AtWorker(i, v)' <=> AtWorker(i, v)
    BY DEF AtWorker
  <2>4. Doomed(DomainOf[i])' <=> Doomed(DomainOf[i])
    BY <1>5, <2>1
  <2> QED BY <1>6, <1>8, <1>10, <2>1, <2>2, <2>3, <2>4 DEF RanOK
<1>13. UnloadInv'
  BY <1>1, <1>2, <1>6, UnloadFrame
<1>14. CountInv'
  <2> SUFFICES ASSUME NEW d \in Domain PROVE domain'[d].threadpool_jobs >= Counts(d)'
    BY DEF CountInv
  <2>1. QueueCounts(d)' \subseteq QueueCounts(d) /\ ClientCounts(d)' \subseteq ClientCounts(d)
        /\ StarterCounts(d)' \subseteq StarterCounts(d) /\ WorkerCounts(d)' \subseteq WorkerCounts(d)
    BY <1>2, <1>6 DEF QueueCounts, ClientCounts, StarterCounts, WorkerCounts
  <2>2. domain'[d].threadpool_jobs \in Nat /\ domain'[d].threadpool_jobs >= domain[d].threadpool_jobs
    BY <1>1 DEF TypeOK, DomainState
  <2> QED BY <1>1, <2>1, <2>2, CountFrame
<1>15. PoolInv'
  BY <1>1, <1>3, PoolFrame
<1>16. WakeInv'
  <2>1. Releasing' = Releasing /\ Woken' = Woken
    BY <1>2 DEF Releasing, Woken
  <2> QED BY <1>3, <2>1, <1>1 DEF WakeInv
<1> QED BY <1>5, <1>6, <1>7, <1>8, <1>9, <1>11, <1>12, <1>13, <1>14, <1>15, <1>16 DEF IInv, RanInv

LEMMA SubmitInv == ASSUME IInv, NEW j \in Job, Submit(j) PROVE IInv'
<1>1. PICK pc \in {"start", "done"} : Client(j, pc) /\ (pc = "done" => Doomed(DomainOf[j]))
  BY DEF Submit
<1>2. client[j] = "new" /\ unload[DomainOf[j]] \notin Past
      /\ UNCHANGED <<poolVars, starter, worker, domain, unload, ran>>
  BY DEF Submit, MaySubmit, Past
<1> QED BY <1>1, <1>2, ClientMoves

LEMMA ChooseInv == ASSUME IInv, NEW j \in Job, Choose(j) PROVE IInv'
<1>1. PICK pc \in {"thread", "inc"} : Client(j, pc)
  BY DEF Choose
<1>2. client[j] = "start" /\ UNCHANGED <<poolVars, starter, worker, domain, unload, ran>>
  BY DEF Choose
<1> QED BY <1>1, <1>2, ClientMoves

LEMMA StartIdleInv == ASSUME IInv, NEW j \in Job, StartIdle(j) PROVE IInv'
<1>1. /\ TypeOK /\ QueueInv /\ DomainInv /\ StarterInv /\ WorkerInv /\ PlaceInv /\ RanInv
      /\ UnloadInv /\ CountInv /\ PoolInv /\ WakeInv
  BY DEF IInv
<1>2. /\ client[j] = "start" /\ ~tp_idle_started /\ tp_idle_started' = TRUE
      /\ domain' = JobsInc(j) /\ starter' = [pc |-> "loop", data |-> j] /\ Client(j, "done")
      /\ UNCHANGED <<queue, job_added, mono_worker_threads, busy_worker_threads, worker, unload, ran>>
  BY DEF StartIdle
<1>3. /\ client' \in [Job -> ClientPc] /\ client'[j] = "done"
      /\ \A i \in Job \ {j} : client'[i] = client[i]
  BY <1>1, <1>2, ClientEffect DEF ClientPc
<1>4. /\ domain' \in [Domain -> DomainState] /\ SameState
      /\ \A d \in Domain : domain'[d].threadpool_jobs =
           IF d = DomainOf[j] THEN domain[d].threadpool_jobs + 1 ELSE domain[d].threadpool_jobs
  BY <1>1, <1>2, IncEffect
<1>5. DomainInv' /\ \A d \in Domain : Doomed(d)' <=> Doomed(d)
  BY <1>1, <1>2, <1>4, DomainFrame
<1>6. QueueInv' /\ \A i \in Job : InQueue(i)' <=> InQueue(i)
  BY <1>1, <1>2, QueueFrame
<1>7. starter.pc = "off" /\ starter.data = NULL /\ starter'.pc = "loop" /\ starter'.data = j
      /\ starter' \in StarterState
  BY <1>1, <1>2 DEF StarterInv, StarterState
<1>8. TypeOK'
  BY <1>1, <1>2, <1>3, <1>4, <1>7 DEF TypeOK
<1>9. StarterInv'
  BY <1>2, <1>3, <1>7 DEF StarterInv
<1>10. WorkerInv'
  BY <1>1, <1>2, <1>5, WorkerFrame DEF WorkerInv
<1>11. \A i \in Job : /\ AtClient(i)' <=> AtClient(i) /\ i # j
                      /\ AtStarter(i)' <=> i = j
                      /\ ~AtStarter(i)
  BY <1>3, <1>7, NullFacts DEF AtClient, EarlyPc, AtStarter
<1>12. AtClient(j)
  BY <1>2 DEF AtClient, EarlyPc
<1>13. ASSUME NEW i \in Job PROVE Placed(i)'
  <2>1. Placed(i)
    BY <1>1 DEF PlaceInv
  <2>2. \A v \in Worker : AtWorker(i, v)' <=> AtWorker(i, v)
    BY <1>2 DEF AtWorker
  <2> QED BY <1>6, <1>11, <1>12, <2>1, <2>2 DEF Placed
<1>14. RanInv'
  BY <1>1, <1>2, <1>5, <1>6, <1>11, <1>12, RanFrame
<1>15. ASSUME NEW i \in Job PROVE UnloadOK(i)'
  <2>1. UnloadOK(i)
    BY <1>1 DEF UnloadInv
  <2>2. i = j => unload[DomainOf[i]] \notin Past
    BY <1>2, <1>7, <2>1 DEF UnloadOK
  <2>3. CASE unload[DomainOf[i]] \notin Past
    <3>1. unload'[DomainOf[i]] \notin Past \cup Closed
      BY <1>2, <2>3 DEF Past, Closed
    <3> QED BY <3>1 DEF UnloadOK
  <2>4. CASE i # j
    BY <1>2, <1>3, <1>6, <1>7, <2>1, <2>4 DEF UnloadOK, AtWorker
  <2> QED BY <2>2, <2>3, <2>4
<1>16. ASSUME NEW d \in Domain PROVE domain'[d].threadpool_jobs >= Counts(d)'
  <2>1. /\ QueueCounts(d)' = QueueCounts(d) /\ ClientCounts(d)' \subseteq ClientCounts(d)
        /\ WorkerCounts(d)' = WorkerCounts(d) /\ StarterCounts(d)' \subseteq StarterCounts(d) \cup {j}
        /\ d # DomainOf[j] => StarterCounts(d)' \subseteq StarterCounts(d)
    BY <1>2, <1>3, <1>6, <1>7 DEF QueueCounts, ClientCounts, StarterCounts, WorkerCounts
  <2>2. domain[d].threadpool_jobs \in Nat /\ domain'[d].threadpool_jobs \in Nat
    BY <1>1, <1>4 DEF TypeOK, DomainState
  <2>3. CASE d # DomainOf[j]
    BY <1>1, <1>4, <2>1, <2>2, <2>3, CountFrame
  <2>4. CASE d = DomainOf[j]
    <3>1. /\ Cardinality(StarterCounts(d)) \in Nat /\ Cardinality(StarterCounts(d)') \in Nat
          /\ Cardinality(StarterCounts(d)') <= Cardinality(StarterCounts(d)) + 1
      BY <2>1, CountsFacts, CardGrow
    <3>2. /\ Cardinality(ClientCounts(d)) \in Nat /\ Cardinality(ClientCounts(d)') \in Nat
          /\ Cardinality(ClientCounts(d)') <= Cardinality(ClientCounts(d))
      BY <2>1, CountsFacts, CardSub
    <3>3. Cardinality(QueueCounts(d)) \in Nat /\ Cardinality(WorkerCounts(d)) \in Nat
      BY CountsFacts
    <3>4. domain[d].threadpool_jobs >= Counts(d)
      BY <1>1 DEF CountInv
    <3> QED BY <1>4, <2>1, <2>2, <2>4, <3>1, <3>2, <3>3, <3>4 DEF Counts
  <2> QED BY <2>3, <2>4
<1>17. PoolInv'
  BY <1>1, <1>2, PoolFrame
<1>18. WakeInv'
  <2>1. Releasing' = Releasing /\ Woken' = Woken
    BY <1>2, <1>3 DEF Releasing, Woken
  <2> QED BY <1>2, <2>1, <1>1 DEF WakeInv
<1> QED BY <1>5, <1>6, <1>8, <1>9, <1>10, <1>13, <1>14, <1>15, <1>16, <1>17, <1>18
           DEF IInv, PlaceInv, UnloadInv, CountInv

LEMMA AppendIncInv == ASSUME IInv, NEW j \in Job, AppendInc(j) PROVE IInv'
<1>1. /\ TypeOK /\ QueueInv /\ DomainInv /\ StarterInv /\ WorkerInv /\ PlaceInv /\ RanInv
      /\ UnloadInv /\ CountInv /\ PoolInv /\ WakeInv
  BY DEF IInv
<1>2. /\ client[j] = "inc" /\ domain' = JobsInc(j) /\ Client(j, "append")
      /\ UNCHANGED <<queue, job_added, tp_idle_started, mono_worker_threads, busy_worker_threads>>
      /\ UNCHANGED <<starter, worker, unload, ran>>
  BY DEF AppendInc, poolVars
<1>3. /\ client' \in [Job -> ClientPc] /\ client'[j] = "append"
      /\ \A i \in Job \ {j} : client'[i] = client[i]
  BY <1>1, <1>2, ClientEffect DEF ClientPc
<1>4. /\ domain' \in [Domain -> DomainState] /\ SameState
      /\ \A d \in Domain : domain'[d].threadpool_jobs =
           IF d = DomainOf[j] THEN domain[d].threadpool_jobs + 1 ELSE domain[d].threadpool_jobs
  BY <1>1, <1>2, IncEffect
<1>5. DomainInv' /\ \A d \in Domain : Doomed(d)' <=> Doomed(d)
  BY <1>1, <1>2, <1>4, DomainFrame
<1>6. QueueInv' /\ \A i \in Job : InQueue(i)' <=> InQueue(i)
  BY <1>1, <1>2, QueueFrame
<1>7. TypeOK'
  BY <1>1, <1>2, <1>3, <1>4 DEF TypeOK
<1>8. StarterInv' /\ \A i \in Job : AtStarter(i)' <=> AtStarter(i)
  BY <1>1, <1>2, <1>3, StarterFrame
<1>9. WorkerInv'
  BY <1>1, <1>2, <1>5, WorkerFrame DEF WorkerInv
<1>10. \A i \in Job : AtClient(i)' <=> AtClient(i)
  BY <1>2, <1>3 DEF AtClient, EarlyPc
<1>11. PlaceInv'
  BY <1>1, <1>2, <1>6, <1>8, <1>10, PlaceFrame
<1>12. RanInv'
  BY <1>1, <1>2, <1>5, <1>6, <1>8, <1>10, RanFrame
<1>13. UnloadInv'
  BY <1>1, <1>2, <1>3, <1>6, UnloadFrame
<1>14. ASSUME NEW d \in Domain PROVE domain'[d].threadpool_jobs >= Counts(d)'
  <2>1. /\ QueueCounts(d)' = QueueCounts(d) /\ StarterCounts(d)' = StarterCounts(d)
        /\ WorkerCounts(d)' = WorkerCounts(d) /\ ClientCounts(d)' \subseteq ClientCounts(d) \cup {j}
        /\ d # DomainOf[j] => ClientCounts(d)' \subseteq ClientCounts(d)
    BY <1>2, <1>3, <1>6 DEF QueueCounts, ClientCounts, StarterCounts, WorkerCounts
  <2>2. domain[d].threadpool_jobs \in Nat /\ domain'[d].threadpool_jobs \in Nat
    BY <1>1, <1>4 DEF TypeOK, DomainState
  <2>3. CASE d # DomainOf[j]
    BY <1>1, <1>4, <2>1, <2>2, <2>3, CountFrame
  <2>4. CASE d = DomainOf[j]
    <3>1. /\ Cardinality(ClientCounts(d)) \in Nat /\ Cardinality(ClientCounts(d)') \in Nat
          /\ Cardinality(ClientCounts(d)') <= Cardinality(ClientCounts(d)) + 1
      BY <2>1, CountsFacts, CardGrow
    <3>2. Cardinality(QueueCounts(d)) \in Nat /\ Cardinality(StarterCounts(d)) \in Nat
          /\ Cardinality(WorkerCounts(d)) \in Nat
      BY CountsFacts
    <3>3. domain[d].threadpool_jobs >= Counts(d)
      BY <1>1 DEF CountInv
    <3> QED BY <1>4, <2>1, <2>2, <2>4, <3>1, <3>2, <3>3 DEF Counts
  <2> QED BY <2>3, <2>4
<1>15. PoolInv'
  BY <1>1, <1>2, PoolFrame
<1>16. WakeInv'
  <2>1. Releasing' = Releasing /\ Woken' = Woken
    BY <1>2, <1>3 DEF Releasing, Woken
  <2> QED BY <1>2, <2>1, <1>1 DEF WakeInv
<1> QED BY <1>5, <1>6, <1>7, <1>8, <1>9, <1>11, <1>12, <1>13, <1>14, <1>15, <1>16 DEF IInv, CountInv

LEMMA ReleaseInv == ASSUME IInv, NEW j \in Job, Release(j) PROVE IInv'
<1>1. /\ TypeOK /\ QueueInv /\ DomainInv /\ StarterInv /\ WorkerInv /\ PlaceInv /\ RanInv
      /\ UnloadInv /\ CountInv /\ PoolInv /\ WakeInv
  BY DEF IInv
<1>2. /\ client[j] = "release" /\ job_added' = job_added + 1 /\ Client(j, "done")
      /\ UNCHANGED <<queue, tp_idle_started, mono_worker_threads, busy_worker_threads,
                     starter, worker, domain, unload, ran>>
  BY DEF Release
<1>3. /\ client' \in [Job -> ClientPc] /\ client'[j] = "done"
      /\ \A i \in Job \ {j} : client'[i] = client[i]
  BY <1>1, <1>2, ClientEffect DEF ClientPc
<1>4. SameState
  BY <1>2 DEF SameState
<1>5. DomainInv' /\ \A d \in Domain : Doomed(d)' <=> Doomed(d)
  BY <1>1, <1>2, <1>4, DomainFrame
<1>6. QueueInv' /\ \A i \in Job : InQueue(i)' <=> InQueue(i)
  BY <1>1, <1>2, QueueFrame
<1>7. TypeOK'
  BY <1>1, <1>2, <1>3 DEF TypeOK
<1>8. StarterInv' /\ \A i \in Job : AtStarter(i)' <=> AtStarter(i)
  BY <1>1, <1>2, <1>3, StarterFrame
<1>9. WorkerInv'
  BY <1>1, <1>2, <1>5, WorkerFrame DEF WorkerInv
<1>10. \A i \in Job : AtClient(i)' <=> AtClient(i)
  BY <1>2, <1>3 DEF AtClient, EarlyPc
<1>11. PlaceInv'
  BY <1>1, <1>2, <1>6, <1>8, <1>10, PlaceFrame
<1>12. RanInv'
  BY <1>1, <1>2, <1>5, <1>6, <1>8, <1>10, RanFrame
<1>13. UnloadInv'
  BY <1>1, <1>2, <1>3, <1>6, UnloadFrame
<1>14. ASSUME NEW d \in Domain PROVE domain'[d].threadpool_jobs >= Counts(d)'
  <2>1. /\ QueueCounts(d)' = QueueCounts(d) /\ StarterCounts(d)' = StarterCounts(d)
        /\ WorkerCounts(d)' = WorkerCounts(d) /\ ClientCounts(d)' = ClientCounts(d)
    BY <1>2, <1>3, <1>6 DEF QueueCounts, ClientCounts, StarterCounts, WorkerCounts
  <2> QED BY <1>1, <1>2, <2>1 DEF CountInv, Counts
<1>15. PoolInv'
  BY <1>1, <1>2, PoolFrame
<1>16. WakeInv'
  <2>1. Releasing' \subseteq Releasing \ {j} /\ j \in Releasing /\ Woken' = Woken
    BY <1>2, <1>3 DEF Releasing, Woken
  <2>2. Releasing \subseteq Releasing' \cup {j}
    BY <1>2, <1>3 DEF Releasing
  <2>3. IsFiniteSet(Releasing')
    <3>1. Releasing' \subseteq Job
      BY DEF Releasing
    <3> QED BY <3>1, FiniteSubsets
  <2>4. /\ Cardinality(Releasing) \in Nat /\ Cardinality(Releasing') \in Nat
        /\ Cardinality(Releasing) <= Cardinality(Releasing') + 1
    BY <2>2, <2>3, CardGrow
  <2>5. /\ Cardinality(Woken) \in Nat /\ job_added \in Nat
        /\ queue.next_elem \in Nat /\ queue.first_elem \in Nat
    BY <1>1, PoolSets DEF TypeOK, TPQueue
  <2> QED BY <1>1, <1>2, <2>1, <2>4, <2>5 DEF WakeInv
<1> QED BY <1>5, <1>6, <1>7, <1>8, <1>9, <1>11, <1>12, <1>13, <1>14, <1>15, <1>16 DEF IInv, CountInv

LEMMA AppendJobInv == ASSUME IInv, NEW j \in Job, AppendJob(j) PROVE IInv'
<1>1. /\ TypeOK /\ QueueInv /\ DomainInv /\ StarterInv /\ WorkerInv /\ PlaceInv /\ RanInv
      /\ UnloadInv /\ CountInv /\ PoolInv /\ WakeInv
  BY DEF IInv
<1>2. /\ client[j] = "append" /\ Client(j, "release")
      /\ queue' = IF Doomed(DomainOf[j]) THEN queue ELSE Appended(queue, j)
      /\ UNCHANGED <<job_added, tp_idle_started, mono_worker_threads, busy_worker_threads,
                     starter, worker, domain, unload, ran>>
  BY DEF AppendJob
<1>3. /\ client' \in [Job -> ClientPc] /\ client'[j] = "release"
      /\ \A i \in Job \ {j} : client'[i] = client[i]
  BY <1>1, <1>2, ClientEffect DEF ClientPc
<1>4. SameState
  BY <1>2 DEF SameState
<1>5. DomainInv' /\ \A d \in Domain : Doomed(d)' <=> Doomed(d)
  BY <1>1, <1>2, <1>4, DomainFrame
<1>6. AtClient(j) /\ ~InQueue(j) /\ \A i \in Job : AtClient(i)' <=> AtClient(i) /\ i # j
  BY <1>1, <1>2, <1>3 DEF AtClient, EarlyPc, PlaceInv, Placed
<1>7. /\ QueueOK(queue')
      /\ JobsIn(queue') = IF Doomed(DomainOf[j]) THEN JobsIn(queue) ELSE JobsIn(queue) \cup {j}
      /\ queue'.next_elem - queue'.first_elem <= (queue.next_elem - queue.first_elem) + 1
  <2>1. CASE Doomed(DomainOf[j])
    <3>1. queue.next_elem \in Nat /\ queue.first_elem \in Nat
      BY <1>1 DEF TypeOK, TPQueue
    <3> QED BY <1>1, <1>2, <2>1, <3>1 DEF QueueInv
  <2>2. CASE ~Doomed(DomainOf[j])
    <3>1. QueueOK(queue) /\ j \notin JobsIn(queue)
      BY <1>1, <1>6 DEF QueueInv, InQueue
    <3>2. /\ QueueOK(Appended(queue, j)) /\ JobsIn(Appended(queue, j)) = JobsIn(queue) \cup {j}
          /\ Appended(queue, j).next_elem - Appended(queue, j).first_elem
               = (queue.next_elem - queue.first_elem) + 1
      BY <3>1, AppendedFacts
    <3>3. queue.next_elem \in Nat /\ queue.first_elem \in Nat
      BY <1>1 DEF TypeOK, TPQueue
    <3>4. queue' = Appended(queue, j)
      BY <1>2, <2>2
    <3> QED BY <2>2, <3>2, <3>3, <3>4
  <2> QED BY <2>1, <2>2
<1>8. QueueInv' /\ \A i \in Job : InQueue(i)' <=> InQueue(i) \/ (i = j /\ ~Doomed(DomainOf[j]))
  BY <1>7 DEF QueueInv, InQueue
<1>9. TypeOK'
  BY <1>1, <1>2, <1>3, <1>7 DEF TypeOK, QueueOK
<1>10. StarterInv' /\ \A i \in Job : AtStarter(i)' <=> AtStarter(i)
  BY <1>1, <1>2, <1>3, StarterFrame
<1>11. WorkerInv'
  BY <1>1, <1>2, <1>5, WorkerFrame DEF WorkerInv
<1>12. ASSUME NEW i \in Job PROVE Placed(i)' /\ RanOK(i)'
  <2>1. Placed(i) /\ RanOK(i) /\ DomainOf[i] \in Domain
    BY <1>1, PoolAssumption DEF PlaceInv, RanInv
  <2>2. \A v \in Worker : AtWorker(i, v)' <=> AtWorker(i, v)
    BY <1>2 DEF AtWorker
  <2>3. Placed(i)'
    BY <1>6, <1>8, <1>10, <2>1, <2>2 DEF Placed
  <2>4. Doomed(DomainOf[i])' <=> Doomed(DomainOf[i])
    BY <1>5, <2>1
  <2>5. RanOK(i)'
    BY <1>2, <1>6, <1>8, <1>10, <2>1, <2>2, <2>4 DEF RanOK
  <2> QED BY <2>3, <2>5
<1>13. ASSUME NEW i \in Job PROVE UnloadOK(i)'
  <2>1. UnloadOK(i) /\ DomainOf[i] \in Domain
    BY <1>1, PoolAssumption DEF UnloadInv
  <2>2. unload[DomainOf[i]] \in Past \ {"clear"} => Doomed(DomainOf[i])
    BY <1>1, <2>1 DEF DomainInv, Past, Doomed
  <2> QED BY <1>2, <1>3, <1>8, <2>1, <2>2 DEF UnloadOK, AtWorker
<1>14. ASSUME NEW d \in Domain PROVE domain'[d].threadpool_jobs >= Counts(d)'
  <2>1. /\ StarterCounts(d)' = StarterCounts(d) /\ WorkerCounts(d)' = WorkerCounts(d)
        /\ ClientCounts(d)' \subseteq ClientCounts(d) \ {j}
        /\ QueueCounts(d)' \subseteq QueueCounts(d) \cup {j}
        /\ d = DomainOf[j] => j \in ClientCounts(d)
        /\ d # DomainOf[j] => QueueCounts(d)' \subseteq QueueCounts(d)
    BY <1>2, <1>3, <1>8 DEF QueueCounts, ClientCounts, StarterCounts, WorkerCounts
  <2>2. domain[d].threadpool_jobs \in Nat /\ domain'[d] = domain[d]
    BY <1>1, <1>2 DEF TypeOK, DomainState
  <2>3. CASE d # DomainOf[j]
    <3>1. ClientCounts(d)' \subseteq ClientCounts(d)
      BY <2>1
    <3> QED BY <1>1, <2>1, <2>2, <2>3, <3>1, CountFrame
  <2>4. CASE d = DomainOf[j]
    <3>1. /\ Cardinality(ClientCounts(d)) \in Nat /\ Cardinality(ClientCounts(d)') \in Nat
          /\ Cardinality(ClientCounts(d)') <= Cardinality(ClientCounts(d)) - 1
      BY <2>1, <2>4, CountsFacts, CardShrink
    <3>2. /\ Cardinality(QueueCounts(d)) \in Nat /\ Cardinality(QueueCounts(d)') \in Nat
          /\ Cardinality(QueueCounts(d)') <= Cardinality(QueueCounts(d)) + 1
      BY <2>1, CountsFacts, CardGrow
    <3>3. Cardinality(StarterCounts(d)) \in Nat /\ Cardinality(WorkerCounts(d)) \in Nat
      BY CountsFacts
    <3>4. domain[d].threadpool_jobs >= Counts(d)
      BY <1>1 DEF CountInv
    <3> QED BY <2>1, <2>2, <3>1, <3>2, <3>3, <3>4 DEF Counts
  <2> QED BY <2>3, <2>4
<1>15. PoolInv'
  BY <1>1, <1>2, PoolFrame
<1>16. WakeInv'
  <2>1. Releasing \subseteq Releasing' \ {j} /\ j \in Releasing' /\ Woken' = Woken
    BY <1>2, <1>3 DEF Releasing, Woken
  <2>2. IsFiniteSet(Releasing')
    <3>1. Releasing' \subseteq Job
      BY DEF Releasing
    <3> QED BY <3>1, FiniteSubsets
  <2>3. /\ Cardinality(Releasing) \in Nat /\ Cardinality(Releasing') \in Nat
        /\ Cardinality(Releasing) <= Cardinality(Releasing') - 1
    BY <2>1, <2>2, CardShrink
  <2>4. /\ Cardinality(Woken) \in Nat /\ job_added \in Nat
        /\ queue.next_elem \in Nat /\ queue.first_elem \in Nat
        /\ queue'.next_elem \in Nat /\ queue'.first_elem \in Nat
    BY <1>1, <1>7, PoolSets DEF TypeOK, TPQueue, QueueOK
  <2> QED BY <1>1, <1>2, <1>7, <2>1, <2>3, <2>4 DEF WakeInv
<1> QED BY <1>5, <1>8, <1>9, <1>10, <1>11, <1>12, <1>13, <1>14, <1>15, <1>16
           DEF IInv, PlaceInv, RanInv, UnloadInv, CountInv

\* A worker starts, with the job of the thread that submits it, with the job of
\* the starter, or without a job.
LEMMA StartWorker ==
    ASSUME IInv, NEW data \in Job \cup {NULL}, StartTpThread(data), UNCHANGED <<unload, ran>>,
           client' \in [Job -> ClientPc], starter' \in StarterState, Releasing' = Releasing,
           data # NULL => /\ AtClient(data) \/ AtStarter(data)
                          /\ unload[DomainOf[data]] \notin Closed,
           \A i \in Job : /\ AtClient(i)' <=> AtClient(i) /\ i # data
                          /\ AtStarter(i)' <=> AtStarter(i) /\ i # data,
           \A i \in Job : /\ client'[i] = "append" => client[i] = "append"
                          /\ client'[i] \in {client[i], "done"}
                          /\ starter'.data = i =>
                               /\ starter.data = i
                               /\ starter'.pc \in StarterPc => starter.pc \in StarterPc
                          /\ starter.data = i /\ starter.pc = "again" =>
                               (starter'.data = i /\ starter'.pc = "again") \/ client'[i] = "done"
    PROVE  /\ TypeOK' /\ QueueInv' /\ DomainInv' /\ WorkerInv' /\ PlaceInv' /\ RanInv'
           /\ UnloadInv' /\ CountInv' /\ PoolInv' /\ WakeInv'
<1>1. /\ TypeOK /\ QueueInv /\ DomainInv /\ StarterInv /\ WorkerInv /\ PlaceInv /\ RanInv
      /\ UnloadInv /\ CountInv /\ PoolInv /\ WakeInv
  BY DEF IInv
<1>2. /\ mono_worker_threads' = mono_worker_threads + 1 /\ busy_worker_threads' = busy_worker_threads + 1
      /\ UNCHANGED <<queue, job_added, tp_idle_started>>
  BY DEF StartTpThread
<1>3. /\ worker' \in [Worker -> WorkerState]
      /\ domain' \in [Domain -> DomainState] /\ SameState
      /\ \A d \in Domain : domain'[d].threadpool_jobs =
           IF data # NULL /\ d = DomainOf[data] THEN domain[d].threadpool_jobs + 1
           ELSE domain[d].threadpool_jobs
  BY <1>1, StartEffect
<1>4. PICK w \in Worker : /\ worker[w].pc = "off" /\ worker'[w].pc = "top" /\ worker'[w].data = data
                          /\ \A v \in Worker \ {w} : worker'[v] = worker[v]
  BY <1>1, StartEffect
<1>5. DomainInv' /\ \A d \in Domain : Doomed(d)' <=> Doomed(d)
  BY <1>1, <1>3, DomainFrame
<1>6. QueueInv' /\ \A i \in Job : InQueue(i)' <=> InQueue(i)
  BY <1>1, <1>2, QueueFrame
<1>7. TypeOK'
  BY <1>1, <1>2, <1>3 DEF TypeOK
<1>8. worker[w].data = NULL
  BY <1>1, <1>4 DEF WorkerInv, WorkerOK, JobPc
<1>9. ASSUME NEW v \in Worker PROVE WorkerOK(v)'
  <2>1. CASE v = w
    BY <1>4, <2>1 DEF WorkerOK, JobPc
  <2>2. CASE v # w
    BY <1>1, <1>4, <1>5, <2>2, WorkerFrame DEF WorkerInv
  <2> QED BY <2>1, <2>2
<1>10. ASSUME NEW i \in Job
       PROVE  \A v \in Worker : AtWorker(i, v)' <=> AtWorker(i, v) \/ (v = w /\ i = data)
  BY <1>4, <1>8, NullFacts DEF AtWorker
<1>11. ASSUME NEW i \in Job PROVE Placed(i)' /\ RanOK(i)'
  <2>1. Placed(i) /\ RanOK(i) /\ DomainOf[i] \in Domain /\ i # NULL
    BY <1>1, PoolAssumption, NullFacts DEF PlaceInv, RanInv
  <2>2. ~AtWorker(i, w)
    BY <1>8, <2>1 DEF AtWorker
  <2>3. i = data => \A v \in Worker : ~AtWorker(i, v)
    BY <2>1 DEF Placed
  <2>4. i = data => ~InQueue(i)
    BY <2>1 DEF Placed
  <2>5. Placed(i)'
    BY <1>6, <1>10, <2>1, <2>2, <2>3, <2>4 DEF Placed
  <2>6. Doomed(DomainOf[i])' <=> Doomed(DomainOf[i])
    BY <1>5, <2>1
  <2>7. \A v \in Worker : AtWorker(i, v)' =>
          worker'[v].pc = worker[v].pc \/ (i = data /\ worker'[v].pc = "top")
    BY <1>4, <1>10, <2>2
  <2>8. i = data => ran[i] = 0
    BY <2>1 DEF RanOK
  <2>9. CASE i = data
    <3>1. AtWorker(i, w)' /\ (\A v \in Worker : AtWorker(i, v)' => v = w) /\ ~AtClient(i)' /\ ~AtStarter(i)'
      BY <1>10, <2>3, <2>9
    <3>2. ran'[i] = 0 /\ worker'[w].pc \notin {"run", "pop"}
      BY <1>4, <2>8, <2>9
    <3>3. ran'[i] <= 1
      BY <3>2
    <3> QED BY <2>5, <3>1, <3>2, <3>3 DEF RanOK
  <2>10. CASE i # data
    <3>1. \A v \in Worker : AtWorker(i, v)' <=> AtWorker(i, v)
      BY <1>10, <2>10
    <3>2. \A v \in Worker : AtWorker(i, v) => worker'[v].pc = worker[v].pc
      BY <2>7, <2>10, <3>1
    <3>3. /\ AtClient(i)' <=> AtClient(i)
          /\ AtStarter(i)' <=> AtStarter(i)
      BY <2>10
    <3>4. ran' = ran
      OBVIOUS
    <3>5. /\ ran'[i] <= 1
          /\ AtClient(i)' \/ AtStarter(i)' \/ InQueue(i)' => ran'[i] = 0
      BY <1>6, <2>1, <3>3, <3>4 DEF RanOK
    <3>6. ASSUME NEW v \in Worker, AtWorker(i, v)'
          PROVE  /\ worker'[v].pc \notin {"run", "pop"} => ran'[i] = 0
                 /\ worker'[v].pc \in {"run", "pop"} => ran'[i] = 1 \/ Doomed(DomainOf[i])'
      BY <2>1, <2>6, <3>1, <3>2, <3>4, <3>6 DEF RanOK
    <3>7. ran'[i] = 0 /\ ~AtClient(i)' /\ ~AtStarter(i)' /\ ~InQueue(i)'
          /\ (\A v \in Worker : ~AtWorker(i, v)') => Doomed(DomainOf[i])'
      BY <1>6, <2>1, <2>6, <3>1, <3>3, <3>4 DEF RanOK
    <3> QED BY <2>5, <3>5, <3>6, <3>7 DEF RanOK
  <2> QED BY <2>9, <2>10
<1>12. ASSUME NEW i \in Job PROVE UnloadOK(i)'
  <2>1. UnloadOK(i) /\ ~AtWorker(i, w)
    BY <1>1, <1>8, NullFacts DEF UnloadInv, AtWorker
  <2>2. \A v \in Worker : AtWorker(i, v)' =>
          i = data \/ (AtWorker(i, v) /\ worker'[v].pc = worker[v].pc)
    BY <1>4, <1>10, <2>1
  <2>3. unload[DomainOf[i]] \in Closed => i # data
    BY NullFacts
  <2>4. /\ client'[i] \in {client[i], "done"}
        /\ starter'.data = i =>
             starter.data = i /\ (starter'.pc \in StarterPc => starter.pc \in StarterPc)
        /\ starter.data = i /\ starter.pc = "again" =>
             (starter'.data = i /\ starter'.pc = "again") \/ client'[i] = "done"
    OBVIOUS
  <2> QED BY <1>6, <2>1, <2>2, <2>3, <2>4 DEF UnloadOK
<1>13. ASSUME NEW d \in Domain PROVE domain'[d].threadpool_jobs >= Counts(d)'
  <2>1. QueueCounts(d)' = QueueCounts(d)
    BY <1>6 DEF QueueCounts
  <2>2. ClientCounts(d)' \subseteq ClientCounts(d)
    BY DEF ClientCounts
  <2>3. StarterCounts(d)' \subseteq StarterCounts(d)
    BY DEF StarterCounts
  <2>4. /\ WorkerCounts(d)' \subseteq WorkerCounts(d) \cup {w}
        /\ ~(data # NULL /\ d = DomainOf[data]) => WorkerCounts(d)' \subseteq WorkerCounts(d)
    BY <1>4 DEF WorkerCounts
  <2>5. domain[d].threadpool_jobs \in Nat /\ domain'[d].threadpool_jobs \in Nat
    BY <1>1, <1>3 DEF TypeOK, DomainState
  <2>6. CASE ~(data # NULL /\ d = DomainOf[data])
    <3>1. domain'[d].threadpool_jobs = domain[d].threadpool_jobs
      BY <1>3, <2>6
    <3> QED BY <1>1, <2>1, <2>2, <2>3, <2>4, <2>5, <2>6, <3>1, CountFrame
  <2>7. CASE data # NULL /\ d = DomainOf[data]
    <3>1. /\ Cardinality(WorkerCounts(d)) \in Nat /\ Cardinality(WorkerCounts(d)') \in Nat
          /\ Cardinality(WorkerCounts(d)') <= Cardinality(WorkerCounts(d)) + 1
      BY <2>4, CountsFacts, CardGrow
    <3>2. /\ Cardinality(ClientCounts(d)) \in Nat /\ Cardinality(ClientCounts(d)') \in Nat
          /\ Cardinality(ClientCounts(d)') <= Cardinality(ClientCounts(d))
      BY <2>2, CountsFacts, CardSub
    <3>3. /\ Cardinality(StarterCounts(d)) \in Nat /\ Cardinality(StarterCounts(d)') \in Nat
          /\ Cardinality(StarterCounts(d)') <= Cardinality(StarterCounts(d))
      BY <2>3, CountsFacts, CardSub
    <3>4. Cardinality(QueueCounts(d)) \in Nat
      BY CountsFacts
    <3>5. /\ domain[d].threadpool_jobs >= Counts(d)
          /\ domain'[d].threadpool_jobs = domain[d].threadpool_jobs + 1
      BY <1>1, <1>3, <2>7 DEF CountInv
    <3> QED BY <2>1, <2>5, <3>1, <3>2, <3>3, <3>4, <3>5 DEF Counts
  <2> QED BY <2>6, <2>7
<1>14. PoolInv'
  <2>1. Started' = Started \cup {w} /\ w \notin Started /\ Working' \subseteq Working \cup {w}
    BY <1>4 DEF Started, Working
  <2>2. Cardinality(Started') = Cardinality(Started) + 1
    BY <2>1, PoolSets, FS_AddElement
  <2>3. /\ Cardinality(Working) \in Nat /\ Cardinality(Working') \in Nat
        /\ Cardinality(Working') <= Cardinality(Working) + 1
    BY <2>1, PoolSets, CardGrow
  <2>4. busy_worker_threads \in Nat
    BY <1>1 DEF TypeOK
  <2> QED BY <1>1, <1>2, <2>2, <2>3, <2>4 DEF PoolInv
<1>15. WakeInv'
  <2>1. Woken' = Woken
    BY <1>4 DEF Woken
  <2> QED BY <1>1, <1>2, <2>1 DEF WakeInv
<1> QED BY <1>5, <1>6, <1>7, <1>9, <1>11, <1>12, <1>13, <1>14, <1>15
           DEF WorkerInv, PlaceInv, RanInv, UnloadInv, CountInv

LEMMA StartThreadInv == ASSUME IInv, NEW j \in Job, StartThread(j) PROVE IInv'
<1>1. TypeOK /\ StarterInv /\ UnloadInv /\ PlaceInv
  BY DEF IInv
<1>2. /\ client[j] = "thread" /\ StartTpThread(j) /\ Client(j, "done") /\ tp_idle_started' = tp_idle_started
      /\ UNCHANGED <<starter, unload, ran>>
  BY DEF StartThread, StartTpThread
<1>3. /\ client' \in [Job -> ClientPc] /\ client'[j] = "done"
      /\ \A i \in Job \ {j} : client'[i] = client[i]
  BY <1>1, <1>2, ClientEffect DEF ClientPc
<1>4. StarterInv' /\ \A i \in Job : AtStarter(i)' <=> AtStarter(i)
  BY <1>1, <1>2, <1>3, StarterFrame
<1>5. AtClient(j) /\ ~AtStarter(j) /\ \A i \in Job : AtClient(i)' <=> AtClient(i) /\ i # j
  BY <1>1, <1>2, <1>3 DEF AtClient, EarlyPc, PlaceInv, Placed
<1>6. unload[DomainOf[j]] \notin Closed
  <2>1. UnloadOK(j)
    BY <1>1 DEF UnloadInv
  <2> QED BY <1>2, <2>1 DEF UnloadOK, Past, Closed, StarterPc
<1>7. Releasing' = Releasing /\ starter' \in StarterState
  BY <1>1, <1>2, <1>3 DEF Releasing, TypeOK
<1>8. \A i \in Job : /\ client'[i] = "append" => client[i] = "append"
                     /\ client'[i] \in {client[i], "done"}
  BY <1>3
<1>9. /\ TypeOK' /\ QueueInv' /\ DomainInv' /\ WorkerInv' /\ PlaceInv' /\ RanInv'
      /\ UnloadInv' /\ CountInv' /\ PoolInv' /\ WakeInv'
  BY <1>2, <1>3, <1>4, <1>5, <1>6, <1>7, <1>8, StartWorker
<1> QED BY <1>4, <1>9 DEF IInv

-----------------------------------------------------------------------------
\* The starter.

LEMMA StarterSpawnInv == ASSUME IInv, StarterSpawn PROVE IInv'
<1>1. TypeOK /\ StarterInv /\ UnloadInv /\ PlaceInv
  BY DEF IInv
<1>2. PICK j \in Job \cup {NULL} : j = starter.data
  BY <1>1 DEF TypeOK, StarterState
<1>3. /\ starter.pc = "spawn" /\ StartTpThread(j) /\ tp_idle_started' = tp_idle_started
      /\ starter' = [pc |-> IF j = NULL THEN "loop" ELSE "dec", data |-> j]
      /\ UNCHANGED <<client, unload, ran>>
  BY <1>2 DEF StarterSpawn, StartTpThread, Starter
<1>4. starter' \in StarterState /\ starter'.data = j /\ starter'.pc = IF j = NULL THEN "loop" ELSE "dec"
  BY <1>2, <1>3 DEF StarterState
<1>5. StarterInv'
  BY <1>1, <1>2, <1>3, <1>4 DEF StarterInv
<1>6. j # NULL => AtStarter(j)
  BY <1>2, <1>3 DEF AtStarter
<1>7. ASSUME NEW i \in Job
      PROVE  /\ AtStarter(i)' <=> AtStarter(i) /\ i # j
             /\ AtClient(i)' <=> AtClient(i) /\ i # j
  <2>1. i # NULL /\ Placed(i)
    BY <1>1, NullFacts DEF PlaceInv
  <2>2. AtStarter(i)' <=> AtStarter(i) /\ i # j
    BY <1>2, <1>4, <2>1 DEF AtStarter
  <2>3. i = j => ~AtClient(i)
    BY <1>6, <2>1 DEF Placed
  <2>4. AtClient(i)' <=> AtClient(i)
    BY <1>3 DEF AtClient
  <2> QED BY <2>2, <2>3, <2>4
<1>8. j # NULL => unload[DomainOf[j]] \notin Closed
  <2>1. j # NULL => UnloadOK(j)
    BY <1>1, <1>2 DEF UnloadInv
  <2> QED BY <1>2, <1>3, <2>1 DEF UnloadOK, StarterPc
<1>9. Releasing' = Releasing /\ client' \in [Job -> ClientPc]
  BY <1>1, <1>3 DEF Releasing, TypeOK
<1>10. \A i \in Job : /\ client'[i] = "append" => client[i] = "append"
                      /\ client'[i] \in {client[i], "done"}
                      /\ starter'.data = i =>
                           starter.data = i /\ (starter'.pc \in StarterPc => starter.pc \in StarterPc)
                      /\ ~(starter.data = i /\ starter.pc = "again")
  BY <1>2, <1>3, <1>4 DEF StarterPc
<1>11. /\ TypeOK' /\ QueueInv' /\ DomainInv' /\ WorkerInv' /\ PlaceInv' /\ RanInv'
       /\ UnloadInv' /\ CountInv' /\ PoolInv' /\ WakeInv'
  BY <1>3, <1>4, <1>6, <1>7, <1>8, <1>9, <1>10, StartWorker
<1> QED BY <1>5, <1>11 DEF IInv

\* The other steps of the starter: a job it has stays with it, or is submitted by it.
LEMMA StarterMoves ==
    ASSUME IInv, UNCHANGED <<poolVars, worker, unload, ran>>,
           starter' \in StarterState, StarterInv', client' \in [Job -> ClientPc],
           domain' \in [Domain -> DomainState], SameState, CountInv',
           Releasing' = Releasing,
           \A i \in Job : /\ AtClient(i)' \/ AtStarter(i)' <=> AtClient(i) \/ AtStarter(i)
                          /\ ~(AtClient(i)' /\ AtStarter(i)')
                          /\ client[i] \in {"new", "done"} \/ (starter.data = i /\ starter.pc = "again") =>
                               client'[i] \in {"new", "done"} \/ (starter'.data = i /\ starter'.pc = "again")
                          /\ starter'.data = i /\ starter'.pc \in StarterPc =>
                               starter.data = i /\ starter.pc \in StarterPc
    PROVE  IInv'
<1>1. /\ TypeOK /\ QueueInv /\ DomainInv /\ WorkerInv /\ PlaceInv /\ RanInv /\ UnloadInv
      /\ PoolInv /\ WakeInv
  BY DEF IInv
<1>2. UNCHANGED <<queue, job_added, tp_idle_started, mono_worker_threads, busy_worker_threads>>
  BY DEF poolVars
<1>3. DomainInv' /\ \A d \in Domain : Doomed(d)' <=> Doomed(d)
  BY <1>1, DomainFrame
<1>4. QueueInv' /\ \A i \in Job : InQueue(i)' <=> InQueue(i)
  BY <1>1, <1>2, QueueFrame
<1>5. TypeOK'
  BY <1>1, <1>2 DEF TypeOK
<1>6. WorkerInv'
  BY <1>1, <1>3, WorkerFrame DEF WorkerInv
<1>7. ASSUME NEW i \in Job PROVE Placed(i)'
  <2>1. Placed(i)
    BY <1>1 DEF PlaceInv
  <2>2. \A v \in Worker : AtWorker(i, v)' <=> AtWorker(i, v)
    BY DEF AtWorker
  <2>3. /\ AtClient(i)' \/ AtStarter(i)' <=> AtClient(i) \/ AtStarter(i)
        /\ ~(AtClient(i)' /\ AtStarter(i)')
    OBVIOUS
  <2> QED BY <1>4, <2>1, <2>2, <2>3 DEF Placed
<1>8. \A i \in Job : AtClient(i)' \/ AtStarter(i)' \/ InQueue(i)'
                     <=> AtClient(i) \/ AtStarter(i) \/ InQueue(i)
  BY <1>4
<1>9. RanInv'
  BY <1>1, <1>3, <1>8, RanFrame
<1>10. ASSUME NEW i \in Job PROVE UnloadOK(i)'
  <2>1. UnloadOK(i)
    BY <1>1 DEF UnloadInv
  <2>2. /\ client[i] \in {"new", "done"} \/ (starter.data = i /\ starter.pc = "again") =>
             client'[i] \in {"new", "done"} \/ (starter'.data = i /\ starter'.pc = "again")
        /\ starter'.data = i /\ starter'.pc \in StarterPc => starter.data = i /\ starter.pc \in StarterPc
    OBVIOUS
  <2>3. worker' = worker /\ unload' = unload
    OBVIOUS
  <2> QED BY <1>4, <2>1, <2>2, <2>3 DEF UnloadOK, AtWorker
<1>11. PoolInv'
  BY <1>1, <1>2, PoolFrame
<1>12. WakeInv'
  <2>1. Woken' = Woken
    BY DEF Woken
  <2> QED BY <1>1, <1>2, <2>1 DEF WakeInv
<1> QED BY <1>3, <1>4, <1>5, <1>6, <1>7, <1>9, <1>10, <1>11, <1>12 DEF IInv, PlaceInv, UnloadInv

LEMMA StarterLoopInv == ASSUME IInv, StarterLoop PROVE IInv'
<1>1. TypeOK /\ StarterInv /\ PlaceInv /\ CountInv
  BY DEF IInv
<1>2. PICK j \in Job \cup {NULL} : j = starter.data
  BY <1>1 DEF TypeOK, StarterState
<1>3. starter.pc = "loop" /\ UNCHANGED <<poolVars, worker, domain, unload, ran>> /\ tp_idle_started' = tp_idle_started
  BY DEF StarterLoop, poolVars
<1>4. /\ starter' \in StarterState /\ client' \in [Job -> ClientPc]
      /\ \A i \in Job \ {j} : client'[i] = client[i]
      /\ \/ starter'.pc = "spawn" /\ starter'.data = j /\ client' = client
         \/ starter'.pc = "off" /\ starter'.data = NULL /\ j = NULL /\ client' = client
         \/ j # NULL /\ starter'.pc = "again" /\ starter'.data = j /\ client'[j] = "start"
  <2>1. CASE mono_worker_threads < mono_min_worker_threads
    BY <1>1, <1>2, <2>1 DEF StarterLoop, Starter, StarterState, TypeOK
  <2>2. CASE ~(mono_worker_threads < mono_min_worker_threads) /\ j = NULL
    BY <1>1, <1>2, <2>2 DEF StarterLoop, Starter, StarterState, TypeOK
  <2>3. CASE ~(mono_worker_threads < mono_min_worker_threads) /\ j # NULL
    <3>1. starter' = [pc |-> "again", data |-> j] /\ Client(j, "start") /\ j \in Job
      BY <1>2, <2>3 DEF StarterLoop, Starter
    <3>2. /\ client' \in [Job -> ClientPc] /\ client'[j] = "start"
          /\ \A i \in Job \ {j} : client'[i] = client[i]
      BY <1>1, <3>1, ClientEffect DEF ClientPc
    <3> QED BY <2>3, <3>1, <3>2 DEF StarterState
  <2> QED BY <2>1, <2>2, <2>3
<1>5. j # NULL => client[j] = "done"
  BY <1>1, <1>2, <1>3 DEF StarterInv
<1>6. StarterInv'
  BY <1>1, <1>2, <1>3, <1>4, <1>5 DEF StarterInv
<1>7. Releasing' = Releasing
  BY <1>4, <1>5 DEF Releasing
<1>8. ASSUME NEW i \in Job
      PROVE  /\ AtClient(i)' \/ AtStarter(i)' <=> AtClient(i) \/ AtStarter(i)
             /\ ~(AtClient(i)' /\ AtStarter(i)')
             /\ client[i] \in {"new", "done"} \/ (starter.data = i /\ starter.pc = "again") =>
                  client'[i] \in {"new", "done"} \/ (starter'.data = i /\ starter'.pc = "again")
             /\ starter'.data = i /\ starter'.pc \in StarterPc => starter.data = i /\ starter.pc \in StarterPc
  <2>1. i # NULL /\ (AtClient(i) => ~AtStarter(i))
    BY <1>1, NullFacts DEF PlaceInv, Placed
  <2>2. CASE i # j
    BY <1>2, <1>3, <1>4, <2>1, <2>2 DEF AtClient, AtStarter
  <2>3. CASE i = j
    <3>1. ~AtClient(i) /\ AtStarter(i)
      BY <1>2, <1>3, <1>5, <2>1, <2>3 DEF AtClient, EarlyPc, AtStarter
    <3> QED BY <1>2, <1>3, <1>4, <1>5, <2>1, <2>3, <3>1 DEF AtClient, EarlyPc, AtStarter, StarterPc
  <2> QED BY <2>2, <2>3
<1>9. SameState /\ domain' \in [Domain -> DomainState]
  BY <1>1, <1>3 DEF SameState, TypeOK
<1>10. ASSUME NEW d \in Domain PROVE domain'[d].threadpool_jobs >= Counts(d)'
  <2>1. QueueCounts(d)' = QueueCounts(d) /\ WorkerCounts(d)' = WorkerCounts(d)
    BY <1>3 DEF QueueCounts, WorkerCounts, InQueue, poolVars
  <2>2. ClientCounts(d)' \subseteq ClientCounts(d)
    BY <1>4 DEF ClientCounts
  <2>3. StarterCounts(d)' \subseteq StarterCounts(d)
    BY <1>8 DEF StarterCounts
  <2>4. domain[d].threadpool_jobs \in Nat /\ domain' = domain
    BY <1>1, <1>3 DEF TypeOK, DomainState
  <2> QED BY <1>1, <2>1, <2>2, <2>3, <2>4, CountFrame
<1>11. CountInv'
  BY <1>10 DEF CountInv
<1> QED BY <1>3, <1>4, <1>6, <1>7, <1>8, <1>9, <1>11, StarterMoves

\* A job is counted as long as the starter has not counted it down.
LEMMA StarterCounted ==
    ASSUME TypeOK, CountInv, NEW j \in Job, starter.data = j, starter.pc \in StarterPc
    PROVE  domain[DomainOf[j]].threadpool_jobs > 0
<1>1. PICK d \in Domain : d = DomainOf[j]
  BY PoolAssumption
<1>2. j \in StarterCounts(d)
  BY <1>1 DEF StarterCounts
<1>3. Cardinality(StarterCounts(d)) \in Nat /\ Cardinality(StarterCounts(d)) # 0
  BY <1>2, CountsFacts, FS_EmptySet
<1>4. domain[d].threadpool_jobs >= Counts(d) /\ domain[d].threadpool_jobs \in Nat
  BY DEF CountInv, TypeOK, DomainState
<1>5. /\ Cardinality(QueueCounts(d)) \in Nat /\ Cardinality(ClientCounts(d)) \in Nat
      /\ Cardinality(WorkerCounts(d)) \in Nat
  BY CountsFacts
<1> QED BY <1>1, <1>3, <1>4, <1>5 DEF Counts

LEMMA StarterDecInv == ASSUME IInv, StarterDec PROVE IInv'
<1>1. TypeOK /\ StarterInv /\ PlaceInv /\ CountInv
  BY DEF IInv
<1>2. PICK j \in Job : j = starter.data /\ client[j] = "done"
  BY <1>1 DEF TypeOK, StarterState, StarterInv, StarterDec
<1>3. /\ starter.pc \in {"dec", "again"} /\ domain' = JobsDec(j) /\ tp_idle_started' = tp_idle_started
      /\ UNCHANGED <<poolVars, client, worker, unload, ran>>
  BY <1>2 DEF StarterDec, poolVars
<1>4. /\ starter' \in StarterState
      /\ \/ starter'.pc \in {"pulse_loop", "pulse_off"} /\ starter'.data = j
         \/ starter'.pc \in {"loop", "off"} /\ starter'.data = NULL
  BY <1>2 DEF StarterDec, Starter, StarterState
<1>5. domain[DomainOf[j]].threadpool_jobs > 0
  BY <1>1, <1>2, <1>3, StarterCounted DEF StarterPc
<1>6. /\ domain' \in [Domain -> DomainState] /\ SameState
      /\ \A d \in Domain : domain'[d].threadpool_jobs =
           IF d = DomainOf[j] THEN domain[d].threadpool_jobs - 1 ELSE domain[d].threadpool_jobs
  BY <1>1, <1>3, <1>5, DecEffect
<1>7. StarterInv'
  BY <1>1, <1>2, <1>3, <1>4 DEF StarterInv
<1>8. client' \in [Job -> ClientPc] /\ Releasing' = Releasing
  BY <1>1, <1>3 DEF TypeOK, Releasing
<1>9. ASSUME NEW i \in Job
      PROVE  /\ AtClient(i)' \/ AtStarter(i)' <=> AtClient(i) \/ AtStarter(i)
             /\ ~(AtClient(i)' /\ AtStarter(i)')
             /\ client[i] \in {"new", "done"} \/ (starter.data = i /\ starter.pc = "again") =>
                  client'[i] \in {"new", "done"} \/ (starter'.data = i /\ starter'.pc = "again")
             /\ ~(starter'.data = i /\ starter'.pc \in StarterPc)
  <2>1. i # NULL
    BY NullFacts
  <2>2. ~AtStarter(i) /\ ~AtStarter(i)' /\ (AtClient(i)' <=> AtClient(i))
    BY <1>2, <1>3, <1>4, <2>1 DEF AtStarter, AtClient
  <2>3. ~(starter'.data = i /\ starter'.pc \in StarterPc)
    BY <1>4, <2>1 DEF StarterPc
  <2> QED BY <1>2, <1>3, <2>2, <2>3
<1>10. ASSUME NEW d \in Domain PROVE domain'[d].threadpool_jobs >= Counts(d)'
  <2>1. QueueCounts(d)' = QueueCounts(d) /\ WorkerCounts(d)' = WorkerCounts(d)
        /\ ClientCounts(d)' = ClientCounts(d)
    BY <1>3 DEF QueueCounts, WorkerCounts, ClientCounts, InQueue, poolVars
  <2>2. StarterCounts(d)' = {}
    BY <1>9 DEF StarterCounts
  <2>3. domain[d].threadpool_jobs \in Nat /\ domain'[d].threadpool_jobs \in Nat
    BY <1>1, <1>6 DEF TypeOK, DomainState
  <2>4. CASE d # DomainOf[j]
    BY <1>1, <1>6, <2>1, <2>2, <2>3, <2>4, CountFrame
  <2>5. CASE d = DomainOf[j]
    <3>1. j \in StarterCounts(d)
      BY <1>2, <1>3, <2>5 DEF StarterCounts, StarterPc
    <3>2. /\ Cardinality(StarterCounts(d)) \in Nat /\ Cardinality(StarterCounts(d)') \in Nat
          /\ Cardinality(StarterCounts(d)') <= Cardinality(StarterCounts(d)) - 1
      BY <2>2, <3>1, CountsFacts, CardShrink
    <3>3. Cardinality(QueueCounts(d)) \in Nat /\ Cardinality(ClientCounts(d)) \in Nat
          /\ Cardinality(WorkerCounts(d)) \in Nat
      BY CountsFacts
    <3>4. domain[d].threadpool_jobs >= Counts(d) /\ domain'[d].threadpool_jobs = domain[d].threadpool_jobs - 1
      BY <1>1, <1>6, <2>5 DEF CountInv
    <3> QED BY <2>1, <2>3, <3>2, <3>3, <3>4 DEF Counts
  <2> QED BY <2>4, <2>5
<1>11. CountInv'
  BY <1>10 DEF CountInv
<1> QED BY <1>3, <1>4, <1>6, <1>7, <1>8, <1>9, <1>11, StarterMoves

LEMMA StarterPulseInv == ASSUME IInv, StarterPulse PROVE IInv'
<1>1. TypeOK /\ StarterInv /\ PlaceInv /\ CountInv
  BY DEF IInv
<1>2. PICK j \in Job : j = starter.data
  BY <1>1 DEF TypeOK, StarterState, StarterInv, StarterPulse
<1>3. /\ starter.pc \in {"pulse_loop", "pulse_off"} /\ domain' = Pulse(j) /\ tp_idle_started' = tp_idle_started
      /\ UNCHANGED <<poolVars, client, worker, unload, ran>>
  BY <1>2 DEF StarterPulse, poolVars
<1>4. starter' \in StarterState /\ starter'.pc \in {"loop", "off"} /\ starter'.data = NULL
  BY DEF StarterPulse, Starter, StarterState
<1>5. /\ domain' \in [Domain -> DomainState] /\ SameState
      /\ \A d \in Domain : domain'[d].threadpool_jobs = domain[d].threadpool_jobs
  BY <1>1, <1>3, PulseEffect
<1>6. StarterInv'
  BY <1>1, <1>3, <1>4 DEF StarterInv
<1>7. client' \in [Job -> ClientPc] /\ Releasing' = Releasing
  BY <1>1, <1>3 DEF TypeOK, Releasing
<1>8. ASSUME NEW i \in Job
      PROVE  /\ AtClient(i)' \/ AtStarter(i)' <=> AtClient(i) \/ AtStarter(i)
             /\ ~(AtClient(i)' /\ AtStarter(i)')
             /\ client[i] \in {"new", "done"} \/ (starter.data = i /\ starter.pc = "again") =>
                  client'[i] \in {"new", "done"} \/ (starter'.data = i /\ starter'.pc = "again")
             /\ ~(starter'.data = i /\ starter'.pc \in StarterPc)
  <2>1. i # NULL
    BY NullFacts
  <2>2. ~AtStarter(i) /\ ~AtStarter(i)' /\ (AtClient(i)' <=> AtClient(i))
    BY <1>3, <1>4, <2>1 DEF AtStarter, AtClient
  <2> QED BY <1>3, <1>4, <2>1, <2>2
<1>9. ASSUME NEW d \in Domain PROVE domain'[d].threadpool_jobs >= Counts(d)'
  <2>1. QueueCounts(d)' = QueueCounts(d) /\ WorkerCounts(d)' = WorkerCounts(d)
        /\ ClientCounts(d)' = ClientCounts(d)
    BY <1>3 DEF QueueCounts, WorkerCounts, ClientCounts, InQueue, poolVars
  <2>2. StarterCounts(d)' \subseteq StarterCounts(d)
    BY <1>8 DEF StarterCounts
  <2>3. domain[d].threadpool_jobs \in Nat /\ domain'[d].threadpool_jobs = domain[d].threadpool_jobs
    BY <1>1, <1>5 DEF TypeOK, DomainState
  <2> QED BY <1>1, <2>1, <2>2, <2>3, CountFrame
<1>10. CountInv'
  BY <1>9 DEF CountInv
<1> QED BY <1>3, <1>4, <1>5, <1>6, <1>7, <1>8, <1>10, StarterMoves

-----------------------------------------------------------------------------
\* The workers.

\* What changes when a worker moves on and takes no job.
WorkerMove(w) ==
    /\ worker' \in [Worker -> WorkerState]
    /\ \A v \in Worker \ {w} : worker'[v] = worker[v]
    /\ worker'[w].data \in {worker[w].data, NULL}
    /\ worker'[w].data # NULL /\ worker'[w].pc \in CountedPc => worker[w].pc \in CountedPc
    /\ UNCHANGED <<queue, tp_idle_started, client, starter, unload>>
    /\ domain' \in [Domain -> DomainState] /\ SameState

\* The invariants that only say where jobs are.
LEMMA WorkerMoves ==
    ASSUME IInv, NEW w \in Worker, WorkerMove(w), WorkerOK(w)', RanInv', CountInv', PoolInv', WakeInv',
           ran' \in [Job -> Nat], job_added' \in Nat,
           mono_worker_threads' \in Nat, busy_worker_threads' \in Nat
    PROVE  IInv'
<1>1. /\ TypeOK /\ QueueInv /\ DomainInv /\ StarterInv /\ WorkerInv /\ PlaceInv /\ UnloadInv
  BY DEF IInv
<1>2. /\ worker' \in [Worker -> WorkerState]
      /\ \A v \in Worker \ {w} : worker'[v] = worker[v]
      /\ worker'[w].data \in {worker[w].data, NULL}
      /\ worker'[w].data # NULL /\ worker'[w].pc \in CountedPc => worker[w].pc \in CountedPc
      /\ UNCHANGED <<queue, tp_idle_started, client, starter, unload>>
      /\ domain' \in [Domain -> DomainState] /\ SameState
  BY DEF WorkerMove
<1>3. DomainInv' /\ \A d \in Domain : Doomed(d)' <=> Doomed(d)
  BY <1>1, <1>2, DomainFrame
<1>4. QueueInv' /\ \A i \in Job : InQueue(i)' <=> InQueue(i)
  BY <1>1, <1>2, QueueFrame
<1>5. TypeOK'
  BY <1>1, <1>2 DEF TypeOK
<1>6. StarterInv' /\ \A i \in Job : AtStarter(i)' <=> AtStarter(i)
  BY <1>1, <1>2, StarterFrame
<1>7. ASSUME NEW v \in Worker PROVE WorkerOK(v)'
  <2>1. CASE v # w
    <3>1. worker'[v].pc = worker[v].pc /\ worker'[v].data = worker[v].data /\ WorkerOK(v)
      BY <1>1, <1>2, <2>1 DEF WorkerInv
    <3> QED BY <1>1, <1>3, <3>1, WorkerFrame
  <2> QED BY <2>1
<1>8. \A i \in Job : AtClient(i)' <=> AtClient(i)
  BY <1>2 DEF AtClient
<1>9. \A v \in Worker : worker'[v].data \in {worker[v].data, NULL}
  BY <1>2
<1>10. PlaceInv'
  BY <1>1, <1>4, <1>6, <1>8, <1>9, PlaceFrame
<1>11. ASSUME NEW i \in Job PROVE UnloadOK(i)'
  <2>1. UnloadOK(i) /\ i # NULL
    BY <1>1, NullFacts DEF UnloadInv
  <2>2. \A v \in Worker : AtWorker(i, v)' /\ worker'[v].pc \in CountedPc =>
          AtWorker(i, v) /\ worker[v].pc \in CountedPc
    BY <1>2, <2>1 DEF AtWorker
  <2> QED BY <1>2, <1>4, <2>1, <2>2 DEF UnloadOK
<1> QED BY <1>3, <1>4, <1>5, <1>6, <1>7, <1>10, <1>11 DEF IInv, WorkerInv, UnloadInv

\* The job stays where it is.
LEMMA WorkerKeepsJob ==
    ASSUME IInv, NEW w \in Worker, WorkerMove(w), UNCHANGED ran, worker'[w].data = worker[w].data,
           worker'[w].data # NULL =>
             (worker'[w].pc \in {"run", "pop"} <=> worker[w].pc \in {"run", "pop"})
    PROVE  RanInv'
<1>1. TypeOK /\ DomainInv /\ RanInv /\ QueueInv /\ StarterInv
  BY DEF IInv
<1>2. /\ \A v \in Worker \ {w} : worker'[v] = worker[v]
      /\ UNCHANGED <<queue, tp_idle_started, client, starter, unload>> /\ SameState
  BY DEF WorkerMove
<1>3. \A d \in Domain : Doomed(d)' <=> Doomed(d)
  BY <1>1, <1>2, DomainFrame
<1>4. \A i \in Job : /\ InQueue(i)' <=> InQueue(i)
                     /\ AtStarter(i)' <=> AtStarter(i)
                     /\ AtClient(i)' <=> AtClient(i)
  BY <1>2 DEF InQueue, AtStarter, AtClient
<1>5. \A v \in Worker : /\ worker'[v].data = worker[v].data
                        /\ worker'[v].data # NULL =>
                             (worker'[v].pc \in {"run", "pop"} <=> worker[v].pc \in {"run", "pop"})
  BY <1>2
<1> QED BY <1>1, <1>3, <1>4, <1>5, RanFrame

\* The worker has no job any more, because it ran or its domain is unloaded.
LEMMA WorkerDropsJob ==
    ASSUME IInv, NEW w \in Worker, WorkerMove(w), UNCHANGED ran, worker'[w].data = NULL,
           NEW j \in Job, worker[w].data = j, ran[j] = 1 \/ Doomed(DomainOf[j])
    PROVE  RanInv'
<1>1. TypeOK /\ DomainInv /\ RanInv /\ PlaceInv
  BY DEF IInv
<1>2. /\ \A v \in Worker \ {w} : worker'[v] = worker[v]
      /\ UNCHANGED <<queue, tp_idle_started, client, starter, unload>> /\ SameState
  BY DEF WorkerMove
<1>3. \A d \in Domain : Doomed(d)' <=> Doomed(d)
  BY <1>1, <1>2, DomainFrame
<1> SUFFICES ASSUME NEW i \in Job PROVE RanOK(i)'
  BY DEF RanInv
<1>4. /\ InQueue(i)' <=> InQueue(i)
      /\ AtStarter(i)' <=> AtStarter(i)
      /\ AtClient(i)' <=> AtClient(i)
  BY <1>2 DEF InQueue, AtStarter, AtClient
<1>5. RanOK(i) /\ i # NULL /\ (Doomed(DomainOf[i])' <=> Doomed(DomainOf[i])) /\ ran' = ran
  BY <1>1, <1>3, NullFacts, PoolAssumption DEF RanInv
<1>6. \A v \in Worker : AtWorker(i, v)' => AtWorker(i, v) /\ worker'[v].pc = worker[v].pc
  BY <1>2, <1>5 DEF AtWorker
<1>7. i # j => \A v \in Worker : AtWorker(i, v) => AtWorker(i, v)'
  BY <1>2, <1>5 DEF AtWorker
<1>8. ran'[i] <= 1 /\ (AtClient(i)' \/ AtStarter(i)' \/ InQueue(i)' => ran'[i] = 0)
  BY <1>4, <1>5 DEF RanOK
<1>9. ASSUME NEW v \in Worker, AtWorker(i, v)'
      PROVE  /\ worker'[v].pc \notin {"run", "pop"} => ran'[i] = 0
             /\ worker'[v].pc \in {"run", "pop"} => ran'[i] = 1 \/ Doomed(DomainOf[i])'
  BY <1>5, <1>6, <1>9 DEF RanOK
<1>10. ran'[i] = 0 /\ ~AtClient(i)' /\ ~AtStarter(i)' /\ ~InQueue(i)'
       /\ (\A v \in Worker : ~AtWorker(i, v)') => Doomed(DomainOf[i])'
  BY <1>4, <1>5, <1>7 DEF RanOK
<1> QED BY <1>8, <1>9, <1>10 DEF RanOK

LEMMA WorkerKeepsCount ==
    ASSUME IInv, NEW w \in Worker, WorkerMove(w),
           \A d \in Domain : domain'[d].threadpool_jobs = domain[d].threadpool_jobs
    PROVE  CountInv'
<1>1. TypeOK /\ CountInv
  BY DEF IInv
<1>2. /\ \A v \in Worker \ {w} : worker'[v] = worker[v]
      /\ worker'[w].data \in {worker[w].data, NULL}
      /\ worker'[w].data # NULL /\ worker'[w].pc \in CountedPc => worker[w].pc \in CountedPc
      /\ UNCHANGED <<queue, client, starter>>
  BY DEF WorkerMove
<1> SUFFICES ASSUME NEW d \in Domain PROVE domain'[d].threadpool_jobs >= Counts(d)'
  BY DEF CountInv
<1>3. QueueCounts(d)' = QueueCounts(d) /\ ClientCounts(d)' = ClientCounts(d)
      /\ StarterCounts(d)' = StarterCounts(d)
  BY <1>2 DEF QueueCounts, ClientCounts, StarterCounts, InQueue
<1>4. WorkerCounts(d)' \subseteq WorkerCounts(d)
  BY <1>2 DEF WorkerCounts
<1>5. domain[d].threadpool_jobs \in Nat /\ domain'[d].threadpool_jobs = domain[d].threadpool_jobs
  BY <1>1 DEF TypeOK, DomainState
<1> QED BY <1>1, <1>3, <1>4, <1>5, CountFrame

LEMMA WorkerKeepsPool ==
    ASSUME IInv, NEW w \in Worker, WorkerMove(w), worker[w].pc \notin {"off", "taken"},
           worker'[w].pc # "off", UNCHANGED <<mono_worker_threads, busy_worker_threads>>
    PROVE  PoolInv'
<1>1. TypeOK /\ PoolInv
  BY DEF IInv
<1>2. \A v \in Worker : /\ worker'[v].data \in {worker[v].data, NULL}
                        /\ worker'[v].pc = "off" <=> worker[v].pc = "off"
                        /\ worker[v].pc = "taken" => worker'[v].pc = "taken"
  BY DEF WorkerMove
<1> QED BY <1>1, <1>2, PoolFrame

LEMMA WorkerKeepsWake ==
    ASSUME IInv, NEW w \in Worker, WorkerMove(w), UNCHANGED job_added,
           worker[w].pc \notin {"timed_dequeue", "idle_dequeue"},
           worker'[w].pc \notin {"timed_dequeue", "idle_dequeue"}
    PROVE  WakeInv'
<1>1. WakeInv /\ UNCHANGED queue
  BY DEF IInv, WorkerMove
<1>2. Woken' = Woken /\ Releasing' = Releasing
  BY DEF Woken, Releasing, WorkerMove
<1> QED BY <1>1, <1>2 DEF WakeInv

\* The steps that touch nothing but the worker, its job and the domains.
LEMMA WorkerSteps ==
    ASSUME IInv, NEW w \in Worker, WorkerMove(w), WorkerOK(w)', RanInv', ran' \in [Job -> Nat],
           \A d \in Domain : domain'[d].threadpool_jobs = domain[d].threadpool_jobs,
           UNCHANGED <<job_added, mono_worker_threads, busy_worker_threads>>,
           worker[w].pc \notin {"off", "taken", "timed_dequeue", "idle_dequeue"},
           worker'[w].pc \notin {"off", "timed_dequeue", "idle_dequeue"}
    PROVE  IInv'
<1>1. job_added' \in Nat /\ mono_worker_threads' \in Nat /\ busy_worker_threads' \in Nat
  BY DEF IInv, TypeOK
<1>2. CountInv'
  BY WorkerKeepsCount
<1>3. PoolInv'
  BY WorkerKeepsPool
<1>4. WakeInv'
  BY WorkerKeepsWake
<1> QED BY <1>1, <1>2, <1>3, <1>4, WorkerMoves

LEMMA GotoMove ==
    ASSUME IInv, NEW w \in Worker, NEW pc \in WorkerPc, Goto(w, pc),
           UNCHANGED <<queue, tp_idle_started, client, starter, unload>>,
           domain' \in [Domain -> DomainState], SameState,
           worker[w].data # NULL /\ pc \in CountedPc => worker[w].pc \in CountedPc
    PROVE  WorkerMove(w) /\ worker'[w].pc = pc /\ worker'[w].data = worker[w].data
<1>1. /\ worker' \in [Worker -> WorkerState]
      /\ worker'[w].pc = pc /\ worker'[w].data = worker[w].data
      /\ \A v \in Worker \ {w} : worker'[v] = worker[v]
  BY GotoEffect DEF IInv
<1> QED BY <1>1 DEF WorkerMove

LEMMA DropMove ==
    ASSUME IInv, NEW w \in Worker, NEW pc \in WorkerPc, Drop(w, pc),
           UNCHANGED <<queue, tp_idle_started, client, starter, unload>>,
           domain' \in [Domain -> DomainState], SameState
    PROVE  WorkerMove(w) /\ worker'[w].pc = pc /\ worker'[w].data = NULL
<1>1. /\ worker' \in [Worker -> WorkerState]
      /\ worker'[w].pc = pc /\ worker'[w].data = NULL
      /\ \A v \in Worker \ {w} : worker'[v] = worker[v]
  BY DropEffect DEF IInv
<1> QED BY <1>1 DEF WorkerMove

LEMMA SameDomain ==
    ASSUME TypeOK, UNCHANGED domain
    PROVE  /\ domain' \in [Domain -> DomainState] /\ SameState
           /\ \A d \in Domain : domain'[d].threadpool_jobs = domain[d].threadpool_jobs
BY DEF TypeOK, SameState

\* What a worker at one of these places has.
LEMMA WorkerJob ==
    ASSUME IInv, NEW w \in Worker, worker[w].pc \in JobPc
    PROVE  /\ worker[w].data \in Job /\ worker[w].data # NULL /\ DomainOf[worker[w].data] \in Domain
           /\ worker[w].pc \in {"refuse", "refused"} => Doomed(DomainOf[worker[w].data])
           /\ worker[w].pc \notin {"run", "pop"} => ran[worker[w].data] = 0
           /\ worker[w].pc \in {"run", "pop"} =>
                ran[worker[w].data] = 1 \/ Doomed(DomainOf[worker[w].data])
<1>1. WorkerOK(w) /\ worker[w].data \in Job \cup {NULL}
  BY DEF IInv, WorkerInv, TypeOK, WorkerState
<1>2. PICK j \in Job : j = worker[w].data
  BY <1>1 DEF WorkerOK
<1>3. j # NULL /\ DomainOf[j] \in Domain
  BY NullFacts, PoolAssumption
<1>4. RanOK(j) /\ AtWorker(j, w)
  BY <1>2 DEF IInv, RanInv, AtWorker
<1> QED BY <1>1, <1>2, <1>3, <1>4 DEF RanOK, WorkerOK

\* A worker elsewhere has none.
LEMMA WorkerFree ==
    ASSUME IInv, NEW w \in Worker, worker[w].pc \notin JobPc \cup {"top"}
    PROVE  worker[w].data = NULL
BY DEF IInv, WorkerInv, WorkerOK

LEMMA TopInv == ASSUME IInv, NEW w \in Worker, Top(w) PROVE IInv'
<1>1. TypeOK /\ worker[w].pc = "top" /\ UNCHANGED <<poolVars, client, starter, domain, unload, ran>>
  BY DEF IInv, Top, WorkerAt
<1>2. UNCHANGED <<queue, job_added, tp_idle_started, mono_worker_threads, busy_worker_threads>>
      /\ ran' \in [Job -> Nat]
  BY <1>1 DEF poolVars, TypeOK
<1>3. /\ domain' \in [Domain -> DomainState] /\ SameState
      /\ \A d \in Domain : domain'[d].threadpool_jobs = domain[d].threadpool_jobs
  BY <1>1, SameDomain
<1>4. PICK pc \in {"dequeue", "refuse", "push"} :
        /\ Goto(w, pc)
        /\ pc = "dequeue" <=> worker[w].data = NULL
        /\ pc = "refuse" => Doomed(DomainOf[worker[w].data])
  BY DEF Top
<1>5. WorkerMove(w) /\ worker'[w].pc = pc /\ worker'[w].data = worker[w].data
  BY <1>1, <1>2, <1>3, <1>4, GotoMove DEF WorkerPc, CountedPc
<1>6. WorkerOK(w)'
  <2>1. worker[w].data # NULL => DomainOf[worker[w].data] \in Domain
    BY <1>1, PoolAssumption DEF TypeOK, WorkerState
  <2>2. \A d \in Domain : Doomed(d) => Doomed(d)'
    BY <1>1 DEF Doomed
  <2>3. pc = "refuse" => Doomed(DomainOf[worker[w].data])'
    BY <1>1, <1>4, <1>5, <2>1, <2>2 DEF Doomed
  <2> QED BY <1>4, <1>5, <2>3 DEF WorkerOK, JobPc
<1>7. RanInv'
  BY <1>1, <1>4, <1>5, WorkerKeepsJob
<1> QED BY <1>1, <1>2, <1>3, <1>4, <1>5, <1>6, <1>7, WorkerSteps

\* A worker counts its job down.
LEMMA WorkerCounted ==
    ASSUME IInv, NEW w \in Worker, NEW j \in Job, worker[w].data = j, worker[w].pc \in CountedPc
    PROVE  domain[DomainOf[j]].threadpool_jobs > 0
<1>1. PICK d \in Domain : d = DomainOf[j]
  BY PoolAssumption
<1>2. w \in WorkerCounts(d)
  BY <1>1, NullFacts DEF WorkerCounts
<1>3. Cardinality(WorkerCounts(d)) \in Nat /\ Cardinality(WorkerCounts(d)) # 0
  BY <1>2, CountsFacts, FS_EmptySet
<1>4. domain[d].threadpool_jobs >= Counts(d) /\ domain[d].threadpool_jobs \in Nat
  BY DEF IInv, CountInv, TypeOK, DomainState
<1>5. /\ Cardinality(QueueCounts(d)) \in Nat /\ Cardinality(ClientCounts(d)) \in Nat
      /\ Cardinality(StarterCounts(d)) \in Nat
  BY CountsFacts
<1> QED BY <1>1, <1>3, <1>4, <1>5 DEF Counts

LEMMA WorkerCountsDown ==
    ASSUME IInv, NEW w \in Worker, NEW j \in Job, WorkerMove(w),
           worker[w].data = j, worker[w].pc \in CountedPc,
           worker'[w].data = NULL \/ worker'[w].pc \notin CountedPc,
           \A d \in Domain : domain'[d].threadpool_jobs =
             IF d = DomainOf[j] THEN domain[d].threadpool_jobs - 1 ELSE domain[d].threadpool_jobs
    PROVE  CountInv'
<1>1. TypeOK /\ CountInv
  BY DEF IInv
<1>2. /\ \A v \in Worker \ {w} : worker'[v] = worker[v]
      /\ UNCHANGED <<queue, client, starter>> /\ domain' \in [Domain -> DomainState]
  BY DEF WorkerMove
<1> SUFFICES ASSUME NEW d \in Domain PROVE domain'[d].threadpool_jobs >= Counts(d)'
  BY DEF CountInv
<1>3. QueueCounts(d)' = QueueCounts(d) /\ ClientCounts(d)' = ClientCounts(d)
      /\ StarterCounts(d)' = StarterCounts(d)
  BY <1>2 DEF QueueCounts, ClientCounts, StarterCounts, InQueue
<1>4. WorkerCounts(d)' \subseteq WorkerCounts(d) \ {w} /\ (d = DomainOf[j] => w \in WorkerCounts(d))
  BY <1>2, NullFacts DEF WorkerCounts
<1>5. domain[d].threadpool_jobs \in Nat /\ domain'[d].threadpool_jobs \in Nat
  BY <1>1, <1>2 DEF TypeOK, DomainState
<1>6. CASE d # DomainOf[j]
  <2>1. WorkerCounts(d)' \subseteq WorkerCounts(d) /\ domain'[d].threadpool_jobs = domain[d].threadpool_jobs
    BY <1>4, <1>6
  <2> QED BY <1>1, <1>3, <1>5, <2>1, CountFrame
<1>7. CASE d = DomainOf[j]
  <2>1. /\ Cardinality(WorkerCounts(d)) \in Nat /\ Cardinality(WorkerCounts(d)') \in Nat
        /\ Cardinality(WorkerCounts(d)') <= Cardinality(WorkerCounts(d)) - 1
    BY <1>4, <1>7, CountsFacts, CardShrink
  <2>2. Cardinality(QueueCounts(d)) \in Nat /\ Cardinality(ClientCounts(d)) \in Nat
        /\ Cardinality(StarterCounts(d)) \in Nat
    BY CountsFacts
  <2>3. domain[d].threadpool_jobs >= Counts(d) /\ domain'[d].threadpool_jobs = domain[d].threadpool_jobs - 1
    BY <1>1, <1>7 DEF CountInv
  <2> QED BY <1>3, <1>5, <2>1, <2>2, <2>3 DEF Counts
<1> QED BY <1>6, <1>7

LEMMA RefuseInv == ASSUME IInv, NEW w \in Worker, Refuse(w) PROVE IInv'
<1>1. TypeOK /\ worker[w].pc = "refuse" /\ UNCHANGED <<poolVars, client, starter, unload, ran>>
  BY DEF IInv, Refuse, WorkerAt
<1>2. /\ UNCHANGED <<queue, job_added, tp_idle_started, mono_worker_threads, busy_worker_threads>>
      /\ ran' \in [Job -> Nat] /\ job_added' \in Nat
      /\ mono_worker_threads' \in Nat /\ busy_worker_threads' \in Nat
  BY <1>1 DEF poolVars, TypeOK
<1>3. PICK j \in Job : j = worker[w].data /\ j # NULL /\ Doomed(DomainOf[j]) /\ DomainOf[j] \in Domain
  BY <1>1, WorkerJob DEF JobPc
<1>4. domain' = JobsDec(j) /\ domain[DomainOf[j]].threadpool_jobs > 0
  BY <1>1, <1>3, WorkerCounted DEF Refuse, CountedPc
<1>5. /\ domain' \in [Domain -> DomainState] /\ SameState
      /\ \A d \in Domain : domain'[d].threadpool_jobs =
           IF d = DomainOf[j] THEN domain[d].threadpool_jobs - 1 ELSE domain[d].threadpool_jobs
  BY <1>1, <1>4, DecEffect
<1>6. WorkerMove(w) /\ \/ worker'[w].pc = "refused" /\ worker'[w].data = j
                       \/ worker'[w].pc = "dequeue" /\ worker'[w].data = NULL
  <2>1. CASE LastJob(j)
    <3>1. Goto(w, "refused")
      BY <1>3, <2>1 DEF Refuse
    <3> QED BY <1>1, <1>2, <1>3, <1>5, <3>1, GotoMove DEF WorkerPc, CountedPc
  <2>2. CASE ~LastJob(j)
    <3>1. Drop(w, "dequeue")
      BY <1>3, <2>2 DEF Refuse
    <3> QED BY <1>1, <1>2, <1>5, <3>1, DropMove DEF WorkerPc
  <2> QED BY <2>1, <2>2
<1>7. WorkerOK(w)'
  <2>1. Doomed(DomainOf[j])'
    BY <1>3, <1>5 DEF SameState, Doomed
  <2> QED BY <1>3, <1>6, <2>1 DEF WorkerOK, JobPc
<1>8. RanInv'
  BY <1>1, <1>3, <1>6, WorkerKeepsJob, WorkerDropsJob
<1>9. CountInv'
  BY <1>1, <1>3, <1>5, <1>6, WorkerCountsDown DEF CountedPc
<1>10. PoolInv'
  BY <1>1, <1>2, <1>6, WorkerKeepsPool
<1>11. WakeInv'
  BY <1>1, <1>2, <1>6, WorkerKeepsWake
<1> QED BY <1>2, <1>6, <1>7, <1>8, <1>9, <1>10, <1>11, WorkerMoves

LEMMA RefusePulseInv == ASSUME IInv, NEW w \in Worker, RefusePulse(w) PROVE IInv'
<1>1. TypeOK /\ worker[w].pc = "refused" /\ UNCHANGED <<poolVars, client, starter, unload, ran>>
  BY DEF IInv, RefusePulse, WorkerAt
<1>2. UNCHANGED <<queue, job_added, tp_idle_started, mono_worker_threads, busy_worker_threads>>
      /\ ran' \in [Job -> Nat]
  BY <1>1 DEF poolVars, TypeOK
<1>3. PICK j \in Job : j = worker[w].data /\ Doomed(DomainOf[j])
  BY <1>1, WorkerJob DEF JobPc
<1>4. /\ domain' \in [Domain -> DomainState] /\ SameState
      /\ \A d \in Domain : domain'[d].threadpool_jobs = domain[d].threadpool_jobs
  BY <1>1, <1>3, PulseEffect DEF RefusePulse
<1>5. WorkerMove(w) /\ worker'[w].pc = "dequeue" /\ worker'[w].data = NULL
  BY <1>1, <1>2, <1>4, DropMove DEF RefusePulse, WorkerPc
<1>6. WorkerOK(w)'
  BY <1>5 DEF WorkerOK, JobPc
<1>7. RanInv'
  BY <1>1, <1>3, <1>5, WorkerDropsJob
<1> QED BY <1>1, <1>2, <1>4, <1>5, <1>6, <1>7, WorkerSteps

LEMMA PushRefInv == ASSUME IInv, NEW w \in Worker, PushRef(w) PROVE IInv'
<1>1. /\ TypeOK /\ worker[w].pc = "push" /\ Goto(w, "dec")
      /\ UNCHANGED <<poolVars, client, starter, domain, unload, ran>>
  BY DEF IInv, PushRef, WorkerAt
<1>2. UNCHANGED <<queue, job_added, tp_idle_started, mono_worker_threads, busy_worker_threads>>
      /\ ran' \in [Job -> Nat]
  BY <1>1 DEF poolVars, TypeOK
<1>3. worker[w].data \in Job /\ worker[w].data # NULL
  BY <1>1, WorkerJob DEF JobPc
<1>4. /\ domain' \in [Domain -> DomainState] /\ SameState
      /\ \A d \in Domain : domain'[d].threadpool_jobs = domain[d].threadpool_jobs
  BY <1>1, SameDomain
<1>5. WorkerMove(w) /\ worker'[w].pc = "dec" /\ worker'[w].data = worker[w].data
  BY <1>1, <1>2, <1>4, GotoMove DEF WorkerPc, CountedPc
<1>6. WorkerOK(w)'
  BY <1>3, <1>5 DEF WorkerOK, JobPc
<1>7. RanInv'
  BY <1>1, <1>5, WorkerKeepsJob
<1> QED BY <1>1, <1>2, <1>4, <1>5, <1>6, <1>7, WorkerSteps

LEMMA DecInv == ASSUME IInv, NEW w \in Worker, Dec(w) PROVE IInv'
<1>1. TypeOK /\ worker[w].pc = "dec" /\ UNCHANGED <<poolVars, client, starter, unload, ran>>
  BY DEF IInv, Dec, WorkerAt
<1>2. /\ UNCHANGED <<queue, job_added, tp_idle_started, mono_worker_threads, busy_worker_threads>>
      /\ ran' \in [Job -> Nat] /\ job_added' \in Nat
      /\ mono_worker_threads' \in Nat /\ busy_worker_threads' \in Nat
  BY <1>1 DEF poolVars, TypeOK
<1>3. PICK j \in Job : j = worker[w].data /\ j # NULL
  BY <1>1, WorkerJob DEF JobPc
<1>4. domain' = JobsDec(j) /\ domain[DomainOf[j]].threadpool_jobs > 0
  BY <1>1, <1>3, WorkerCounted DEF Dec, CountedPc
<1>5. /\ domain' \in [Domain -> DomainState] /\ SameState
      /\ \A d \in Domain : domain'[d].threadpool_jobs =
           IF d = DomainOf[j] THEN domain[d].threadpool_jobs - 1 ELSE domain[d].threadpool_jobs
  BY <1>1, <1>4, DecEffect
<1>6. PICK pc \in {"zero", "set"} : Goto(w, pc)
  BY DEF Dec
<1>7. WorkerMove(w) /\ worker'[w].pc = pc /\ worker'[w].data = j
  BY <1>1, <1>2, <1>3, <1>5, <1>6, GotoMove DEF WorkerPc, CountedPc
<1>8. WorkerOK(w)'
  BY <1>3, <1>7 DEF WorkerOK, JobPc
<1>9. RanInv'
  BY <1>1, <1>3, <1>7, WorkerKeepsJob
<1>10. CountInv'
  BY <1>1, <1>3, <1>5, <1>7, WorkerCountsDown DEF CountedPc
<1>11. PoolInv'
  BY <1>1, <1>2, <1>7, WorkerKeepsPool
<1>12. WakeInv'
  BY <1>1, <1>2, <1>7, WorkerKeepsWake
<1> QED BY <1>2, <1>7, <1>8, <1>9, <1>10, <1>11, <1>12, WorkerMoves

\* A worker whose domain is waited for is in a domain that is being unloaded.
LEMMA ZeroInv == ASSUME IInv, NEW w \in Worker, Zero(w) PROVE IInv'
<1>1. TypeOK /\ DomainInv /\ worker[w].pc = "zero" /\ UNCHANGED <<poolVars, client, starter, unload, ran>>
  BY DEF IInv, Zero, WorkerAt
<1>2. UNCHANGED <<queue, job_added, tp_idle_started, mono_worker_threads, busy_worker_threads>>
      /\ ran' \in [Job -> Nat]
  BY <1>1 DEF poolVars, TypeOK
<1>3. PICK j \in Job : j = worker[w].data /\ j # NULL /\ DomainOf[j] \in Domain
  BY <1>1, WorkerJob DEF JobPc
<1>4. /\ domain' \in [Domain -> DomainState] /\ SameState
      /\ \A d \in Domain : domain'[d].threadpool_jobs = domain[d].threadpool_jobs
  BY <1>1, <1>3, PulseEffect DEF Zero
<1>5. CASE Waited(j)
  <2>1. Doomed(DomainOf[j])
    BY <1>1, <1>3, <1>5 DEF DomainInv, Waited, Doomed
  <2>2. Drop(w, "dequeue")
    BY <1>3, <1>5 DEF Zero
  <2>3. WorkerMove(w) /\ worker'[w].pc = "dequeue" /\ worker'[w].data = NULL
    BY <1>1, <1>2, <1>4, <2>2, DropMove DEF WorkerPc
  <2>4. WorkerOK(w)'
    BY <2>3 DEF WorkerOK, JobPc
  <2>5. RanInv'
    BY <1>1, <1>3, <2>1, <2>3, WorkerDropsJob
  <2> QED BY <1>1, <1>2, <1>4, <2>3, <2>4, <2>5, WorkerSteps
<1>6. CASE ~Waited(j)
  <2>1. Goto(w, "set")
    BY <1>3, <1>6 DEF Zero
  <2>2. WorkerMove(w) /\ worker'[w].pc = "set" /\ worker'[w].data = j
    BY <1>1, <1>2, <1>3, <1>4, <2>1, GotoMove DEF WorkerPc, CountedPc
  <2>3. WorkerOK(w)'
    BY <1>3, <2>2 DEF WorkerOK, JobPc
  <2>4. RanInv'
    BY <1>1, <1>3, <2>2, WorkerKeepsJob
  <2> QED BY <1>1, <1>2, <1>4, <2>2, <2>3, <2>4, WorkerSteps
<1> QED BY <1>5, <1>6

LEMMA SetDomainInv == ASSUME IInv, NEW w \in Worker, SetDomain(w) PROVE IInv'
<1>1. TypeOK /\ RanInv /\ PlaceInv /\ worker[w].pc = "set" /\ UNCHANGED <<poolVars, client, starter, domain, unload>>
  BY DEF IInv, SetDomain, WorkerAt
<1>2. UNCHANGED <<queue, job_added, tp_idle_started, mono_worker_threads, busy_worker_threads>>
  BY <1>1 DEF poolVars
<1>3. PICK j \in Job : j = worker[w].data /\ j # NULL /\ ran[j] = 0
  BY <1>1, WorkerJob DEF JobPc
<1>4. /\ domain' \in [Domain -> DomainState] /\ SameState
      /\ \A d \in Domain : domain'[d].threadpool_jobs = domain[d].threadpool_jobs
  BY <1>1, SameDomain
<1>5. PICK pc \in {"pop", "run"} :
        /\ Goto(w, pc)
        /\ \/ pc = "pop" /\ Doomed(DomainOf[j]) /\ ran' = ran
           \/ pc = "run" /\ ran' = [ran EXCEPT ![j] = @ + 1]
  BY <1>3 DEF SetDomain, Doomed
<1>6. WorkerMove(w) /\ worker'[w].pc = pc /\ worker'[w].data = j
  BY <1>1, <1>2, <1>3, <1>4, <1>5, GotoMove DEF WorkerPc, CountedPc
<1>7. WorkerOK(w)'
  BY <1>3, <1>6 DEF WorkerOK, JobPc
<1>8. /\ ran' \in [Job -> Nat] /\ \A i \in Job \ {j} : ran'[i] = ran[i]
      /\ pc = "run" => ran'[j] = 1
      /\ pc = "pop" => ran'[j] = 0
  BY <1>1, <1>3, <1>5 DEF TypeOK
<1>9. ASSUME NEW i \in Job PROVE RanOK(i)'
  <2>1. /\ RanOK(i) /\ Placed(i) /\ i # NULL
        /\ Doomed(DomainOf[i])' <=> Doomed(DomainOf[i])
    BY <1>1, NullFacts DEF RanInv, PlaceInv, Doomed
  <2>2. /\ InQueue(i)' <=> InQueue(i)
        /\ AtStarter(i)' <=> AtStarter(i)
        /\ AtClient(i)' <=> AtClient(i)
    BY <1>1, <1>2 DEF InQueue, AtStarter, AtClient
  <2>3. \A v \in Worker : /\ AtWorker(i, v)' <=> AtWorker(i, v)
                          /\ v # w => worker'[v].pc = worker[v].pc
    BY <1>3, <1>6 DEF AtWorker, WorkerMove
  <2>4. CASE i # j
    <3>1. \A v \in Worker : AtWorker(i, v) => worker'[v].pc = worker[v].pc
      BY <1>3, <2>3, <2>4 DEF AtWorker
    <3>2. ran'[i] = ran[i]
      BY <1>8, <2>4
    <3> QED BY <2>1, <2>2, <2>3, <3>1, <3>2 DEF RanOK
  <2>5. CASE i = j
    <3>1. AtWorker(i, w) /\ \A v \in Worker : AtWorker(i, v) => v = w
      BY <1>3, <2>1, <2>5 DEF AtWorker, Placed
    <3>2. ~AtClient(i) /\ ~AtStarter(i) /\ ~InQueue(i)
      BY <2>1, <3>1 DEF Placed
    <3>3. worker'[w].pc \in {"run", "pop"} /\ ran'[i] <= 1 /\ (ran'[i] = 1 \/ Doomed(DomainOf[i])')
      BY <1>5, <1>6, <1>8, <2>1, <2>5
    <3> QED BY <2>2, <2>3, <3>1, <3>2, <3>3 DEF RanOK
  <2> QED BY <2>4, <2>5
<1>10. RanInv'
  BY <1>9 DEF RanInv
<1> QED BY <1>1, <1>2, <1>4, <1>5, <1>6, <1>7, <1>8, <1>10, WorkerSteps

LEMMA RunInv == ASSUME IInv, NEW w \in Worker, Run(w) PROVE IInv'
<1>1. /\ TypeOK /\ worker[w].pc = "run" /\ Goto(w, "pop")
      /\ UNCHANGED <<poolVars, client, starter, domain, unload, ran>>
  BY DEF IInv, Run, WorkerAt
<1>2. UNCHANGED <<queue, job_added, tp_idle_started, mono_worker_threads, busy_worker_threads>>
      /\ ran' \in [Job -> Nat]
  BY <1>1 DEF poolVars, TypeOK
<1>3. worker[w].data \in Job /\ worker[w].data # NULL
  BY <1>1, WorkerJob DEF JobPc
<1>4. /\ domain' \in [Domain -> DomainState] /\ SameState
      /\ \A d \in Domain : domain'[d].threadpool_jobs = domain[d].threadpool_jobs
  BY <1>1, SameDomain
<1>5. WorkerMove(w) /\ worker'[w].pc = "pop" /\ worker'[w].data = worker[w].data
  BY <1>1, <1>2, <1>4, GotoMove DEF WorkerPc, CountedPc
<1>6. WorkerOK(w)'
  BY <1>3, <1>5 DEF WorkerOK, JobPc
<1>7. RanInv'
  BY <1>1, <1>5, WorkerKeepsJob
<1> QED BY <1>1, <1>2, <1>4, <1>5, <1>6, <1>7, WorkerSteps

LEMMA CountBusyInv == ASSUME IInv, NEW w \in Worker, CountBusy(w) PROVE IInv'
<1>1. /\ TypeOK /\ PoolInv /\ worker[w].pc = "taken" /\ Goto(w, "top")
      /\ busy_worker_threads' = busy_worker_threads + 1
      /\ UNCHANGED <<queue, job_added, tp_idle_started, mono_worker_threads,
                     client, starter, domain, unload, ran>>
  BY DEF IInv, CountBusy, WorkerAt
<1>2. /\ domain' \in [Domain -> DomainState] /\ SameState
      /\ \A d \in Domain : domain'[d].threadpool_jobs = domain[d].threadpool_jobs
  BY <1>1, SameDomain
<1>3. WorkerMove(w) /\ worker'[w].pc = "top" /\ worker'[w].data = worker[w].data
  BY <1>1, <1>2, GotoMove DEF WorkerPc, CountedPc
<1>4. WorkerOK(w)'
  BY <1>3 DEF WorkerOK, JobPc
<1>5. RanInv'
  BY <1>1, <1>3, WorkerKeepsJob
<1>6. CountInv'
  BY <1>2, <1>3, WorkerKeepsCount
<1>7. PoolInv' /\ busy_worker_threads' \in Nat
  <2>1. Started' = Started /\ Working' \subseteq Working \cup {w}
    BY <1>1, <1>3 DEF Started, Working, WorkerMove
  <2>2. /\ Cardinality(Working) \in Nat /\ Cardinality(Working') \in Nat
        /\ Cardinality(Working') <= Cardinality(Working) + 1
    BY <2>1, PoolSets, CardGrow
  <2>3. busy_worker_threads \in Nat /\ busy_worker_threads >= Cardinality(Working)
        /\ mono_worker_threads = Cardinality(Started)
    BY <1>1 DEF TypeOK, PoolInv
  <2> QED BY <1>1, <2>1, <2>2, <2>3 DEF PoolInv
<1>8. WakeInv'
  BY <1>1, <1>3, WorkerKeepsWake
<1>9. ran' \in [Job -> Nat] /\ job_added' \in Nat /\ mono_worker_threads' \in Nat
  BY <1>1 DEF TypeOK
<1> QED BY <1>3, <1>4, <1>5, <1>6, <1>7, <1>8, <1>9, WorkerMoves

LEMMA PopRefInv == ASSUME IInv, NEW w \in Worker, PopRef(w) PROVE IInv'
<1>1. /\ TypeOK /\ PoolInv /\ worker[w].pc = "pop" /\ Drop(w, "dequeue")
      /\ busy_worker_threads' = busy_worker_threads - 1
      /\ UNCHANGED <<queue, job_added, tp_idle_started, mono_worker_threads,
                     client, starter, domain, unload, ran>>
  BY DEF IInv, PopRef, WorkerAt
<1>2. PICK j \in Job : j = worker[w].data /\ j # NULL /\ (ran[j] = 1 \/ Doomed(DomainOf[j]))
  BY <1>1, WorkerJob DEF JobPc
<1>3. /\ domain' \in [Domain -> DomainState] /\ SameState
      /\ \A d \in Domain : domain'[d].threadpool_jobs = domain[d].threadpool_jobs
  BY <1>1, SameDomain
<1>4. WorkerMove(w) /\ worker'[w].pc = "dequeue" /\ worker'[w].data = NULL
  BY <1>1, <1>3, DropMove DEF WorkerPc
<1>5. WorkerOK(w)'
  BY <1>4 DEF WorkerOK, JobPc
<1>6. RanInv'
  BY <1>1, <1>2, <1>4, WorkerDropsJob
<1>7. CountInv'
  BY <1>3, <1>4, WorkerKeepsCount
<1>8. PoolInv' /\ busy_worker_threads' \in Nat
  <2>1. Started' = Started /\ Working' \subseteq Working \ {w} /\ w \in Working
    BY <1>1, <1>2, <1>4 DEF Started, Working, WorkerMove
  <2>2. /\ Cardinality(Working) \in Nat /\ Cardinality(Working') \in Nat
        /\ Cardinality(Working') <= Cardinality(Working) - 1
    BY <2>1, PoolSets, CardShrink
  <2>3. busy_worker_threads \in Nat /\ busy_worker_threads >= Cardinality(Working)
        /\ mono_worker_threads = Cardinality(Started)
    BY <1>1 DEF TypeOK, PoolInv
  <2> QED BY <1>1, <2>1, <2>2, <2>3 DEF PoolInv
<1>9. WakeInv'
  BY <1>1, <1>4, WorkerKeepsWake
<1>10. ran' \in [Job -> Nat] /\ job_added' \in Nat /\ mono_worker_threads' \in Nat
  BY <1>1 DEF TypeOK
<1> QED BY <1>4, <1>5, <1>6, <1>7, <1>8, <1>9, <1>10, WorkerMoves

\* TimedOut and CountWorkers.
LEMMA IdleMoves ==
    ASSUME IInv, NEW w \in Worker, NEW pc \in {"count", "idle", "exit"}, Goto(w, pc),
           worker[w].pc \in {"timed", "count"},
           UNCHANGED <<poolVars, client, starter, domain, unload, ran>>
    PROVE  IInv'
<1>1. TypeOK /\ worker[w].data = NULL
  BY WorkerFree DEF IInv, JobPc
<1>2. UNCHANGED <<queue, job_added, tp_idle_started, mono_worker_threads, busy_worker_threads>>
      /\ ran' \in [Job -> Nat]
  BY <1>1 DEF poolVars, TypeOK
<1>3. /\ domain' \in [Domain -> DomainState] /\ SameState
      /\ \A d \in Domain : domain'[d].threadpool_jobs = domain[d].threadpool_jobs
  BY <1>1, SameDomain
<1>4. WorkerMove(w) /\ worker'[w].pc = pc /\ worker'[w].data = NULL
  BY <1>1, <1>2, <1>3, GotoMove DEF WorkerPc
<1>5. WorkerOK(w)'
  BY <1>4 DEF WorkerOK, JobPc
<1>6. RanInv'
  BY <1>1, <1>4, WorkerKeepsJob
<1> QED BY <1>2, <1>3, <1>4, <1>5, <1>6, WorkerSteps

\* TimedWait and IdleWait: the worker has a token.
LEMMA TokenTaken ==
    ASSUME IInv, NEW w \in Worker, NEW pc \in {"timed_dequeue", "idle_dequeue"}, Goto(w, pc),
           worker[w].pc \in {"timed", "idle"}, job_added > 0, job_added' = job_added - 1,
           UNCHANGED <<queue, tp_idle_started, mono_worker_threads, busy_worker_threads,
                       client, starter, domain, unload, ran>>
    PROVE  IInv'
<1>1. TypeOK /\ WakeInv /\ worker[w].data = NULL
  BY WorkerFree DEF IInv, JobPc
<1>2. /\ domain' \in [Domain -> DomainState] /\ SameState
      /\ \A d \in Domain : domain'[d].threadpool_jobs = domain[d].threadpool_jobs
  BY <1>1, SameDomain
<1>3. WorkerMove(w) /\ worker'[w].pc = pc /\ worker'[w].data = NULL
  BY <1>1, <1>2, GotoMove DEF WorkerPc
<1>4. WorkerOK(w)'
  BY <1>3 DEF WorkerOK, JobPc
<1>5. RanInv'
  BY <1>1, <1>3, WorkerKeepsJob
<1>6. CountInv'
  BY <1>2, <1>3, WorkerKeepsCount
<1>7. PoolInv'
  BY <1>3, WorkerKeepsPool
<1>8. /\ ran' \in [Job -> Nat] /\ job_added \in Nat /\ job_added' \in Nat
      /\ mono_worker_threads' \in Nat /\ busy_worker_threads' \in Nat
      /\ queue.next_elem \in Nat /\ queue.first_elem \in Nat
  BY <1>1 DEF TypeOK, TPQueue
<1>9. WakeInv'
  <2>1. Woken \subseteq Woken' \ {w} /\ w \in Woken' /\ Releasing' = Releasing
    BY <1>3 DEF Woken, Releasing, WorkerMove
  <2>2. IsFiniteSet(Woken')
    <3>1. Woken' \subseteq Worker
      BY DEF Woken
    <3> QED BY <3>1, FiniteSubsets
  <2>3. /\ Cardinality(Woken) \in Nat /\ Cardinality(Woken') \in Nat
        /\ Cardinality(Woken) <= Cardinality(Woken') - 1
    BY <2>1, <2>2, CardShrink
  <2>4. Cardinality(Releasing) \in Nat
    BY PoolSets
  <2> QED BY <1>1, <1>8, <2>1, <2>3, <2>4 DEF WakeInv
<1> QED BY <1>3, <1>4, <1>5, <1>6, <1>7, <1>8, <1>9, WorkerMoves

LEMMA ExitWorkerInv == ASSUME IInv, NEW w \in Worker, ExitWorker(w) PROVE IInv'
<1>1. /\ TypeOK /\ PoolInv /\ worker[w].pc = "exit" /\ Goto(w, "off")
      /\ mono_worker_threads' = mono_worker_threads - 1
      /\ UNCHANGED <<queue, job_added, tp_idle_started, busy_worker_threads,
                     client, starter, domain, unload, ran>>
  BY DEF IInv, ExitWorker, WorkerAt
<1>2. worker[w].data = NULL
  BY <1>1, WorkerFree DEF JobPc
<1>3. /\ domain' \in [Domain -> DomainState] /\ SameState
      /\ \A d \in Domain : domain'[d].threadpool_jobs = domain[d].threadpool_jobs
  BY <1>1, SameDomain
<1>4. WorkerMove(w) /\ worker'[w].pc = "off" /\ worker'[w].data = NULL
  BY <1>1, <1>2, <1>3, GotoMove DEF WorkerPc
<1>5. WorkerOK(w)'
  BY <1>4 DEF WorkerOK, JobPc
<1>6. RanInv'
  BY <1>1, <1>2, <1>4, WorkerKeepsJob
<1>7. CountInv'
  BY <1>3, <1>4, WorkerKeepsCount
<1>8. PoolInv' /\ mono_worker_threads' \in Nat
  <2>1. Started' = Started \ {w} /\ w \in Started /\ Working' = Working
    BY <1>1, <1>2, <1>4 DEF Started, Working, WorkerMove
  <2>2. Cardinality(Started') = Cardinality(Started) - 1 /\ IsFiniteSet(Started')
    BY <2>1, PoolSets, FS_RemoveElement
  <2>3. Cardinality(Started') \in Nat /\ Cardinality(Started) \in Nat
    BY <2>2, PoolSets, FS_CardinalityType
  <2> QED BY <1>1, <2>1, <2>2, <2>3 DEF PoolInv
<1>9. WakeInv'
  BY <1>1, <1>4, WorkerKeepsWake
<1>10. ran' \in [Job -> Nat] /\ job_added' \in Nat /\ busy_worker_threads' \in Nat
  BY <1>1 DEF TypeOK
<1> QED BY <1>4, <1>5, <1>6, <1>7, <1>8, <1>9, <1>10, WorkerMoves

\* Dequeue, TimedDequeue and IdleDequeue: a worker looks at the queue, with a token
\* or without one, and a job may go from the queue to the worker.
LEMMA TakeInv ==
    ASSUME IInv, NEW w \in Worker, NEW none \in {"exit", "timed", "count"}, Take(w, none),
           worker[w].pc \in {"dequeue", "timed_dequeue", "idle_dequeue"}, UNCHANGED job_added
    PROVE  IInv'
<1>1. /\ TypeOK /\ QueueInv /\ DomainInv /\ StarterInv /\ WorkerInv /\ PlaceInv /\ RanInv
      /\ UnloadInv /\ CountInv /\ PoolInv /\ WakeInv
  BY DEF IInv
<1>2. worker[w].data = NULL
  BY WorkerFree DEF JobPc
<1>3. PICK h \in Job \cup {NULL} :
        /\ h = HeadOf(queue) /\ (h # NULL => h \in JobsIn(queue))
        /\ QueueOK(AfterDequeue(queue)) /\ JobsIn(AfterDequeue(queue)) = JobsIn(queue) \ {h}
        /\ AfterDequeue(queue).next_elem - AfterDequeue(queue).first_elem =
             IF Empty(queue) THEN 0 ELSE (queue.next_elem - queue.first_elem) - 1
  BY <1>1, DequeuedFacts DEF QueueInv
<1>4. /\ queue' = AfterDequeue(queue)
      /\ UNCHANGED <<job_added, tp_idle_started, mono_worker_threads, busy_worker_threads, client,
                     starter, domain, unload, ran>>
  BY DEF Take
<1>5. /\ worker' \in [Worker -> WorkerState]
      /\ worker'[w].pc = (IF h = NULL THEN none ELSE "taken") /\ worker'[w].data = h
      /\ \A v \in Worker \ {w} : worker'[v] = worker[v]
  <2>1. CASE h = NULL
    <3>1. Goto(w, none) /\ none \in WorkerPc
      BY <1>3, <2>1 DEF Take, WorkerPc
    <3> QED BY <1>1, <1>2, <2>1, <3>1, GotoEffect
  <2>2. CASE h # NULL
    <3>1. worker' = [worker EXCEPT ![w].pc = "taken", ![w].data = h] /\ "taken" \in WorkerPc
      BY <1>3, <2>2 DEF Take, WorkerPc
    <3> QED BY <1>1, <2>2, <3>1, DataEffect
  <2> QED BY <2>1, <2>2
<1>7. QueueInv' /\ \A i \in Job : InQueue(i)' <=> InQueue(i) /\ i # h
  BY <1>3, <1>4 DEF QueueInv, InQueue
<1>8. h # NULL => InQueue(h)
  BY <1>3 DEF InQueue
<1>9. SameState
  BY <1>4 DEF SameState
<1>10. DomainInv' /\ \A d \in Domain : Doomed(d)' <=> Doomed(d)
  BY <1>1, <1>4, <1>9, DomainFrame
<1>11. TypeOK'
  BY <1>1, <1>4, <1>5, <1>7 DEF TypeOK, QueueInv, QueueOK
<1>12. StarterInv' /\ \A i \in Job : AtStarter(i)' <=> AtStarter(i)
  BY <1>1, <1>4, StarterFrame
<1>13. \A i \in Job : AtClient(i)' <=> AtClient(i)
  BY <1>4 DEF AtClient
<1>14. ASSUME NEW v \in Worker PROVE WorkerOK(v)'
  <2>1. CASE v = w
    BY <1>5, <2>1 DEF WorkerOK, JobPc
  <2>2. CASE v # w
    <3>1. worker'[v].pc = worker[v].pc /\ worker'[v].data = worker[v].data /\ WorkerOK(v)
      BY <1>1, <1>5, <2>2 DEF WorkerInv
    <3> QED BY <1>1, <1>10, <3>1, WorkerFrame
  <2> QED BY <2>1, <2>2
<1>15. ASSUME NEW i \in Job PROVE Placed(i)' /\ RanOK(i)' /\ UnloadOK(i)'
  <2>1. Placed(i) /\ RanOK(i) /\ UnloadOK(i) /\ DomainOf[i] \in Domain /\ i # NULL
    BY <1>1, PoolAssumption, NullFacts DEF PlaceInv, RanInv, UnloadInv
  <2>2. \A v \in Worker : AtWorker(i, v)' <=> AtWorker(i, v) \/ (v = w /\ i = h)
    BY <1>2, <1>5, <2>1 DEF AtWorker
  <2>3. ~AtWorker(i, w) /\ \A v \in Worker : AtWorker(i, v) => worker'[v].pc = worker[v].pc
    BY <1>2, <1>5, <2>1 DEF AtWorker
  <2>4. Doomed(DomainOf[i])' <=> Doomed(DomainOf[i])
    BY <1>10, <2>1
  <2>5. CASE i # h
    <3>1. \A v \in Worker : AtWorker(i, v)' <=> AtWorker(i, v)
      BY <2>2, <2>5
    <3>2. InQueue(i)' <=> InQueue(i)
      BY <1>7, <2>5
    <3>3. Placed(i)'
      BY <1>12, <1>13, <2>1, <3>1, <3>2 DEF Placed
    <3>4. RanOK(i)'
      BY <1>4, <1>12, <1>13, <2>1, <2>3, <2>4, <3>1, <3>2 DEF RanOK
    <3>5. UnloadOK(i)'
      BY <1>4, <2>1, <2>3, <3>1, <3>2 DEF UnloadOK
    <3> QED BY <3>3, <3>4, <3>5
  <2>6. CASE i = h
    <3>1. InQueue(i) /\ ~AtClient(i) /\ ~AtStarter(i) /\ \A v \in Worker : ~AtWorker(i, v)
      BY <1>8, <2>1, <2>6 DEF Placed
    <3>2. ~InQueue(i)' /\ \A v \in Worker : AtWorker(i, v)' <=> v = w
      BY <1>7, <2>2, <2>6, <3>1
    <3>3. Placed(i)'
      BY <1>12, <1>13, <3>1, <3>2 DEF Placed
    <3>4. ran'[i] = 0 /\ worker'[w].pc = "taken"
      BY <1>4, <1>5, <2>1, <2>6, <3>1 DEF RanOK
    <3>5. RanOK(i)'
      BY <1>12, <1>13, <3>1, <3>2, <3>4 DEF RanOK
    <3>6. unload[DomainOf[i]] \notin Past \ {"clear"} /\ unload[DomainOf[i]] \notin Closed
      BY <2>1, <3>1 DEF UnloadOK, Past, Closed
    <3>7. UnloadOK(i)'
      BY <1>4, <2>1, <3>2, <3>6 DEF UnloadOK
    <3> QED BY <3>3, <3>5, <3>7
  <2> QED BY <2>5, <2>6
<1>16. ASSUME NEW d \in Domain PROVE domain'[d].threadpool_jobs >= Counts(d)'
  <2>1. ClientCounts(d)' = ClientCounts(d) /\ StarterCounts(d)' = StarterCounts(d)
    BY <1>4 DEF ClientCounts, StarterCounts
  <2>2. domain[d].threadpool_jobs \in Nat /\ domain' = domain
    BY <1>1, <1>4 DEF TypeOK, DomainState
  <2>3. QueueCounts(d)' \subseteq QueueCounts(d) \ {h}
    BY <1>7 DEF QueueCounts
  <2>4. WorkerCounts(d)' \subseteq WorkerCounts(d) \cup {w}
    BY <1>5 DEF WorkerCounts
  <2>5. CASE h # NULL /\ d = DomainOf[h]
    <3>1. h \in QueueCounts(d)
      BY <1>8, <2>5 DEF QueueCounts
    <3>2. /\ Cardinality(QueueCounts(d)) \in Nat /\ Cardinality(QueueCounts(d)') \in Nat
          /\ Cardinality(QueueCounts(d)') <= Cardinality(QueueCounts(d)) - 1
      BY <2>3, <3>1, CountsFacts, CardShrink
    <3>3. /\ Cardinality(WorkerCounts(d)) \in Nat /\ Cardinality(WorkerCounts(d)') \in Nat
          /\ Cardinality(WorkerCounts(d)') <= Cardinality(WorkerCounts(d)) + 1
      BY <2>4, CountsFacts, CardGrow
    <3>4. Cardinality(ClientCounts(d)) \in Nat /\ Cardinality(StarterCounts(d)) \in Nat
      BY CountsFacts
    <3>5. domain[d].threadpool_jobs >= Counts(d)
      BY <1>1 DEF CountInv
    <3> QED BY <2>1, <2>2, <3>2, <3>3, <3>4, <3>5 DEF Counts
  <2>6. CASE ~(h # NULL /\ d = DomainOf[h])
    <3>1. WorkerCounts(d)' \subseteq WorkerCounts(d)
      BY <1>5, <2>6 DEF WorkerCounts
    <3>2. QueueCounts(d)' \subseteq QueueCounts(d)
      BY <2>3
    <3> QED BY <1>1, <2>1, <2>2, <3>1, <3>2, CountFrame
  <2> QED BY <2>5, <2>6
<1>17. PoolInv'
  <2>1. Started' = Started /\ Working' = Working
    BY <1>2, <1>5 DEF Started, Working
  <2> QED BY <1>1, <1>4, <2>1 DEF PoolInv
<1>18. WakeInv'
  <2>1. Releasing' = Releasing /\ Woken \subseteq Woken' \cup {w} /\ (worker[w].pc = "dequeue" => Woken' = Woken)
    BY <1>4, <1>5 DEF Releasing, Woken
  <2>2. IsFiniteSet(Woken')
    <3>1. Woken' \subseteq Worker
      BY DEF Woken
    <3> QED BY <3>1, FiniteSubsets
  <2>3. /\ Cardinality(Woken) \in Nat /\ Cardinality(Woken') \in Nat
        /\ Cardinality(Woken) <= Cardinality(Woken') + 1
    BY <2>1, <2>2, CardGrow
  <2>4. /\ queue.next_elem \in Nat /\ queue.first_elem \in Nat /\ job_added \in Nat
        /\ Cardinality(Releasing) \in Nat
    BY <1>1, PoolSets DEF TypeOK, TPQueue
  <2>5. queue'.next_elem - queue'.first_elem =
          IF Empty(queue) THEN 0 ELSE (queue.next_elem - queue.first_elem) - 1
    BY <1>3, <1>4
  <2> QED BY <1>1, <1>4, <2>1, <2>3, <2>4, <2>5 DEF WakeInv
<1> QED BY <1>7, <1>10, <1>11, <1>12, <1>14, <1>15, <1>16, <1>17, <1>18
           DEF IInv, WorkerInv, PlaceInv, RanInv, UnloadInv, CountInv

LEMMA WorkerStepInv == ASSUME IInv, NEW w \in Worker, WorkerStep(w) PROVE IInv'
<1>1. CASE Dequeue(w)
  <2>1. PICK none \in {"exit", "timed"} : Take(w, none)
    BY <1>1 DEF Dequeue
  <2> QED BY <1>1, <2>1, TakeInv DEF Dequeue, WorkerAt
<1>2. CASE TimedDequeue(w)
  BY <1>2, TakeInv DEF TimedDequeue, WorkerAt
<1>3. CASE IdleDequeue(w)
  BY <1>3, TakeInv DEF IdleDequeue, WorkerAt
<1>4. CASE TimedWait(w)
  BY <1>4, TokenTaken DEF TimedWait, WorkerAt
<1>5. CASE IdleWait(w)
  BY <1>5, TokenTaken DEF IdleWait, WorkerAt
<1>6. CASE TimedOut(w)
  BY <1>6, IdleMoves DEF TimedOut, WorkerAt
<1>7. CASE CountWorkers(w)
  <2>1. PICK pc \in {"idle", "exit"} : Goto(w, pc)
    BY <1>7 DEF CountWorkers
  <2> QED BY <1>7, <2>1, IdleMoves DEF CountWorkers, WorkerAt
<1>8. CASE Top(w)
  BY <1>8, TopInv
<1>9. CASE Refuse(w)
  BY <1>9, RefuseInv
<1>10. CASE RefusePulse(w)
  BY <1>10, RefusePulseInv
<1>11. CASE PushRef(w)
  BY <1>11, PushRefInv
<1>12. CASE Dec(w)
  BY <1>12, DecInv
<1>13. CASE Zero(w)
  BY <1>13, ZeroInv
<1>14. CASE SetDomain(w)
  BY <1>14, SetDomainInv
<1>15. CASE Run(w)
  BY <1>15, RunInv
<1>16. CASE PopRef(w)
  BY <1>16, PopRefInv
<1>17. CASE ExitWorker(w)
  BY <1>17, ExitWorkerInv
<1>18. CASE CountBusy(w)
  BY <1>18, CountBusyInv
<1> QED BY <1>1, <1>2, <1>3, <1>4, <1>5, <1>6, <1>7, <1>8, <1>9, <1>10, <1>11, <1>12, <1>13,
           <1>14, <1>15, <1>16, <1>17, <1>18 DEF WorkerStep

-----------------------------------------------------------------------------
\* The unload thread.

\* Its steps that leave the queue alone.
LEMMA UnloadMoves ==
    ASSUME IInv, UNCHANGED <<poolVars, client, starter, ran>>, unload' \in [Domain -> UnloadPc],
           worker' \in [Worker -> WorkerState],
           \A v \in Worker : worker'[v].pc = worker[v].pc /\ worker'[v].data = worker[v].data,
           domain' \in [Domain -> DomainState],
           \A d \in Domain : /\ domain'[d].threadpool_jobs = domain[d].threadpool_jobs
                             /\ Doomed(d) => Doomed(d)',
           DomainInv', UnloadInv'
    PROVE  IInv'
<1>1. /\ TypeOK /\ QueueInv /\ StarterInv /\ WorkerInv /\ PlaceInv /\ RanInv
      /\ CountInv /\ PoolInv /\ WakeInv
  BY DEF IInv
<1>2. UNCHANGED <<queue, job_added, tp_idle_started, mono_worker_threads, busy_worker_threads>>
  BY DEF poolVars
<1>3. QueueInv' /\ \A i \in Job : InQueue(i)' <=> InQueue(i)
  BY <1>1, <1>2, QueueFrame
<1>4. TypeOK'
  BY <1>1, <1>2 DEF TypeOK
<1>5. StarterInv' /\ \A i \in Job : AtStarter(i)' <=> AtStarter(i)
  BY <1>1, <1>2, StarterFrame
<1>6. WorkerInv'
  BY <1>1, WorkerFrame DEF WorkerInv
<1>7. \A i \in Job : AtClient(i)' <=> AtClient(i)
  BY DEF AtClient
<1>8. PlaceInv'
  BY <1>1, <1>3, <1>5, <1>7, PlaceFrame
<1>9. RanInv'
  BY <1>1, <1>3, <1>5, <1>7, RanFrame
<1>10. ASSUME NEW d \in Domain PROVE domain'[d].threadpool_jobs >= Counts(d)'
  <2>1. QueueCounts(d)' = QueueCounts(d) /\ ClientCounts(d)' = ClientCounts(d)
        /\ StarterCounts(d)' = StarterCounts(d)
    BY <1>3 DEF QueueCounts, ClientCounts, StarterCounts
  <2>2. WorkerCounts(d)' \subseteq WorkerCounts(d)
    BY DEF WorkerCounts
  <2>3. domain[d].threadpool_jobs \in Nat /\ domain'[d].threadpool_jobs = domain[d].threadpool_jobs
    BY <1>1 DEF TypeOK, DomainState
  <2> QED BY <1>1, <2>1, <2>2, <2>3, CountFrame
<1>11. PoolInv'
  BY <1>1, <1>2, PoolFrame
<1>12. WakeInv'
  <2>1. Releasing' = Releasing /\ Woken' = Woken
    BY DEF Releasing, Woken
  <2> QED BY <1>1, <1>2, <2>1 DEF WakeInv
<1> QED BY <1>3, <1>4, <1>5, <1>6, <1>8, <1>9, <1>10, <1>11, <1>12 DEF IInv, CountInv

\* A step that does not get the unload thread further.
LEMMA UnloadKept ==
    ASSUME IInv, NEW d \in Domain, NEW pc \in UnloadPc, Unload(d, pc),
           UNCHANGED <<queue, client, starter>>,
           \A v \in Worker : worker'[v].pc = worker[v].pc /\ worker'[v].data = worker[v].data,
           pc \in Past => unload[d] \in Past,
           pc \in Past \ {"clear"} => unload[d] \in Past \ {"clear"},
           pc \in Closed => unload[d] \in Closed
    PROVE  UnloadInv'
<1> SUFFICES ASSUME NEW i \in Job PROVE UnloadOK(i)'
  BY DEF UnloadInv
<1>1. UnloadOK(i) /\ DomainOf[i] \in Domain
  BY PoolAssumption DEF IInv, UnloadInv
<1>2. /\ unload'[DomainOf[i]] \in Past => unload[DomainOf[i]] \in Past
      /\ unload'[DomainOf[i]] \in Past \ {"clear"} => unload[DomainOf[i]] \in Past \ {"clear"}
      /\ unload'[DomainOf[i]] \in Closed => unload[DomainOf[i]] \in Closed
  BY <1>1 DEF Unload, IInv, TypeOK
<1>3. InQueue(i)' <=> InQueue(i)
  BY DEF InQueue
<1> QED BY <1>1, <1>2, <1>3 DEF UnloadOK, AtWorker

LEMMA UnloadEffect ==
    ASSUME TypeOK, NEW d \in Domain, NEW pc \in UnloadPc, Unload(d, pc)
    PROVE  /\ unload' \in [Domain -> UnloadPc] /\ unload'[d] = pc
           /\ \A e \in Domain \ {d} : unload'[e] = unload[e]
BY DEF TypeOK, Unload

\* The steps that set the state of the domain.
LEMMA StateMoves ==
    ASSUME IInv, NEW d \in Domain, NEW pc \in UnloadPc, Unload(d, pc),
           NEW s \in {"CREATED", "UNLOADING_START", "UNLOADING", "UNLOADED", "FREED"}, SetState(d, s),
           UNCHANGED <<poolVars, client, starter, worker, ran>>,
           <<unload[d], pc, s>> \in {<<"none", "notify", "UNLOADING_START">>, <<"notify", "none", "CREATED">>,
                                     <<"notify", "abort", "UNLOADING">>, <<"finalize", "free", "UNLOADED">>,
                                     <<"free", "done", "FREED">>}
    PROVE  IInv'
<1>1. TypeOK /\ DomainInv
  BY DEF IInv
<1>2. /\ unload' \in [Domain -> UnloadPc] /\ unload'[d] = pc
      /\ \A e \in Domain \ {d} : unload'[e] = unload[e]
  BY <1>1, UnloadEffect
<1>3. /\ domain' \in [Domain -> DomainState]
      /\ domain'[d].state = s /\ domain'[d].cleanup_semaphore = domain[d].cleanup_semaphore
      /\ domain'[d].threadpool_jobs = domain[d].threadpool_jobs
      /\ \A e \in Domain \ {d} : domain'[e] = domain[e]
  BY <1>1 DEF SetState, TypeOK, DomainState
<1>4. \/ unload[d] = "none" /\ pc = "notify" /\ s = "UNLOADING_START"
      \/ unload[d] = "notify" /\ pc = "none" /\ s = "CREATED"
      \/ unload[d] = "notify" /\ pc = "abort" /\ s = "UNLOADING"
      \/ unload[d] = "finalize" /\ pc = "free" /\ s = "UNLOADED"
      \/ unload[d] = "free" /\ pc = "done" /\ s = "FREED"
  OBVIOUS
<1>5. UnloadInv'
  <2>1. /\ pc \in Past => unload[d] \in Past
        /\ pc \in Past \ {"clear"} => unload[d] \in Past \ {"clear"}
        /\ pc \in Closed => unload[d] \in Closed
    BY <1>4 DEF Past, Closed
  <2>2. UNCHANGED <<queue, client, starter>>
    BY DEF poolVars
  <2> QED BY <2>1, <2>2, UnloadKept
<1>6. DomainInv'
  <2> SUFFICES ASSUME NEW e \in Domain
               PROVE  /\ domain'[e].state =
                           CASE unload'[e] = "none" -> "CREATED"
                             [] unload'[e] = "notify" -> "UNLOADING_START"
                             [] unload'[e] = "free" -> "UNLOADED"
                             [] unload'[e] = "done" -> "FREED"
                             [] OTHER -> "UNLOADING"
                      /\ domain'[e].cleanup_semaphore # NULL <=> unload'[e] \in {"look", "wait", "close"}
    BY DEF DomainInv
  <2>1. CASE e # d
    BY <1>1, <1>2, <1>3, <2>1 DEF DomainInv
  <2>2. CASE e = d
    <3>1. domain[d].cleanup_semaphore # NULL <=> unload[d] \in {"look", "wait", "close"}
      BY <1>1 DEF DomainInv
    <3>2. domain[d].cleanup_semaphore = NULL /\ pc \notin {"look", "wait", "close"}
      BY <1>4, <3>1
    <3> QED BY <1>2, <1>3, <1>4, <2>2, <3>2
  <2> QED BY <2>1, <2>2
<1>7. ASSUME NEW e \in Domain
      PROVE  domain'[e].threadpool_jobs = domain[e].threadpool_jobs /\ (Doomed(e) => Doomed(e)')
  <2>1. CASE e # d
    BY <1>3, <2>1 DEF Doomed
  <2>2. CASE e = d
    <3>1. unload[d] = "none" => domain[d].state = "CREATED"
      BY <1>1 DEF DomainInv
    <3>2. unload[d] = "notify" => domain[d].state = "UNLOADING_START"
      BY <1>1 DEF DomainInv
    <3> QED BY <1>3, <1>4, <2>2, <3>1, <3>2 DEF Doomed
  <2> QED BY <2>1, <2>2
<1>8. worker' \in [Worker -> WorkerState] /\ worker' = worker
  BY <1>1 DEF TypeOK
<1> QED BY <1>2, <1>3, <1>5, <1>6, <1>7, <1>8, UnloadMoves

\* The steps that set the semaphore, to a count or to NULL.
LEMMA SemaphoreMoves ==
    ASSUME IInv, NEW d \in Domain, NEW pc \in UnloadPc, Unload(d, pc),
           NEW c \in {0, NULL}, domain' = [domain EXCEPT ![d].cleanup_semaphore = c],
           UNCHANGED <<poolVars, client, starter, worker, ran>>,
           <<unload[d], pc, c>> \in {<<"semaphore", "look", 0>>, <<"wait", "look", 0>>, <<"close", "finalize", NULL>>}
    PROVE  IInv'
<1>1. TypeOK /\ DomainInv
  BY DEF IInv
<1>2. /\ unload' \in [Domain -> UnloadPc] /\ unload'[d] = pc
      /\ \A e \in Domain \ {d} : unload'[e] = unload[e]
  BY <1>1, UnloadEffect
<1>3. /\ domain' \in [Domain -> DomainState]
      /\ domain'[d].state = domain[d].state /\ domain'[d].cleanup_semaphore = c
      /\ domain'[d].threadpool_jobs = domain[d].threadpool_jobs
      /\ \A e \in Domain \ {d} : domain'[e] = domain[e]
  BY <1>1 DEF TypeOK, DomainState
<1>4. \/ unload[d] \in {"semaphore", "wait"} /\ pc = "look" /\ c = 0
      \/ unload[d] = "close" /\ pc = "finalize" /\ c = NULL
  OBVIOUS
<1>5. UnloadInv'
  <2>1. /\ pc \in Past => unload[d] \in Past
        /\ pc \in Past \ {"clear"} => unload[d] \in Past \ {"clear"}
        /\ pc \in Closed => unload[d] \in Closed
    BY <1>4 DEF Past, Closed
  <2>2. UNCHANGED <<queue, client, starter>>
    BY DEF poolVars
  <2> QED BY <2>1, <2>2, UnloadKept
<1>6. DomainInv'
  <2> SUFFICES ASSUME NEW e \in Domain
               PROVE  /\ domain'[e].state =
                           CASE unload'[e] = "none" -> "CREATED"
                             [] unload'[e] = "notify" -> "UNLOADING_START"
                             [] unload'[e] = "free" -> "UNLOADED"
                             [] unload'[e] = "done" -> "FREED"
                             [] OTHER -> "UNLOADING"
                      /\ domain'[e].cleanup_semaphore # NULL <=> unload'[e] \in {"look", "wait", "close"}
    BY DEF DomainInv
  <2>1. CASE e # d
    BY <1>1, <1>2, <1>3, <2>1 DEF DomainInv
  <2>2. CASE e = d
    <3>1. domain[d].state = "UNLOADING"
      BY <1>1, <1>4 DEF DomainInv
    <3>2. c # NULL <=> pc \in {"look", "wait", "close"}
      BY <1>4, NullFacts
    <3> QED BY <1>2, <1>3, <1>4, <2>2, <3>1, <3>2
  <2> QED BY <2>1, <2>2
<1>7. \A e \in Domain : domain'[e].threadpool_jobs = domain[e].threadpool_jobs /\ (Doomed(e) => Doomed(e)')
  BY <1>3 DEF Doomed
<1>8. worker' \in [Worker -> WorkerState] /\ worker' = worker
  BY <1>1 DEF TypeOK
<1> QED BY <1>2, <1>3, <1>5, <1>6, <1>7, <1>8, UnloadMoves

\* The steps that leave the domain as it is.
LEMMA StillMoves ==
    ASSUME IInv, NEW d \in Domain, NEW pc \in UnloadPc, Unload(d, pc),
           UNCHANGED <<poolVars, client, starter, domain, ran>>, worker' \in [Worker -> WorkerState],
           \A v \in Worker : worker'[v].pc = worker[v].pc /\ worker'[v].data = worker[v].data,
           <<unload[d], pc>> \in {<<"abort", "abort">>, <<"abort", "clear">>, <<"look", "close">>, <<"look", "wait">>},
           UnloadInv'
    PROVE  IInv'
<1>1. TypeOK /\ DomainInv
  BY DEF IInv
<1>2. /\ unload' \in [Domain -> UnloadPc] /\ unload'[d] = pc
      /\ \A e \in Domain \ {d} : unload'[e] = unload[e]
  BY <1>1, UnloadEffect
<1>3. \/ unload[d] = "abort" /\ pc \in {"abort", "clear"}
      \/ unload[d] = "look" /\ pc \in {"close", "wait"}
  OBVIOUS
<1>4. DomainInv'
  <2> SUFFICES ASSUME NEW e \in Domain
               PROVE  /\ domain'[e].state =
                           CASE unload'[e] = "none" -> "CREATED"
                             [] unload'[e] = "notify" -> "UNLOADING_START"
                             [] unload'[e] = "free" -> "UNLOADED"
                             [] unload'[e] = "done" -> "FREED"
                             [] OTHER -> "UNLOADING"
                      /\ domain'[e].cleanup_semaphore # NULL <=> unload'[e] \in {"look", "wait", "close"}
    BY DEF DomainInv
  <2>1. CASE e # d
    BY <1>1, <1>2, <2>1 DEF DomainInv
  <2>2. CASE e = d
    <3>1. domain[d].state = "UNLOADING"
      BY <1>1, <1>3 DEF DomainInv
    <3>2. domain[d].cleanup_semaphore # NULL <=> unload[d] \in {"look", "wait", "close"}
      BY <1>1 DEF DomainInv
    <3> QED BY <1>2, <1>3, <2>2, <3>1, <3>2
  <2> QED BY <2>1, <2>2
<1>5. \A e \in Domain : domain'[e].threadpool_jobs = domain[e].threadpool_jobs /\ (Doomed(e) => Doomed(e)')
  BY DEF Doomed
<1>6. domain' \in [Domain -> DomainState]
  BY <1>1 DEF TypeOK
<1> QED BY <1>2, <1>4, <1>5, <1>6, UnloadMoves

LEMMA AbortThreadsInv == ASSUME IInv, NEW d \in Domain, AbortThreads(d) PROVE IInv'
<1>1. TypeOK /\ StarterInv /\ UnloadInv
  BY DEF IInv
<1>2. PICK pc \in {"clear", "abort"} :
        /\ Unload(d, pc)
        /\ pc = "clear" => \A j \in Job : DomainOf[j] = d => ~InDomain(j)
  BY DEF AbortThreads
<1>3. unload[d] = "abort" /\ UNCHANGED <<poolVars, client, starter, domain, ran>> /\ queue' = queue
  BY DEF AbortThreads, poolVars
<1>4. /\ worker' \in [Worker -> WorkerState]
      /\ \A v \in Worker : worker'[v].pc = worker[v].pc /\ worker'[v].data = worker[v].data
  <2>1. PICK S : worker' = [w \in Worker |-> IF w \in S THEN [worker[w] EXCEPT !.abort = TRUE] ELSE worker[w]]
    BY DEF AbortThreads
  <2>2. worker \in [Worker -> WorkerState]
    BY <1>1 DEF TypeOK
  <2>3. \A r \in WorkerState : /\ [r EXCEPT !.abort = TRUE] \in WorkerState
                               /\ [r EXCEPT !.abort = TRUE].pc = r.pc
                               /\ [r EXCEPT !.abort = TRUE].data = r.data
    BY DEF WorkerState
  <2> QED BY <2>1, <2>2, <2>3
<1>5. pc \in UnloadPc
  BY <1>2 DEF UnloadPc
<1>6. UnloadInv'
  <2>1. CASE pc = "abort"
    BY <1>2, <1>3, <1>4, <1>5, <2>1, UnloadKept DEF Past, Closed
  <2>2. CASE pc = "clear"
    <3> SUFFICES ASSUME NEW i \in Job PROVE UnloadOK(i)'
      BY DEF UnloadInv
    <3>1. UnloadOK(i) /\ DomainOf[i] \in Domain
      BY <1>1, PoolAssumption DEF UnloadInv
    <3>2. unload'[d] = "clear" /\ \A e \in Domain \ {d} : unload'[e] = unload[e]
      BY <1>1, <1>2, <1>5, <2>2, UnloadEffect
    <3>3. InQueue(i)' <=> InQueue(i)
      BY <1>3 DEF InQueue
    <3>4. CASE DomainOf[i] # d
      BY <1>3, <1>4, <3>1, <3>2, <3>3, <3>4 DEF UnloadOK, AtWorker
    <3>5. CASE DomainOf[i] = d
      <4>1. client[i] \in {"new", "done"} \/ (starter.data = i /\ starter.pc = "again")
        BY <1>1, <1>2, <2>2, <3>5, NullFacts DEF InDomain, StarterInv
      <4> QED BY <1>3, <3>2, <3>5, <4>1 DEF UnloadOK, Past, Closed
    <3> QED BY <3>4, <3>5
  <2> QED BY <1>2, <2>1, <2>2
<1>7. <<unload[d], pc>> \in {<<"abort", "abort">>, <<"abort", "clear">>, <<"look", "close">>, <<"look", "wait">>}
  BY <1>2, <1>3
<1> QED BY <1>2, <1>3, <1>4, <1>5, <1>6, <1>7, StillMoves

\* A domain without jobs: nobody has counted one.
LEMMA NoneCounted ==
    ASSUME IInv, NEW d \in Domain, domain[d].threadpool_jobs = 0
    PROVE  StarterCounts(d) = {} /\ WorkerCounts(d) = {}
<1>1. 0 >= Counts(d)
  BY DEF IInv, CountInv
<1>2. /\ Cardinality(StarterCounts(d)) = 0 /\ Cardinality(WorkerCounts(d)) = 0
  BY <1>1, CountsFacts DEF Counts
<1> QED BY <1>2, CountsFacts, FS_EmptySet

LEMMA LookInv == ASSUME IInv, NEW d \in Domain, Look(d) PROVE IInv'
<1>1. TypeOK /\ UnloadInv
  BY DEF IInv
<1>2. PICK pc \in {"close", "wait"} : Unload(d, pc) /\ (pc = "close" => domain[d].threadpool_jobs = 0)
  BY DEF Look
<1>3. unload[d] = "look" /\ UNCHANGED <<poolVars, client, starter, worker, domain, ran>> /\ queue' = queue
  BY DEF Look, poolVars
<1>4. pc \in UnloadPc /\ worker' \in [Worker -> WorkerState] /\ worker' = worker
  BY <1>1, <1>2, <1>3 DEF UnloadPc, TypeOK
<1>5. UnloadInv'
  <2>1. CASE pc = "wait"
    BY <1>2, <1>3, <1>4, <2>1, UnloadKept DEF Past, Closed
  <2>2. CASE pc = "close"
    <3> SUFFICES ASSUME NEW i \in Job PROVE UnloadOK(i)'
      BY DEF UnloadInv
    <3>1. UnloadOK(i) /\ DomainOf[i] \in Domain
      BY <1>1, PoolAssumption DEF UnloadInv
    <3>2. unload'[d] = "close" /\ \A e \in Domain \ {d} : unload'[e] = unload[e]
      BY <1>1, <1>2, <1>4, <2>2, UnloadEffect
    <3>3. InQueue(i)' <=> InQueue(i)
      BY <1>3 DEF InQueue
    <3>4. CASE DomainOf[i] # d
      BY <1>3, <3>1, <3>2, <3>3, <3>4 DEF UnloadOK, AtWorker
    <3>5. CASE DomainOf[i] = d
      <4>1. StarterCounts(d) = {} /\ WorkerCounts(d) = {}
        BY <1>2, <2>2, NoneCounted
      <4>2. starter.data = i => starter.pc \notin StarterPc
        BY <3>5, <4>1 DEF StarterCounts
      <4>3. \A w \in Worker : AtWorker(i, w) => worker[w].pc \notin CountedPc
        BY <3>5, <4>1, NullFacts DEF WorkerCounts, AtWorker
      <4>4. /\ client[i] \in {"new", "done"} \/ (starter.data = i /\ starter.pc = "again")
            /\ ~InQueue(i)
        BY <1>3, <3>1, <3>5 DEF UnloadOK, Past
      <4> QED BY <1>3, <3>2, <3>3, <3>5, <4>2, <4>3, <4>4 DEF UnloadOK, AtWorker
    <3> QED BY <3>4, <3>5
  <2> QED BY <1>2, <2>1, <2>2
<1>6. <<unload[d], pc>> \in {<<"abort", "abort">>, <<"abort", "clear">>, <<"look", "close">>, <<"look", "wait">>}
  BY <1>2, <1>3
<1> QED BY <1>2, <1>3, <1>4, <1>5, <1>6, StillMoves

\* The jobs of the domain leave the queue, and are counted down.
LEMMA ClearQueueInv == ASSUME IInv, NEW d \in Domain, Alone(d), ClearQueue(d) PROVE IInv'
<1>1. /\ TypeOK /\ QueueInv /\ DomainInv /\ StarterInv /\ WorkerInv /\ PlaceInv /\ RanInv
      /\ UnloadInv /\ CountInv /\ PoolInv /\ WakeInv
  BY DEF IInv
<1>2. PICK n : n = ClearedCount(queue, d)
  OBVIOUS
<1>3. /\ unload[d] = "clear" /\ queue' = Cleared(queue, d) /\ Unload(d, "semaphore")
      /\ domain' = [domain EXCEPT ![d].threadpool_jobs = @ - n]
      /\ UNCHANGED <<job_added, tp_idle_started, mono_worker_threads, busy_worker_threads,
                     client, starter, worker, ran>>
  BY <1>2 DEF ClearQueue
<1>4. /\ QueueOK(queue') /\ JobsIn(queue') = {j \in JobsIn(queue) : DomainOf[j] # d}
      /\ n = Cardinality({j \in JobsIn(queue) : DomainOf[j] = d}) /\ n \in Nat
      /\ queue'.next_elem - queue'.first_elem <= queue.next_elem - queue.first_elem
  BY <1>1, <1>2, <1>3, ClearedFacts DEF QueueInv
<1>5. n = Cardinality(QueueCounts(d))
  <2>1. QueueCounts(d) = {j \in JobsIn(queue) : DomainOf[j] = d}
    BY DEF QueueCounts, InQueue, JobsIn
  <2> QED BY <1>4, <2>1
<1>6. QueueInv' /\ \A i \in Job : InQueue(i)' <=> InQueue(i) /\ DomainOf[i] # d
  BY <1>4 DEF QueueInv, InQueue
<1>7. domain[d].threadpool_jobs \in Nat /\ domain[d].threadpool_jobs - n \in Nat
  <2>1. domain[d].threadpool_jobs \in Nat /\ domain[d].threadpool_jobs >= Counts(d)
    BY <1>1 DEF TypeOK, DomainState, CountInv
  <2> QED BY <1>4, <1>5, <2>1, CountsFacts DEF Counts
<1>8. /\ domain' \in [Domain -> DomainState] /\ domain'[d].state = domain[d].state
      /\ domain'[d].cleanup_semaphore = domain[d].cleanup_semaphore
      /\ domain'[d].threadpool_jobs = domain[d].threadpool_jobs - n
      /\ \A e \in Domain \ {d} : domain'[e] = domain[e]
  <2>1. domain \in [Domain -> DomainState]
    BY <1>1 DEF TypeOK
  <2> QED BY <1>3, <1>7, <2>1 DEF DomainState
<1>9. /\ unload' \in [Domain -> UnloadPc] /\ unload'[d] = "semaphore"
      /\ \A e \in Domain \ {d} : unload'[e] = unload[e]
  BY <1>1, <1>3, UnloadEffect DEF UnloadPc
<1>10. TypeOK'
  BY <1>1, <1>3, <1>4, <1>8, <1>9 DEF TypeOK, QueueOK
<1>11. Doomed(d) /\ \A e \in Domain : Doomed(e)' <=> Doomed(e)
  <2>1. domain[d].state = "UNLOADING"
    BY <1>1, <1>3 DEF DomainInv
  <2> QED BY <1>8, <2>1 DEF Doomed
<1>12. DomainInv'
  <2> SUFFICES ASSUME NEW e \in Domain
               PROVE  /\ domain'[e].state =
                           CASE unload'[e] = "none" -> "CREATED"
                             [] unload'[e] = "notify" -> "UNLOADING_START"
                             [] unload'[e] = "free" -> "UNLOADED"
                             [] unload'[e] = "done" -> "FREED"
                             [] OTHER -> "UNLOADING"
                      /\ domain'[e].cleanup_semaphore # NULL <=> unload'[e] \in {"look", "wait", "close"}
    BY DEF DomainInv
  <2>1. CASE e # d
    BY <1>1, <1>8, <1>9, <2>1 DEF DomainInv
  <2>2. CASE e = d
    <3>1. domain[d].state = "UNLOADING"
      BY <1>1, <1>3 DEF DomainInv
    <3>2. domain[d].cleanup_semaphore = NULL
      BY <1>1, <1>3 DEF DomainInv
    <3> QED BY <1>8, <1>9, <2>2, <3>1, <3>2
  <2> QED BY <2>1, <2>2
<1>13. StarterInv' /\ \A i \in Job : AtStarter(i)' <=> AtStarter(i)
  BY <1>1, <1>3, StarterFrame
<1>14. WorkerInv'
  BY <1>1, <1>3, <1>11, WorkerFrame DEF WorkerInv
<1>15. \A i \in Job : AtClient(i)' <=> AtClient(i)
  BY <1>3 DEF AtClient
<1>16. PlaceInv'
  BY <1>1, <1>3, <1>6, <1>13, <1>15, PlaceFrame
<1>17. ASSUME NEW i \in Job PROVE RanOK(i)'
  <2>1. RanOK(i) /\ DomainOf[i] \in Domain
    BY <1>1, PoolAssumption DEF RanInv
  <2>2. \A v \in Worker : AtWorker(i, v)' <=> AtWorker(i, v)
    BY <1>3 DEF AtWorker
  <2>3. Doomed(DomainOf[i])' <=> Doomed(DomainOf[i])
    BY <1>11, <2>1
  <2>4. ran'[i] = ran[i] /\ \A v \in Worker : worker'[v].pc = worker[v].pc
    BY <1>3
  <2>5. InQueue(i)' \/ Doomed(DomainOf[i]) \/ ~InQueue(i)
    BY <1>6, <1>11
  <2>6. InQueue(i)' => InQueue(i)
    BY <1>6
  <2> QED BY <1>13, <1>15, <2>1, <2>2, <2>3, <2>4, <2>5, <2>6 DEF RanOK
<1>18. ASSUME NEW i \in Job PROVE UnloadOK(i)'
  <2>1. UnloadOK(i) /\ DomainOf[i] \in Domain
    BY <1>1, PoolAssumption DEF UnloadInv
  <2>2. CASE DomainOf[i] # d
    <3>1. unload'[DomainOf[i]] = unload[DomainOf[i]] /\ (InQueue(i)' <=> InQueue(i))
      BY <1>6, <1>9, <2>1, <2>2
    <3> QED BY <1>3, <2>1, <3>1 DEF UnloadOK, AtWorker
  <2>3. CASE DomainOf[i] = d
    <3>1. unload'[DomainOf[i]] = "semaphore" /\ ~InQueue(i)'
      BY <1>6, <1>9, <2>3
    <3>2. client[i] \in {"new", "done"} \/ (starter.data = i /\ starter.pc = "again")
      BY <1>3, <2>1, <2>3 DEF UnloadOK, Past
    <3> QED BY <1>3, <3>1, <3>2 DEF UnloadOK, Past, Closed
  <2> QED BY <2>2, <2>3
<1>19. ASSUME NEW e \in Domain PROVE domain'[e].threadpool_jobs >= Counts(e)'
  <2>1. /\ ClientCounts(e)' = ClientCounts(e) /\ StarterCounts(e)' = StarterCounts(e)
        /\ WorkerCounts(e)' = WorkerCounts(e)
    BY <1>3 DEF ClientCounts, StarterCounts, WorkerCounts
  <2>2. QueueCounts(e)' = IF e = d THEN {} ELSE QueueCounts(e)
    BY <1>6 DEF QueueCounts
  <2>3. domain[e].threadpool_jobs \in Nat /\ domain[e].threadpool_jobs >= Counts(e)
    BY <1>1 DEF TypeOK, DomainState, CountInv
  <2>4. CASE e # d
    <3>1. Counts(e)' = Counts(e) /\ domain'[e] = domain[e]
      BY <1>8, <2>1, <2>2, <2>4 DEF Counts
    <3> QED BY <2>3, <3>1
  <2>5. CASE e = d
    <3>1. Cardinality(QueueCounts(e)') = 0
      BY <2>2, <2>5, FS_EmptySet
    <3>2. /\ Cardinality(ClientCounts(e)) \in Nat /\ Cardinality(StarterCounts(e)) \in Nat
          /\ Cardinality(WorkerCounts(e)) \in Nat /\ Cardinality(QueueCounts(e)) \in Nat
      BY CountsFacts
    <3>3. Counts(e)' = Cardinality(ClientCounts(e)) + Cardinality(StarterCounts(e)) + Cardinality(WorkerCounts(e))
      BY <2>1, <3>1, <3>2 DEF Counts
    <3>4. domain'[e].threadpool_jobs = domain[e].threadpool_jobs - Cardinality(QueueCounts(e))
      BY <1>5, <1>8, <2>5
    <3> QED BY <2>3, <3>2, <3>3, <3>4 DEF Counts
  <2> QED BY <2>4, <2>5
<1>20. PoolInv'
  BY <1>1, <1>3, PoolFrame
<1>21. WakeInv'
  <2>1. Releasing' = Releasing /\ Woken' = Woken
    BY <1>3 DEF Releasing, Woken
  <2>2. job_added' \in Nat /\ job_added' >= job_added
    BY <1>1, <1>3 DEF TypeOK
  <2> QED BY <1>1, <1>4, <1>6, <2>1, <2>2, WakeFrame
<1> QED BY <1>6, <1>10, <1>12, <1>13, <1>14, <1>16, <1>17, <1>18, <1>19, <1>20, <1>21
           DEF IInv, RanInv, UnloadInv, CountInv

\* Only the domains of Unloadable are unloaded.
Allowed == \A d \in Domain : unload[d] # "none" => d \in Unloadable

LEMMA AllowedInv == ASSUME TypeOK, Allowed, [Next]_vars PROVE Allowed'
<1>1. ASSUME UNCHANGED unload PROVE Allowed'
  BY <1>1 DEF Allowed
<1>2. ASSUME NEW d \in Domain, NEW pc, Unload(d, pc), unload[d] # "none" \/ d \in Unloadable PROVE Allowed'
  BY <1>2 DEF Unload, Allowed, TypeOK
<1>3. ASSUME NEW j \in Job, Submit(j) \/ ClientStep(j) PROVE UNCHANGED unload
  BY <1>3 DEF Submit, ClientStep, StartIdle, Choose, StartThread, AppendInc, AppendJob, Release
<1>4. ASSUME StarterStep PROVE UNCHANGED unload
  BY <1>4 DEF StarterStep, StarterLoop, StarterSpawn, StarterDec, StarterPulse
<1>5. ASSUME NEW w \in Worker, WorkerStep(w) PROVE UNCHANGED unload
  BY <1>5 DEF WorkerStep, Top, Refuse, RefusePulse, PushRef, Dec, Zero, SetDomain, Run, PopRef, Dequeue,
              TimedWait, TimedDequeue, TimedOut, CountWorkers, IdleWait, IdleDequeue, ExitWorker, Take,
              CountBusy
<1>6. ASSUME NEW d \in Domain, TryUnload(d) \/ UnloadStep(d)
      PROVE  \E pc : Unload(d, pc) /\ (unload[d] # "none" \/ d \in Unloadable)
  BY <1>6 DEF TryUnload, UnloadStep, NotifyFails, NotifyDone, AbortThreads, ClearQueue, CreateSem, Look,
              WaitSem, CloseSem, Unloaded, FreeDomain
<1>7. UNCHANGED vars => UNCHANGED unload
  BY DEF vars
<1> QED BY <1>1, <1>2, <1>3, <1>4, <1>5, <1>6, <1>7 DEF Next

LEMMA UnloadStepInv ==
    ASSUME UnloadedAlone, Allowed, IInv, NEW d \in Domain, TryUnload(d) \/ UnloadStep(d)
    PROVE  IInv'
<1> DEFINE Moves(pc, next, s) ==
             /\ unload[d] = pc /\ Unload(d, next) /\ SetState(d, s)
             /\ UNCHANGED <<poolVars, client, starter, worker, ran>>
           Pulses(pc, next, c) ==
             /\ unload[d] = pc /\ Unload(d, next) /\ domain' = [domain EXCEPT ![d].cleanup_semaphore = c]
             /\ UNCHANGED <<poolVars, client, starter, worker, ran>>
<1>1. ASSUME NEW pc, NEW next, NEW s, Moves(pc, next, s),
             <<pc, next, s>> \in {<<"none", "notify", "UNLOADING_START">>, <<"notify", "none", "CREATED">>,
                                  <<"notify", "abort", "UNLOADING">>, <<"finalize", "free", "UNLOADED">>,
                                  <<"free", "done", "FREED">>}
      PROVE  IInv'
  <2>1. next \in UnloadPc /\ s \in {"CREATED", "UNLOADING_START", "UNLOADING", "UNLOADED", "FREED"}
    BY <1>1 DEF UnloadPc
  <2> QED BY <1>1, <2>1, StateMoves
<1>2. ASSUME NEW pc, NEW next, NEW c, Pulses(pc, next, c),
             <<pc, next, c>> \in {<<"semaphore", "look", 0>>, <<"wait", "look", 0>>, <<"close", "finalize", NULL>>}
      PROVE  IInv'
  <2>1. next \in UnloadPc /\ c \in {0, NULL}
    BY <1>2 DEF UnloadPc
  <2> QED BY <1>2, <2>1, SemaphoreMoves
<1>3. CASE TryUnload(d)
  BY <1>1, <1>3 DEF TryUnload
<1>4. CASE NotifyFails(d)
  BY <1>1, <1>4 DEF NotifyFails
<1>5. CASE NotifyDone(d)
  BY <1>1, <1>5 DEF NotifyDone
<1>6. CASE Unloaded(d)
  BY <1>1, <1>6 DEF Unloaded
<1>7. CASE FreeDomain(d)
  BY <1>1, <1>7 DEF FreeDomain
<1>8. CASE CreateSem(d)
  BY <1>2, <1>8 DEF CreateSem
<1>9. CASE WaitSem(d)
  BY <1>2, <1>9 DEF WaitSem
<1>10. CASE CloseSem(d)
  BY <1>2, <1>10 DEF CloseSem
<1>11. CASE ClearQueue(d)
  <2>1. Alone(d)
    BY <1>11 DEF ClearQueue, Allowed, UnloadedAlone
  <2> QED BY <1>11, <2>1, ClearQueueInv
<1> QED BY <1>3, <1>4, <1>5, <1>6, <1>7, <1>8, <1>9, <1>10, <1>11, AbortThreadsInv, LookInv DEF UnloadStep

LEMMA Stutter == ASSUME IInv, UNCHANGED vars PROVE IInv'
<1>1. UNCHANGED <<queue, job_added, tp_idle_started, mono_worker_threads, busy_worker_threads,
                  client, starter, worker, domain, unload, ran>>
  BY DEF vars, poolVars
<1>2. /\ TypeOK /\ QueueInv /\ DomainInv /\ StarterInv /\ WorkerInv /\ PlaceInv /\ RanInv
      /\ UnloadInv /\ CountInv /\ PoolInv /\ WakeInv
  BY DEF IInv
<1>3. TypeOK' /\ DomainInv' /\ StarterInv'
  BY <1>1, <1>2 DEF TypeOK, DomainInv, StarterInv
<1>4. QueueInv' /\ \A i \in Job : InQueue(i)' <=> InQueue(i)
  BY <1>1, <1>2, QueueFrame
<1>5. \A d \in Domain : Doomed(d)' <=> Doomed(d)
  BY <1>1 DEF Doomed
<1>6. WorkerInv'
  BY <1>1, <1>2, <1>5, WorkerFrame DEF WorkerInv
<1>7. \A i \in Job : (AtClient(i)' <=> AtClient(i)) /\ (AtStarter(i)' <=> AtStarter(i))
  BY <1>1 DEF AtClient, AtStarter
<1>8. PlaceInv' /\ RanInv'
  BY <1>1, <1>2, <1>4, <1>5, <1>7, PlaceFrame, RanFrame
<1>9. UnloadInv'
  BY <1>1, <1>2, <1>4, UnloadFrame
<1>10. CountInv'
  <2> SUFFICES ASSUME NEW d \in Domain PROVE domain'[d].threadpool_jobs >= Counts(d)'
    BY DEF CountInv
  <2>1. /\ QueueCounts(d)' = QueueCounts(d) /\ ClientCounts(d)' = ClientCounts(d)
        /\ StarterCounts(d)' = StarterCounts(d) /\ WorkerCounts(d)' = WorkerCounts(d)
    BY <1>1, <1>4 DEF QueueCounts, ClientCounts, StarterCounts, WorkerCounts
  <2> QED BY <1>1, <1>2, <2>1 DEF Counts, CountInv
<1>11. PoolInv' /\ WakeInv'
  BY <1>1, <1>2 DEF PoolInv, WakeInv, Started, Working, Releasing, Woken
<1> QED BY <1>3, <1>4, <1>6, <1>8, <1>9, <1>10, <1>11 DEF IInv

LEMMA NextInv == ASSUME UnloadedAlone, Allowed, IInv, [Next]_vars PROVE IInv'
<1>1. ASSUME NEW j \in Job, Submit(j) \/ ClientStep(j) PROVE IInv'
  BY <1>1, SubmitInv, StartIdleInv, ChooseInv, StartThreadInv, AppendIncInv, AppendJobInv, ReleaseInv
     DEF ClientStep
<1>2. CASE StarterStep
  BY <1>2, StarterLoopInv, StarterSpawnInv, StarterDecInv, StarterPulseInv DEF StarterStep
<1>3. ASSUME NEW w \in Worker, WorkerStep(w) PROVE IInv'
  BY <1>3, WorkerStepInv
<1>4. ASSUME NEW d \in Domain, TryUnload(d) \/ UnloadStep(d) PROVE IInv'
  BY <1>4, UnloadStepInv
<1> QED BY <1>1, <1>2, <1>3, <1>4, Stutter DEF Next

LEMMA InitInv == Init => IInv
<1> SUFFICES ASSUME Init PROVE IInv
  OBVIOUS
<1>1. /\ queue = [array |-> <<>>, first_elem |-> 0, next_elem |-> 0]
      /\ job_added = 0 /\ busy_worker_threads = 0 /\ tp_idle_started \in BOOLEAN
      /\ mono_worker_threads = (IF tp_idle_started THEN mono_min_worker_threads ELSE 0)
      /\ client = [j \in Job |-> "new"] /\ starter = [pc |-> "off", data |-> NULL]
      /\ domain = [d \in Domain |->
                     [state |-> "CREATED", threadpool_jobs |-> 0, cleanup_semaphore |-> NULL]]
      /\ unload = [d \in Domain |-> "none"] /\ ran = [j \in Job |-> 0]
  BY DEF Init
<1>2. PICK idle \in SUBSET Worker :
        /\ Cardinality(idle) = mono_worker_threads
        /\ worker = [w \in Worker |-> [pc |-> IF w \in idle THEN "idle" ELSE "off",
                                       data |-> NULL, abort |-> FALSE]]
  BY DEF Init
<1>3. /\ queue.array = <<>> /\ queue.first_elem = 0 /\ queue.next_elem = 0 /\ queue \in TPQueue
      /\ Len(queue.array) = 0
  <2>1. <<>> \in Seq(Job \cup {NULL}) /\ Len(<<>>) = 0
    BY EmptySeq
  <2> QED BY <1>1, <2>1 DEF TPQueue
<1>4. \A w \in Worker : /\ worker[w] \in WorkerState /\ worker[w].data = NULL
                        /\ worker[w].pc = IF w \in idle THEN "idle" ELSE "off"
  BY <1>2 DEF WorkerState, WorkerPc
<1>5. \A d \in Domain : /\ domain[d] \in DomainState /\ domain[d].state = "CREATED"
                        /\ domain[d].threadpool_jobs = 0 /\ domain[d].cleanup_semaphore = NULL
                        /\ unload[d] = "none"
  BY <1>1 DEF DomainState
<1>6. TypeOK
  <2>1. worker \in [Worker -> WorkerState] /\ domain \in [Domain -> DomainState]
    BY <1>1, <1>2, <1>4, <1>5
  <2>2. mono_worker_threads \in Nat
    BY <1>1, PoolAssumption
  <2>3. client \in [Job -> ClientPc] /\ starter \in StarterState /\ unload \in [Domain -> UnloadPc]
        /\ ran \in [Job -> Nat]
    BY <1>1 DEF ClientPc, StarterState, UnloadPc
  <2> QED BY <1>1, <1>3, <2>1, <2>2, <2>3 DEF TypeOK
<1>7. QueueInv /\ JobsIn(queue) = {}
  <2>1. Slots(queue) = {}
    BY <1>3 DEF Slots
  <2> QED BY <1>3, <2>1 DEF QueueInv, QueueOK, JobsIn
<1>8. DomainInv /\ StarterInv
  BY <1>1, <1>5 DEF DomainInv, StarterInv
<1>9. WorkerInv
  BY <1>4 DEF WorkerInv, WorkerOK, JobPc
<1>10. \A j \in Job : AtClient(j) /\ ~AtStarter(j) /\ ~InQueue(j) /\ ran[j] = 0 /\ client[j] = "new"
  BY <1>1, <1>7 DEF AtClient, EarlyPc, AtStarter, InQueue
<1>11. \A j \in Job, w \in Worker : ~AtWorker(j, w)
  BY <1>4, NullFacts DEF AtWorker
<1>12. PlaceInv /\ RanInv
  BY <1>10, <1>11 DEF PlaceInv, Placed, RanInv, RanOK
<1>13. UnloadInv
  <2>1. \A j \in Job : unload[DomainOf[j]] = "none"
    BY <1>5, PoolAssumption
  <2> QED BY <2>1 DEF UnloadInv, UnloadOK, Past, Closed
<1>14. CountInv
  <2> SUFFICES ASSUME NEW d \in Domain PROVE domain[d].threadpool_jobs >= Counts(d)
    BY DEF CountInv
  <2>1. QueueCounts(d) = {} /\ ClientCounts(d) = {} /\ StarterCounts(d) = {} /\ WorkerCounts(d) = {}
    BY <1>1, <1>4, <1>10 DEF QueueCounts, ClientCounts, StarterCounts, WorkerCounts, StarterPc
  <2>2. Counts(d) = 0
    BY <2>1, FS_EmptySet DEF Counts
  <2> QED BY <1>5, <2>2
<1>15. PoolInv
  <2>1. Started = idle /\ Working = {}
    BY <1>4 DEF Started, Working
  <2>2. Cardinality(Working) = 0
    BY <2>1, FS_EmptySet
  <2> QED BY <1>1, <1>2, <2>1, <2>2 DEF PoolInv
<1>16. WakeInv
  BY <1>1, <1>3, PoolSets DEF WakeInv
<1> QED BY <1>6, <1>7, <1>8, <1>9, <1>12, <1>13, <1>14, <1>15, <1>16 DEF IInv

-----------------------------------------------------------------------------
\* The theorems.

\* The invariant of the pool: the jobs are where the threads expect them, the
\* counters are not too small, and every slot in use has a token, provided that a
\* domain with jobs is unloaded only if all jobs are its own.
THEOREM Invariance == UnloadedAlone /\ Spec => [](IInv /\ Allowed)
<1>1. Init => Allowed
  BY DEF Init, Allowed
<1>2. UnloadedAlone /\ IInv /\ Allowed /\ [Next]_vars => (IInv /\ Allowed)'
  <2>1. IInv => TypeOK
    BY DEF IInv
  <2> QED BY <2>1, NextInv, AllowedInv
<1>3. CASE UnloadedAlone
  <2>1. Init => IInv /\ Allowed
    BY <1>1, InitInv
  <2>2. (IInv /\ Allowed) /\ [Next]_vars => (IInv /\ Allowed)'
    BY <1>2, <1>3
  <2> QED BY <2>1, <2>2, PTL DEF Spec
<1> QED BY <1>3

\* threadpool_jobs and the counters of workers never go below zero, and the
\* indexes of append_job, dequeue_job and clear_queue stay in the array, provided
\* that a domain with jobs is unloaded only if all jobs are its own: a job that
\* clear_queue has doubled would be counted down twice.
THEOREM TypeCorrect == UnloadedAlone /\ Spec => []TypeOK
<1>1. IInv => TypeOK
  BY DEF IInv
<1>2. CASE UnloadedAlone
  BY <1>1, <1>2, Invariance, PTL
<1> QED BY <1>2

\* The places of a job.
LEMMA PlacesFacts ==
    ASSUME IInv, NEW j \in Job
    PROVE  /\ Cardinality(Places(j)) <= 1
           /\ Places(j) = {} => /\ ~AtClient(j) /\ ~AtStarter(j) /\ ~InQueue(j)
                                /\ \A w \in Worker : ~AtWorker(j, w)
<1>1. TypeOK /\ QueueOK(queue) /\ Placed(j) /\ j # NULL
  BY NullFacts DEF IInv, QueueInv, PlaceInv
<1> DEFINE Q == {k \in Slots(queue) : queue.array[k] = j}
           W == {v \in Worker : worker[v].data = j}
           C == {k \in {j} : client[j] \notin {"done", "release"}}
           S == {k \in {j} : starter.data = j /\ starter.pc \in {"loop", "spawn"}}
<1>2. Places(j) = {<<"queue", i>> : i \in Q} \cup {<<"worker", w>> : w \in W}
                  \cup {<<"client", c>> : c \in C} \cup {<<"starter", s>> : s \in S}
  BY DEF Places, Held, Slots
<1>3. /\ Q # {} <=> InQueue(j)
      /\ \A i, k \in Q : i = k
  BY <1>1 DEF InQueue, JobsIn, QueueOK
<1>4. /\ \A w \in W : AtWorker(j, w)
      /\ \A w \in Worker : AtWorker(j, w) => w \in W
  BY DEF AtWorker
<1>5. C # {} <=> AtClient(j)
  <2>1. client[j] \in ClientPc
    BY <1>1 DEF TypeOK
  <2> QED BY <2>1 DEF AtClient, EarlyPc, ClientPc
<1>6. S # {} <=> AtStarter(j)
  BY DEF AtStarter
<1>7. (\A c \in C : c = j) /\ \A s \in S : s = j
  OBVIOUS
<1> HIDE DEF Q, W, C, S
<1>8. \A x, y \in Places(j) : x = y
  <2>1. \A w \in W : /\ Q = {} /\ C = {} /\ S = {}
                     /\ \A v \in W : v = w
    <3>1. \A w \in W : w \in Worker
      BY DEF W
    <3> QED BY <1>1, <1>3, <1>4, <1>5, <1>6, <3>1 DEF Placed
  <2>2. (C # {} => S = {} /\ Q = {}) /\ (S # {} => Q = {})
    BY <1>1, <1>3, <1>5, <1>6 DEF Placed
  <2>3. CASE W # {}
    <3>1. PICK w : w \in W
      BY <2>3
    <3>2. Places(j) = {<<"worker", w>>}
      BY <1>2, <2>1, <3>1
    <3> QED BY <3>2
  <2>4. CASE W = {} /\ C # {}
    <3>1. Places(j) = {<<"client", j>>}
      BY <1>2, <1>7, <2>2, <2>4
    <3> QED BY <3>1
  <2>5. CASE W = {} /\ C = {} /\ S # {}
    <3>1. Places(j) = {<<"starter", j>>}
      BY <1>2, <1>7, <2>2, <2>5
    <3> QED BY <3>1
  <2>6. CASE W = {} /\ C = {} /\ S = {}
    BY <1>2, <1>3, <2>6
  <2> QED BY <2>3, <2>4, <2>5, <2>6
<1>9. Cardinality(Places(j)) <= 1
  <2>1. CASE Places(j) = {}
    BY <2>1, FS_EmptySet
  <2>2. CASE Places(j) # {}
    <3>1. PICK x : x \in Places(j)
      BY <2>2
    <3>2. Places(j) = {x}
      BY <1>8, <3>1
    <3>3. Cardinality({x}) = 1
      BY FS_Singleton
    <3> QED BY <3>2, <3>3
  <2> QED BY <2>1, <2>2
<1>10. Places(j) = {} => Q = {} /\ W = {} /\ C = {} /\ S = {}
  BY <1>2
<1> QED BY <1>3, <1>4, <1>5, <1>6, <1>9, <1>10

\* A job that is given to mono_thread_pool_add is in one place at a time, is
\* invoked at most once, and is given up only if its domain is unloaded, provided
\* that a domain with jobs is unloaded only if all jobs are its own.
THEOREM JobsRunOnce == UnloadedAlone /\ Spec => []JobOnce
<1>1. ASSUME IInv PROVE JobOnce
  <2> SUFFICES ASSUME NEW j \in Job
               PROVE  /\ ran[j] <= 1 /\ Cardinality(Places(j)) <= 1
                      /\ Places(j) = {} => ran[j] = 1 \/ Doomed(DomainOf[j])
    BY DEF JobOnce
  <2>1. RanOK(j) /\ ran[j] \in Nat
    BY <1>1 DEF IInv, RanInv, TypeOK
  <2>2. ran[j] = 0 \/ ran[j] = 1
    BY <2>1 DEF RanOK
  <2> QED BY <1>1, <2>1, <2>2, PlacesFacts DEF RanOK
<1>2. CASE UnloadedAlone
  BY <1>1, <1>2, Invariance, PTL
<1> QED BY <1>2

\* mono_thread_pool_remove_domain_jobs returns only when no job of the domain is
\* queued or on its way to a worker, provided that a domain with jobs is unloaded
\* only if all jobs are its own: threadpool_jobs would be too small after a job
\* that clear_queue has doubled was counted down twice.
THEOREM UnloadWaitsForJobs == UnloadedAlone /\ Spec => []UnloadWaits
<1>1. ASSUME IInv PROVE UnloadWaits
  <2>1. TypeOK /\ QueueOK(queue) /\ UnloadInv
    BY <1>1 DEF IInv, QueueInv
  <2> SUFFICES ASSUME NEW d \in Domain, unload[d] \in Closed
               PROVE  /\ Pending(d) = {}
                      /\ \A i \in DOMAIN queue.array :
                           queue.array[i] # NULL => DomainOf[queue.array[i]] # d
    BY DEF UnloadWaits, Closed
  <2>2. ASSUME NEW j \in Job, DomainOf[j] = d
        PROVE  ~InQueue(j) /\ \A w \in Worker : worker[w].data = j => worker[w].pc \notin CountedPc
    BY <2>1, <2>2 DEF UnloadInv, UnloadOK, Past, Closed, AtWorker
  <2>3. \A j \in Job : Queued(j) <=> InQueue(j)
    BY DEF Queued, InQueue, JobsIn, Slots
  <2>4. Pending(d) = {}
    BY <2>2, <2>3 DEF Pending, Held, CountedPc
  <2>5. ASSUME NEW i \in DOMAIN queue.array, queue.array[i] # NULL PROVE DomainOf[queue.array[i]] # d
    <3>1. queue.array \in Seq(Job \cup {NULL}) /\ i \in 1..Len(queue.array)
      BY <2>1, <2>5, LenProperties DEF QueueOK, TPQueue
    <3>2. queue.array[i] \in Job
      BY <2>5, <3>1, ElementOfSeq
    <3>3. InQueue(queue.array[i])
      BY <2>1, <2>5, <3>1, <3>2 DEF QueueOK, InQueue, JobsIn
    <3> QED BY <2>2, <3>2, <3>3
  <2> QED BY <2>4, <2>5
<1>2. CASE UnloadedAlone
  BY <1>1, <1>2, Invariance, PTL
<1> QED BY <1>2

\* While a job is queued and nobody is about to look at the queue or to release
\* a token, job_added has one: the workers that wait on it do not sleep on.  The
\* proof needs that a domain with jobs is unloaded only if all jobs are its own.
THEOREM WakeupKept == UnloadedAlone /\ Spec => []NoLostWakeup
<1>1. ASSUME IInv PROVE NoLostWakeup
  <2> SUFFICES ASSUME NEW j \in Job, Queued(j), \A i \in Job : client[i] # "release",
                      \A w \in Worker : worker[w].pc \in {"off", "timed", "count", "idle", "exit"}
               PROVE  job_added > 0
    BY DEF NoLostWakeup
  <2>1. TypeOK /\ WakeInv
    BY <1>1 DEF IInv
  <2>2. queue.first_elem \in Nat /\ queue.next_elem \in Nat /\ job_added \in Nat
    BY <2>1 DEF TypeOK, TPQueue
  <2>3. Releasing = {} /\ Woken = {}
    BY DEF Releasing, Woken
  <2>4. Cardinality(Releasing) = 0 /\ Cardinality(Woken) = 0
    BY <2>3, FS_EmptySet
  <2>5. queue.next_elem - queue.first_elem > 0
    BY <2>2 DEF Queued
  <2> QED BY <2>1, <2>2, <2>4, <2>5 DEF WakeInv
<1>2. CASE UnloadedAlone
  BY <1>1, <1>2, Invariance, PTL
<1> QED BY <1>2
=============================================================================
