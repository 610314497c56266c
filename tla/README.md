# UnityEtwSymbols: TLA+ models of how jitted code gets its symbols

The repository patches the Mono runtime of Unity 2018.2 so that it writes ETW
events for jitted code.  Its own code is small (`src/etwSymbols.c`, a profiler
with two callbacks); what makes those callbacks right or wrong is the part of
the runtime underneath: the compilation of methods by several threads at once,
the table that maps code addresses to methods and is read without locks, and the
hazard pointers that decide when its memory may be freed.  Those are modelled
here, and with them the parts of the runtime that every compilation and every
managed thread of the player goes through: class initialization, monitors, and
the thread pool with the unloading of the domain the game runs in.  Paths below
are relative to `src/Unity-2018.2.8/mono/` unless they start with `src/`.

## Inventory

| component | state | operations | interaction |
|---|---|---|---|
| hazard pointers (`metadata/threads.c`) | `small_id_table`, `small_id_next`, `highest_small_id`, `hazard_table`, `delayed_free_table` | `small_id_alloc`, `small_id_free`, set/clear a slot, `is_pointer_hazardous`, `mono_thread_hazardous_free_or_queue`, `mono_thread_hazardous_try_free_all` | called by the JIT info table and the unwind cache; the delayed blocks of all domains are in one table |
| unwind cache (`mini/unwind.c`) | `cached_info` | read without a lock, replace when full | hazard slot 0 |
| JIT info table (`metadata/domain.c`) | table, shared reference-counted chunks, `jit_info_free_queue`, `num_jit_info_tables` | add, remove, find; realloc, split, purify; free | hazard slots 0 (table) and 1 (element); domain lock |
| compilation (`mini/mini.c`) | `jit_code_hash`, `dynamic_code_hash`, code memory | `mono_jit_compile_method`, `mono_jit_free_method` | adds to and removes from the table; calls the profilers |
| profiler list (`metadata/profiler.c`) | `prof_list`, `mono_profiler_events` | install, set events, call back | called from compilation and assembly loading |
| assembly loading (`metadata/assembly.c`) | `image->assembly`, `loaded_assemblies` | `mono_assembly_load_from_full`, `mono_assembly_close` | search and load hooks, profiler |
| ETW events (`src/etwSymbols.c`) | the provider's handle; the trace | `on_method_jitted`, `on_load_assembly` | called back by the profiler list |
| class initialization (`metadata/object.c`) | `type_initialization_hash`, `blocked_thread_hash`, `initialized`, `init_failed`, `type_init_exception_hash` | `mono_runtime_class_init_full`, `mono_release_type_locks` | called at the end of a compilation and from static constructors; by threads that exit |
| monitors (`metadata/monitor.c`) | lock records, `monitor_freelist`, `monitor_allocated`, events of waiters | Enter, TryEnter, Exit and their fast paths, Wait, Pulse, PulseAll | records are linked weakly to objects; threads may be interrupted inside |
| thread pool (`metadata/threadpool.c`) | `async_call_queue`, `job_added`, worker counters, `threadpool_jobs` and `cleanup_semaphore` of each domain | add a job, start and retire workers, remove a domain's jobs | called by and runs managed code; awaited by the unload thread |
| appdomain unload (`metadata/appdomain.c`) | domain state | `mono_domain_try_unload`, unload thread, `mono_domain_free` | aborts threads, waits for the thread pool, ends in the JIT info table |
| thread life cycle, code manager | thread state; chunks of code memory | see the source | interruption of blocked threads; memory for compilations |

What is hard in them: lookups that run while the table changes under them
(interleaving, memory order), deferred freeing by counts and by scans that read
stale values, two threads that do the same work and must agree on one result,
error paths that leave something behind, events that must appear exactly once
in whatever order the callbacks run, waits that somebody has to end, and a domain
that is taken apart while jobs for it are on their way.  `PROJECT.json` lists each hazard at its
line with the properties that watch it.

Correctness, per component: no block is freed while somebody uses it, and each is
freed once (hazard pointers, table); a lookup finds what is there and only that,
and ends (table); all threads use the same code of a method, and code that runs
is known to the table (compilation); code and assemblies get one event each
(events); a static constructor runs once and nobody waits for it for ever (class
initialization); the records behave as monitors and no wake-up is lost for good
(monitors); a job runs once, and the unload of its domain waits for it (thread
pool).

## Modules

`HazardPointers` - `metadata/threads.c` and the two copies of
`get_hazardous_pointer`.  A reader (`Load`, `Set`, `CheckSame`/`CheckChanged`,
`Reload`, `Clear`) takes the contents of a *cell*: the table pointer of a domain
or `cached_info` with slot 0, an element of a chunk with slot 1.  A writer
replaces the contents of a cell (`Replace`) and goes through
`mono_thread_hazardous_free_or_queue`: three delayed items, each examined under
the mutex and freed outside it, then its own block.  The scan reads one word of
`hazard_table` per step against its own copy of `highest_small_id`.
`small_id_alloc` is one step under its mutex, except when it grows: the `memcpy`
and the replacement are two, because `small_id_free` takes no mutex.  Three
constants say what the build is like: `StoreLoadFence` (is
`mono_memory_write_barrier` a full fence?  If not, stores to the slots go through
a buffer), `FullBarrier` (is `mono_memory_barrier` one?  If not, other threads
read the old contents of a replaced cell, `late`, until the writer's store is in
memory, `DrainCell`) and `AsyncSignals` (do signal handlers look up code?).

No build has all that the protocol needs.  With gcc on x86-64
`mono_memory_write_barrier` is an `sfence`, with MSVC both barriers stop only the
compiler (`utils/mono-membar.h`), and builds where it is a full fence are POSIX
ones, whose SIGUSR1 handler looks up code (`mini/mini-posix.c:190`).  So there are
two properties.  `NoUseAfterFree` is what the comments in the code claim: no block
that a lookup uses is freed.  Run hazard_fence shows it violated.  `ProtectedNotFreed` is what the
scans of the writer do achieve in every build: a block is not freed while a
*protected* lookup uses it, one that had its slot in memory and saw the cell's own
contents when it read the cell again, and that no handler has interrupted since.
The history variable `exposed` has the lookups that are not protected.

`JitInfoTable` - the table of one domain.  The writer holds the domain lock and
makes one store per step (`Grow`, `Count`, `Shift`, `Insert`, `Seal`), or
publishes a new table (`Overflow`: realloc, split or purify); the lookup makes one
shared read per step.  Taking a hazardous pointer and scanning for one are single
steps.  The proofs about `HazardPointers` justify this for protected lookups, that
is, with full fences and without lookups in handlers; so what is shown about the
table is shown for that machine.  `ForeignTake` and
`ForeignFree` are the other users of `delayed_free_table`: a thread that retires a
block of its own tries the first three indexes, the unload of another domain all of
them, one such thread at a time; `mono_domain_free`,
`mono_thread_hazardous_try_free_all` (one delayed item per step, the last one first)
and `FreeCurrent` are the end of a domain.  A MonoJitInfo is named by its code range and a number,
so ranges may be used again after they were freed, and old ranges overlap new
ones as tombstones.  What the rebuilding copies is defined by the order of the live
places of the table (`LivePlaces`, `Rank`, `Nth`), not by loops, so that it can be
reasoned about for tables of any length.

`JitCompile` - a compilation from `lookup_method` through reserving code,
entering the table, the second lookup under the locks, the vtable, the profiler
callback and class initialization; `mono_jit_free_method` for dynamic methods;
assembly loading; the profiler list with the ETW profiler and one more; the trace,
which records only while somebody listens.  The table is a set here.

`ClassInit` - `mono_runtime_class_init_full`.  A thread is a stack of frames, one
for each call that has not returned, because static constructors use other
classes.  The unlocked reads and writes of the vtable (`Check`, `Fail`, `Store`),
the section (`DoubleCheck`, `EnterFirst`, `EnterOther`), each turn of the walk
(`Walk`), the wait and the end (`Finish`) are steps; `Exit` is the death of a
thread inside a constructor.  What classes need of each other, which constructor
throws and which class is in an unloaded domain are constants.  `OnceInit` is
what the component promises, and InitializedOnce that `ClassInit` implements it:
a class is new, running in one thread, ready or failed, and never goes back.

`Monitor` - `metadata/monitor.c`, one step per access to the owner, to the count
of blocked threads or to a handle.  The fast path of Enter takes the same steps
as the function up to its first compare-and-swap; the one of Exit
(`FastExit`, `FastFree`) does not.  A thread that exits reads `entry_count` in one
step and raises the semaphore in another (`Wakeup`, `ReleaseSemaphore`).  Records
come from a sequence of disjoint arrays
(`ArrayOf`; in the code each is twice as long as the one before), are recycled
when their object is collected, and keep what earlier users left in them.  `Collect` clears the
weak link and replaces the object in one step.  In the code the link is cleared
(`metadata/boehm-gc.c:347`) before the finalizer of the object is run
(`metadata/gc.c:226`), and a finalizer that locks its object does so with a lock word
whose record may have been recycled; this is outside the model.  `MonitorSpec` is the monitor a program sees: a holder, a depth, a queue of
tickets, pulsed tickets.  KeepsContract is the refinement: events are the
tickets, and the owner of a record is the holder except while a Wait that has
regained the lock restores its state.

`ThreadPool` - `metadata/threadpool.c` composed with the unload thread of
`metadata/appdomain.c` and the appdomain references of `metadata/threads.c`.
Each job has a client thread that submits it; workers and the starter are
threads; a domain has a state, a count of jobs and perhaps a semaphore.  The queue
is the array with its two indexes, because its sliding, doubling and halving is
where it could go wrong.  A worker that has taken a job is counted as busy in a step
of its own (`CountBusy`), so `start_thread_or_queue` may see it as idle.

`HazardPointersProofs`, `JitInfoTableProofs`, `JitInfoTableFind`, `JitCompileProofs`,
`ClassInitProofs`, `ThreadPoolProofs`, `MonitorProofs`, `MonitorRefinement` - the theorems.  `MC*` - the instances for TLC.
Operators whose comment begins with *Mutant* are faulty variants of the
definition that follows them; nothing uses them, they are there to show that each
property can fail (`PROJECT.json`, "mutants").

The models stand on their own: `JitInfoTable` abstracts what `HazardPointers`
shows, `JitCompile` abstracts what `JitInfoTable` and `ClassInit` show.

## Runs

| run | instance | shows |
|---|---|---|
| hazard_relaxed | 2 threads beside the main thread, 2 blocks, table of ids grows 2 to 4; store buffer of 1, neither barrier a fence, signals | with the least that any build gives: what a protected lookup uses is not freed, one owner per retired block, no stale slots, private slots, while ids are given out during a scan and the table of ids is copied without excluding `small_id_free` |
| hazard_fence | the same with `mono_memory_barrier` a fence and without signals, as with gcc on x86-64 | *violated*, see below |
| table_reuse | 3 ranges that come and go over each other, chunks of 4 | lookups are right, read nothing freed and return; sorted at every step; no assertion fails; add gives the lock back |
| table_foreign | 7 ranges, 4 at the start, chunks of 4, foreign threads and unloading | lookups across several chunks are right; the reference counts and the ownership of every block stay exact, and what is queued has a table whose release flushes it |
| compile_race | 2 threads, 5 methods (2 dynamic; one for each error path), 2 blocks of code | one result per method, code that runs is in the table, one event per code block and assembly, freeing finds what it frees, on the error paths too |
| compile_symbols | 2 threads, 2 methods, 2 blocks | events follow, whatever other profilers do |
| compile_stale | 1 dynamic method | *violated*, see below |
| class_init | 2 threads, 6 classes, 2 uses each, one thread may die | constructors run once and their outcome stays (refinement of `OnceInit`); locks live as long as they are used; waiters of a failed one see its cause; threads go on early only in a cycle; every call returns |
| class_hang | 3 threads, 2 classes | *violated*, see below |
| pool_jobs | 3 jobs, 2 workers, 1 domain that may be unloaded | no job lost, doubled or overtaken; no lost wake-up; the unload thread waits for all jobs, and the queue refers to none of them afterwards |
| pool_unload | 2 jobs, 2 workers | *violated*, see below |
| monitor_lock | 3 threads, 1 object, 2 events, 3 programs | the records implement a monitor (refinement of `MonitorSpec`); counts and lists are exact; no thread sleeps on a lock that Exit freed; a free lock is taken |

Bounds.  A chunk of 4 is the smallest for which `FILLED_NUM_ELEMENTS`, the
watermarks and the split all behave as with 64 (the code's assertions need a
multiple of 4).  Seven chunks and four tables are enough for two retired tables
beside the current one and the one being built.  Two or three copies of a range
allow an entry, its tombstone and its successor.  One reader is enough for the
table: readers do not write anything another reader sees, beside their hazard slots,
and a slot of a second reader only delays a free; what is proved about the table is
proved for any number of them.  Two threads race for a
hazard slot, a delayed item, a method or an assembly.  Two blocks of code let both threads compile
the same method, and a block be freed and used for another method while one of
them compiles.  Two threads are enough for a cycle of static constructors, and six
classes give the cycle, the constructor that throws below it, a class without a
constructor, the module initializer and a class that is gone.  A queue that starts
at length 1 slides, doubles and halves with three jobs; one of the two workers can
retire while the other runs.  The programs of monitor_lock bound what each thread
calls: nested Enters with a timed Wait; an interruption and a collection, which
need two arrays of records, here of one record each; two waiters and a thread that pulses them.  SEM_MAX is
2 where the code has 0x7fffffff: the count beyond the number of threads makes no
difference to who is woken.  The symmetry sets
permute threads, blocks and workers, which no definition tells apart; no run with
a liveness property uses one.  Deadlock is not checked where the domain can be
freed, a failed assertion ends the process, or the threads have nothing left to do.
In HazardPointers TLC uses one slot of each thread; the proofs are about both.
Three small ids are what it takes to make the table of ids grow: the main thread
(`Main`) is attached from the start and takes no step in the runs (`Active`), and the
two others attach, look up, replace, free and detach.  Two blocks, of which one is in
the cell, leave at most one item in `delayed_free_table`; the two threads race for that
one, and the case of several items, whose last moves to the place that is free, is
part of table_foreign and of the proofs.

Fairness.  `WriterStep` (the writer under the domain lock), `FindStep` of each
lookup, `ThreadStep` of each compiling or loading thread and `FinalizerStep` are
weakly fair: they are straight-line code of a running thread that waits only for
locks whose holders also run.  The same holds for `Step` of each thread in
`ClassInit`, where a static constructor ends by itself, and in `Monitor`, where a
thread inside a call is scheduled and a sleep of 100 ms ends.  Calling, being
interrupted, being collected and dying are not fair there.  Starting a compilation, a load, a lookup or a
removal, starting the trace and installing a profiler are not fair: nobody has to.

## What the violated runs show

* hazard_fence: a lookup stores the pointer to its slot
  (`metadata/threads-types.h:187`), the store waits in the buffer of its processor,
  and the lookup reads the table pointer again, finds it unchanged and goes on.  A
  writer replaces the table, scans the slots, finds nothing and frees it.
  `metadata/domain.c:390-393` claims that this check is enough.
* compile_stale: after two threads raced to compile a dynamic method, freeing it
  can remove the wrong table entry and leave one for freed code.
* class_hang: T3 initializes K and waits for M, which T2 has just finished; T3 has
  not woken up.  T2 now needs K, sees that T3 waits for a lock of its own that is
  done, and waits.  T1 needs K, and its walk goes T3, M, T2, K, T3 for ever with
  the section locked, so that T3 cannot leave `blocked_thread_hash` either.
* pool_unload: the abort phase is over when a worker that has already looked at
  the state of the domain pushes its reference.  It counts its job down, and is
  told not to run it only if it is the last one *and* the semaphore exists.

The models show more behaviours of the code, and reading it shows two, which no
run lists:

* `small_id` is unsigned (`metadata/object-internals.h:355`), so the test for a
  thread that has been cleaned up, whose small id is -2, is always true
  (`metadata/threads.c:459`).  The model has no lookups by such a thread.
* A table in which every element is a tombstone is reallocated to no chunk at all
  (`metadata/domain.c:507`), and the next `jit_info_table_index` fails its
  assertion.  JitInfoTable assumes one method that stays, as every domain that runs
  managed code has.
* `NoUseAfterFree` with `AsyncSignals = TRUE`, whatever the fences: a handler that
  makes a lookup sets and clears the slot of the lookup it interrupted
  (`mini/unwind.c:528`), which goes on without protection, though the function is
  documented as signal safe (`mini/unwind.c:518`).  And with `FullBarrier = FALSE`: a
  lookup may read the old table pointer while the new one is in the store buffer of a
  writer that has looked at the slots already.
* `NoFreedRead` in the instance of table_foreign: the queue of removed MonoJitInfos
  is flushed by a count of tables (`metadata/domain.c:248`).  While only the writer
  frees tables this is safe (table_reuse); when another thread does, a lookup in
  the current table may still hold one.
* `AssertionsHold` in the instance of table_foreign, in two ways.
  `mono_thread_hazardous_try_free_all` does not see a table another thread has
  taken out and not freed yet, so `mono_domain_free` fails its assertion
  (`metadata/domain.c:1967`).  And `jit_info_table_free` of the last old table
  flushes the queue before it goes through its own chunks, where it reads the
  MonoJitInfos it just freed (`metadata/domain.c:270`).
* Two states of compile_race in which the process has ended: code of a class
  without a vtable stays in the hash, and the next call of the method finds it
  there (`LookupHit`, `mini/mini.c:4545`); and a compilation that fails calls
  `on_method_jitted`, which does not look at the result, without a MonoJitInfo
  (`CompileFailed`, `mini/mini.c:4415`, `src/etwSymbols.c:25`).
* `ClassInit`: `init_failed` is set before the exception is stored
  (`metadata/object.c:360`), so a thread that comes late may raise another exception
  than the one stored; `checked_module_cctor` is set before the module initializer
  has run, so another thread does not wait for it; with three threads
  a call may return early though nobody is stuck, because the walk follows waits that
  are over and ends at one that is not; `EarlyOnlyInCycle` therefore asks of the last
  wait only that it is for a constructor that has not ended.
* `ThreadPool`: `clear_queue` sets `next_elem` to the number of jobs it removed
  (`metadata/threadpool.c:1326`), so with jobs of two domains `JobOnce` fails.  If one
  job of the unloaded domain is before two of another one, the second of these is
  behind the new end and never run.  If two are around one of the other domain, that
  one is in the queue twice, is run twice and is counted down twice, so that
  `threadpool_jobs` of its domain gets too small.  If the unloaded domain has more jobs in the queue than the other, null elements
  stay between the indexes, and a second `clear_queue` would
  dereference them (`metadata/threadpool.c:1309`), which the model does not.
  A job that `append_job` refuses stays counted (1262-1268), and the unload thread
  then waits for ever.  `busy_worker_threads` is not decremented for a job of a domain
  that is being unloaded, nor for a worker that was started without a job.
* `Monitor`: the fast path of Exit reads `entry_count` and then frees the lock
  without another look, so a thread that counts itself in between sleeps on a free
  lock until its 100 ms are over; without the exception for `freedFast`, NoStall
  fails.  The comment at `metadata/monitor.c:604` proposes to remove the timeout:
  FreeLockTaken fails without it (mutant `SleepForever`).  A Wait that is interrupted
  leaves its event in the list, as the FIXME at 1379 says, and a later Pulse can be
  spent on it, after which nobody closes the handle.  A thread suspended inside
  Enter goes on without the lock (658-664).

## Proofs

`HazardPointersProofs` proves, for any sets of threads, blocks and cells, any
number of ids, any page size and every build, that is, whatever the barriers order
and whether or not signal handlers look up code:

* `SafeReclamation`: `[]ProtectedNotFreed`
* `SingleOwner`: `[]OneOwner`
* `PrivateSlots`: `[]OwnSlots`
* `CleanSlots`: `[]NoStaleHazard`
* `TypeCorrect`: `[]TypeOK`

They follow from `Invariance`, `Spec => []IInv`, and the only assumptions are the named
ASSUMEs of `HazardPointers`, which TLC evaluates in every run.  That every lookup is
protected is not claimed, and hazard_fence shows that it is not.

`ProtectedNotFreed` is not inductive: the free that would break it is taken on the
word of a scan that started long before.  The key is `ScanInv`: *while a thread
scans for a block, every protected lookup that uses the block has its slot at or
beyond the position of the scan, and within the ids the scan will look at*.  A lookup
that starts to use a block and is protected has read it in a cell, so nobody scans
for it (`NewUseIsLinked`, `TargetRetired`); the id it has was given out
before the block was unlinked, hence below the scan's copy of
`highest_small_id`; and the scan moves past a word only if the word is not the
block, but the word of a protected lookup that uses the block is (`ReadInv`).  So when the
scan is done no protected lookup uses the block (`DoneMeansUnused`).  `ReadInv` is about
the stores that are on their way too: what a protected lookup uses is in its slot in
memory and no store in the buffer will change it, and the last store to
the slot of an idle lookup, in the buffer or else in memory, is NULL; this is what
`CleanSlots` needs.  The other conjuncts
carry this: `IdInv` keeps ids unique and the table of ids consistent with its
copy while it grows; `HeapInv`, `OwnInv`, `DelayedInv`, `ItemInv` and `ClaimInv`
say who owns a retired block; `LookupInv` says that only attached threads have
stores in a buffer or an interrupted lookup.  Each conjunct has a lemma with one step per
action.

`JitInfoTableProofs` proves, for any sets of readers, code ranges and addresses, any
chunk size that is a multiple of 4 up to 64, any number of blocks, and whether or not
other threads free what is delayed and the domain may be freed:

* `OneReclaimerEach`: `[]OneReclaimer`
* `NoDanglingElements`: `[]NoDanglingElement`
* `AlwaysSorted`: `[]Sorted`, one half of `AssertionsHold`
* `TableAssertionsHold`: `[]TableAssertions`, of the other half the assertions about
  the table, those of jit_info_table_index, jit_info_table_realloc and
  mono_jit_info_table_remove
* `TypeCorrect`: `[]TypeOK`

They follow from `Invariance`, `Spec => []IInv`, under the named ASSUMEs of
`JitInfoTable`.  `StructInv` says that the current table and the old ones have their
chunks, and no table one chunk twice; `ElemInv` that what they hold was allocated.
`OrderInv` is the order of the elements, and `PlaceInv`, `CountInv`, `ShiftInv` and
`SealInv` say for each store of add which two neighbours are equal and where the new
element may go without breaking it.  `LiveInv` says that live
MonoJitInfos do not overlap, `UniqInv` that the current table has an entry twice only
while add moves it.  The reference counts (`CountsExact`) are compared with the cardinality
of the set of tables that hold a chunk; when a table is published or freed that set
changes by one.  The three ways to rebuild share one proof (`Replacing`):
`Layout` describes where the new chunks are among the old ones, `PartFacts` and
`SlicesFacts` what is in them.  The binary searches are recursive functions, and what
they return (`BisectFacts`) is proved from the minimum of a set of numbers (`NatMin`),
as is the position of an element among the live ones (`RankFacts`).  `NumChunksFacts`
is the arithmetic of a reallocation: for every chunk size the chunks suffice and only
the last one is not filled.  `PendInv`, `QueueInv` and `ObjInv` give the owner of
every retired table and MonoJitInfo.  The lookups enter by `SlotInv`: a lookup that
has a table has it in its slot, so the scan keeps it, and its positions stay in
chunks of this table.

`JitInfoTableFind` proves on this invariant, under the same assumptions,

* `LookupsFind`: `[]FindCorrect`

for any number of lookups, each at any place of any table, current or old.  A
lookup that returns tells nothing about how it got there, so the invariant
(`LookupInvariance`) follows the entry e that it has to return.  `FindInv`: *e is in a
chunk of the lookup's table and the lookup has not passed it.*  That is, the chunks
before hold nothing that ends after e, and `last_code_end` from there on is not below
its end (`Splits`), so the search of chunks does not go past it; what overlaps e is a
tombstone (`Alone`), so nothing else can be taken for the answer; in its chunk e is
not below the index the lookup goes on from (`Above`, `Ahead`).  A lookup may hold an
element it has read but not compared yet; then that element is e, ends before e, or is
a tombstone, which the test of `d.jit_info.method` rejects or which has the range of
what it replaced.  Each store of the writer keeps this: add moves elements only up
and stores e twice before it overwrites it once (`Stored`, `StoreLooks`), so a lookup
that goes up cannot miss it; remove puts in a tombstone with the same range
(`Replaced`, `RemoveLooks`); the rebuilding copies into new chunks and leaves the old
ones alone.  Since an old table shares chunks with the current one, add changes what
its readers see too; `SameSide` says that shared chunks are on the same side of e in
both tables, and carries the order of the current table over to the old one.
`AllowedInv` is the other half: what a lookup can return for its address was live at
some time since it began.

In the model a lookup whose MonoJitInfo is freed takes no step, so `LookupsFind` is
about lookups that read memory that is there.  That they do, and that the process
goes on, is

* `LookupsReadSafely`: `Spec /\ ~ForeignReclaim => []NoFreedRead`
* `NoAssertionFails`: `Spec /\ ~ForeignReclaim /\ ~Unload => []AssertionsHold`

The hypotheses are the parameters of table_reuse: delayed tables are freed only by the
thread that holds the domain lock, and for the second the domain is not freed.  They
cannot be dropped; the instance of table_foreign has both behaviours without them (see
above).  When the queue is flushed nobody looks whether a lookup holds what is in it;
only the table that is released was looked for in the hazard slots.  So the argument is
about tables.  A flush happens when one table is left, the current one, and by
`SlotInv` a lookup that goes on is in a table that is left.  The writer has published
this table in the same critical section, and what is queued was removed before it; so
a lookup in the current table holds nothing that is queued (`ReadOK`).
Until the release begins nothing queued is freed,
and a tombstone that a lookup has loaded goes only with its table, which the slot
protects (`ReadInvariance`).  For the assertions (`AssertionInvariance`): the last old
table is the one that the writer has just replaced (`TwoTables`), and by `QueueInv`
what is queued was removed from it before, so `jit_info_table_free` finds in its chunks
nothing that it has just flushed.

`JitCompileProofs` proves, for any sets of threads, methods, assemblies and blocks
of code, whatever the other profilers do:

* `OneCodePerMethod`: `[]SameCode`
* `CodeKnown`: `[]RunningCodeKnown`, that the code has its own entry in the table; not
  that a lookup finds it, for a stale entry for the same address may be beside it
  (compile_stale)
* `EventsOnce`: `[]SymbolOnce`
* `FreeSucceeds`: `[]FreeFinds`
* `TypeCorrect`: `[]TypeOK`

They follow from `Invariance`, `Spec => []IInv`, under the named ASSUMEs of
`JitCompile` (that NULL is no method, assembly or block, and which methods are
which).  A thread between `mono_codegen` and the end of the callbacks owns its
block (`OwnInv`): no other thread has it, and it enters the table when it is
published.  So the loser of a race frees a block that nobody was given, and
`HashInv` and `AgreeInv` (what the hash holds is live code in the table; what a
thread was given is what the hash holds) survive.  `FreeFinds` needs
`DynamicInv`, which says of every entry of `dynamic_code_hash` that *what is missing
for the method to be freed, a thread that compiles it has yet to do*: an entry
without a MonoJitInfo has a thread that is about to set it, and one with a
MonoJitInfo but without code in the hash has a thread that is about to insert it.
`LoadInv` does the same for assemblies.

`ClassInitProofs` proves, for any finite set of threads, any set of classes with any
graph of uses and any set of threads that may die:

* `Refinement`: `Spec => InitializedOnce`, that is, `ClassInit` implements `OnceInit`
* `LockLifetime`: `[]LockLives`
* `CauseStored`: `[]WaiterSeesCause`
* `EarlyReturn`: `Spec => EarlyOnlyInCycle`
* `TypeCorrect`: `[]TypeOK`

They follow from `Invariance`, again without assumptions beside the ASSUMEs of
`ClassInit`.  Threads are finitely many because `waiting_count` is compared with
the cardinality of the set of threads that use the lock (`CountInv`), which is the
step that decides who frees it.  The rest of the invariant says who these are:
`RunInv`, a constructor is run by the thread that its lock names, in exactly one
of that thread's calls, though calls nest; `LockInv`, a lock that is not done has
such a call, so the class is not initialized and nobody else starts it; `WaitInv` and
`BlockedInv`, a thread that waits is in `blocked_thread_hash` with this class;
`WalkInv`, the lock a thread walks from cannot be freed, because the thread is in
the section; `CauseInv`, whoever left the lock of a failed class stored the
exception first or is a thread that died.  Under the refinement EnterFirst is a
Start, EnterUnloaded and NoCctor are Skips, Done, Fail and Exit may be an End, and
every other action stutters.  `EarlyReturn` needs two facts more: the thread in the
section is on a walk (`SectionInv`), so nobody else changes `blocked_thread_hash` or
who initializes what, and what it has walked over leads from the initializing thread
to where it is (`ReachInv`).

`ThreadPoolProofs` proves, for any number of jobs, any finite set of workers, any
domains, any limits on the workers and any initial length of the array, under
`UnloadedAlone`:

* `JobsRunOnce`: `[]JobOnce`
* `UnloadWaitsForJobs`: `[]UnloadWaits`
* `WakeupKept`: `[]NoLostWakeup`
* `TypeCorrect`: `[]TypeOK`, which says that no counter goes below zero

`UnloadedAlone` says that a domain is unloaded only if all jobs of the pool are its
own, or none is.  So several domains may use the pool as long as those with jobs are
not unloaded, and a domain with jobs may be unloaded when it is the only one that
uses the pool.  It cannot be dropped: with jobs of a second domain TLC finds
`JobOnce` violated (see above), and since a job that `clear_queue` has doubled is
counted down twice, `UnloadWaits` and `TypeOK` fail too.

`Invariance` has, beside the types: `QueueOK`, unused slots of the array are empty and
no job is in two; `PlaceInv`, a job is with its client, the starter, one worker or in
the queue; `RanInv`, it was run only if it is none of these any more or its worker is
past `mono_async_invoke`, and a job that is nowhere was run or its domain is unloaded;
`UnloadInv`, past the abort phase nobody submits jobs of the domain but the starter,
past `clear_queue` none is queued, past the wait nobody has one counted.  The last
part rests on `CountInv`: *`threadpool_jobs` is at least the number of jobs queued,
jobs counted by a client or the starter, and jobs of workers that have not counted them
down*.  It is at least that and not equal to it, since a refused job stays counted.
`WakeInv` is the same for the semaphore: *the slots in use are at most the tokens, the
clients that are about to release one, and the workers that took one and are about to
look at the queue*.  A worker that dequeues without a token makes the slack larger.
The lemmas on `Appended`, `AfterDequeue` and `Cleared` (`AppendedFacts`,
`DequeuedFacts`, `ClearedFacts`) say what sliding, doubling, halving and clearing
the array do to the set of jobs in it.

`MonitorProofs` proves, for any finite set of threads, any objects, events and
records in any sequence of arrays, any limit of the semaphores and any program:

* `Assertions`: `[]AssertionsHold`
* `CountExact`: `[]EntryCounted`
* `WakeupsSuffice`: `[]NoStall`
* `WaitersKnown`: `[]WaitersListed`
* `TypeCorrect`: `[]TypeOK`

and `MonitorRefinement`, on the same invariant, `Refinement`: `Spec => KeepsContract`,
that is, `Monitor` implements `MonitorSpec`.  The only assumptions are those of
`MonitorAssumption`.  Threads are finitely many because `entry_count` is compared
with the number of blocked threads.

The invariant is `IInv`, proved by `Invariance`.  `RecordInv` ties records and objects
together: a lock word and the record's `data` point at each other, a record that no
object has is not owned and not counted, and a free one has no waiters; this is what
makes the recycling in `mon_new` safe.  `NestInv` and `OwnInv` say which thread may own
a record in the middle of a call, so that the owner's plain stores to `nest` and
`wait_list` race with nobody and the winner of a compare-and-swap finds `nest` at 1.
`CountInv` is EntryCounted.  NoStall is not inductive: a thread it relies on may lose
the compare-and-swap and go to sleep.  `StallInv` names those who help for sure: *if the
lock is free, a thread sleeps on it and the fast path did not free it, then the
semaphore is up, or some thread is about to raise it, has been woken by it, or will
look at the owner before it sleeps.*  One that looks and fails has seen a new owner,
and the exit of that owner starts the argument again.  `ListInv` and `WaiterInv` are the
lists: an event is in one place of one list and then is not signalled, and the event
of a thread is open, its own, and in the list of its object if and only if it was not
pulsed yet.

In the refinement, Allocate (when it takes the record for itself), EnterAgain, Swap and
SwapAgain of a call that is not Wait are the Enter of MonitorSpec; ExitNested, ExitLast
and FastFree its Exit; Pulse and PulseAll its Pulse of one or of all tickets; Wait its
Wait; Regained its Resume; an interrupted or failed Wait its Desert, and Collect its
Replace.  All the others stutter, among them the compare-and-swap by which a Wait gets
the lock back, since it is the holder only when its nest count is restored.

## Only model-checked, and not modelled

Liveness (LockReleased, FindReturns, SymbolFollows, SourceFollows, CallReturns,
FreeLockTaken) needs fairness
and stays with TLC.  The
order of the queue (`FifoQueue`) is about `SelectSeq`, a recursion over the sequence,
and stays with TLC too.  With other threads that free
delayed items, or with a domain that is freed, `NoFreedRead` and `AssertionsHold` of
`JitInfoTable` do not hold; without them they are proved.

Left out of the models: the emergency hazard slot for threads without a small id;
the tear-down of the tables at process exit; the AOT fallback of
`mono_jit_info_table_find`; generic sharing, AOT code, icall wrappers shared
between domains, `keep_delegates`; the payload of the events; the use callers
make of a MonoJitInfo after the lookup returned it; a domain whose methods are all
dynamic (JitInfoTable assumes one method that stays).  In JitCompile a
dynamic method is freed only when no thread compiles or runs it, as its finalizer
guarantees, and class initialization is one step.  In `ClassInit` all classes are of
one image and one domain, and exceptions are raised, not returned.  In `Monitor`
there is no moving collector, hence no hash code in the lock word, and no
Thread.Interrupt.  In `ThreadPool` the queue for sockets, which has the same code,
and the shutdown of the runtime are left out; a worker notices an abort when it is
done with its job, not in the middle of a wait; and the steps of an unload do not
time out, because the code calls them without a timeout.

Components that are not modelled are listed in `PROJECT.json` with the reason.
`src/` is a complete Mono runtime with its collectors, eglib, platform layer,
debugger and tools, more than 450 000 lines, most of them a compiler, readers of
metadata and emulation of Windows on other systems: sequential translations of data
in which a small state machine has nothing to say.  The modules cover the parts in
which threads meet, so the share of all lines they stand for is small and will
stay so.

## Plan

1. Done: HazardPointers with its proofs, JitInfoTable, JitCompile.
2. Done: ClassInit against OnceInit, Monitor against MonitorSpec, ThreadPool with
   the unload thread.
3. Proofs.  Done: HazardPointers, JitCompile, ClassInit with its refinement,
   ThreadPool, Monitor with its refinement, JitInfoTable: its structure, order,
   counts and ownership, what its lookups return and read, and its assertions.
4. `JitCodeHash`: the chains of `utils/mono-internal-hash.c`, which
   `mono_jit_free_method` changes under the domain lock and `lookup_method` reads
   under the hash lock.
5. `AssemblyRefs`: the reference counts of images and assemblies and
   `mono_assembly_close`.
6. `ThreadLife`: start, join, suspension and the thread table of `metadata/threads.c`.
7. Abstract specification of safe reclamation, implemented by HazardPointers
   (refinement checked, then proved).
