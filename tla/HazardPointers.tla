--------------------------- MODULE HazardPointers ---------------------------
(***************************************************************************)
(* The hazard-pointer protocol of the runtime (metadata/threads.c), as its *)
(* two clients use it: the JIT info table (metadata/domain.c) and the      *)
(* unwind info cache (mini/unwind.c).                                      *)
(*                                                                         *)
(* Readers take a pointer from a shared cell without a lock.  They publish *)
(* it in their hazard slot, check that the cell still holds it, and use    *)
(* it.  A writer replaces the contents of a cell under the cell's lock and *)
(* hands the old block to mono_thread_hazardous_free_or_queue, which frees *)
(* it at once or queues it in delayed_free_table.  Every access to shared  *)
(* memory is one action, except that a failed check and the clear that     *)
(* follows it are one step, and the body of small_id_alloc is one step     *)
(* unless it has to copy the table.                                        *)
(*                                                                         *)
(* The builds differ in two ways the protocol depends on, and utils/       *)
(* mono-membar.h has all four cases: mono_memory_write_barrier may or may  *)
(* not order a store with a later load (StoreLoadFence), and so may        *)
(* mono_memory_barrier (FullBarrier).  AsyncSignals stands for the signal  *)
(* handlers that look up code, which only the POSIX builds have.           *)
(***************************************************************************)
EXTENDS Integers, Sequences

CONSTANTS
    Thread,          \* threads that attach to and detach from the runtime
    Main,            \* the first of them, attached before there is any table
    Active,          \* bound: the threads that take steps
    Ptr,             \* heap blocks; a freed block may be allocated again
    NULL,            \* the null pointer, also "no thread"
    Cell,            \* shared words that hold a protected pointer
    CellSlot,        \* the hazard index a cell is read with (0 or 1)
    MaxIds,          \* bound: largest small_id_table_size
    SlotsPerPage,    \* entries of hazard_table in a page
    MaxBuffered,     \* bound: stores waiting in a thread's store buffer
    StoreLoadFence,  \* is mono_memory_write_barrier a full fence?
    FullBarrier,     \* is mono_memory_barrier one?
    AsyncSignals     \* may a signal handler look up a table?

Slot == {0, 1}
Id == 0..(MaxIds - 1)

\* The word hazard_table [id].hazard_pointers [s].
Pos(id, s) == 2 * id + s
Positions == 0..(2 * MaxIds - 1)

ASSUME NullAssumption == NULL \notin Ptr /\ NULL \notin Thread
ASSUME ThreadAssumption == Main \in Thread
ASSUME CellAssumption == CellSlot \in [Cell -> Slot]
ASSUME BoundAssumption ==
    /\ MaxIds \in Nat \ {0, 1}
    /\ SlotsPerPage \in Nat \ {0}
    /\ MaxBuffered \in Nat
ASSUME FlagAssumption ==
    StoreLoadFence \in BOOLEAN /\ FullBarrier \in BOOLEAN /\ AsyncSignals \in BOOLEAN

VARIABLES
    cell,            \* contents of the shared cells
    late,            \* what other threads still read in a cell whose new
                     \* contents are in the writer's store buffer, else NULL
    heap,            \* "free", "linked" (in a cell) or "retired"
    small_id_table,  \* small_id_table [id], NULL when unused
    small_id_table_size,
    small_id_next,
    highest_small_id,
    hazard_table_size,
    hazard_table,    \* hazard_table[Pos(id, s)]
    small_id,        \* small_id of an attached thread, -1 otherwise
    growing,         \* the copy small_id_alloc is making, if any
    delayed_free_table,
    delayed_mutex,   \* the thread that holds delayed_free_table_mutex
    rpc, rp, rcell,  \* readers: where they are, pointer and cell, per slot
    saved,           \* the reader state a signal handler interrupted
    buffer,          \* stores to its slots that memory has not seen
    exposed,         \* history: the lookups that nothing protects
    wpc, wp,         \* writers: where they are, the block to free or queue
    wcell,           \* the cell whose lock the writer holds
    widx,            \* index into delayed_free_table that is being tried
    witem,           \* the delayed block that is being examined or freed
    scan,            \* next word is_pointer_hazardous reads
    scan_highest     \* its copy of highest_small_id

idVars   == <<small_id_table, small_id_table_size, small_id_next,
              highest_small_id, hazard_table_size, small_id, growing>>
readVars == <<rpc, rp, rcell, saved, buffer, exposed, hazard_table>>
writeVars == <<wpc, wp, wcell, widx, witem, scan, scan_highest>>
delayVars == <<delayed_free_table, delayed_mutex>>
heapVars  == <<cell, late, heap>>
vars == <<idVars, readVars, writeVars, delayVars, heapVars>>

Attached(t) == small_id[t] >= 0
NotGrowing == [thread |-> NULL, table |-> [i \in Id |-> NULL]]
ReaderIdle(t) == rpc[t] = [s \in Slot |-> "idle"]
InHandler(t) == saved[t] # <<>>

\* Main has been through small_id_alloc.
Init ==
    /\ heap \in [Ptr -> {"free", "linked"}]
    /\ cell \in [Cell -> Ptr]
    /\ late = [c \in Cell |-> NULL]
    /\ \A c, d \in Cell : cell[c] = cell[d] => c = d
    /\ \A p \in Ptr : heap[p] = "linked" <=> \E c \in Cell : cell[c] = p
    /\ small_id_table = [i \in Id |-> IF i = 0 THEN Main ELSE NULL]
    /\ small_id_table_size = 2
    /\ small_id_next = 1
    /\ highest_small_id = 0
    /\ hazard_table_size = SlotsPerPage
    /\ hazard_table = [k \in Positions |-> NULL]
    /\ small_id = [t \in Thread |-> IF t = Main THEN 0 ELSE -1]
    /\ growing = NotGrowing
    /\ delayed_free_table = <<>>
    /\ delayed_mutex = NULL
    /\ rpc = [t \in Thread |-> [s \in Slot |-> "idle"]]
    /\ rp = [t \in Thread |-> [s \in Slot |-> NULL]]
    /\ rcell = [t \in Thread |-> [s \in Slot |-> NULL]]
    /\ saved = [t \in Thread |-> <<>>]
    /\ buffer = [t \in Thread |-> <<>>]
    /\ exposed = [t \in Thread |-> {}]
    /\ wpc = [t \in Thread |-> "idle"]
    /\ wp = [t \in Thread |-> NULL]
    /\ wcell = [t \in Thread |-> NULL]
    /\ widx = [t \in Thread |-> -1]
    /\ witem = [t \in Thread |-> NULL]
    /\ scan = [t \in Thread |-> 0]
    /\ scan_highest = [t \in Thread |-> -1]
-----------------------------------------------------------------------------
(***************************************************************************)
(* Small ids.                                                              *)
(***************************************************************************)

\* The entry the two searching loops of small_id_alloc stop at.
FirstFree(id) ==
    LET unused(i) == i < small_id_table_size /\ small_id_table[i] = NULL
    IN  /\ id \in Id /\ unused(id)
        /\ IF \E i \in Id : i >= small_id_next /\ unused(i)
           THEN /\ id >= small_id_next
                /\ \A i \in Id : i >= small_id_next /\ unused(i) => id <= i
           ELSE \A i \in Id : unused(i) => id <= i

\* Mutant: small_id_next is never reset to 0.
EnterNoWrap(t, id, table, size) ==
    /\ small_id' = [small_id EXCEPT ![t] = id]
    /\ small_id_table' = [table EXCEPT ![id] = t]
    /\ small_id_table_size' = size
    /\ small_id_next' = small_id_next + 1
    /\ hazard_table_size' = IF id >= hazard_table_size
                            THEN hazard_table_size + SlotsPerPage ELSE hazard_table_size
    /\ highest_small_id' = IF id > highest_small_id THEN id ELSE highest_small_id
    /\ UNCHANGED hazard_table

\* The tail of small_id_alloc: enter the thread, map a page, raise highest.
Enter(t, id, table, size) ==
    /\ small_id' = [small_id EXCEPT ![t] = id]
    /\ small_id_table' = [table EXCEPT ![id] = t]
    /\ small_id_table_size' = size
    /\ small_id_next' = IF small_id_next + 1 > size THEN 0 ELSE small_id_next + 1
    /\ hazard_table_size' =
         IF id >= hazard_table_size
         THEN hazard_table_size + SlotsPerPage ELSE hazard_table_size
    /\ hazard_table' =
         IF id >= hazard_table_size
         THEN [hazard_table EXCEPT ![Pos(id, 0)] = NULL, ![Pos(id, 1)] = NULL]
         ELSE hazard_table
    /\ highest_small_id' = IF id > highest_small_id THEN id ELSE highest_small_id

\* small_id_alloc when the table has room; small_id_mutex is free.
SmallIdAlloc(t) ==
    /\ ~Attached(t) /\ growing.thread = NULL
    /\ \E id \in Id : FirstFree(id)
                      /\ Enter(t, id, small_id_table, small_id_table_size)
    /\ UNCHANGED <<growing, rpc, rp, rcell, saved, buffer, exposed>>
    /\ UNCHANGED <<writeVars, delayVars, heapVars>>

\* small_id_alloc when it has to grow: memcpy into the new table ...
SmallIdCopy(t) ==
    /\ ~Attached(t) /\ growing.thread = NULL
    /\ \A id \in Id : id < small_id_table_size => small_id_table[id] # NULL
    /\ 2 * small_id_table_size <= MaxIds
    /\ growing' = [thread |-> t, table |-> small_id_table]
    /\ UNCHANGED <<small_id_table, small_id_table_size, small_id_next,
                   highest_small_id, hazard_table_size, small_id>>
    /\ UNCHANGED <<readVars, writeVars, delayVars, heapVars>>

\* Mutant: the new table starts out empty, the old entries are not copied.
SmallIdGrowEmpty(t) ==
    /\ growing.thread = t
    /\ growing' = NotGrowing
    /\ Enter(t, small_id_table_size, NotGrowing.table, 2 * small_id_table_size)
    /\ UNCHANGED <<rpc, rp, rcell, saved, buffer, exposed>>
    /\ UNCHANGED <<writeVars, delayVars, heapVars>>

\* ... and make it the table.  What small_id_free wrote between is lost.
SmallIdGrow(t) ==
    /\ growing.thread = t
    /\ growing' = NotGrowing
    /\ Enter(t, small_id_table_size, growing.table, 2 * small_id_table_size)
    /\ UNCHANGED <<rpc, rp, rcell, saved, buffer, exposed>>
    /\ UNCHANGED <<writeVars, delayVars, heapVars>>

\* small_id_free, without small_id_mutex, at the end of thread_cleanup.
SmallIdFree(t) ==
    /\ Attached(t) /\ ReaderIdle(t) /\ wpc[t] = "idle" /\ ~InHandler(t)
    /\ buffer[t] = <<>>
    /\ small_id_table' = [small_id_table EXCEPT ![small_id[t]] = NULL]
    /\ small_id' = [small_id EXCEPT ![t] = -1]
    /\ UNCHANGED <<small_id_table_size, small_id_next, highest_small_id,
                   hazard_table_size, growing>>
    /\ UNCHANGED <<readVars, writeVars, delayVars, heapVars>>
-----------------------------------------------------------------------------
(***************************************************************************)
(* Readers: get_hazardous_pointer and its callers.                         *)
(***************************************************************************)

\* Store v in hazard slot s of thread t, through the store buffer when
\* mono_memory_write_barrier does not order the store with later loads.
StoreHazard(t, s, v) ==
    IF StoreLoadFence
    THEN /\ hazard_table' = [hazard_table EXCEPT ![Pos(small_id[t], s)] = v]
         /\ UNCHANGED buffer
    ELSE /\ Len(buffer[t]) < MaxBuffered
         /\ buffer' = [buffer EXCEPT ![t] = Append(@, <<s, v>>)]
         /\ UNCHANGED hazard_table

\* The oldest buffered store reaches memory.
Drain(t) ==
    /\ buffer[t] # <<>>
    /\ hazard_table' = [hazard_table EXCEPT
                          ![Pos(small_id[t], Head(buffer[t])[1])] = Head(buffer[t])[2]]
    /\ buffer' = [buffer EXCEPT ![t] = Tail(@)]
    /\ UNCHANGED <<idVars, rpc, rp, rcell, saved, exposed, writeVars, delayVars, heapVars>>

SetReader(t, s, pc, c, p) ==
    /\ rpc' = [rpc EXCEPT ![t][s] = pc]
    /\ rcell' = [rcell EXCEPT ![t][s] = c]
    /\ rp' = [rp EXCEPT ![t][s] = p]
    /\ exposed' = [exposed EXCEPT ![t] = @ \ {s}]

\* What a thread that does not write the cell reads in it.
Seen(c) == IF late[c] = NULL THEN cell[c] ELSE late[c]

\* p = *pp.  Slot 1 is only used while slot 0 protects the table; the scan
\* over a chunk goes to the next entry without clearing slot 1.
Load(t, c) ==
    LET s == CellSlot[c]
    IN  /\ Attached(t) /\ wpc[t] = "idle"
        /\ \/ s = 0 /\ ReaderIdle(t)
           \/ s = 1 /\ rpc[t][0] = "use" /\ rpc[t][1] \in {"idle", "use"}
        /\ SetReader(t, s, "loaded", c, Seen(c))
        /\ UNCHANGED <<saved, buffer, hazard_table>>
        /\ UNCHANGED <<idVars, writeVars, delayVars, heapVars>>

\* mono_hazard_pointer_set.
Set(t, s) ==
    /\ rpc[t][s] = "loaded"
    /\ rpc' = [rpc EXCEPT ![t][s] = "set"]
    /\ StoreHazard(t, s, rp[t][s])
    /\ UNCHANGED <<rp, rcell, saved, exposed>>
    /\ UNCHANGED <<idVars, writeVars, delayVars, heapVars>>

\* Memory has the pointer in the slot, and the slot is not about to change.
Guarded(t, s) ==
    /\ hazard_table[Pos(small_id[t], s)] = rp[t][s]
    /\ \A i \in DOMAIN buffer[t] : buffer[t][i][1] # s

\* The lookup has its pointer.  It is protected if its slot guards it and what
\* it has read is in the cell.
Use(t, s) ==
    /\ rpc' = [rpc EXCEPT ![t][s] = "use"]
    /\ exposed' = [exposed EXCEPT
                      ![t] = IF Guarded(t, s) /\ late[rcell[t][s]] = NULL
                             THEN @ \ {s} ELSE @ \cup {s}]
    /\ UNCHANGED <<rp, rcell, saved, buffer, hazard_table>>

\* *pp is still p: return it.
CheckSame(t, s) ==
    /\ rpc[t][s] = "set"
    /\ Seen(rcell[t][s]) = rp[t][s]
    /\ Use(t, s)
    /\ UNCHANGED <<idVars, writeVars, delayVars, heapVars>>

\* Mutant: a lookup whose pointer has changed gives up with the slot set.
CheckChangedKeep(t, s) ==
    /\ rpc[t][s] = "set"
    /\ Seen(rcell[t][s]) # rp[t][s]
    /\ SetReader(t, s, "idle", NULL, NULL)
    /\ UNCHANGED <<saved, buffer, hazard_table>>
    /\ UNCHANGED <<idVars, writeVars, delayVars, heapVars>>

\* *pp has changed: clear the slot and go round the loop again.
CheckChanged(t, s) ==
    /\ rpc[t][s] = "set"
    /\ Seen(rcell[t][s]) # rp[t][s]
    /\ SetReader(t, s, "retry", rcell[t][s], NULL)
    /\ StoreHazard(t, s, NULL)
    /\ UNCHANGED saved
    /\ UNCHANGED <<idVars, writeVars, delayVars, heapVars>>

\* The next iteration of the loop.
Reload(t, s) ==
    /\ rpc[t][s] = "retry"
    /\ SetReader(t, s, "loaded", rcell[t][s], Seen(rcell[t][s]))
    /\ UNCHANGED <<saved, buffer, hazard_table>>
    /\ UNCHANGED <<idVars, writeVars, delayVars, heapVars>>

\* mono_hazard_pointer_clear when the caller is done: slot 1 alone (a
\* tombstone was met), or slot 0 first and slot 1 after it.
Clear(t, s) ==
    /\ rpc[t][s] = "use"
    /\ s = 0 => rpc[t][1] \in {"idle", "use"}
    /\ SetReader(t, s, "idle", NULL, NULL)
    /\ StoreHazard(t, s, NULL)
    /\ UNCHANGED saved
    /\ UNCHANGED <<idVars, writeVars, delayVars, heapVars>>

\* A signal interrupts a lookup and its handler makes a lookup of its own
\* with the thread's hazard slots (mini-posix.c), which are clear when it
\* returns: nothing protects what the interrupted lookup uses.
SignalEnter(t) ==
    /\ AsyncSignals /\ ~InHandler(t) /\ ~ReaderIdle(t)
    /\ saved' = [saved EXCEPT ![t] = <<rpc[t], rp[t], rcell[t]>>]
    /\ rpc' = [rpc EXCEPT ![t] = [s \in Slot |-> "idle"]]
    /\ rp' = [rp EXCEPT ![t] = [s \in Slot |-> NULL]]
    /\ rcell' = [rcell EXCEPT ![t] = [s \in Slot |-> NULL]]
    /\ exposed' = [exposed EXCEPT ![t] = {}]
    /\ UNCHANGED <<buffer, hazard_table>>
    /\ UNCHANGED <<idVars, writeVars, delayVars, heapVars>>

SignalReturn(t) ==
    /\ InHandler(t) /\ ReaderIdle(t)
    /\ rpc' = [rpc EXCEPT ![t] = saved[t][1]]
    /\ rp' = [rp EXCEPT ![t] = saved[t][2]]
    /\ rcell' = [rcell EXCEPT ![t] = saved[t][3]]
    /\ saved' = [saved EXCEPT ![t] = <<>>]
    /\ exposed' = [exposed EXCEPT ![t] = {s \in Slot : saved[t][1][s] = "use"}]
    /\ UNCHANGED <<buffer, hazard_table>>
    /\ UNCHANGED <<idVars, writeVars, delayVars, heapVars>>
-----------------------------------------------------------------------------
(***************************************************************************)
(* Writers: mono_thread_hazardous_free_or_queue and what it calls.         *)
(***************************************************************************)

MayWrite(t) == Attached(t) /\ ReaderIdle(t) /\ wpc[t] = "idle"
               /\ ~InHandler(t) /\ buffer[t] = <<>>

\* A locked instruction (entering or leaving a critical section) waits until
\* the writer's store to its cell has left the store buffer.
Flushed(t) == \A c \in Cell : wcell[t] = c => late[c] = NULL

\* Under the lock of cell c (the domain lock or the unwind lock) put a new
\* block in the cell, mono_memory_barrier, and start to free the old one.
Replace(t, c) ==
    /\ MayWrite(t)
    /\ \A u \in Thread : wcell[u] # c
    /\ \E q \in Ptr :
         /\ heap[q] = "free"
         /\ cell' = [cell EXCEPT ![c] = q]
         /\ heap' = [heap EXCEPT ![q] = "linked", ![cell[c]] = "retired"]
    /\ late' = IF FullBarrier THEN late ELSE [late EXCEPT ![c] = cell[c]]
    /\ wp' = [wp EXCEPT ![t] = cell[c]]
    /\ wcell' = [wcell EXCEPT ![t] = c]
    /\ wpc' = [wpc EXCEPT ![t] = "try"]
    /\ widx' = [widx EXCEPT ![t] = 2]
    /\ UNCHANGED <<witem, scan, scan_highest>>
    /\ UNCHANGED <<idVars, readVars, delayVars>>

\* The store of Replace reaches memory.
DrainCell(t) ==
    /\ ~Flushed(t)
    /\ late' = [late EXCEPT ![wcell[t]] = NULL]
    /\ UNCHANGED <<cell, heap>>
    /\ UNCHANGED <<idVars, readVars, writeVars, delayVars>>

\* mono_thread_hazardous_try_free_all: the same loop over every item.
TryFreeAll(t) ==
    /\ MayWrite(t)
    /\ delayed_free_table # <<>>
    /\ wpc' = [wpc EXCEPT ![t] = "try"]
    /\ widx' = [widx EXCEPT ![t] = Len(delayed_free_table) - 1]
    /\ UNCHANGED <<wp, wcell, witem, scan, scan_highest>>
    /\ UNCHANGED <<idVars, readVars, delayVars, heapVars>>

\* Mutant: the scan stops one thread short.
StartScanOwnId(t) ==
    /\ scan' = [scan EXCEPT ![t] = 0]
    /\ scan_highest' = [scan_highest EXCEPT ![t] = highest_small_id - 1]

\* is_pointer_hazardous starts: highest = highest_small_id.
StartScan(t) ==
    /\ scan' = [scan EXCEPT ![t] = 0]
    /\ scan_highest' = [scan_highest EXCEPT ![t] = highest_small_id]

\* Its local variables are gone once it returns.
EndScan(t) ==
    /\ scan' = [scan EXCEPT ![t] = 0]
    /\ scan_highest' = [scan_highest EXCEPT ![t] = -1]

\* The end of try_free_delayed_free_item (i): --i, and after index 0 the
\* scan for the writer's own block, or the end of try_free_all.
NextIndex(t) ==
    /\ widx' = [widx EXCEPT ![t] = @ - 1]
    /\ witem' = [witem EXCEPT ![t] = NULL]
    /\ IF widx[t] > 0
       THEN wpc' = [wpc EXCEPT ![t] = "try"] /\ EndScan(t)
       ELSE IF wp[t] = NULL
       THEN wpc' = [wpc EXCEPT ![t] = "idle"] /\ EndScan(t)
       ELSE wpc' = [wpc EXCEPT ![t] = "scanOwn"] /\ StartScan(t)

\* The test of the length before the mutex is taken.
TryItem(t) ==
    /\ wpc[t] = "try"
    /\ IF Len(delayed_free_table) > widx[t]
       THEN /\ wpc' = [wpc EXCEPT ![t] = "lock"]
            /\ UNCHANGED <<widx, witem, scan, scan_highest>>
       ELSE NextIndex(t)
    /\ UNCHANGED <<wp, wcell>>
    /\ UNCHANGED <<idVars, readVars, delayVars, heapVars>>

\* EnterCriticalSection; another thread may have taken the item meanwhile.
LockItem(t) ==
    /\ wpc[t] = "lock" /\ delayed_mutex = NULL /\ Flushed(t)
    /\ IF Len(delayed_free_table) > widx[t]
       THEN /\ delayed_mutex' = t
            /\ witem' = [witem EXCEPT ![t] = delayed_free_table[widx[t] + 1]]
            /\ wpc' = [wpc EXCEPT ![t] = "scanItem"]
            /\ StartScan(t)
            /\ UNCHANGED widx
       ELSE NextIndex(t) /\ UNCHANGED delayed_mutex
    /\ UNCHANGED <<wp, wcell, delayed_free_table>>
    /\ UNCHANGED <<idVars, readVars, heapVars>>

Target(t) == IF wpc[t] = "scanItem" THEN witem[t] ELSE wp[t]
ScanDone(t) == scan[t] = 2 * (scan_highest[t] + 1)
ScanHit(t) == ~ScanDone(t) /\ hazard_table[scan[t]] = Target(t)

\* One word of hazard_table is read and is not the pointer.
ScanNext(t) ==
    /\ wpc[t] \in {"scanItem", "scanOwn"}
    /\ ~ScanDone(t) /\ ~ScanHit(t)
    /\ scan' = [scan EXCEPT ![t] = @ + 1]
    /\ UNCHANGED <<wpc, wp, wcell, widx, witem, scan_highest>>
    /\ UNCHANGED <<idVars, readVars, delayVars, heapVars>>

\* The delayed item is still hazardous: leave it where it is.
KeepItem(t) ==
    /\ wpc[t] = "scanItem" /\ ScanHit(t)
    /\ delayed_mutex' = NULL
    /\ NextIndex(t)
    /\ UNCHANGED <<wp, wcell, delayed_free_table>>
    /\ UNCHANGED <<idVars, readVars, heapVars>>

\* g_array_remove_index_fast: the last item takes the place of the i-th.
RemoveIndexFast(seq, i) ==
    SubSeq([seq EXCEPT ![i] = seq[Len(seq)]], 1, Len(seq) - 1)

\* Mutant: the item that is about to be freed stays in delayed_free_table.
TakeItemCopy(t) ==
    /\ wpc[t] = "scanItem" /\ ScanDone(t)
    /\ delayed_mutex' = NULL
    /\ wpc' = [wpc EXCEPT ![t] = "freeItem"]
    /\ EndScan(t)
    /\ UNCHANGED <<wp, wcell, widx, witem, delayed_free_table>>
    /\ UNCHANGED <<idVars, readVars, heapVars>>

\* The delayed item is not hazardous: take it out and leave the mutex.
TakeItem(t) ==
    /\ wpc[t] = "scanItem" /\ ScanDone(t)
    /\ delayed_free_table' = RemoveIndexFast(delayed_free_table, widx[t] + 1)
    /\ delayed_mutex' = NULL
    /\ wpc' = [wpc EXCEPT ![t] = "freeItem"]
    /\ EndScan(t)
    /\ UNCHANGED <<wp, wcell, widx, witem>>
    /\ UNCHANGED <<idVars, readVars, heapVars>>

\* item.free_func (item.p), outside the mutex.
FreeItem(t) ==
    /\ wpc[t] = "freeItem"
    /\ heap' = [heap EXCEPT ![witem[t]] = "free"]
    /\ NextIndex(t)
    /\ UNCHANGED <<wp, wcell, cell, late>>
    /\ UNCHANGED <<idVars, readVars, delayVars>>

\* The writer's own block is hazardous: it has to wait for the mutex.
OwnHazardous(t) ==
    /\ wpc[t] = "scanOwn" /\ ScanHit(t)
    /\ wpc' = [wpc EXCEPT ![t] = "append"]
    /\ EndScan(t)
    /\ UNCHANGED <<wp, wcell, widx, witem>>
    /\ UNCHANGED <<idVars, readVars, delayVars, heapVars>>

Finish(t) ==
    /\ wpc' = [wpc EXCEPT ![t] = "idle"]
    /\ wp' = [wp EXCEPT ![t] = NULL]
    /\ wcell' = [wcell EXCEPT ![t] = NULL]
    /\ EndScan(t)
    /\ UNCHANGED <<widx, witem>>

\* g_array_append_val under the mutex, and return.
AppendOwn(t) ==
    /\ wpc[t] = "append" /\ delayed_mutex = NULL /\ Flushed(t)
    /\ delayed_free_table' = Append(delayed_free_table, wp[t])
    /\ Finish(t)
    /\ UNCHANGED delayed_mutex
    /\ UNCHANGED <<idVars, readVars, heapVars>>

\* free_func (p): the scan met no hazard.  The lock of the cell is given back.
FreeOwn(t) ==
    /\ wpc[t] = "scanOwn" /\ ScanDone(t) /\ Flushed(t)
    /\ heap' = [heap EXCEPT ![wp[t]] = "free"]
    /\ Finish(t)
    /\ UNCHANGED <<cell, late>>
    /\ UNCHANGED <<idVars, readVars, delayVars>>
-----------------------------------------------------------------------------
IdStep(t) == SmallIdAlloc(t) \/ SmallIdCopy(t) \/ SmallIdGrow(t) \/ SmallIdFree(t)
ReadStep(t) ==
    \/ \E c \in Cell : Load(t, c)
    \/ \E s \in Slot : Set(t, s) \/ CheckSame(t, s) \/ CheckChanged(t, s)
                       \/ Reload(t, s) \/ Clear(t, s)
    \/ Drain(t) \/ SignalEnter(t) \/ SignalReturn(t)
WriteStep(t) ==
    \/ \E c \in Cell : Replace(t, c)
    \/ DrainCell(t) \/ TryFreeAll(t) \/ TryItem(t) \/ LockItem(t) \/ ScanNext(t) \/ KeepItem(t)
    \/ TakeItem(t) \/ FreeItem(t) \/ OwnHazardous(t) \/ AppendOwn(t) \/ FreeOwn(t)

Next == \E t \in Thread : t \in Active /\ (IdStep(t) \/ ReadStep(t) \/ WriteStep(t))
Spec == Init /\ [][Next]_vars
-----------------------------------------------------------------------------
(***************************************************************************)
(* Properties.                                                             *)
(***************************************************************************)

HeapType == /\ cell \in [Cell -> Ptr]
            /\ late \in [Cell -> Ptr \cup {NULL}]
            /\ heap \in [Ptr -> {"free", "linked", "retired"}]
IdType ==
    /\ small_id_table \in [Id -> Thread \cup {NULL}]
    /\ small_id_table_size \in 2..MaxIds
    /\ small_id_next \in 0..MaxIds
    /\ highest_small_id \in -1..(MaxIds - 1)
    /\ hazard_table_size \in Nat
    /\ small_id \in [Thread -> -1..(MaxIds - 1)]
    /\ growing \in [thread : Thread \cup {NULL}, table : [Id -> Thread \cup {NULL}]]
PcType == [Slot -> {"idle", "loaded", "set", "retry", "use"}]
PtrType == [Slot -> Ptr \cup {NULL}]
CellType == [Slot -> Cell \cup {NULL}]
ReadType ==
    /\ hazard_table \in [Positions -> Ptr \cup {NULL}]
    /\ rpc \in [Thread -> PcType]
    /\ rp \in [Thread -> PtrType]
    /\ rcell \in [Thread -> CellType]
    /\ saved \in [Thread -> {<<>>} \cup (PcType \X PtrType \X CellType)]
    /\ buffer \in [Thread -> Seq(Slot \X (Ptr \cup {NULL}))]
    /\ exposed \in [Thread -> SUBSET Slot]
DelayType == delayed_free_table \in Seq(Ptr) /\ delayed_mutex \in Thread \cup {NULL}
WriteType ==
    /\ wpc \in [Thread -> {"idle", "try", "lock", "scanItem", "freeItem",
                           "scanOwn", "append"}]
    /\ wp \in [Thread -> Ptr \cup {NULL}]
    /\ wcell \in [Thread -> Cell \cup {NULL}]
    /\ widx \in [Thread -> Int]
    /\ witem \in [Thread -> Ptr \cup {NULL}]
    /\ scan \in [Thread -> 0..(2 * MaxIds)]
    /\ scan_highest \in [Thread -> -1..(MaxIds - 1)]

\* Every variable has the type of the C variable it stands for.
TypeOK == HeapType /\ IdType /\ ReadType /\ DelayType /\ WriteType

Protected(t, s) == rpc[t][s] = "use" /\ s \notin exposed[t]

\* A block is not freed while a lookup uses it that read the cell's own contents
\* in its second read, with the hazard slot already in memory, and that no signal
\* handler interrupted since: what the scans of mono_thread_hazardous_free_or_queue
\* guarantee in every build.
ProtectedNotFreed ==
    \A t \in Thread, s \in Slot : Protected(t, s) => heap[rp[t][s]] # "free"

\* What domain.c:386-393 promises to every lookup that passed the check of
\* get_hazardous_pointer, interrupted ones included: it does not have to worry
\* about the writer freeing the block.
NoUseAfterFree ==
    \A t \in Thread, s \in Slot :
        /\ rpc[t][s] = "use" => heap[rp[t][s]] # "free"
        /\ InHandler(t) /\ saved[t][1][s] = "use" => heap[saved[t][2][s]] # "free"

\* A retired block has one owner that will free it, and only one: the writer
\* that unlinked it, delayed_free_table, or the thread that took it out.
Claims(p) ==
    {<<"own", t>> : t \in {u \in Thread : wp[u] = p}}
    \cup {<<"item", t>> : t \in {u \in Thread : wpc[u] = "freeItem" /\ witem[u] = p}}
    \cup {<<"delayed", i>> : i \in {j \in DOMAIN delayed_free_table :
                                       delayed_free_table[j] = p}}
OneOwner ==
    \A p \in Ptr :
        /\ heap[p] = "retired" => Claims(p) # {}
        /\ heap[p] # "retired" => Claims(p) = {}
        /\ \A x, y \in Claims(p) : x = y

\* Threads that are attached have hazard slots of their own, inside the mapped
\* part of hazard_table and inside the part is_pointer_hazardous scans.
OwnSlots ==
    /\ highest_small_id < hazard_table_size
    /\ \A t \in Thread : Attached(t) =>
          /\ small_id[t] <= highest_small_id
          /\ \A u \in Thread \ {t} : small_id[u] # small_id[t]

\* Hazard slots of ids that nobody uses are clear, so that a thread that went
\* away cannot keep a block in delayed_free_table for ever.
NoStaleHazard ==
    \A id \in Id : (\A t \in Thread : small_id[t] # id) =>
        \A s \in Slot : hazard_table[Pos(id, s)] = NULL
=============================================================================
