---------------------------- MODULE JitInfoTable ----------------------------
(***************************************************************************)
(* The JIT info table of one domain (metadata/domain.c): the sorted,       *)
(* chunked table that maps code addresses to MonoJitInfos.  Lookups run    *)
(* without a lock, one shared access per step, against a writer that holds *)
(* the domain lock and changes chunks in place, one store per step, or     *)
(* replaces the whole table.  Taking a pointer with get_hazardous_pointer  *)
(* and the scan of is_pointer_hazardous are single steps here: module      *)
(* HazardPointers models what they do in detail.                           *)
(***************************************************************************)
EXTENDS Integers, FiniteSets, Sequences

CONSTANTS
    Reader,         \* threads that look up addresses
    Region,         \* code ranges <<start, end>> methods may be compiled to
    Initial,        \* those that are compiled at the start
    Dynamic,        \* those of dynamic methods, which may be removed
    Address,        \* addresses that are looked up
    CHUNK_SIZE,     \* MONO_JIT_INFO_TABLE_CHUNK_SIZE
    Copies,         \* bound: MonoJitInfos and tombstones of one code range
    NumChunk,       \* bound: chunks allocated at a time
    NumTable,       \* bound: tables allocated at a time
    ForeignReclaim, \* do other domains and the unwinder free delayed items?
    Unload,         \* may the domain be freed?
    NULL

\* A MonoJitInfo is named by its code range, which never changes, and a number.
Obj == {<<x[1], x[2], k>> : x \in Region, k \in 1..Copies}
Start(o) == o[1]
End(o) == o[2]
Apart(x, y) == x[2] <= y[1] \/ y[2] <= x[1]
Chunk == 1..NumChunk
Table == 1..NumTable
Index == 0..(CHUNK_SIZE - 1)

\* What delayed_free_table holds.
Item == ({"table"} \X Table) \cup ({"ji"} \X Obj)

\* MonoJitInfoTableChunk; the elements beyond num_elements are unset or stale.
ChunkRecord == [refcount : Nat, num_elements : 0..CHUNK_SIZE, last_code_end : Nat,
                data : [Index -> Obj \cup {NULL}]]

ASSUME SizeAssumption ==
    /\ CHUNK_SIZE \in {4 * k : k \in 1..16}
    /\ Copies \in Nat \ {0} /\ NumChunk \in Nat \ {0} /\ NumTable \in Nat \ {0}
ASSUME RegionAssumption ==
    /\ \A x \in Region : x \in Nat \X Nat /\ x[1] < x[2]
    /\ Initial \subseteq Region /\ Dynamic \subseteq Region
    /\ \A x, y \in Initial : x = y \/ Apart(x, y)
    /\ IsFiniteSet(Initial) /\ Cardinality(Initial) <= CHUNK_SIZE
    /\ Initial \ Dynamic # {}
    /\ Address \subseteq Nat
ASSUME FlagAssumption == {ForeignReclaim, Unload} \subseteq BOOLEAN
ASSUME NullAssumption ==
    /\ NULL \notin Obj /\ NULL \notin Chunk /\ NULL \notin Table
    /\ NULL \notin ChunkRecord /\ NULL \notin Seq(Chunk)
    /\ NULL \notin {"ji", "tombstone"} /\ NULL \notin Item

VARIABLES
    obj,        \* MonoJitInfos: "ji", "tombstone", or NULL when freed
    chunk,      \* chunks: a ChunkRecord, or NULL when freed
    table,      \* tables: the sequence of their chunks, or NULL when freed
    num_tables, \* domain->num_jit_info_tables
    free_queue, \* domain->jit_info_free_queue
    cur,        \* domain->jit_info_table
    delayed,    \* delayed_free_table: <<"table", t>> and <<"ji", o>>
    writer,     \* the thread that holds the domain lock or frees the domain
    foreign,    \* what a caller outside this domain took out of delayed
    reader,     \* the lookups in progress
    expected,   \* ghost: the entry a lookup must find, as long as it stays
    allowed,    \* ghost: the entries a lookup may find
    failure     \* an assertion that failed, or a read of a freed MonoJitInfo

heap == <<obj, chunk, table, num_tables, free_queue>>
ghosts == <<expected, allowed, failure>>
vars == <<heap, cur, delayed, writer, foreign, reader, ghosts>>

IdleWriter == [pc |-> "idle", ji |-> NULL, chunk |-> NULL, pos |-> 0, i |-> 0,
               item |-> NULL, idx |-> 0]
IdleReader == [pc |-> "idle", addr |-> -1, table |-> NULL, chunk_pos |-> 0,
               left |-> 0, right |-> 0, pos |-> 0, ji |-> NULL, result |-> NULL]

\* A chunk that holds the MonoJitInfos of the sequence s.
ChunkOf(s, last_code_end) ==
    [refcount |-> 1, num_elements |-> Len(s), last_code_end |-> last_code_end,
     data |-> [j \in Index |-> IF j < Len(s) THEN s[j + 1] ELSE NULL]]

IsTombstone(o) == obj[o] = "tombstone"
EndOf(s) == End(s[Len(s)])
ElementsOf(c) == {chunk[c].data[j] : j \in 0..(chunk[c].num_elements - 1)}
ChunksOf(t) == {table[t][i] : i \in DOMAIN table[t]}

InitialObj == {<<x[1], x[2], 1>> : x \in Initial}
Ascending == {s \in [1..Cardinality(Initial) -> InitialObj] :
                /\ \A o \in InitialObj : \E i \in DOMAIN s : s[i] = o
                /\ \A i, j \in DOMAIN s : i < j => End(s[i]) < End(s[j])}

Init ==
    /\ obj = [o \in Obj |-> IF o \in InitialObj THEN "ji" ELSE NULL]
    /\ \E s \in Ascending :
         chunk = [c \in Chunk |-> IF c = 1 THEN ChunkOf(s, EndOf(s)) ELSE NULL]
    /\ table = [t \in Table |-> IF t = 1 THEN <<1>> ELSE NULL]
    /\ num_tables = 1
    /\ free_queue = {}
    /\ cur = 1
    /\ delayed = <<>>
    /\ writer = IdleWriter
    /\ foreign = NULL
    /\ reader = [r \in Reader |-> IdleReader]
    /\ expected = [r \in Reader |-> NULL]
    /\ allowed = [r \in Reader |-> {}]
    /\ failure = "none"
-----------------------------------------------------------------------------
(***************************************************************************)
(* Freeing.                                                                *)
(***************************************************************************)

\* Is the block in a hazard slot?  A lookup keeps its table in slot 0 and the
\* MonoJitInfo it looks at in slot 1.
Hazardous(item) ==
    \E r \in Reader : \/ item = <<"table", reader[r].table>>
                      \/ item = <<"ji", reader[r].ji>>

\* jit_info_table_free: flush the free queue when only one table is left,
\* then give up the chunks, and the tombstones in chunks nobody shares.
Flushed == IF num_tables - 1 <= 1 THEN free_queue ELSE {}
LastChunks(t) == {c \in ChunksOf(t) : chunk[c].refcount = 1}
\* Mutant: tombstones are left behind.
WalkedNever(t) == {}

Walked(t) == UNION {ElementsOf(c) : c \in LastChunks(t)}
\* It reads the method field of every MonoJitInfo in a chunk it frees.
jit_info_table_free(t) ==
    /\ num_tables' = num_tables - 1
    /\ free_queue' = free_queue \ Flushed
    /\ obj' = [o \in Obj |-> IF o \in Flushed \/ (o \in Walked(t) /\ IsTombstone(o))
                             THEN NULL ELSE obj[o]]
    /\ chunk' = [c \in Chunk |-> IF c \notin ChunksOf(t) THEN chunk[c]
                                 ELSE IF chunk[c].refcount = 1 THEN NULL
                                 ELSE [chunk[c] EXCEPT !.refcount = @ - 1]]
    /\ table' = [table EXCEPT ![t] = NULL]
    /\ failure' = IF \E o \in Walked(t) : obj[o] = NULL \/ o \in Flushed
                  THEN "freed ji read" ELSE failure

\* The free_func of a delayed item.
Free(item) ==
    IF item[1] = "table" THEN jit_info_table_free(item[2])
    ELSE /\ obj' = [obj EXCEPT ![item[2]] = NULL]
         /\ UNCHANGED <<chunk, table, num_tables, free_queue, failure>>

\* g_array_remove_index_fast on delayed_free_table, index from 0.
RemoveIndexFast(s, i) ==
    [k \in 1..(Len(s) - 1) |-> IF k = i + 1 THEN s[Len(s)] ELSE s[k]]

\* try_free_delayed_free_item
Freeable(i) == i < Len(delayed) /\ ~Hazardous(delayed[i + 1])
TryFree(i) ==
    IF Freeable(i) THEN /\ Free(delayed[i + 1])
                        /\ delayed' = RemoveIndexFast(delayed, i)
    ELSE UNCHANGED <<heap, delayed, failure>>
-----------------------------------------------------------------------------
(***************************************************************************)
(* Searching and rebuilding, as the writer does it under the domain lock.  *)
(***************************************************************************)

\* The binary search both index functions use: less[i] says addr < end of i.
Bisect(less, n) ==
    LET b[w \in (0..n) \X (0..n)] ==
          IF w[1] >= w[2] THEN w[1]
          ELSE LET m == (w[1] + w[2]) \div 2
               IN  IF less[m] THEN b[<<w[1], m>>] ELSE b[<<m + 1, w[2]>>]
    IN  b[<<0, n>>]

jit_info_table_index(addr) ==
    LET n == Len(table[cur])
        found == Bisect([i \in 0..(n - 1) |-> addr < chunk[table[cur][i + 1]].last_code_end], n)
    IN  IF found >= n THEN n - 1 ELSE found

jit_info_table_chunk_index(c, addr) ==
    LET n == chunk[c].num_elements
    IN  Bisect([i \in 0..(n - 1) |-> addr < End(chunk[c].data[i])], n)

\* The places of a table, <<chunk, element>>, and their order.
Places(t) == {p \in (DOMAIN table[t]) \X Index : p[2] < chunk[table[t][p[1]]].num_elements}
At(t, p) == chunk[table[t][p[1]]].data[p[2]]
Before(p, q) == p[1] < q[1] \/ (p[1] = q[1] /\ p[2] < q[2])
LivePlaces(t) == {p \in Places(t) : ~IsTombstone(At(t, p))}

\* The n-th of a set of places, from 0.
Rank(S, p) == Cardinality({q \in S : Before(q, p)})
Nth(S, n) == CHOOSE p \in S : Rank(S, p) = n

\* The MonoJitInfos at the places first, ..., first + n - 1 of S, in order.
Copied(S, first, n) == [j \in 1..n |-> At(cur, Nth(S, first + j - 1))]

FILLED_NUM_ELEMENTS == (CHUNK_SIZE * 3) \div 4
LOW_WATERMARK(n) == n \div 2
HIGH_WATERMARK(n) == (n * 5) \div 6

\* jit_info_table_num_elements, and whether the whole table is rebuilt.
num_elements == Cardinality(LivePlaces(cur))
Rebuild == LET capacity == Len(table[cur]) * CHUNK_SIZE
           IN  \/ num_elements < LOW_WATERMARK(capacity)
               \/ num_elements > HIGH_WATERMARK(capacity)
NumChunks(n) == ((n * 4) \div 3 + CHUNK_SIZE - 1) \div CHUNK_SIZE

\* The assertions on the way: every element has a chunk, and only the last
\* chunk, which is not empty, may be less than filled.
ReallocAsserts(n) ==
    LET new_chunk == n \div FILLED_NUM_ELEMENTS
        new_element == n % FILLED_NUM_ELEMENTS
    IN  /\ n <= NumChunks(n) * FILLED_NUM_ELEMENTS
        /\ new_chunk < NumChunks(n) => new_chunk = NumChunks(n) - 1 /\ new_element > 0

jit_info_table_realloc ==
    LET first(k) == (k - 1) * FILLED_NUM_ELEMENTS
        size(k) == IF k * FILLED_NUM_ELEMENTS <= num_elements THEN FILLED_NUM_ELEMENTS
                   ELSE num_elements - first(k)
        group(k) == Copied(LivePlaces(cur), first(k), size(k))
    IN  [k \in 1..NumChunks(num_elements) |-> ChunkOf(group(k), EndOf(group(k)))]

jit_info_table_split_chunk(c) ==
    LET half(first) == [j \in 1..(CHUNK_SIZE \div 2) |-> chunk[c].data[first + j - 1]]
        part(first) == ChunkOf(half(first), EndOf(half(first)))
    IN  <<part(0), part(CHUNK_SIZE \div 2)>>

\* The live places of the chunk at position i of the current table.
LiveIn(i) == {p \in LivePlaces(cur) : p[1] = i}
jit_info_table_purify_chunk(i) ==
    LET s == Copied(LiveIn(i), 0, Cardinality(LiveIn(i)))
    IN  <<ChunkOf(s, IF s = <<>> THEN chunk[table[cur][i]].last_code_end ELSE EndOf(s))>>

\* The new chunks by which the whole table, or its i-th chunk, is replaced.
jit_info_table_chunk_overflow(i) ==
    IF Rebuild THEN jit_info_table_realloc
    ELSE IF Cardinality(LiveIn(i)) = CHUNK_SIZE THEN jit_info_table_split_chunk(table[cur][i])
    ELSE jit_info_table_purify_chunk(i)

\* copy_and_split_chunk and copy_and_purify_chunk: share the other chunks.
CopyBut(i, new) ==
    [k \in 1..(Len(table[cur]) + Len(new) - 1) |->
       IF k < i THEN table[cur][k]
       ELSE IF k < i + Len(new) THEN new[k - i + 1]
       ELSE table[cur][k - Len(new) + 1]]

\* Blocks for n new chunks.
Allocations(n) ==
    {f \in [1..n -> {c \in Chunk : chunk[c] = NULL}] :
        \A k, m \in 1..n : f[k] = f[m] => k = m}
-----------------------------------------------------------------------------
(***************************************************************************)
(* The writer: mono_jit_info_table_add and mono_jit_info_table_remove,     *)
(* under the domain lock from start to end.                                *)
(***************************************************************************)
Running == failure = "none"
WriterAt(pc) == Running /\ writer.pc = pc
Covers(o, addr) == Start(o) <= addr /\ addr < End(o)

\* The live MonoJitInfos of the current table.
Live == IF cur = NULL THEN {} ELSE {At(cur, p) : p \in LivePlaces(cur)}

\* The blocks a MonoJitInfo with the code range of x can be allocated in.
FreeCopies(x) == {o \in Obj : o[1] = x[1] /\ o[2] = x[2] /\ obj[o] = NULL}

\* A method has been compiled to the code range x, which overlaps no live one
\* but may use the memory of removed ones: take the domain lock.
AddStart(x) ==
    /\ WriterAt("idle") /\ cur # NULL
    /\ \A o \in Live : Apart(x, o)
    /\ FreeCopies(x) # {}
    /\ LET o == CHOOSE y \in FreeCopies(x) : TRUE
       IN  /\ obj' = [obj EXCEPT ![o] = "ji"]
           /\ writer' = [writer EXCEPT !.pc = "search", !.ji = o]
           /\ allowed' = [r \in Reader |-> IF Covers(o, reader[r].addr) THEN allowed[r] \cup {o}
                                           ELSE allowed[r]]
    /\ UNCHANGED <<chunk, table, num_tables, free_queue, cur, delayed, foreign, reader,
                   expected, failure>>

\* The position of the chunk an element with the end address of o belongs to.
Target(o) == jit_info_table_index(End(o)) + 1

\* The new table consists of chunks, among them the new ones, which are parts.
Publish(new_table, parts, new, chunks) ==
    /\ table' = [table EXCEPT ![new_table] = chunks]
    /\ chunk' = [c \in Chunk |->
         IF \E k \in DOMAIN new : new[k] = c
         THEN parts[CHOOSE k \in DOMAIN new : new[k] = c]
         ELSE IF \E k \in DOMAIN chunks : chunks[k] = c
         THEN [chunk[c] EXCEPT !.refcount = @ + 1]
         ELSE chunk[c]]
    /\ cur' = new_table
    /\ num_tables' = num_tables + 1

\* The chunk is full: publish a new table and retire the old one.  A table
\* without chunks fails g_assert (left < right) in jit_info_table_index.
Overflow ==
    /\ WriterAt("search")
    /\ \E i \in {Target(writer.ji)} :
       /\ chunk[table[cur][i]].num_elements >= CHUNK_SIZE
       /\ \E t \in Table : table[t] = NULL
       /\ \E parts \in {jit_info_table_chunk_overflow(i)} :
          /\ Allocations(Len(parts)) # {}
          /\ \E new \in {CHOOSE f \in Allocations(Len(parts)) : TRUE} :
               Publish(CHOOSE t \in Table : table[t] = NULL, parts, new,
                       IF Rebuild THEN new ELSE CopyBut(i, new))
          /\ failure' = IF Rebuild /\ ~ReallocAsserts(num_elements)
                        THEN "jit_info_table_realloc"
                        ELSE IF parts = <<>> THEN "jit_info_table_index" ELSE failure
    /\ writer' = [writer EXCEPT !.pc = "try", !.item = <<"table", cur>>, !.idx = 2]
    /\ UNCHANGED <<obj, free_queue, delayed, foreign, reader, expected, allowed>>

\* Mutant: an index is tried until an item has been freed there.
TryItemSpin ==
    /\ WriterAt("try")
    /\ TryFree(writer.idx)
    /\ writer' = IF ~Freeable(writer.idx) THEN writer
                 ELSE IF writer.idx = 0 THEN [writer EXCEPT !.pc = "own"]
                 ELSE [writer EXCEPT !.idx = @ - 1]
    /\ UNCHANGED <<cur, foreign, reader, expected, allowed>>

\* mono_thread_hazardous_free_or_queue first tries three delayed items...
TryItem ==
    /\ WriterAt("try")
    /\ TryFree(writer.idx)
    /\ writer' = IF writer.idx = 0 THEN [writer EXCEPT !.pc = "own"]
                 ELSE [writer EXCEPT !.idx = @ - 1]
    /\ UNCHANGED <<cur, foreign, reader, expected, allowed>>

\* Mutant: the old table is freed without a look at the hazard slots.
OwnUnchecked ==
    /\ WriterAt("own")
    /\ Free(writer.item)
    /\ writer' = IF writer.item[1] = "table"
                 THEN [IdleWriter EXCEPT !.pc = "search", !.ji = writer.ji]
                 ELSE IdleWriter
    /\ UNCHANGED <<cur, delayed, foreign, reader, expected, allowed>>

\* ... and then frees its own item, or appends it.  Add goes on to search the
\* new table, remove is done.
Own ==
    /\ WriterAt("own")
    /\ IF Hazardous(writer.item)
       THEN delayed' = Append(delayed, writer.item) /\ UNCHANGED <<heap, failure>>
       ELSE Free(writer.item) /\ UNCHANGED delayed
    /\ writer' = IF writer.item[1] = "table"
                 THEN [IdleWriter EXCEPT !.pc = "search", !.ji = writer.ji]
                 ELSE IdleWriter
    /\ UNCHANGED <<cur, foreign, reader, expected, allowed>>

\* What the stores of add to a chunk leave alone.
UnchangedByStore == UNCHANGED <<obj, table, num_tables, free_queue, cur, delayed, foreign,
                                reader, ghosts>>

\* Mutant: a full chunk is grown.
GrowFull ==
    /\ WriterAt("search")
    /\ LET c == table[cur][Target(writer.ji)]
           n == chunk[c].num_elements
       IN  /\ chunk' = [chunk EXCEPT ![c].data[n] =
                          IF n > 0 THEN chunk[c].data[n - 1] ELSE writer.ji]
           /\ writer' = [writer EXCEPT !.pc = "count", !.chunk = c, !.i = n - 1,
                           !.pos = jit_info_table_chunk_index(c, End(writer.ji))]
    /\ UnchangedByStore

\* There is room: find the place and copy the last element one up, which the
\* next step makes visible; shift the others up one at a time, store ji, and
\* set last_code_end.
Grow ==
    /\ WriterAt("search")
    /\ LET c == table[cur][Target(writer.ji)]
           n == chunk[c].num_elements
       IN  /\ n < CHUNK_SIZE
           /\ chunk' = [chunk EXCEPT ![c].data[n] =
                          IF n > 0 THEN chunk[c].data[n - 1] ELSE writer.ji]
           /\ writer' = [writer EXCEPT !.pc = "count", !.chunk = c, !.i = n - 1,
                           !.pos = jit_info_table_chunk_index(c, End(writer.ji))]
    /\ UnchangedByStore

Count ==
    /\ WriterAt("count")
    /\ chunk' = [chunk EXCEPT ![writer.chunk].num_elements = @ + 1]
    /\ writer' = [writer EXCEPT !.pc = "shift"]
    /\ UnchangedByStore

Shift ==
    /\ WriterAt("shift") /\ writer.i >= writer.pos
    /\ chunk' = [chunk EXCEPT ![writer.chunk].data[writer.i + 1] =
                                 chunk[writer.chunk].data[writer.i]]
    /\ writer' = [writer EXCEPT !.i = @ - 1]
    /\ UnchangedByStore

Insert ==
    /\ WriterAt("shift") /\ writer.i < writer.pos
    /\ chunk' = [chunk EXCEPT ![writer.chunk].data[writer.pos] = writer.ji]
    /\ writer' = [writer EXCEPT !.pc = "seal"]
    /\ UnchangedByStore

Seal ==
    /\ WriterAt("seal")
    /\ chunk' = [chunk EXCEPT ![writer.chunk].last_code_end =
                    End(chunk[writer.chunk].data[chunk[writer.chunk].num_elements - 1])]
    /\ writer' = IdleWriter
    /\ UnchangedByStore

\* Mutant: the walk starts one entry too late.
WalkStartLate(addr) ==
    LET chunk_pos == jit_info_table_index(addr + 1) + 1
    IN  <<chunk_pos, jit_info_table_chunk_index(table[cur][chunk_pos], addr + 1)>>

\* mono_jit_info_table_remove walks from where addr belongs...
WalkStart(addr) ==
    LET chunk_pos == jit_info_table_index(addr) + 1
    IN  <<chunk_pos, jit_info_table_chunk_index(table[cur][chunk_pos], addr)>>

\* ... past tombstones only, to the place of o.
Reached(o) ==
    {p \in Places(cur) :
        /\ At(cur, p) = o
        /\ ~Before(p, WalkStart(Start(o)))
        /\ \A q \in Places(cur) :
             Before(q, p) /\ ~Before(q, WalkStart(Start(o))) =>
                 IsTombstone(At(cur, q)) /\ End(At(cur, q)) <= End(o)}

\* Store a tombstone of the same range over o.
RemoveStart(o) ==
    /\ WriterAt("idle") /\ o \in Live /\ <<Start(o), End(o)>> \in Dynamic
    /\ FreeCopies(o) # {}
    /\ IF Reached(o) = {}
       THEN /\ failure' = "mono_jit_info_table_remove"
            /\ UNCHANGED <<obj, chunk, writer, expected>>
       ELSE LET p == CHOOSE q \in Reached(o) : TRUE
                tombstone == CHOOSE y \in FreeCopies(o) : TRUE
            IN  /\ obj' = [obj EXCEPT ![tombstone] = "tombstone"]
                /\ chunk' = [chunk EXCEPT ![table[cur][p[1]]].data[p[2]] = tombstone]
                /\ writer' = [writer EXCEPT !.pc = "removed", !.ji = o]
                /\ expected' = [r \in Reader |-> IF expected[r] = o THEN NULL ELSE expected[r]]
                /\ UNCHANGED failure
    /\ UNCHANGED <<table, num_tables, free_queue, cur, delayed, foreign, reader, allowed>>

\* Mutant: the old tables that may still hold ji are forgotten.
FreeAtOnce ==
    /\ WriterAt("removed")
    /\ writer' = [writer EXCEPT !.pc = "try", !.item = <<"ji", writer.ji>>, !.idx = 2]
    /\ UNCHANGED <<heap, cur, delayed, foreign, reader, ghosts>>

\* mono_jit_info_free_or_queue: old tables may still hold ji, so it waits in
\* the queue until they are gone.
mono_jit_info_free_or_queue ==
    /\ WriterAt("removed")
    /\ IF num_tables <= 1
       THEN /\ writer' = [writer EXCEPT !.pc = "try", !.item = <<"ji", writer.ji>>, !.idx = 2]
            /\ UNCHANGED free_queue
       ELSE /\ free_queue' = free_queue \cup {writer.ji}
            /\ writer' = IdleWriter
    /\ UNCHANGED <<obj, chunk, table, num_tables, cur, delayed, foreign, reader, ghosts>>
-----------------------------------------------------------------------------
(***************************************************************************)
(* delayed_free_table is global: a thread that retires something else (a   *)
(* table of another domain, the unwinder's) tries its first three items,   *)
(* the unload of another domain all of them, and they call their free_func *)
(* after they have released the mutex.  One thread at a time does so here. *)
(***************************************************************************)
ForeignTake(i) ==
    /\ Running /\ ForeignReclaim /\ foreign = NULL
    /\ Freeable(i)
    /\ foreign' = delayed[i + 1]
    /\ delayed' = RemoveIndexFast(delayed, i)
    /\ UNCHANGED <<heap, cur, writer, reader, ghosts>>

\* jit_info_table_free takes the domain lock, g_free takes none.
ForeignFree ==
    /\ Running /\ foreign # NULL
    /\ foreign[1] = "table" => writer.pc \in {"idle", "free_all"}
    /\ Free(foreign)
    /\ foreign' = NULL
    /\ UNCHANGED <<cur, delayed, writer, reader, expected, allowed>>

\* The end of mono_domain_free: nobody uses the domain any more.  Try to free
\* every delayed item, the last one first...
mono_domain_free ==
    /\ WriterAt("idle") /\ Unload /\ cur # NULL
    /\ \A r \in Reader : reader[r].pc = "idle"
    /\ writer' = [writer EXCEPT !.pc = "free_all", !.idx = Len(delayed) - 1]
    /\ UNCHANGED <<heap, cur, delayed, foreign, reader, ghosts>>

mono_thread_hazardous_try_free_all ==
    /\ WriterAt("free_all") /\ writer.idx >= 0
    /\ TryFree(writer.idx)
    /\ writer' = [writer EXCEPT !.idx = @ - 1]
    /\ UNCHANGED <<cur, foreign, reader, expected, allowed>>

\* ... then the current table, which has to be the only one that is left.
FreeCurrent ==
    /\ WriterAt("free_all") /\ writer.idx < 0
    /\ IF num_tables # 1
       THEN failure' = "mono_domain_free" /\ UNCHANGED <<heap, cur>>
       ELSE jit_info_table_free(cur) /\ cur' = NULL
    /\ writer' = IdleWriter
    /\ UNCHANGED <<delayed, foreign, reader, expected, allowed>>
-----------------------------------------------------------------------------
(***************************************************************************)
(* mono_jit_info_table_find, one access to shared memory per step.         *)
(***************************************************************************)
ReaderAt(r, pc) == Running /\ reader[r].pc = pc
ChunkAt(r) == chunk[table[reader[r].table][reader[r].chunk_pos + 1]]
MoveReader(r, new) ==
    /\ reader' = [reader EXCEPT ![r] = new]
    /\ UNCHANGED <<heap, cur, delayed, writer, foreign>>

\* Is add under way?
Adding == \/ writer.pc \in {"search", "count", "shift", "seal"}
          \/ (writer.pc \in {"try", "own"} /\ writer.item[1] = "table")

\* Take the table.  What the lookup has to find is what a completed add has
\* put there; it may find any entry that is there before it returns.
FindStart(r, addr) ==
    LET hit == {o \in Live : Covers(o, addr)}
        added == hit \ (IF writer.pc = "idle" THEN {} ELSE {writer.ji})
    IN  /\ ReaderAt(r, "idle") /\ cur # NULL /\ writer.pc # "free_all"
        /\ MoveReader(r, [IdleReader EXCEPT !.pc = "index", !.addr = addr, !.table = cur,
                                            !.right = Len(table[cur])])
        /\ expected' = [expected EXCEPT ![r] = IF added = {} THEN NULL ELSE CHOOSE o \in added : TRUE]
        /\ allowed' = [allowed EXCEPT ![r] = hit \cup {o \in Obj : /\ Adding /\ o = writer.ji
                                                                  /\ Covers(o, addr)}]
        /\ UNCHANGED failure

\* jit_info_table_index
IndexStep(r) ==
    LET rd == reader[r]
        pos == (rd.left + rd.right) \div 2
        last_code_end == chunk[table[rd.table][pos + 1]].last_code_end
    IN  /\ ReaderAt(r, "index") /\ rd.left < rd.right
        /\ MoveReader(r, IF rd.addr < last_code_end THEN [rd EXCEPT !.right = pos]
                                                    ELSE [rd EXCEPT !.left = pos + 1])
        /\ UNCHANGED ghosts

\* The chunk is found (the last one when there is none): read its size.
ChunkStart(r) ==
    LET rd == reader[r]
        n == Len(table[rd.table])
        chunk_pos == IF rd.left >= n THEN n - 1 ELSE rd.left
    IN  /\ ReaderAt(r, "index") /\ rd.left >= rd.right
        /\ MoveReader(r, [rd EXCEPT !.pc = "bisect", !.chunk_pos = chunk_pos,
                                    !.left = 0, !.right = chunk[table[rd.table][chunk_pos + 1]].num_elements])
        /\ UNCHANGED ghosts

\* jit_info_table_chunk_index: take an element, then look at its end.
BisectLoad(r) ==
    LET rd == reader[r]
        pos == (rd.left + rd.right) \div 2
    IN  /\ ReaderAt(r, "bisect") /\ rd.left < rd.right
        /\ MoveReader(r, [rd EXCEPT !.pc = "compare", !.pos = pos, !.ji = ChunkAt(r).data[pos]])
        /\ UNCHANGED ghosts

\* Is the MonoJitInfo in slot 1 there to be read?
Readable(r) == reader[r].ji # NULL /\ obj[reader[r].ji] # NULL

BisectCompare(r) ==
    LET rd == reader[r]
    IN  /\ ReaderAt(r, "compare") /\ Readable(r)
        /\ MoveReader(r, IF rd.addr < End(rd.ji)
                         THEN [rd EXCEPT !.pc = "bisect", !.right = rd.pos]
                         ELSE [rd EXCEPT !.pc = "bisect", !.left = rd.pos + 1])
        /\ UNCHANGED ghosts

BisectEnd(r) ==
    /\ ReaderAt(r, "bisect") /\ reader[r].left >= reader[r].right
    /\ MoveReader(r, [reader[r] EXCEPT !.pc = "scan", !.pos = reader[r].left])
    /\ UNCHANGED ghosts

\* Mutant: ++pos is missing.
ScanLoadStuck(r) ==
    LET rd == reader[r]
    IN  /\ ReaderAt(r, "scan") /\ rd.pos < ChunkAt(r).num_elements
        /\ MoveReader(r, [rd EXCEPT !.pc = "match", !.ji = ChunkAt(r).data[rd.pos]])
        /\ UNCHANGED ghosts

\* Search upward, from chunk to chunk.
ScanLoad(r) ==
    LET rd == reader[r]
    IN  /\ ReaderAt(r, "scan") /\ rd.pos < ChunkAt(r).num_elements
        /\ MoveReader(r, [rd EXCEPT !.pc = "match", !.ji = ChunkAt(r).data[rd.pos],
                                    !.pos = rd.pos + 1])
        /\ UNCHANGED ghosts

NextChunk(r) ==
    LET rd == reader[r]
    IN  /\ ReaderAt(r, "scan") /\ rd.pos >= ChunkAt(r).num_elements
        /\ rd.chunk_pos + 1 < Len(table[rd.table])
        /\ MoveReader(r, [rd EXCEPT !.chunk_pos = @ + 1, !.pos = 0])
        /\ UNCHANGED ghosts

\* Clear both slots and return ji, or NULL.
Found(rd, ji) == [rd EXCEPT !.pc = "done", !.table = NULL, !.ji = NULL, !.result = ji]

ScanEnd(r) ==
    LET rd == reader[r]
    IN  /\ ReaderAt(r, "scan") /\ rd.pos >= ChunkAt(r).num_elements
        /\ rd.chunk_pos + 1 >= Len(table[rd.table])
        /\ MoveReader(r, Found(rd, NULL))
        /\ UNCHANGED ghosts

\* Mutant: a tombstone beyond the address ends the search as a live one does.
MatchTombstone(r) ==
    LET rd == reader[r]
    IN  /\ ReaderAt(r, "match") /\ Readable(r)
        /\ MoveReader(r, IF rd.addr < Start(rd.ji) THEN Found(rd, NULL)
                         ELSE IF ~IsTombstone(rd.ji) /\ Covers(rd.ji, rd.addr)
                         THEN Found(rd, rd.ji)
                         ELSE [rd EXCEPT !.pc = "scan"])
        /\ UNCHANGED ghosts

\* Mutant: the first live entry ends the search.
MatchBeyond(r) ==
    LET rd == reader[r]
    IN  /\ ReaderAt(r, "match") /\ Readable(r)
        /\ MoveReader(r, IF IsTombstone(rd.ji) THEN [rd EXCEPT !.pc = "scan", !.ji = NULL]
                         ELSE Found(rd, IF Covers(rd.ji, rd.addr) THEN rd.ji ELSE NULL))
        /\ UNCHANGED ghosts

Match(r) ==
    LET rd == reader[r]
    IN  /\ ReaderAt(r, "match") /\ Readable(r)
        /\ MoveReader(r, IF IsTombstone(rd.ji) THEN [rd EXCEPT !.pc = "scan", !.ji = NULL]
                         ELSE IF Covers(rd.ji, rd.addr) THEN Found(rd, rd.ji)
                         ELSE IF rd.addr < Start(rd.ji) THEN Found(rd, NULL)
                         ELSE [rd EXCEPT !.pc = "scan"])
        /\ UNCHANGED ghosts

FindReturn(r) ==
    /\ ReaderAt(r, "done")
    /\ MoveReader(r, IdleReader)
    /\ expected' = [expected EXCEPT ![r] = NULL]
    /\ allowed' = [allowed EXCEPT ![r] = {}]
    /\ UNCHANGED failure
-----------------------------------------------------------------------------
WriterStep == \/ Overflow \/ TryItem \/ Own \/ Grow \/ Count \/ Shift
              \/ Insert \/ Seal \/ mono_jit_info_free_or_queue
              \/ mono_thread_hazardous_try_free_all \/ FreeCurrent
FindStep(r) == \/ IndexStep(r) \/ ChunkStart(r) \/ BisectLoad(r) \/ BisectCompare(r)
               \/ BisectEnd(r) \/ ScanLoad(r) \/ NextChunk(r) \/ ScanEnd(r) \/ Match(r)
               \/ FindReturn(r)

Next == \/ \E x \in Region : AddStart(x)
        \/ \E o \in Obj : RemoveStart(o)
        \/ WriterStep
        \/ \E i \in 0..(Len(delayed) - 1) : ForeignTake(i)
        \/ ForeignFree
        \/ mono_domain_free
        \/ \E r \in Reader : FindStep(r) \/ \E addr \in Address : FindStart(r, addr)

Spec == Init /\ [][Next]_vars /\ WF_vars(WriterStep) /\ \A r \in Reader : WF_vars(FindStep(r))
-----------------------------------------------------------------------------
Tables == {t \in Table : table[t] # NULL}
Chunks == {c \in Chunk : chunk[c] # NULL}
Objs == {o \in Obj : obj[o] # NULL}
WriterRecord ==
    [pc : {"idle", "search", "try", "own", "count", "shift", "seal", "removed", "free_all"},
     ji : Obj \cup {NULL}, chunk : Chunk \cup {NULL}, pos : 0..CHUNK_SIZE, i : -1..CHUNK_SIZE,
     item : Item \cup {NULL}, idx : Int]
ReaderRecord ==
    [pc : {"idle", "index", "bisect", "compare", "scan", "match", "done"},
     addr : Address \cup {-1}, table : Table \cup {NULL}, chunk_pos : Nat,
     left : Nat, right : Nat, pos : 0..CHUNK_SIZE, ji : Obj \cup {NULL},
     result : Obj \cup {NULL}]

Failure == {"none", "freed ji read", "jit_info_table_index", "jit_info_table_realloc",
            "mono_jit_info_table_remove", "mono_domain_free"}

\* The type of the state: every block, index and slot has the shape the code
\* gives it, and num_elements never passes CHUNK_SIZE.
TypeOK ==
    /\ obj \in [Obj -> {NULL, "ji", "tombstone"}]
    /\ chunk \in [Chunk -> ChunkRecord \cup {NULL}]
    /\ table \in [Table -> Seq(Chunk) \cup {NULL}]
    /\ num_tables \in Nat /\ free_queue \in SUBSET Obj
    /\ cur \in Table \cup {NULL}
    /\ delayed \in Seq(Item) /\ foreign \in Item \cup {NULL}
    /\ writer \in WriterRecord
    /\ reader \in [Reader -> ReaderRecord]
    /\ expected \in [Reader -> Obj \cup {NULL}]
    /\ allowed \in [Reader -> SUBSET Obj]
    /\ failure \in Failure

\* A lookup never follows a pointer to a freed table, chunk or MonoJitInfo,
\* nor an unset element, whatever is added, removed and freed while it runs
\* (mono_jit_info_table_find, mono_jit_info_free_or_queue).
NoFreedRead ==
    \A r \in Reader :
        /\ reader[r].table # NULL =>
             /\ table[reader[r].table] # NULL
             /\ \A c \in ChunksOf(reader[r].table) : chunk[c] # NULL
        /\ reader[r].pc \in {"compare", "match"} => Readable(r)

\* No chunk of a table that is not freed yet, current or retired, points to a
\* MonoJitInfo that is freed: that is what jit_info_free_queue is for
\* (mono_jit_info_free_or_queue, jit_info_table_free).
NoDanglingElement ==
    \A c \in Chunks : \A o \in ElementsOf(c) : o \in Objs

\* A lookup finds the entry for its address if the entry was there before it
\* started and has not been removed, and finds nothing that was not there for
\* that address: the search upward makes up for elements that move while it
\* runs (mono_jit_info_table_find, the comment on mono_jit_info_table_add).
FindCorrect ==
    \A r \in Reader : reader[r].pc = "done" =>
        /\ expected[r] # NULL => reader[r].result = expected[r]
        /\ reader[r].result # NULL => reader[r].result \in allowed[r]

Waiting(item) == Cardinality({i \in DOMAIN delayed : delayed[i] = item})
                 + (IF foreign = item THEN 1 ELSE 0) + (IF writer.item = item THEN 1 ELSE 0)

\* refcount is the number of tables that hold the chunk, a chunk no table holds
\* has been freed, and num_jit_info_tables is the number of tables that are
\* not freed yet: the free queue and the chunks are released by these counts
\* alone (jit_info_table_free, jit_info_table_copy_and_split_chunk).  So a
\* MonoJitInfo waits in jit_info_free_queue only while some table other than
\* the current one is left, whose release will flush the queue.
CountsExact ==
    /\ \A c \in Chunk :
         LET holders == {t \in Tables : c \in ChunksOf(t)}
         IN  IF holders = {} THEN chunk[c] = NULL
             ELSE chunk[c] # NULL /\ chunk[c].refcount = Cardinality(holders)
    /\ num_tables = Cardinality(Tables)
    /\ free_queue # {} => num_tables > 1

\* A table that is not freed is the current one or waits to be freed; a
\* tombstone is in one chunk; a MonoJitInfo is in the table, on its way into or
\* out of it, queued or delayed.
BlocksOwned ==
    /\ \A t \in Table : Waiting(<<"table", t>>) + (IF cur = t THEN 1 ELSE 0)
                         = (IF t \in Tables THEN 1 ELSE 0)
    /\ \A o \in Obj :
         IF IsTombstone(o)
         THEN Cardinality({c \in Chunks : o \in ElementsOf(c)}) = 1
         ELSE Waiting(<<"ji", o>>)
              + (IF o \in Live \/ (writer.ji = o /\ (Adding \/ writer.pc = "removed")) THEN 1 ELSE 0)
              + (IF o \in free_queue THEN 1 ELSE 0)
              = (IF o \in Objs THEN 1 ELSE 0)

\* Every block has exactly one place from which it will be freed: no
\* MonoJitInfo, tombstone or table is leaked by add, remove and the rebuilding
\* of the table, and none is freed twice (mono_jit_info_free_or_queue,
\* jit_info_table_free, mono_thread_hazardous_free_or_queue); the counts by
\* which the code decides that are exact.
OneReclaimer ==
    /\ CountsExact
    /\ cur # NULL => BlocksOwned

\* What jit_info_table_check asserts holds at every moment, not only when the
\* domain lock is free: the elements are sorted by end address across chunks,
\* none is unset, and none ends after its chunk's last_code_end, except while
\* add has yet to set that.
Sorted ==
    cur # NULL =>
        /\ \A p \in Places(cur) : At(cur, p) \in Objs
        /\ \A p, q \in Places(cur) : Before(p, q) => End(At(cur, p)) <= End(At(cur, q))
        /\ \A c \in ChunksOf(cur) :
             writer.chunk # c => \A o \in ElementsOf(c) : End(o) <= chunk[c].last_code_end

\* No g_assert of domain.c fails, jit_info_table_free does not look at a
\* MonoJitInfo that it has flushed from the queue when it then goes through
\* the chunks of the last old table, and the table is always sorted, as
\* jit_info_table_check asserts.
AssertionsHold == failure = "none" /\ Sorted

\* mono_jit_info_table_add and remove give the domain lock back: the restart
\* after an overflow does not go on for ever.
LockReleased == []<>(writer.pc = "idle" \/ failure # "none")

\* A lookup that is under way returns, however often the table changes.
FindReturns == \A r \in Reader : reader[r].pc # "idle" ~> (reader[r].pc = "idle" \/ failure # "none")
=============================================================================
