------------------------ MODULE HazardPointersProofs ------------------------
(***************************************************************************)
(* Proofs about HazardPointers for every number of threads, blocks, cells  *)
(* and ids, and for every build: whatever the two barriers order and       *)
(* whether or not signal handlers look up code.                            *)
(***************************************************************************)
EXTENDS HazardPointers, TLAPS

\* Attached threads are entered in the table, and in the copy of it when it
\* grows.  Ids are handed out without a gap above highest_small_id.
IdInv ==
    /\ highest_small_id < small_id_table_size
    /\ highest_small_id < hazard_table_size
    /\ small_id_next <= highest_small_id + 1
    /\ \A t \in Thread : Attached(t) =>
          /\ small_id[t] <= highest_small_id
          /\ small_id_table[small_id[t]] = t
    /\ \A id \in Id : id > highest_small_id => small_id_table[id] = NULL
    /\ growing.thread # NULL =>
          /\ ~Attached(growing.thread)
          /\ highest_small_id = small_id_table_size - 1
          /\ 2 * small_id_table_size <= MaxIds
          /\ \A t \in Thread : Attached(t) => growing.table[small_id[t]] = t
          /\ \A id \in Id : id > highest_small_id => growing.table[id] = NULL

\* Blocks in cells are linked, and in one cell only.
HeapInv ==
    /\ \A c \in Cell : heap[cell[c]] = "linked"
    /\ \A c, d \in Cell : cell[c] = cell[d] => c = d

\* The block a writer unlinked.
OwnInv ==
    \A t \in Thread :
        /\ wpc[t] = "idle" => wp[t] = NULL
        /\ wpc[t] \in {"scanOwn", "append"} => wp[t] # NULL
        /\ wpc[t] # "idle" /\ wpc[t] \notin {"scanOwn", "append"} => widx[t] >= 0
        /\ wp[t] # NULL => heap[wp[t]] = "retired"
        /\ \A u \in Thread : wp[t] # NULL /\ wp[t] = wp[u] => t = u

\* The blocks in delayed_free_table.
DelayedInv ==
    /\ \A i \in DOMAIN delayed_free_table :
          /\ heap[delayed_free_table[i]] = "retired"
          /\ \A t \in Thread : wp[t] # delayed_free_table[i]
          /\ \A j \in DOMAIN delayed_free_table :
                delayed_free_table[i] = delayed_free_table[j] => i = j
    /\ \A t \in Thread : wpc[t] = "scanItem" =>
          /\ delayed_mutex = t
          /\ widx[t] + 1 \in DOMAIN delayed_free_table
          /\ witem[t] = delayed_free_table[widx[t] + 1]

\* The block a thread took out of delayed_free_table and is about to free.
ItemInv ==
    \A t \in Thread : wpc[t] = "freeItem" =>
        /\ witem[t] # NULL
        /\ heap[witem[t]] = "retired"
        /\ \A u \in Thread : wp[u] # witem[t]
        /\ \A i \in DOMAIN delayed_free_table : delayed_free_table[i] # witem[t]
        /\ \A u \in Thread : wpc[u] = "freeItem" /\ witem[u] = witem[t] => t = u

\* No retired block is forgotten.
ClaimInv ==
    \A p \in Ptr : heap[p] = "retired" =>
        \/ \E t \in Thread : wp[t] = p
        \/ \E t \in Thread : wpc[t] = "freeItem" /\ witem[t] = p
        \/ \E i \in DOMAIN delayed_free_table : delayed_free_table[i] = p

\* What a lookup, or one that a signal has interrupted, has loaded.
Loaded(pc, p, c) == /\ pc # "idle" => c \in Cell
                    /\ pc \in {"loaded", "set", "use"} => p \in Ptr

\* Buffers and lookups belong to attached threads.
LookupInv ==
    \A t \in Thread :
        /\ buffer[t] # <<>> => Attached(t) /\ ~StoreLoadFence
        /\ InHandler(t) => Attached(t)
        /\ \A s \in Slot : rpc[t][s] # "idle" => Attached(t)
        /\ \A s \in Slot : Loaded(rpc[t][s], rp[t][s], rcell[t][s])
        /\ InHandler(t) => \A s \in Slot :
              Loaded(saved[t][1][s], saved[t][2][s], saved[t][3][s])

\* The last store of the thread to its slot, in the buffer or in memory, is NULL.
NoEntryAfter(b, i, s) == \A j \in DOMAIN b : j > i => b[j][1] # s
LastNull(t, s) ==
    \/ \E i \in DOMAIN buffer[t] : buffer[t][i] = <<s, NULL>> /\ NoEntryAfter(buffer[t], i, s)
    \/ NoEntryAfter(buffer[t], 0, s) /\ hazard_table[Pos(small_id[t], s)] = NULL

\* No lookup, and no interrupted one, has anything in the slot.
Between(pc) == pc \in {"idle", "retry"}
Vacant(t, s) == /\ Attached(t) /\ Between(rpc[t][s])
                /\ InHandler(t) => Between(saved[t][1][s])

\* What a reader has published.
ReadInv ==
    \A t \in Thread, s \in Slot :
        /\ Protected(t, s) => Guarded(t, s)
        /\ Vacant(t, s) => LastNull(t, s)

\* A protected reader that uses a block is still ahead of every scan for that block.
ScanInv ==
    \A w \in Thread :
        /\ scan[w] <= 2 * (scan_highest[w] + 1)
        /\ scan_highest[w] <= highest_small_id
        /\ wpc[w] \in {"scanItem", "scanOwn"} =>
              \A t \in Thread, s \in Slot :
                  Protected(t, s) /\ rp[t][s] = Target(w) =>
                      /\ Pos(small_id[t], s) >= scan[w]
                      /\ small_id[t] <= scan_highest[w]
        /\ wpc[w] = "freeItem" =>
              \A t \in Thread, s \in Slot :
                  Protected(t, s) => rp[t][s] # witem[w]

IInv == /\ TypeOK /\ IdInv /\ HeapInv /\ OwnInv /\ DelayedInv
        /\ ItemInv /\ ClaimInv /\ LookupInv /\ ReadInv /\ ScanInv
        /\ ProtectedNotFreed /\ NoStaleHazard
-----------------------------------------------------------------------------
(***************************************************************************)
(* Lemmas about the helpers.                                               *)
(***************************************************************************)

\* What g_array_remove_index_fast leaves: one element less, the last one in
\* the place of the removed one, the others where they were.
LEMMA RemoveIndexFastFacts ==
    ASSUME NEW S, NEW seq \in Seq(S), NEW i \in DOMAIN seq
    PROVE  LET r == RemoveIndexFast(seq, i)
           IN  /\ r \in Seq(S)
               /\ DOMAIN r = 1..(Len(seq) - 1)
               /\ \A j \in DOMAIN r : r[j] = IF j = i THEN seq[Len(seq)] ELSE seq[j]
<1> DEFINE e == [seq EXCEPT ![i] = seq[Len(seq)]]
<1>0. Len(seq) \in Nat /\ DOMAIN seq = 1..Len(seq) /\ Len(seq) \in DOMAIN seq
  OBVIOUS
<1>1. e \in Seq(S) /\ Len(e) = Len(seq) /\ \A j \in 1..Len(seq) : e[j] = IF j = i THEN seq[Len(seq)] ELSE seq[j]
  BY <1>0
<1>2. /\ SubSeq(e, 1, Len(seq) - 1) \in Seq(S)
      /\ Len(SubSeq(e, 1, Len(seq) - 1)) = Len(seq) - 1
      /\ \A j \in 1..(Len(seq) - 1) : SubSeq(e, 1, Len(seq) - 1)[j] = e[j]
  BY <1>0, <1>1
<1> QED BY <1>0, <1>1, <1>2 DEF RemoveIndexFast

\* The id small_id_alloc finds is unused and leaves no gap above
\* highest_small_id, so the page it maps contains the id's hazard slots.
LEMMA FirstFreeFacts ==
    ASSUME IInv, NEW id \in Id, FirstFree(id)
    PROVE  /\ id < small_id_table_size /\ small_id_table[id] = NULL
           /\ id <= highest_small_id + 1
           /\ id >= small_id_next \/ highest_small_id = small_id_table_size - 1
<1>0. IdType /\ IdInv
  BY DEF IInv, TypeOK
<1>1. id < small_id_table_size /\ small_id_table[id] = NULL
  BY DEF FirstFree
<1>2. CASE highest_small_id + 1 < small_id_table_size
  <2>1. /\ highest_small_id + 1 \in Id
        /\ highest_small_id + 1 >= small_id_next
        /\ small_id_table[highest_small_id + 1] = NULL
    BY <1>0, <1>2, BoundAssumption DEF IdType, IdInv, Id
  <2> QED BY <1>0, <1>1, <1>2, <2>1 DEF FirstFree, IdType, Id
<1>3. CASE highest_small_id + 1 = small_id_table_size
  BY <1>0, <1>1, <1>3 DEF IdType, Id
<1> QED BY <1>0, <1>1, <1>2, <1>3 DEF IdType, IdInv

\* Attaching a thread gives it an id that no other thread has.  The hazard
\* slots of that id are clear and are left alone.
LEMMA AttachFacts ==
    ASSUME IInv, NEW t \in Thread, SmallIdAlloc(t) \/ SmallIdGrow(t)
    PROVE  \E id \in Id :
              /\ ~Attached(t)
              /\ \A u \in Thread : small_id[u] # id
              /\ id <= highest_small_id + 1
              /\ small_id' = [small_id EXCEPT ![t] = id]
              /\ highest_small_id' = IF id > highest_small_id THEN id ELSE highest_small_id
              /\ hazard_table' = hazard_table
              /\ UNCHANGED <<rpc, rp, rcell, saved, buffer, exposed, writeVars, delayVars, heapVars>>
<1>0. IdType /\ IdInv /\ ReadType /\ NoStaleHazard
  BY DEF IInv, TypeOK
<1>h. ASSUME NEW id \in Id, \A u \in Thread : small_id[u] # id
      PROVE  [hazard_table EXCEPT ![Pos(id, 0)] = NULL, ![Pos(id, 1)] = NULL] = hazard_table
  <2>1. hazard_table[Pos(id, 0)] = NULL /\ hazard_table[Pos(id, 1)] = NULL
    BY <1>0, <1>h DEF NoStaleHazard, Slot
  <2> QED BY <1>0, <2>1 DEF ReadType
<1>1. CASE SmallIdAlloc(t)
  <2>1. PICK id \in Id : FirstFree(id) /\ Enter(t, id, small_id_table, small_id_table_size)
    BY <1>1 DEF SmallIdAlloc
  <2>2. small_id_table[id] = NULL /\ id <= highest_small_id + 1
    BY <2>1, FirstFreeFacts
  <2>3. \A u \in Thread : small_id[u] # id
    BY <1>0, <2>2, NullAssumption DEF IdInv, IdType, Id, Attached
  <2>4. hazard_table' = hazard_table
    BY <1>h, <2>1, <2>3 DEF Enter
  <2> QED BY <1>1, <2>1, <2>2, <2>3, <2>4 DEF SmallIdAlloc, Enter
<1>2. CASE SmallIdGrow(t)
  <2> DEFINE id == small_id_table_size
  <2>0. growing.thread = t /\ t # NULL
    BY <1>2, NullAssumption DEF SmallIdGrow
  <2>1. id \in Id /\ id = highest_small_id + 1 /\ ~Attached(t)
    BY <1>0, <2>0, BoundAssumption DEF IdInv, IdType, Id
  <2>2. Enter(t, id, growing.table, 2 * small_id_table_size)
    BY <1>2 DEF SmallIdGrow
  <2>3. \A u \in Thread : small_id[u] # id
    BY <1>0, <2>1 DEF IdInv, IdType, Id, Attached
  <2>4. hazard_table' = hazard_table
    BY <1>h, <2>1, <2>2, <2>3 DEF Enter
  <2>5. id <= highest_small_id + 1
    BY <1>0, <2>1 DEF IdType
  <2> HIDE DEF id
  <2>6. /\ small_id' = [small_id EXCEPT ![t] = id]
        /\ highest_small_id' = IF id > highest_small_id THEN id ELSE highest_small_id
    BY <2>2 DEF Enter
  <2> QED BY <1>2, <2>1, <2>3, <2>4, <2>5, <2>6 DEF SmallIdGrow
<1> QED BY <1>1, <1>2
-----------------------------------------------------------------------------
(***************************************************************************)
(* Types.                                                                  *)
(***************************************************************************)

\* No step takes the id variables out of their types.
LEMMA IdTypeStep == IInv /\ Next => IdType'
<1> SUFFICES ASSUME IInv, NEW t \in Thread,
                    IdStep(t) \/ ReadStep(t) \/ WriteStep(t)
             PROVE  IdType'
  BY DEF Next
<1>0. IdType /\ IdInv
  BY DEF IInv, TypeOK
<1>1. CASE UNCHANGED idVars
  BY <1>0, <1>1 DEF idVars, IdType
<1>2. CASE ReadStep(t) \/ WriteStep(t)
  BY <1>1, <1>2 DEF ReadStep, Load, Set, CheckSame, CheckChanged, Reload, Clear, Drain,
     SignalEnter, SignalReturn, WriteStep, Replace, DrainCell, TryFreeAll, TryItem, LockItem,
     ScanNext, KeepItem, TakeItem, FreeItem, OwnHazardous, AppendOwn, FreeOwn
<1>3. CASE SmallIdAlloc(t)
  <2>1. PICK id \in Id : FirstFree(id) /\ Enter(t, id, small_id_table, small_id_table_size)
    BY <1>3 DEF SmallIdAlloc
  <2> QED BY <1>0, <1>3, <2>1, BoundAssumption DEF SmallIdAlloc, Enter, IdType, Id
<1>4. CASE SmallIdCopy(t)
  BY <1>0, <1>4 DEF SmallIdCopy, IdType
<1>5. CASE SmallIdGrow(t)
  <2>1. growing.thread # NULL
    BY <1>5, NullAssumption DEF SmallIdGrow
  <2>2. small_id_table_size \in Id
    BY <1>0, <2>1, BoundAssumption DEF IdType, IdInv, Id
  <2> QED BY <1>0, <1>5, <2>1, <2>2, BoundAssumption
          DEF SmallIdGrow, Enter, IdType, IdInv, Id, NotGrowing
<1>6. CASE SmallIdFree(t)
  <2>1. small_id_table' \in [Id -> Thread \cup {NULL}]
    BY <1>0, <1>6 DEF SmallIdFree, IdType
  <2>2. -1 \in -1..(MaxIds - 1)
    BY BoundAssumption
  <2>3. small_id' \in [Thread -> -1..(MaxIds - 1)]
    BY <1>0, <1>6, <2>2 DEF SmallIdFree, IdType
  <2> QED BY <1>0, <1>6, <2>1, <2>3 DEF SmallIdFree, IdType
<1> QED BY <1>2, <1>3, <1>4, <1>5, <1>6 DEF IdStep

\* No step takes the readers' variables out of their types.
LEMMA ReadTypeStep == IInv /\ Next => ReadType'
<1> SUFFICES ASSUME IInv, NEW t \in Thread,
                    IdStep(t) \/ ReadStep(t) \/ WriteStep(t)
             PROVE  ReadType'
  BY DEF Next
<1>0. ReadType /\ HeapType /\ IdType /\ LookupInv
  BY DEF IInv, TypeOK
<1> DEFINE Pcs == rpc \in [Thread -> PcType] /\ exposed \in [Thread -> SUBSET Slot]
           Pointers == rp \in [Thread -> PtrType] /\ rcell \in [Thread -> CellType]
           Saves == saved \in [Thread -> {<<>>} \cup (PcType \X PtrType \X CellType)]
           Stores == /\ buffer \in [Thread -> Seq(Slot \X (Ptr \cup {NULL}))]
                     /\ hazard_table \in [Positions -> Ptr \cup {NULL}]
<1>a. Pcs /\ Pointers /\ Saves /\ Stores
  BY <1>0 DEF ReadType
<1>b. Pcs' /\ Pointers' /\ Saves' /\ Stores' => ReadType'
  BY DEF ReadType
<1>u. /\ UNCHANGED <<buffer, hazard_table>> => Stores'
      /\ UNCHANGED saved => Saves'
      /\ UNCHANGED <<rp, rcell>> => Pointers'
  BY <1>a
<1>s. ASSUME NEW s \in Slot, NEW v \in Ptr \cup {NULL}, StoreHazard(t, s, v) PROVE Stores'
  <2>1. CASE StoreLoadFence
    BY <1>a, <1>s, <2>1 DEF StoreHazard
  <2>2. CASE ~StoreLoadFence
    <3>1. buffer' = [buffer EXCEPT ![t] = Append(@, <<s, v>>)] /\ UNCHANGED hazard_table
      BY <1>s, <2>2 DEF StoreHazard
    <3>2. Append(buffer[t], <<s, v>>) \in Seq(Slot \X (Ptr \cup {NULL}))
      BY <1>a
    <3> QED BY <1>a, <3>1, <3>2
  <2> QED BY <2>1, <2>2
<1>r. ASSUME NEW s \in Slot, NEW pc \in {"idle", "loaded", "retry"},
             NEW c \in Cell \cup {NULL}, NEW v \in Ptr \cup {NULL}, SetReader(t, s, pc, c, v)
      PROVE  Pcs' /\ Pointers'
  BY <1>a, <1>r DEF SetReader, PcType, PtrType, CellType
<1>c. \A c \in Cell : Seen(c) \in Ptr
  BY <1>0 DEF Seen, HeapType
<1>p. \A s \in Slot : rp[t][s] \in Ptr \cup {NULL} /\ rcell[t][s] \in Cell \cup {NULL}
  BY <1>a DEF PtrType, CellType
<1> HIDE DEF Pcs, Pointers, Saves, Stores
<1>1. CASE UNCHANGED <<hazard_table, rpc, rp, rcell, saved, buffer, exposed>>
  BY <1>0, <1>1 DEF ReadType
<1>2. CASE SmallIdAlloc(t) \/ SmallIdGrow(t)
  BY <1>1, <1>2, AttachFacts
<1>3. CASE SmallIdCopy(t) \/ SmallIdFree(t) \/ WriteStep(t)
  BY <1>1, <1>3 DEF readVars, SmallIdCopy, SmallIdFree, WriteStep, Replace, DrainCell,
     TryFreeAll, TryItem, LockItem, ScanNext, KeepItem, TakeItem, FreeItem, OwnHazardous,
     AppendOwn, FreeOwn
<1>4. ASSUME NEW c \in Cell, Load(t, c) PROVE ReadType'
  <2>1. /\ CellSlot[c] \in Slot /\ SetReader(t, CellSlot[c], "loaded", c, Seen(c))
        /\ UNCHANGED <<saved, buffer, hazard_table>>
    BY <1>4, CellAssumption DEF Load
  <2> QED BY <1>b, <1>c, <1>r, <1>u, <2>1
<1>5. ASSUME NEW s \in Slot, Set(t, s) PROVE ReadType'
  <2>1. /\ rpc' = [rpc EXCEPT ![t][s] = "set"] /\ UNCHANGED <<rp, rcell, saved, exposed>>
        /\ StoreHazard(t, s, rp[t][s])
    BY <1>5 DEF Set
  <2>2. Pcs'
    BY <1>a, <2>1 DEF Pcs, PcType
  <2> QED BY <1>b, <1>p, <1>s, <1>u, <2>1, <2>2
<1>6. ASSUME NEW s \in Slot, CheckSame(t, s) PROVE ReadType'
  <2>1. /\ rpc' = [rpc EXCEPT ![t][s] = "use"]
        /\ \/ exposed' = [exposed EXCEPT ![t] = @ \ {s}]
           \/ exposed' = [exposed EXCEPT ![t] = @ \cup {s}]
        /\ UNCHANGED <<rp, rcell, saved, buffer, hazard_table>>
    BY <1>6 DEF CheckSame, Use
  <2>2. Pcs'
    BY <1>a, <2>1 DEF Pcs, PcType
  <2> QED BY <1>b, <1>u, <2>1, <2>2
<1>7. ASSUME NEW s \in Slot, CheckChanged(t, s) \/ Clear(t, s) PROVE ReadType'
  <2>1. /\ \/ SetReader(t, s, "retry", rcell[t][s], NULL)
           \/ SetReader(t, s, "idle", NULL, NULL)
        /\ StoreHazard(t, s, NULL) /\ UNCHANGED saved
    BY <1>7 DEF CheckChanged, Clear
  <2> QED BY <1>b, <1>p, <1>r, <1>s, <1>u, <2>1
<1>8. ASSUME NEW s \in Slot, Reload(t, s) PROVE ReadType'
  <2>1. /\ SetReader(t, s, "loaded", rcell[t][s], Seen(rcell[t][s]))
        /\ UNCHANGED <<saved, buffer, hazard_table>> /\ rcell[t][s] \in Cell
    BY <1>0, <1>8 DEF Reload, LookupInv, Loaded
  <2> QED BY <1>b, <1>c, <1>r, <1>u, <2>1
<1>9. CASE Drain(t)
  <2>1. /\ hazard_table' = [hazard_table EXCEPT
                              ![Pos(small_id[t], Head(buffer[t])[1])] = Head(buffer[t])[2]]
        /\ buffer' = [buffer EXCEPT ![t] = Tail(@)] /\ buffer[t] # <<>>
        /\ UNCHANGED <<rpc, rp, rcell, saved, exposed>>
    BY <1>9 DEF Drain
  <2>2. /\ Head(buffer[t]) \in Slot \X (Ptr \cup {NULL})
        /\ Tail(buffer[t]) \in Seq(Slot \X (Ptr \cup {NULL}))
    BY <1>a, <2>1 DEF Stores
  <2>3. Head(buffer[t])[2] \in Ptr \cup {NULL}
    BY <2>2
  <2>4. hazard_table' \in [Positions -> Ptr \cup {NULL}]
    BY <1>a, <2>1, <2>3 DEF Stores
  <2>5. buffer' \in [Thread -> Seq(Slot \X (Ptr \cup {NULL}))]
    BY <1>a, <2>1, <2>2 DEF Stores
  <2>6. Stores'
    BY <2>4, <2>5 DEF Stores
  <2>7. Pcs'
    BY <1>a, <2>1 DEF Pcs
  <2> QED BY <1>b, <1>u, <2>1, <2>6, <2>7
<1>10. CASE SignalEnter(t)
  <2>1. /\ saved' = [saved EXCEPT ![t] = <<rpc[t], rp[t], rcell[t]>>]
        /\ rpc' = [rpc EXCEPT ![t] = [s \in Slot |-> "idle"]]
        /\ rp' = [rp EXCEPT ![t] = [s \in Slot |-> NULL]]
        /\ rcell' = [rcell EXCEPT ![t] = [s \in Slot |-> NULL]]
        /\ exposed' = [exposed EXCEPT ![t] = {}]
        /\ UNCHANGED <<buffer, hazard_table>>
    BY <1>10 DEF SignalEnter
  <2>2. <<rpc[t], rp[t], rcell[t]>> \in PcType \X PtrType \X CellType
    BY <1>a DEF Pcs, Pointers
  <2>3. Saves'
    BY <1>a, <2>1, <2>2 DEF Saves
  <2>4. Pcs'
    BY <1>a, <2>1 DEF Pcs, PcType
  <2>5. Pointers'
    BY <1>a, <2>1 DEF Pointers, PtrType, CellType
  <2> QED BY <1>b, <1>u, <2>1, <2>3, <2>4, <2>5
<1>11. CASE SignalReturn(t)
  <2>1. /\ rpc' = [rpc EXCEPT ![t] = saved[t][1]]
        /\ rp' = [rp EXCEPT ![t] = saved[t][2]]
        /\ rcell' = [rcell EXCEPT ![t] = saved[t][3]]
        /\ saved' = [saved EXCEPT ![t] = <<>>]
        /\ exposed' = [exposed EXCEPT ![t] = {s \in Slot : saved[t][1][s] = "use"}]
        /\ UNCHANGED <<buffer, hazard_table>> /\ saved[t] # <<>>
    BY <1>11 DEF SignalReturn, InHandler
  <2>2. saved[t][1] \in PcType /\ saved[t][2] \in PtrType /\ saved[t][3] \in CellType
    BY <1>a, <2>1 DEF Saves
  <2>3. Saves'
    BY <1>a, <2>1 DEF Saves
  <2>4. Pcs'
    BY <1>a, <2>1, <2>2 DEF Pcs
  <2>5. Pointers'
    BY <1>a, <2>1, <2>2 DEF Pointers
  <2> QED BY <1>b, <1>u, <2>1, <2>3, <2>4, <2>5
<1> QED BY <1>2, <1>3, <1>4, <1>5, <1>6, <1>7, <1>8, <1>9, <1>10, <1>11 DEF IdStep, ReadStep

\* No step takes a cell or the state of a block out of its type.
LEMMA HeapTypeStep == IInv /\ Next => HeapType'
<1> SUFFICES ASSUME IInv, NEW t \in Thread,
                    IdStep(t) \/ ReadStep(t) \/ WriteStep(t)
             PROVE  HeapType'
  BY DEF Next
<1>0. HeapType
  BY DEF IInv, TypeOK
<1>1. CASE UNCHANGED heapVars
  BY <1>0, <1>1 DEF heapVars, HeapType
<1>2. CASE IdStep(t) \/ ReadStep(t)
  BY <1>1, <1>2 DEF IdStep, SmallIdAlloc, SmallIdCopy, SmallIdGrow, SmallIdFree, ReadStep,
     Load, Set, CheckSame, CheckChanged, Reload, Clear, Drain, SignalEnter, SignalReturn
<1>3. ASSUME NEW c \in Cell, Replace(t, c) PROVE HeapType'
  <2>1. PICK q \in Ptr : /\ cell' = [cell EXCEPT ![c] = q]
                         /\ heap' = [heap EXCEPT ![q] = "linked", ![cell[c]] = "retired"]
    BY <1>3 DEF Replace
  <2>2. late' \in [Cell -> Ptr \cup {NULL}]
    BY <1>0, <1>3 DEF Replace, HeapType
  <2> QED BY <1>0, <2>1, <2>2 DEF HeapType
<1>4. CASE FreeItem(t)
  BY <1>0, <1>4 DEF FreeItem, HeapType
<1>5. CASE FreeOwn(t)
  BY <1>0, <1>5 DEF FreeOwn, HeapType
<1>6. CASE DrainCell(t)
  <2>1. late' = [late EXCEPT ![wcell[t]] = NULL] /\ UNCHANGED <<cell, heap>>
    BY <1>6 DEF DrainCell
  <2> QED BY <1>0, <2>1 DEF HeapType
<1> QED BY <1>1, <1>2, <1>3, <1>4, <1>5, <1>6 DEF WriteStep, TryFreeAll, TryItem, LockItem,
     ScanNext, KeepItem, TakeItem, OwnHazardous, AppendOwn

\* delayed_free_table stays a sequence of blocks.
LEMMA DelayTypeStep == IInv /\ Next => DelayType'
<1> SUFFICES ASSUME IInv, NEW t \in Thread,
                    IdStep(t) \/ ReadStep(t) \/ WriteStep(t)
             PROVE  DelayType'
  BY DEF Next
<1>0. DelayType /\ WriteType /\ OwnInv /\ DelayedInv
  BY DEF IInv, TypeOK
<1>1. CASE UNCHANGED delayVars
  BY <1>0, <1>1 DEF delayVars, DelayType
<1>2. CASE IdStep(t) \/ ReadStep(t)
  BY <1>1, <1>2 DEF IdStep, SmallIdAlloc, SmallIdCopy, SmallIdGrow, SmallIdFree, ReadStep,
     Load, Set, CheckSame, CheckChanged, Reload, Clear, Drain, SignalEnter, SignalReturn
<1>3. CASE LockItem(t) \/ KeepItem(t)
  BY <1>0, <1>3 DEF LockItem, KeepItem, DelayType
<1>4. CASE TakeItem(t)
  <2>1. widx[t] + 1 \in DOMAIN delayed_free_table
    BY <1>0, <1>4 DEF TakeItem, DelayedInv
  <2> QED BY <1>0, <1>4, <2>1, RemoveIndexFastFacts DEF TakeItem, DelayType
<1>5. CASE AppendOwn(t)
  <2>1. wp[t] \in Ptr
    BY <1>0, <1>5 DEF AppendOwn, OwnInv, WriteType
  <2> QED BY <1>0, <1>5, <2>1 DEF AppendOwn, DelayType
<1> QED BY <1>1, <1>2, <1>3, <1>4, <1>5 DEF WriteStep, Replace, DrainCell, TryFreeAll, TryItem,
     ScanNext, FreeItem, OwnHazardous, FreeOwn
\* No step takes the writers' variables out of their types.
LEMMA WriteTypeStep == IInv /\ Next => WriteType'
<1> SUFFICES ASSUME IInv, NEW t \in Thread,
                    IdStep(t) \/ ReadStep(t) \/ WriteStep(t)
             PROVE  WriteType'
  BY DEF Next
<1>0. WriteType /\ IdType /\ HeapType /\ DelayType /\ OwnInv /\ ScanInv
  BY DEF IInv, TypeOK
<1> DEFINE ScanType == /\ scan \in [Thread -> 0..(2 * MaxIds)]
                       /\ scan_highest \in [Thread -> -1..(MaxIds - 1)]
           AtType == wpc \in [Thread -> {"idle", "try", "lock", "scanItem",
                                         "freeItem", "scanOwn", "append"}]
           IndexType == widx \in [Thread -> Int] /\ witem \in [Thread -> Ptr \cup {NULL}]
           OwnType == wp \in [Thread -> Ptr \cup {NULL}] /\ wcell \in [Thread -> Cell \cup {NULL}]
<1>a. ScanType /\ AtType /\ IndexType /\ OwnType
  BY <1>0 DEF WriteType
<1>b. EndScan(t) => ScanType'
  BY <1>a, BoundAssumption DEF EndScan
<1>c. StartScan(t) => ScanType'
  BY <1>0, <1>a, BoundAssumption DEF StartScan, IdType
<1>d. UNCHANGED <<scan, scan_highest>> => ScanType'
  BY <1>a
<1>e. NextIndex(t) => AtType' /\ IndexType' /\ ScanType'
  <2> SUFFICES ASSUME NextIndex(t) PROVE AtType' /\ IndexType' /\ ScanType'
    OBVIOUS
  <2>1. AtType' BY <1>a DEF NextIndex
  <2>2. IndexType' BY <1>a DEF NextIndex
  <2>3. EndScan(t) \/ StartScan(t) BY DEF NextIndex
  <2> QED BY <1>b, <1>c, <2>1, <2>2, <2>3
<1>f. Finish(t) => AtType' /\ OwnType' /\ ScanType' /\ UNCHANGED <<widx, witem>>
  BY <1>a, <1>b DEF Finish
<1>g. AtType' /\ OwnType' /\ IndexType' /\ ScanType' => WriteType'
  BY DEF WriteType
<1> HIDE DEF ScanType
<1>1. CASE UNCHANGED writeVars
  BY <1>0, <1>1 DEF writeVars, WriteType
<1>14. CASE DrainCell(t)
  BY <1>1, <1>14 DEF DrainCell
<1>2. CASE IdStep(t)
  BY <1>1, <1>2 DEF IdStep, SmallIdAlloc, SmallIdCopy, SmallIdGrow, SmallIdFree
<1>3. CASE ReadStep(t)
  BY <1>1, <1>3 DEF ReadStep, Load, Set, CheckSame, CheckChanged, Reload, Clear,
                    Drain, SignalEnter, SignalReturn
<1>4. ASSUME NEW c \in Cell, Replace(t, c) PROVE WriteType'
  BY <1>0, <1>a, <1>d, <1>g, <1>4 DEF Replace, HeapType
<1>5. CASE TryFreeAll(t)
  BY <1>0, <1>a, <1>d, <1>g, <1>5 DEF TryFreeAll, DelayType
<1>6. CASE TryItem(t)
  <2>1. CASE NextIndex(t)
    BY <1>a, <1>e, <1>g, <1>6, <2>1 DEF TryItem
  <2>2. CASE ~NextIndex(t)
    BY <1>a, <1>d, <1>g, <1>6, <2>2 DEF TryItem
  <2> QED BY <2>1, <2>2
<1>7. CASE LockItem(t)
  <2>1. CASE NextIndex(t)
    BY <1>a, <1>e, <1>g, <1>7, <2>1 DEF LockItem
  <2>2. CASE ~NextIndex(t)
    <3>1. Len(delayed_free_table) > widx[t] /\ StartScan(t)
      BY <1>7, <2>2 DEF LockItem
    <3>2. widx[t] \in Int /\ widx[t] >= 0
      BY <1>0, <1>7 DEF LockItem, OwnInv, WriteType
    <3>3. delayed_free_table[widx[t] + 1] \in Ptr
      BY <1>0, <3>1, <3>2 DEF DelayType
    <3> QED BY <1>a, <1>c, <1>g, <1>7, <2>2, <3>1, <3>3 DEF LockItem
  <2> QED BY <2>1, <2>2
<1>8. CASE ScanNext(t)
  <2>0. /\ scan[t] \in 0..(2 * MaxIds) /\ scan_highest[t] \in -1..(MaxIds - 1)
        /\ scan[t] <= 2 * (scan_highest[t] + 1) /\ scan[t] # 2 * (scan_highest[t] + 1)
    BY <1>0, <1>8 DEF ScanNext, ScanDone, ScanInv, WriteType
  <2>1. scan[t] + 1 \in 0..(2 * MaxIds)
    BY <2>0, BoundAssumption
  <2>2. ScanType'
    BY <1>a, <1>8, <2>1 DEF ScanNext, ScanType
  <2> QED BY <1>a, <1>g, <1>8, <2>2 DEF ScanNext
<1>9. CASE KeepItem(t)
  BY <1>a, <1>e, <1>g, <1>9 DEF KeepItem
<1>10. CASE TakeItem(t)
  BY <1>a, <1>b, <1>g, <1>10 DEF TakeItem
<1>11. CASE FreeItem(t)
  BY <1>a, <1>e, <1>g, <1>11 DEF FreeItem
<1>12. CASE OwnHazardous(t)
  BY <1>a, <1>b, <1>g, <1>12 DEF OwnHazardous
<1>13. CASE AppendOwn(t) \/ FreeOwn(t)
  BY <1>a, <1>f, <1>g, <1>13 DEF AppendOwn, FreeOwn
<1> QED BY <1>2, <1>3, <1>4, <1>5, <1>6, <1>7, <1>8, <1>9, <1>10, <1>11, <1>12, <1>13,
         <1>14 DEF WriteStep
-----------------------------------------------------------------------------
(***************************************************************************)
(* The parts of the inductive invariant.                                   *)
(***************************************************************************)

\* Allocation, growth and release of ids keep them unique and in range.
LEMMA IdStepInv == IInv /\ Next => IdInv'
<1> SUFFICES ASSUME IInv, NEW t \in Thread,
                    IdStep(t) \/ ReadStep(t) \/ WriteStep(t)
             PROVE  IdInv'
  BY DEF Next
<1>0. IdType /\ IdInv
  BY DEF IInv, TypeOK
<1>1. CASE UNCHANGED idVars
  BY <1>0, <1>1 DEF idVars, IdInv, Attached
<1>2. CASE ReadStep(t) \/ WriteStep(t)
  BY <1>1, <1>2 DEF ReadStep, Load, Set, CheckSame, CheckChanged, Reload, Clear, Drain,
     SignalEnter, SignalReturn, WriteStep, Replace, DrainCell, TryFreeAll, TryItem, LockItem,
     ScanNext, KeepItem, TakeItem, FreeItem, OwnHazardous, AppendOwn, FreeOwn
<1>3. CASE SmallIdAlloc(t)
  <2>1. PICK id \in Id : FirstFree(id) /\ Enter(t, id, small_id_table, small_id_table_size)
    BY <1>3 DEF SmallIdAlloc
  <2>2. /\ id < small_id_table_size /\ small_id_table[id] = NULL
        /\ id <= highest_small_id + 1
        /\ id >= small_id_next \/ highest_small_id = small_id_table_size - 1
    BY <2>1, FirstFreeFacts
  <2>3. growing' = growing /\ growing.thread = NULL /\ small_id_table_size' = small_id_table_size
    BY <1>3, <2>1 DEF SmallIdAlloc, Enter
  <2>4. /\ highest_small_id' < small_id_table_size'
        /\ highest_small_id' < hazard_table_size'
        /\ small_id_next' <= highest_small_id' + 1
    BY <1>0, <2>1, <2>2, BoundAssumption DEF Enter, IdInv, IdType, Id
  <2>5. \A u \in Thread : Attached(u)' =>
          small_id'[u] <= highest_small_id' /\ small_id_table'[small_id'[u]] = u
    BY <1>0, <2>1, <2>2, NullAssumption DEF Enter, IdInv, IdType, Id, Attached
  <2>6. \A i \in Id : i > highest_small_id' => small_id_table'[i] = NULL
    BY <1>0, <2>1, <2>2 DEF Enter, IdInv, IdType, Id
  <2> QED BY <2>3, <2>4, <2>5, <2>6 DEF IdInv
<1>4. CASE SmallIdCopy(t)
  <2>1. highest_small_id = small_id_table_size - 1
    <3>1. CASE highest_small_id + 1 < small_id_table_size
      <4>1. highest_small_id + 1 \in Id
        BY <1>0, <3>1, BoundAssumption DEF IdType, Id
      <4>2. small_id_table[highest_small_id + 1] = NULL
        BY <1>0, <4>1 DEF IdInv, IdType
      <4> QED BY <1>4, <3>1, <4>1, <4>2 DEF SmallIdCopy
    <3> QED BY <1>0, <3>1 DEF IdInv, IdType
  <2>2. growing'.thread = t /\ growing'.table = small_id_table /\ ~Attached(t)
        /\ 2 * small_id_table_size <= MaxIds
    BY <1>4 DEF SmallIdCopy
  <2>3. UNCHANGED <<small_id_table, small_id_table_size, small_id_next,
                    highest_small_id, hazard_table_size, small_id>>
    BY <1>4 DEF SmallIdCopy
  <2> QED BY <1>0, <2>1, <2>2, <2>3 DEF IdInv, Attached
<1>5. CASE SmallIdGrow(t)
  <2> DEFINE id == small_id_table_size
  <2>0. growing.thread # NULL
    BY <1>5, NullAssumption DEF SmallIdGrow
  <2>1. id \in Id /\ id = highest_small_id + 1
    BY <1>0, <2>0, BoundAssumption DEF IdInv, IdType, Id
  <2>2. Enter(t, id, growing.table, 2 * id) /\ growing'.thread = NULL
    BY <1>5 DEF SmallIdGrow, NotGrowing
  <2>3. highest_small_id' = id /\ small_id_table_size' = 2 * id
        /\ small_id' = [small_id EXCEPT ![t] = id]
        /\ small_id_table' = [growing.table EXCEPT ![id] = t]
    BY <1>0, <2>1, <2>2 DEF Enter, IdType
  <2>4. /\ highest_small_id' < small_id_table_size'
        /\ highest_small_id' < hazard_table_size'
        /\ small_id_next' <= highest_small_id' + 1
    BY <1>0, <2>1, <2>2, <2>3, BoundAssumption DEF Enter, IdInv, IdType
  <2>5. ASSUME NEW u \in Thread, Attached(u)'
        PROVE  small_id'[u] <= highest_small_id' /\ small_id_table'[small_id'[u]] = u
    <3>1. CASE u = t
      BY <1>0, <2>1, <2>3, <3>1 DEF IdType
    <3>2. CASE u # t
      <4>1. small_id'[u] = small_id[u] /\ Attached(u)
        BY <1>0, <2>3, <2>5, <3>2 DEF IdType, Attached
      <4>2. small_id[u] \in Id /\ small_id[u] < id /\ growing.table[small_id[u]] = u
        BY <1>0, <2>0, <2>1, <4>1 DEF IdInv, IdType, Id, Attached
      <4> QED BY <1>0, <2>1, <2>3, <4>1, <4>2 DEF IdType, Id
    <3> QED BY <3>1, <3>2
  <2>6. \A i \in Id : i > highest_small_id' => small_id_table'[i] = NULL
    BY <1>0, <2>0, <2>1, <2>3 DEF IdInv, IdType, Id
  <2> QED BY <2>2, <2>4, <2>5, <2>6 DEF IdInv
<1>6. CASE SmallIdFree(t)
  <2>1. /\ small_id_table' = [small_id_table EXCEPT ![small_id[t]] = NULL]
        /\ small_id' = [small_id EXCEPT ![t] = -1]
        /\ UNCHANGED <<small_id_table_size, small_id_next, highest_small_id,
                       hazard_table_size, growing>>
    BY <1>6 DEF SmallIdFree
  <2>2. \A u \in Thread : Attached(u)' => Attached(u) /\ small_id'[u] = small_id[u] /\ u # t
    BY <1>0, <2>1 DEF IdType, Attached
  <2>3. \A u \in Thread : Attached(u)' => small_id_table'[small_id'[u]] = u
    BY <1>0, <1>6, <2>1, <2>2 DEF SmallIdFree, IdInv, IdType, Id, Attached
  <2>4. \A i \in Id : i > highest_small_id => small_id_table'[i] = NULL
    BY <1>0, <2>1 DEF IdInv, IdType
  <2>5. growing.thread \in Thread => ~Attached(growing.thread)'
    BY <1>0, <2>1, <2>2, NullAssumption DEF IdInv
  <2> QED BY <1>0, <2>1, <2>2, <2>3, <2>4, <2>5 DEF IdInv, IdType
<1> QED BY <1>2, <1>3, <1>4, <1>5, <1>6 DEF IdStep

\* Replacing the contents of a cell keeps linked blocks in one cell each;
\* only retired blocks are freed.
LEMMA HeapStepInv == IInv /\ Next => HeapInv'
<1> SUFFICES ASSUME IInv, NEW t \in Thread,
                    IdStep(t) \/ ReadStep(t) \/ WriteStep(t)
             PROVE  HeapInv'
  BY DEF Next
<1>0. HeapType /\ HeapInv /\ WriteType /\ OwnInv /\ ItemInv
  BY DEF IInv, TypeOK
<1>1. CASE UNCHANGED <<cell, heap>>
  BY <1>0, <1>1 DEF HeapInv
<1>2. CASE IdStep(t) \/ ReadStep(t)
  BY <1>1, <1>2 DEF IdStep, SmallIdAlloc, SmallIdCopy, SmallIdGrow, SmallIdFree, ReadStep,
     Load, Set, CheckSame, CheckChanged, Reload, Clear, Drain, SignalEnter, SignalReturn,
     heapVars
<1>3. ASSUME NEW c \in Cell, Replace(t, c) PROVE HeapInv'
  <2>1. PICK q \in Ptr : /\ heap[q] = "free"
                         /\ cell' = [cell EXCEPT ![c] = q]
                         /\ heap' = [heap EXCEPT ![q] = "linked", ![cell[c]] = "retired"]
    BY <1>3 DEF Replace
  <2> QED BY <1>0, <2>1 DEF HeapType, HeapInv
<1>4. CASE FreeItem(t)
  BY <1>0, <1>4 DEF FreeItem, HeapType, HeapInv, ItemInv, WriteType
<1>5. CASE FreeOwn(t)
  BY <1>0, <1>5 DEF FreeOwn, HeapType, HeapInv, OwnInv, WriteType
<1> QED BY <1>1, <1>2, <1>3, <1>4, <1>5 DEF WriteStep, heapVars, DrainCell, TryFreeAll, TryItem, LockItem,
     ScanNext, KeepItem, TakeItem, OwnHazardous, AppendOwn

\* What NextIndex leaves: the thread is done with the item it examined.
LEMMA NextIndexFacts ==
    ASSUME WriteType, NEW t \in Thread, NextIndex(t)
    PROVE  /\ wpc' = [wpc EXCEPT ![t] = wpc'[t]]
           /\ wpc'[t] \in {"try", "idle", "scanOwn"}
           /\ wpc'[t] = "idle" => wp[t] = NULL
           /\ wpc'[t] = "scanOwn" => wp[t] # NULL
           /\ wpc'[t] = "try" => widx'[t] >= 0
           /\ widx' = [widx EXCEPT ![t] = widx'[t]]
           /\ witem' = [witem EXCEPT ![t] = witem'[t]]
           /\ IF wpc'[t] = "scanOwn" THEN StartScan(t) ELSE EndScan(t)
<1>1. CASE widx[t] > 0
  BY <1>1 DEF NextIndex, WriteType
<1>2. CASE ~(widx[t] > 0) /\ wp[t] = NULL
  BY <1>2 DEF NextIndex, WriteType
<1>3. CASE ~(widx[t] > 0) /\ wp[t] # NULL
  BY <1>3 DEF NextIndex, WriteType
<1> QED BY <1>1, <1>2, <1>3

\* A writer's own block stays retired, and its own, until it is queued or freed.
LEMMA OwnStepInv == IInv /\ Next => OwnInv'
<1> SUFFICES ASSUME IInv, NEW t \in Thread,
                    IdStep(t) \/ ReadStep(t) \/ WriteStep(t)
             PROVE  OwnInv'
  BY DEF Next
<1>0. HeapType /\ WriteType /\ DelayType /\ OwnInv /\ ItemInv /\ HeapInv /\ DelayedInv
  BY DEF IInv, TypeOK
<1>1. CASE UNCHANGED <<writeVars, heap>>
  BY <1>0, <1>1 DEF writeVars, OwnInv
<1>2. CASE IdStep(t) \/ ReadStep(t)
  BY <1>1, <1>2 DEF heapVars, IdStep, SmallIdAlloc, SmallIdCopy, SmallIdGrow, SmallIdFree,
     ReadStep, Load, Set, CheckSame, CheckChanged, Reload, Clear, Drain, SignalEnter, SignalReturn
<1>3. ASSUME NEW c \in Cell, Replace(t, c) PROVE OwnInv'
  <2>1. PICK q \in Ptr : /\ heap[q] = "free"
                         /\ heap' = [heap EXCEPT ![q] = "linked", ![cell[c]] = "retired"]
    BY <1>3 DEF Replace
  <2>2. /\ wp' = [wp EXCEPT ![t] = cell[c]]
        /\ wpc' = [wpc EXCEPT ![t] = "try"]
        /\ widx' = [widx EXCEPT ![t] = 2]
        /\ cell[c] \in Ptr /\ heap[cell[c]] = "linked"
    BY <1>0, <1>3 DEF Replace, HeapType, HeapInv
  <2> QED BY <1>0, <2>1, <2>2 DEF OwnInv, WriteType, HeapType
<1>4. CASE TryFreeAll(t)
  <2>1. wp[t] = NULL /\ Len(delayed_free_table) - 1 >= 0
    BY <1>0, <1>4 DEF TryFreeAll, MayWrite, OwnInv, DelayType
  <2> QED BY <1>0, <1>4, <2>1 DEF TryFreeAll, heapVars, OwnInv, WriteType
<1>5. CASE NextIndex(t) /\ UNCHANGED <<wp, heap>>
  <2>1. /\ wpc' = [wpc EXCEPT ![t] = wpc'[t]]
        /\ wpc'[t] \in {"try", "idle", "scanOwn"}
        /\ wpc'[t] = "idle" => wp[t] = NULL
        /\ wpc'[t] = "scanOwn" => wp[t] # NULL
        /\ wpc'[t] = "try" => widx'[t] >= 0
        /\ widx' = [widx EXCEPT ![t] = widx'[t]]
    BY <1>0, <1>5, NextIndexFacts
  <2> QED BY <1>0, <1>5, <2>1 DEF OwnInv, WriteType
<1>6. CASE TryItem(t)
  <2>1. CASE Len(delayed_free_table) > widx[t]
    BY <1>0, <1>6, <2>1 DEF TryItem, heapVars, OwnInv, WriteType
  <2> QED BY <1>5, <1>6, <2>1 DEF TryItem, heapVars
<1>7. CASE LockItem(t)
  <2>1. CASE Len(delayed_free_table) > widx[t]
    BY <1>0, <1>7, <2>1 DEF LockItem, heapVars, OwnInv, WriteType
  <2> QED BY <1>5, <1>7, <2>1 DEF LockItem, heapVars
<1>8. CASE ScanNext(t)
  BY <1>0, <1>8 DEF ScanNext, heapVars, OwnInv, WriteType
<1>9. CASE KeepItem(t)
  BY <1>5, <1>9 DEF KeepItem, heapVars
<1>10. CASE TakeItem(t)
  BY <1>0, <1>10 DEF TakeItem, heapVars, OwnInv, WriteType
<1>11. CASE FreeItem(t)
  <2>1. /\ wpc' = [wpc EXCEPT ![t] = wpc'[t]]
        /\ wpc'[t] \in {"try", "idle", "scanOwn"}
        /\ wpc'[t] = "idle" => wp[t] = NULL
        /\ wpc'[t] = "scanOwn" => wp[t] # NULL
        /\ wpc'[t] = "try" => widx'[t] >= 0
        /\ widx' = [widx EXCEPT ![t] = widx'[t]]
    BY <1>0, <1>11, NextIndexFacts DEF FreeItem
  <2>2. /\ heap' = [heap EXCEPT ![witem[t]] = "free"] /\ wp' = wp
        /\ \A u \in Thread : wp[u] # witem[t]
    BY <1>0, <1>11 DEF FreeItem, ItemInv
  <2> QED BY <1>0, <2>1, <2>2 DEF OwnInv, WriteType, HeapType
<1>12. CASE OwnHazardous(t)
  BY <1>0, <1>12 DEF OwnHazardous, heapVars, OwnInv, WriteType
<1>13. CASE AppendOwn(t)
  BY <1>0, <1>13 DEF AppendOwn, Finish, heapVars, OwnInv, WriteType
<1>14. CASE FreeOwn(t)
  BY <1>0, <1>14 DEF FreeOwn, Finish, OwnInv, WriteType, HeapType
<1>15. CASE DrainCell(t)
  BY <1>1, <1>15 DEF DrainCell
<1> QED BY <1>2, <1>3, <1>4, <1>6, <1>7, <1>8, <1>9, <1>10, <1>11, <1>12, <1>13, <1>14, <1>15
        DEF WriteStep

\* What is queued is retired, queued once, and not taken while it is examined.
LEMMA DelayedStepInv == IInv /\ Next => DelayedInv'
<1> SUFFICES ASSUME IInv, NEW t \in Thread,
                    IdStep(t) \/ ReadStep(t) \/ WriteStep(t)
             PROVE  DelayedInv'
  BY DEF Next
<1>0. HeapType /\ WriteType /\ DelayType /\ OwnInv /\ ItemInv /\ HeapInv /\ DelayedInv
  BY DEF IInv, TypeOK
<1> DEFINE Queued == \A i \in DOMAIN delayed_free_table :
                /\ heap[delayed_free_table[i]] = "retired"
                /\ \A u \in Thread : wp[u] # delayed_free_table[i]
                /\ \A j \in DOMAIN delayed_free_table :
                      delayed_free_table[i] = delayed_free_table[j] => i = j
           Examined == \A u \in Thread : wpc[u] = "scanItem" =>
                /\ delayed_mutex = u
                /\ widx[u] + 1 \in DOMAIN delayed_free_table
                /\ witem[u] = delayed_free_table[widx[u] + 1]
<1>a. Queued /\ Examined
  BY <1>0 DEF DelayedInv
<1>b. Queued' /\ Examined' => DelayedInv'
  BY DEF DelayedInv
<1>c. UNCHANGED <<delayed_free_table, heap, wp>> => Queued'
  BY <1>a
<1> HIDE DEF Queued
<1>1. CASE UNCHANGED <<writeVars, delayVars, heap>>
  BY <1>a, <1>b, <1>c, <1>1 DEF writeVars, delayVars
<1>2. CASE IdStep(t) \/ ReadStep(t)
  BY <1>1, <1>2 DEF heapVars, IdStep, SmallIdAlloc, SmallIdCopy, SmallIdGrow, SmallIdFree,
     ReadStep, Load, Set, CheckSame, CheckChanged, Reload, Clear, Drain, SignalEnter, SignalReturn
<1>3. ASSUME NEW c \in Cell, Replace(t, c) PROVE DelayedInv'
  <2>1. PICK q \in Ptr : /\ heap[q] = "free"
                         /\ heap' = [heap EXCEPT ![q] = "linked", ![cell[c]] = "retired"]
    BY <1>3 DEF Replace
  <2>2. /\ wp' = [wp EXCEPT ![t] = cell[c]]
        /\ wpc' = [wpc EXCEPT ![t] = "try"]
        /\ widx' = [widx EXCEPT ![t] = 2] /\ witem' = witem
        /\ cell[c] \in Ptr /\ heap[cell[c]] = "linked"
        /\ UNCHANGED <<delayed_free_table, delayed_mutex>>
    BY <1>0, <1>3 DEF Replace, HeapType, HeapInv, delayVars
  <2>3. Queued'
    BY <1>0, <1>a, <2>1, <2>2 DEF Queued, DelayType, WriteType, HeapType
  <2>4. Examined'
    BY <1>0, <1>a, <2>2 DEF WriteType
  <2> QED BY <1>b, <2>3, <2>4
<1>d. ASSUME \A u \in Thread : u # t => /\ wpc'[u] = wpc[u] /\ widx'[u] = widx[u]
                                        /\ witem'[u] = witem[u],
             wpc'[t] # "scanItem",
             delayed_free_table' = delayed_free_table,
             wpc[t] = "scanItem" \/ delayed_mutex' = delayed_mutex
      PROVE  Examined'
  BY <1>a, <1>d
<1>e. NextIndex(t) => /\ \A u \in Thread : u # t => /\ wpc'[u] = wpc[u] /\ widx'[u] = widx[u]
                                                    /\ witem'[u] = witem[u]
                      /\ wpc'[t] # "scanItem"
  <2> SUFFICES ASSUME NextIndex(t)
               PROVE  /\ \A u \in Thread : u # t => /\ wpc'[u] = wpc[u] /\ widx'[u] = widx[u]
                                                    /\ witem'[u] = witem[u]
                      /\ wpc'[t] # "scanItem"
    OBVIOUS
  <2>1. /\ wpc' = [wpc EXCEPT ![t] = wpc'[t]] /\ wpc'[t] \in {"try", "idle", "scanOwn"}
        /\ widx' = [widx EXCEPT ![t] = widx'[t]] /\ witem' = [witem EXCEPT ![t] = witem'[t]]
    BY <1>0, NextIndexFacts
  <2> QED BY <1>0, <2>1 DEF WriteType
<1> HIDE DEF Examined
<1>5. CASE TryFreeAll(t)
  BY <1>0, <1>b, <1>c, <1>d, <1>5 DEF TryFreeAll, MayWrite, WriteType, heapVars, delayVars
<1>6. CASE TryItem(t)
  <2>1. CASE Len(delayed_free_table) > widx[t]
    BY <1>0, <1>b, <1>c, <1>d, <1>6, <2>1 DEF TryItem, heapVars, delayVars, WriteType
  <2> QED BY <1>b, <1>c, <1>d, <1>e, <1>6, <2>1 DEF TryItem, heapVars, delayVars
<1>7. CASE LockItem(t)
  <2>1. CASE Len(delayed_free_table) > widx[t]
    <3>1. /\ delayed_mutex = NULL /\ delayed_mutex' = t /\ widx' = widx
          /\ witem' = [witem EXCEPT ![t] = delayed_free_table[widx[t] + 1]]
          /\ wpc' = [wpc EXCEPT ![t] = "scanItem"]
          /\ UNCHANGED <<delayed_free_table, heap, wp>>
      BY <1>7, <2>1 DEF LockItem, heapVars
    <3>a. widx[t] \in Int /\ widx[t] >= 0
      BY <1>0, <1>7 DEF LockItem, OwnInv, WriteType
    <3>2. widx[t] + 1 \in DOMAIN delayed_free_table
      BY <1>0, <2>1, <3>a DEF DelayType
    <3>3. Examined'
      BY <1>0, <1>a, <3>1, <3>2, NullAssumption DEF Examined, WriteType
    <3> QED BY <1>b, <1>c, <3>1, <3>3
  <2> QED BY <1>b, <1>c, <1>d, <1>e, <1>7, <2>1 DEF LockItem, heapVars
<1>8. CASE ScanNext(t)
  BY <1>a, <1>b, <1>c, <1>8 DEF ScanNext, heapVars, delayVars, Examined
<1>9. CASE KeepItem(t)
  BY <1>b, <1>c, <1>d, <1>e, <1>9 DEF KeepItem, heapVars
<1>10. CASE TakeItem(t)
  <2>0. widx[t] + 1 \in DOMAIN delayed_free_table /\ delayed_mutex = t
    BY <1>a, <1>10 DEF TakeItem, Examined
  <2>1. /\ DOMAIN delayed_free_table' = 1..(Len(delayed_free_table) - 1)
        /\ \A j \in DOMAIN delayed_free_table' : delayed_free_table'[j] =
              IF j = widx[t] + 1 THEN delayed_free_table[Len(delayed_free_table)]
              ELSE delayed_free_table[j]
    BY <1>0, <1>10, <2>0, RemoveIndexFastFacts DEF TakeItem, DelayType
  <2>2. UNCHANGED <<heap, wp, widx, witem>> /\ wpc' = [wpc EXCEPT ![t] = "freeItem"]
    BY <1>10 DEF TakeItem, heapVars
  <2>3. Queued'
    BY <1>0, <1>a, <2>0, <2>1, <2>2 DEF Queued, DelayType
  <2>4. Examined'
    BY <1>0, <1>a, <2>0, <2>2 DEF Examined, WriteType
  <2> QED BY <1>b, <2>3, <2>4
<1>11. CASE FreeItem(t)
  <2>1. /\ heap' = [heap EXCEPT ![witem[t]] = "free"] /\ wp' = wp
        /\ \A i \in DOMAIN delayed_free_table : delayed_free_table[i] # witem[t]
        /\ UNCHANGED <<delayed_free_table, delayed_mutex>>
    BY <1>0, <1>11 DEF FreeItem, ItemInv, delayVars
  <2>2. Queued'
    BY <1>0, <1>a, <2>1 DEF Queued, DelayType, HeapType
  <2> QED BY <1>b, <1>d, <1>e, <1>11, <2>1, <2>2 DEF FreeItem
<1>12. CASE OwnHazardous(t)
  BY <1>0, <1>b, <1>c, <1>d, <1>12 DEF OwnHazardous, heapVars, delayVars, WriteType
<1>13. CASE AppendOwn(t)
  <2>1. /\ delayed_free_table' = Append(delayed_free_table, wp[t]) /\ delayed_mutex = NULL
        /\ wp' = [wp EXCEPT ![t] = NULL] /\ wpc' = [wpc EXCEPT ![t] = "idle"]
        /\ UNCHANGED <<heap, widx, witem, delayed_mutex>>
    BY <1>13 DEF AppendOwn, Finish, heapVars
  <2>2. /\ wp[t] \in Ptr /\ heap[wp[t]] = "retired"
        /\ \A u \in Thread : u # t => wp[u] # wp[t]
    BY <1>0, <1>13 DEF AppendOwn, OwnInv, WriteType
  <2>3. /\ DOMAIN delayed_free_table = 1..Len(delayed_free_table)
        /\ DOMAIN delayed_free_table' = 1..(Len(delayed_free_table) + 1)
        /\ \A i \in 1..Len(delayed_free_table) : delayed_free_table'[i] = delayed_free_table[i]
        /\ delayed_free_table'[Len(delayed_free_table) + 1] = wp[t]
        /\ Len(delayed_free_table) \in Nat
    BY <1>0, <2>1, <2>2 DEF DelayType
  <2>4. Queued'
    BY <1>0, <1>a, <2>1, <2>2, <2>3, NullAssumption DEF Queued, WriteType, DelayType
  <2>5. Examined'
    BY <1>0, <1>a, <2>1, <2>3, NullAssumption DEF Examined, WriteType
  <2> QED BY <1>b, <2>4, <2>5
<1>14. CASE FreeOwn(t)
  <2>1. /\ heap' = [heap EXCEPT ![wp[t]] = "free"] /\ wp' = [wp EXCEPT ![t] = NULL]
        /\ wpc' = [wpc EXCEPT ![t] = "idle"] /\ wpc[t] = "scanOwn" /\ wp[t] \in Ptr
        /\ UNCHANGED <<delayed_free_table, delayed_mutex, widx, witem>>
    BY <1>0, <1>14 DEF FreeOwn, Finish, delayVars, OwnInv, WriteType
  <2>2. Queued'
    BY <1>0, <1>a, <2>1, NullAssumption DEF Queued, DelayType, HeapType, WriteType
  <2>3. Examined'
    BY <1>0, <1>d, <2>1 DEF WriteType
  <2> QED BY <1>b, <2>2, <2>3
<1>15. CASE DrainCell(t)
  BY <1>1, <1>15 DEF DrainCell
<1> QED BY <1>2, <1>3, <1>5, <1>6, <1>7, <1>8, <1>9, <1>10, <1>11, <1>12, <1>13, <1>14, <1>15
        DEF WriteStep

\* Two facts about a thread that leaves or enters "freeItem", used below.
LEMMA OthersKeep ==
    ASSUME WriteType, NEW t \in Thread, NextIndex(t)
    PROVE  /\ wpc'[t] \in {"try", "idle", "scanOwn"}
           /\ \A u \in Thread : u # t => wpc'[u] = wpc[u] /\ witem'[u] = witem[u]
<1>1. /\ wpc' = [wpc EXCEPT ![t] = wpc'[t]] /\ wpc'[t] \in {"try", "idle", "scanOwn"}
      /\ witem' = [witem EXCEPT ![t] = witem'[t]]
  BY NextIndexFacts
<1> QED BY <1>1 DEF WriteType

\* A block that was taken out to be freed belongs to the thread that took it.
LEMMA ItemStepInv == IInv /\ Next => ItemInv'
<1> SUFFICES ASSUME IInv, NEW t \in Thread,
                    IdStep(t) \/ ReadStep(t) \/ WriteStep(t)
             PROVE  ItemInv'
  BY DEF Next
<1>0. HeapType /\ WriteType /\ DelayType /\ OwnInv /\ ItemInv /\ HeapInv /\ DelayedInv
  BY DEF IInv, TypeOK
<1>1. ASSUME \A u \in Thread : u # t => wpc'[u] = wpc[u] /\ witem'[u] = witem[u],
             wpc'[t] # "freeItem",
             UNCHANGED <<heap, wp, delayed_free_table>>
      PROVE  ItemInv'
  BY <1>0, <1>1 DEF ItemInv
<1>2. CASE IdStep(t) \/ ReadStep(t)
  <2>1. UNCHANGED <<wpc, witem, heap, wp, delayed_free_table>>
    BY <1>2 DEF heapVars, writeVars, delayVars, IdStep, SmallIdAlloc, SmallIdCopy,
       SmallIdGrow, SmallIdFree, ReadStep, Load, Set, CheckSame, CheckChanged, Reload,
       Clear, Drain, SignalEnter, SignalReturn
  <2> QED BY <1>0, <2>1 DEF ItemInv
<1>3. ASSUME NEW c \in Cell, Replace(t, c) PROVE ItemInv'
  <2>1. PICK q \in Ptr : /\ heap[q] = "free"
                         /\ heap' = [heap EXCEPT ![q] = "linked", ![cell[c]] = "retired"]
    BY <1>3 DEF Replace
  <2>2. /\ wp' = [wp EXCEPT ![t] = cell[c]]
        /\ wpc' = [wpc EXCEPT ![t] = "try"] /\ witem' = witem
        /\ cell[c] \in Ptr /\ heap[cell[c]] = "linked"
        /\ UNCHANGED <<delayed_free_table>>
    BY <1>0, <1>3 DEF Replace, HeapType, HeapInv, delayVars
  <2> QED BY <1>0, <2>1, <2>2 DEF ItemInv, WriteType, HeapType
<1>4. CASE TryFreeAll(t)
  BY <1>0, <1>1, <1>4 DEF TryFreeAll, WriteType, heapVars, delayVars
<1>5. CASE NextIndex(t) /\ UNCHANGED <<heap, wp, delayed_free_table>>
  BY <1>0, <1>1, <1>5, OthersKeep
<1>6. CASE TryItem(t) \/ LockItem(t)
  <2>1. CASE Len(delayed_free_table) > widx[t]
    BY <1>0, <1>1, <1>6, <2>1 DEF TryItem, LockItem, heapVars, delayVars, WriteType
  <2> QED BY <1>5, <1>6, <2>1 DEF TryItem, LockItem, heapVars, delayVars
<1>7. CASE ScanNext(t) \/ OwnHazardous(t)
  BY <1>0, <1>1, <1>7 DEF ScanNext, OwnHazardous, heapVars, delayVars, WriteType
<1>8. CASE KeepItem(t)
  BY <1>5, <1>8 DEF KeepItem, heapVars
<1>9. CASE TakeItem(t)
  <2>0. /\ widx[t] + 1 \in DOMAIN delayed_free_table
        /\ witem[t] = delayed_free_table[widx[t] + 1]
    BY <1>0, <1>9 DEF TakeItem, DelayedInv
  <2>1. /\ DOMAIN delayed_free_table' = 1..(Len(delayed_free_table) - 1)
        /\ \A j \in DOMAIN delayed_free_table' : delayed_free_table'[j] =
              IF j = widx[t] + 1 THEN delayed_free_table[Len(delayed_free_table)]
              ELSE delayed_free_table[j]
    BY <1>0, <1>9, <2>0, RemoveIndexFastFacts DEF TakeItem, DelayType
  <2>2. UNCHANGED <<heap, wp, witem>> /\ wpc' = [wpc EXCEPT ![t] = "freeItem"]
    BY <1>9 DEF TakeItem, heapVars
  <2>3. \A j \in DOMAIN delayed_free_table' :
           \E i \in DOMAIN delayed_free_table : /\ i # widx[t] + 1
                                                /\ delayed_free_table'[j] = delayed_free_table[i]
    BY <1>0, <2>0, <2>1 DEF DelayType
  <2>4. /\ witem[t] \in Ptr /\ heap[witem[t]] = "retired"
        /\ \A u \in Thread : wp[u] # witem[t]
        /\ \A j \in DOMAIN delayed_free_table' : delayed_free_table'[j] # witem[t]
    BY <1>0, <2>0, <2>3 DEF DelayedInv, DelayType
  <2>5. \A u \in Thread : wpc[u] = "freeItem" =>
           /\ witem[u] # witem[t]
           /\ \A j \in DOMAIN delayed_free_table' : delayed_free_table'[j] # witem[u]
    BY <1>0, <2>0, <2>3 DEF ItemInv
  <2> QED BY <1>0, <2>2, <2>4, <2>5, NullAssumption DEF ItemInv, WriteType
<1>10. CASE FreeItem(t)
  <2>1. /\ heap' = [heap EXCEPT ![witem[t]] = "free"] /\ wp' = wp
        /\ \A u \in Thread : u # t /\ wpc[u] = "freeItem" => witem[u] # witem[t]
        /\ UNCHANGED delayed_free_table
    BY <1>0, <1>10 DEF FreeItem, ItemInv, delayVars
  <2>2. /\ wpc'[t] # "freeItem"
        /\ \A u \in Thread : u # t => wpc'[u] = wpc[u] /\ witem'[u] = witem[u]
    BY <1>0, <1>10, OthersKeep DEF FreeItem
  <2> QED BY <1>0, <2>1, <2>2 DEF ItemInv, HeapType, WriteType
<1>11. CASE AppendOwn(t)
  <2>1. /\ delayed_free_table' = Append(delayed_free_table, wp[t])
        /\ wp' = [wp EXCEPT ![t] = NULL] /\ wpc' = [wpc EXCEPT ![t] = "idle"]
        /\ UNCHANGED <<heap, witem>>
    BY <1>11 DEF AppendOwn, Finish, heapVars
  <2>2. wp[t] \in Ptr
    BY <1>0, <1>11 DEF AppendOwn, OwnInv, WriteType
  <2>3. \A j \in DOMAIN delayed_free_table' :
           \/ delayed_free_table'[j] = wp[t]
           \/ \E i \in DOMAIN delayed_free_table : delayed_free_table'[j] = delayed_free_table[i]
    BY <1>0, <2>1, <2>2 DEF DelayType
  <2> QED BY <1>0, <2>1, <2>3 DEF ItemInv, WriteType
<1>12. CASE FreeOwn(t)
  <2>1. /\ heap' = [heap EXCEPT ![wp[t]] = "free"] /\ wp' = [wp EXCEPT ![t] = NULL]
        /\ wpc' = [wpc EXCEPT ![t] = "idle"]
        /\ UNCHANGED <<delayed_free_table, witem>>
    BY <1>12 DEF FreeOwn, Finish, delayVars
  <2> QED BY <1>0, <2>1 DEF ItemInv, HeapType, WriteType
<1>13. CASE DrainCell(t)
  <2>1. UNCHANGED <<wpc, witem, heap, wp, delayed_free_table>>
    BY <1>13 DEF DrainCell, writeVars, delayVars
  <2> QED BY <1>0, <2>1 DEF ItemInv
<1> QED BY <1>2, <1>3, <1>4, <1>6, <1>7, <1>8, <1>9, <1>10, <1>11, <1>12, <1>13 DEF WriteStep

\* No step loses the last claim on a retired block.
LEMMA ClaimStepInv == IInv /\ Next => ClaimInv'
<1> SUFFICES ASSUME IInv, NEW t \in Thread,
                    IdStep(t) \/ ReadStep(t) \/ WriteStep(t)
             PROVE  ClaimInv'
  BY DEF Next
<1>0. HeapType /\ WriteType /\ DelayType /\ OwnInv /\ HeapInv /\ DelayedInv /\ ClaimInv
  BY DEF IInv, TypeOK
<1>1. ASSUME \A u \in Thread : u # t => wpc'[u] = wpc[u] /\ witem'[u] = witem[u],
             wpc[t] # "freeItem",
             UNCHANGED <<heap, wp, delayed_free_table>>
      PROVE  ClaimInv'
  BY <1>0, <1>1 DEF ClaimInv
<1>2. CASE IdStep(t) \/ ReadStep(t)
  <2>1. UNCHANGED <<wpc, witem, heap, wp, delayed_free_table>>
    BY <1>2 DEF heapVars, writeVars, delayVars, IdStep, SmallIdAlloc, SmallIdCopy,
       SmallIdGrow, SmallIdFree, ReadStep, Load, Set, CheckSame, CheckChanged, Reload,
       Clear, Drain, SignalEnter, SignalReturn
  <2> QED BY <1>0, <2>1 DEF ClaimInv
<1>3. ASSUME NEW c \in Cell, Replace(t, c) PROVE ClaimInv'
  <2>1. PICK q \in Ptr : /\ heap[q] = "free"
                         /\ heap' = [heap EXCEPT ![q] = "linked", ![cell[c]] = "retired"]
    BY <1>3 DEF Replace
  <2>2. /\ wp' = [wp EXCEPT ![t] = cell[c]] /\ wp[t] = NULL /\ wpc[t] = "idle"
        /\ wpc' = [wpc EXCEPT ![t] = "try"] /\ witem' = witem
        /\ cell[c] \in Ptr /\ heap[cell[c]] = "linked"
        /\ UNCHANGED <<delayed_free_table>>
    BY <1>0, <1>3 DEF Replace, MayWrite, HeapType, HeapInv, delayVars, OwnInv
  <2> SUFFICES ASSUME NEW p \in Ptr, heap'[p] = "retired"
               PROVE  \/ \E u \in Thread : wp'[u] = p
                      \/ \E u \in Thread : wpc'[u] = "freeItem" /\ witem'[u] = p
                      \/ \E i \in DOMAIN delayed_free_table' : delayed_free_table'[i] = p
    BY DEF ClaimInv
  <2>3. CASE p = cell[c]
    BY <1>0, <2>2, <2>3 DEF WriteType
  <2>4. CASE p # cell[c]
    <3>1. heap[p] = "retired"
      BY <1>0, <2>1, <2>2, <2>4 DEF HeapType
    <3> QED BY <1>0, <2>2, <3>1, NullAssumption DEF ClaimInv, WriteType
  <2> QED BY <2>3, <2>4
<1>4. CASE TryFreeAll(t)
  BY <1>0, <1>1, <1>4 DEF TryFreeAll, MayWrite, WriteType, heapVars, delayVars
<1>5. CASE NextIndex(t) /\ wpc[t] # "freeItem" /\ UNCHANGED <<heap, wp, delayed_free_table>>
  BY <1>0, <1>1, <1>5, OthersKeep
<1>6. CASE TryItem(t) \/ LockItem(t)
  <2>1. CASE Len(delayed_free_table) > widx[t]
    BY <1>0, <1>1, <1>6, <2>1 DEF TryItem, LockItem, heapVars, delayVars, WriteType
  <2> QED BY <1>5, <1>6, <2>1 DEF TryItem, LockItem, heapVars, delayVars
<1>7. CASE ScanNext(t) \/ OwnHazardous(t)
  BY <1>0, <1>1, <1>7 DEF ScanNext, OwnHazardous, heapVars, delayVars, WriteType
<1>8. CASE KeepItem(t)
  BY <1>5, <1>8 DEF KeepItem, heapVars
<1>9. CASE TakeItem(t)
  <2>0. /\ widx[t] + 1 \in DOMAIN delayed_free_table
        /\ witem[t] = delayed_free_table[widx[t] + 1] /\ wpc[t] = "scanItem"
    BY <1>0, <1>9 DEF TakeItem, DelayedInv
  <2>1. /\ DOMAIN delayed_free_table' = 1..(Len(delayed_free_table) - 1)
        /\ \A j \in DOMAIN delayed_free_table' : delayed_free_table'[j] =
              IF j = widx[t] + 1 THEN delayed_free_table[Len(delayed_free_table)]
              ELSE delayed_free_table[j]
    BY <1>0, <1>9, <2>0, RemoveIndexFastFacts DEF TakeItem, DelayType
  <2>2. UNCHANGED <<heap, wp, witem>> /\ wpc' = [wpc EXCEPT ![t] = "freeItem"]
    BY <1>9 DEF TakeItem, heapVars
  <2>3. ASSUME NEW i \in DOMAIN delayed_free_table, i # widx[t] + 1
        PROVE  \E j \in DOMAIN delayed_free_table' :
                  delayed_free_table'[j] = delayed_free_table[i]
    <3>0. DOMAIN delayed_free_table = 1..Len(delayed_free_table) /\ Len(delayed_free_table) \in Nat
      BY <1>0 DEF DelayType
    <3>1. CASE i = Len(delayed_free_table)
      <4>1. widx[t] + 1 \in DOMAIN delayed_free_table'
        BY <2>0, <2>1, <2>3, <3>0, <3>1
      <4> QED BY <2>1, <3>1, <4>1
    <3>2. CASE i # Len(delayed_free_table)
      <4>1. i \in DOMAIN delayed_free_table'
        BY <2>1, <3>0, <3>2
      <4> QED BY <2>1, <2>3, <4>1
    <3> QED BY <3>1, <3>2
  <2> SUFFICES ASSUME NEW p \in Ptr, heap[p] = "retired"
               PROVE  \/ \E u \in Thread : wp'[u] = p
                      \/ \E u \in Thread : wpc'[u] = "freeItem" /\ witem'[u] = p
                      \/ \E i \in DOMAIN delayed_free_table' : delayed_free_table'[i] = p
    BY <2>2 DEF ClaimInv
  <2>4. CASE p = witem[t]
    BY <1>0, <2>2, <2>4 DEF WriteType
  <2>5. CASE p # witem[t] /\ \E i \in DOMAIN delayed_free_table : delayed_free_table[i] = p
    BY <2>0, <2>3, <2>5
  <2> QED BY <1>0, <2>2, <2>4, <2>5 DEF ClaimInv, WriteType
<1>10. CASE FreeItem(t)
  <2>1. /\ heap' = [heap EXCEPT ![witem[t]] = "free"] /\ UNCHANGED <<wp, delayed_free_table>>
    BY <1>10 DEF FreeItem, delayVars
  <2>2. \A u \in Thread : u # t => wpc'[u] = wpc[u] /\ witem'[u] = witem[u]
    BY <1>0, <1>10, OthersKeep DEF FreeItem
  <2> QED BY <1>0, <2>1, <2>2 DEF ClaimInv, HeapType
<1>11. CASE AppendOwn(t)
  <2>1. /\ delayed_free_table' = Append(delayed_free_table, wp[t])
        /\ wp' = [wp EXCEPT ![t] = NULL] /\ wpc' = [wpc EXCEPT ![t] = "idle"]
        /\ UNCHANGED <<heap, witem>> /\ wpc[t] # "freeItem"
    BY <1>11 DEF AppendOwn, Finish, heapVars
  <2>2. wp[t] \in Ptr
    BY <1>0, <1>11 DEF AppendOwn, OwnInv, WriteType
  <2>3. /\ \E j \in DOMAIN delayed_free_table' : delayed_free_table'[j] = wp[t]
        /\ \A i \in DOMAIN delayed_free_table :
              /\ i \in DOMAIN delayed_free_table'
              /\ delayed_free_table'[i] = delayed_free_table[i]
    BY <1>0, <2>1, <2>2 DEF DelayType
  <2> SUFFICES ASSUME NEW p \in Ptr, heap[p] = "retired"
               PROVE  \/ \E u \in Thread : wp'[u] = p
                      \/ \E u \in Thread : wpc'[u] = "freeItem" /\ witem'[u] = p
                      \/ \E i \in DOMAIN delayed_free_table' : delayed_free_table'[i] = p
    BY <2>1 DEF ClaimInv
  <2>4. CASE p = wp[t]
    BY <2>3, <2>4
  <2>5. CASE \E u \in Thread : u # t /\ (wp[u] = p \/ (wpc[u] = "freeItem" /\ witem[u] = p))
    BY <1>0, <2>1, <2>5 DEF WriteType
  <2>6. CASE \E i \in DOMAIN delayed_free_table : delayed_free_table[i] = p
    BY <2>3, <2>6
  <2> QED BY <1>0, <2>1, <2>4, <2>5, <2>6 DEF ClaimInv
<1>12. CASE FreeOwn(t)
  <2>1. /\ heap' = [heap EXCEPT ![wp[t]] = "free"] /\ wp' = [wp EXCEPT ![t] = NULL]
        /\ wpc' = [wpc EXCEPT ![t] = "idle"] /\ wpc[t] # "freeItem"
        /\ UNCHANGED <<delayed_free_table, witem>>
    BY <1>12 DEF FreeOwn, Finish, delayVars
  <2> QED BY <1>0, <2>1 DEF ClaimInv, HeapType, WriteType
<1>13. CASE DrainCell(t)
  <2>1. UNCHANGED <<wpc, witem, heap, wp, delayed_free_table>>
    BY <1>13 DEF DrainCell, writeVars, delayVars
  <2> QED BY <1>0, <2>1 DEF ClaimInv
<1> QED BY <1>2, <1>3, <1>4, <1>6, <1>7, <1>8, <1>9, <1>10, <1>11, <1>12, <1>13 DEF WriteStep

\* Different attached threads, and the two slots of one thread, are different
\* words of hazard_table.
LEMMA PosDistinct ==
    ASSUME IdType, IdInv, NEW t \in Thread, NEW u \in Thread, NEW s \in Slot, NEW r \in Slot,
           Attached(t), Attached(u), t # u \/ s # r
    PROVE  Pos(small_id[t], s) # Pos(small_id[u], r)
<1>1. small_id[t] \in Int /\ small_id[u] \in Int /\ (t # u => small_id[t] # small_id[u])
  BY DEF IdType, IdInv
<1> QED BY <1>1 DEF Pos, Slot

\* The word of an attached thread's slot exists.
LEMMA PosInTable ==
    ASSUME IdType, NEW t \in Thread, NEW s \in Slot, Attached(t)
    PROVE  Pos(small_id[t], s) \in Positions
BY BoundAssumption DEF IdType, Attached, Pos, Positions, Slot

\* Writing one hazard slot, now or through the buffer, leaves the slots of
\* other threads, the other slot of the thread and the slots of unused ids alone.
LEMMA StoreFacts ==
    ASSUME IInv, NEW t \in Thread, NEW s \in Slot, NEW v \in Ptr \cup {NULL},
           Attached(t), StoreHazard(t, s, v)
    PROVE  /\ \A u \in Thread, r \in Slot : Attached(u) /\ (t # u \/ s # r) =>
                hazard_table'[Pos(small_id[u], r)] = hazard_table[Pos(small_id[u], r)]
           /\ \A id \in Id, r \in Slot : id # small_id[t] =>
                hazard_table'[Pos(id, r)] = hazard_table[Pos(id, r)]
           /\ \A u \in Thread : u # t => buffer'[u] = buffer[u]
           /\ \/ StoreLoadFence /\ buffer' = buffer
                 /\ hazard_table'[Pos(small_id[t], s)] = v
              \/ ~StoreLoadFence /\ buffer'[t] = Append(buffer[t], <<s, v>>)
                 /\ hazard_table' = hazard_table
<1>0. IdType /\ IdInv /\ ReadType
  BY DEF IInv, TypeOK
<1>1. CASE StoreLoadFence
  <2>1. hazard_table' = [hazard_table EXCEPT ![Pos(small_id[t], s)] = v] /\ buffer' = buffer
    BY <1>1 DEF StoreHazard
  <2>2. Pos(small_id[t], s) \in Positions
    BY <1>0, PosInTable
  <2>3. hazard_table'[Pos(small_id[t], s)] = v
    BY <1>0, <2>1, <2>2 DEF ReadType
  <2>4. ASSUME NEW u \in Thread, NEW r \in Slot, Attached(u), t # u \/ s # r
        PROVE  hazard_table'[Pos(small_id[u], r)] = hazard_table[Pos(small_id[u], r)]
    <3>1. Pos(small_id[u], r) # Pos(small_id[t], s)
      BY <1>0, <2>4, PosDistinct
    <3>2. Pos(small_id[u], r) \in Positions
      BY <1>0, <2>4, PosInTable
    <3> QED BY <1>0, <2>1, <3>1, <3>2 DEF ReadType
  <2>5. ASSUME NEW id \in Id, NEW r \in Slot, id # small_id[t]
        PROVE  hazard_table'[Pos(id, r)] = hazard_table[Pos(id, r)]
    <3>1. Pos(id, r) # Pos(small_id[t], s) /\ Pos(id, r) \in Positions
      BY <1>0, <2>5, BoundAssumption DEF IdType, Id, Pos, Positions, Slot
    <3> QED BY <1>0, <2>1, <3>1 DEF ReadType
  <2> QED BY <1>1, <2>1, <2>3, <2>4, <2>5
<1>2. CASE ~StoreLoadFence
  <2>1. buffer' = [buffer EXCEPT ![t] = Append(@, <<s, v>>)] /\ hazard_table' = hazard_table
    BY <1>2 DEF StoreHazard
  <2> QED BY <1>0, <1>2, <2>1 DEF ReadType
<1> QED BY <1>1, <1>2

\* A buffered store to one slot says nothing about the other, and a store of
\* NULL is the last one.
LEMMA AppendFacts ==
    ASSUME NEW b \in Seq(Slot \X (Ptr \cup {NULL})), NEW s \in Slot, NEW v \in Ptr \cup {NULL}
    PROVE  LET a == Append(b, <<s, v>>)
           IN  /\ \A r \in Slot \ {s}, i \in DOMAIN b :
                     NoEntryAfter(b, i, r) => NoEntryAfter(a, i, r)
               /\ \A r \in Slot \ {s} : NoEntryAfter(b, 0, r) => NoEntryAfter(a, 0, r)
               /\ \A i \in DOMAIN b : i \in DOMAIN a /\ a[i] = b[i]
               /\ Len(a) \in DOMAIN a /\ a[Len(a)] = <<s, v>> /\ NoEntryAfter(a, Len(a), s)
<1> DEFINE a == Append(b, <<s, v>>)
<1>1. /\ a \in Seq(Slot \X (Ptr \cup {NULL})) /\ Len(a) = Len(b) + 1
      /\ DOMAIN b = 1..Len(b) /\ DOMAIN a = 1..(Len(b) + 1) /\ Len(b) \in Nat
      /\ \A i \in 1..Len(b) : a[i] = b[i]
      /\ a[Len(b) + 1] = <<s, v>>
  OBVIOUS
<1> HIDE DEF a
<1>2. ASSUME NEW r \in Slot \ {s}, NEW i \in DOMAIN b \cup {0}, NoEntryAfter(b, i, r)
      PROVE  NoEntryAfter(a, i, r)
  BY <1>1, <1>2 DEF NoEntryAfter
<1>3. Len(a) \in DOMAIN a /\ a[Len(a)] = <<s, v>> /\ NoEntryAfter(a, Len(a), s)
  BY <1>1 DEF NoEntryAfter
<1>4. \A i \in DOMAIN b : i \in DOMAIN a /\ a[i] = b[i]
  BY <1>1
<1> QED BY <1>2, <1>3, <1>4 DEF a

\* What a store to slot s leaves of the claims about the slots.
LEMMA StoreKeeps ==
    ASSUME IInv, NEW t \in Thread, NEW s \in Slot, NEW v \in Ptr \cup {NULL},
           Attached(t), StoreHazard(t, s, v), UNCHANGED small_id
    PROVE  /\ \A u \in Thread, r \in Slot : Attached(u) /\ (t # u \/ s # r) =>
                 /\ Guarded(u, r) /\ rp'[u][r] = rp[u][r] => Guarded(u, r)'
                 /\ LastNull(u, r) => LastNull(u, r)'
           /\ v = NULL => LastNull(t, s)'
<1>0. ReadType /\ LookupInv
  BY DEF IInv, TypeOK
<1>1. /\ \A u \in Thread, r \in Slot : Attached(u) /\ (t # u \/ s # r) =>
            hazard_table'[Pos(small_id[u], r)] = hazard_table[Pos(small_id[u], r)]
      /\ \A u \in Thread : u # t => buffer'[u] = buffer[u]
      /\ \/ StoreLoadFence /\ buffer' = buffer
            /\ hazard_table'[Pos(small_id[t], s)] = v
         \/ ~StoreLoadFence /\ buffer'[t] = Append(buffer[t], <<s, v>>)
            /\ hazard_table' = hazard_table
  BY StoreFacts
<1>2. buffer[t] \in Seq(Slot \X (Ptr \cup {NULL}))
  BY <1>0 DEF ReadType
<1>3. ASSUME NEW u \in Thread, NEW r \in Slot, Attached(u), t # u \/ s # r
      PROVE  /\ Guarded(u, r) /\ rp'[u][r] = rp[u][r] => Guarded(u, r)'
             /\ LastNull(u, r) => LastNull(u, r)'
  <2>0. hazard_table'[Pos(small_id[u], r)] = hazard_table[Pos(small_id[u], r)]
    BY <1>1, <1>3
  <2>1. CASE buffer'[u] = buffer[u]
    BY <2>0, <2>1 DEF Guarded, LastNull
  <2>2. CASE u = t /\ buffer'[t] = Append(buffer[t], <<s, v>>)
    <3>0. r \in Slot \ {s}
      BY <1>3, <2>2
    <3>1. /\ \A i \in DOMAIN buffer[t] : NoEntryAfter(buffer[t], i, r) => NoEntryAfter(buffer'[t], i, r)
          /\ NoEntryAfter(buffer[t], 0, r) => NoEntryAfter(buffer'[t], 0, r)
          /\ \A i \in DOMAIN buffer[t] : i \in DOMAIN buffer'[t] /\ buffer'[t][i] = buffer[t][i]
      BY <1>2, <2>2, <3>0, AppendFacts
    <3>2. LastNull(t, r) => LastNull(t, r)'
      BY <2>0, <2>2, <3>1 DEF LastNull
    <3>3. DOMAIN buffer'[t] = 1..(Len(buffer[t]) + 1) /\ DOMAIN buffer[t] = 1..Len(buffer[t])
          /\ Len(buffer[t]) \in Nat /\ buffer'[t][Len(buffer[t]) + 1] = <<s, v>>
      BY <1>2, <2>2
    <3>4. Guarded(t, r) /\ rp'[t][r] = rp[t][r] => Guarded(t, r)'
      BY <2>0, <2>2, <3>0, <3>1, <3>3 DEF Guarded
    <3> QED BY <2>2, <3>2, <3>4
  <2> QED BY <1>1, <2>1, <2>2
<1>4. ASSUME v = NULL PROVE LastNull(t, s)'
  <2>1. CASE ~StoreLoadFence
    <3>1. buffer'[t] = Append(buffer[t], <<s, NULL>>)
      BY <1>1, <1>4, <2>1
    <3>2. /\ Len(buffer'[t]) \in DOMAIN buffer'[t]
          /\ buffer'[t][Len(buffer'[t])] = <<s, NULL>>
          /\ NoEntryAfter(buffer'[t], Len(buffer'[t]), s)
      BY <1>2, <3>1, AppendFacts
    <3> QED BY <3>2 DEF LastNull
  <2>2. CASE StoreLoadFence
    <3>1. buffer'[t] = <<>> /\ hazard_table'[Pos(small_id[t], s)] = NULL
      BY <1>0, <1>1, <1>4, <2>2 DEF LookupInv
    <3> QED BY <3>1 DEF LastNull, NoEntryAfter
  <2> QED BY <2>1, <2>2
<1> QED BY <1>3, <1>4

\* The oldest store of a buffer reaches memory: nothing changes for the slots
\* of other threads, and in the thread's own the order of the stores stays.
LEMMA DrainKeeps ==
    ASSUME IInv, NEW t \in Thread, Drain(t)
    PROVE  /\ \A u \in Thread, r \in Slot : Attached(u) =>
                 /\ Guarded(u, r) => Guarded(u, r)'
                 /\ LastNull(u, r) => LastNull(u, r)'
           /\ \A id \in Id, r \in Slot : id # small_id[t] =>
                 hazard_table'[Pos(id, r)] = hazard_table[Pos(id, r)]
<1>0. IdType /\ IdInv /\ ReadType /\ LookupInv
  BY DEF IInv, TypeOK
<1> DEFINE b == buffer[t]
           s == b[1][1]
           v == b[1][2]
<1>1. b \in Seq(Slot \X (Ptr \cup {NULL})) /\ b # <<>> /\ Attached(t)
  BY <1>0 DEF Drain, ReadType, LookupInv
<1>2. /\ Head(b) = b[1] /\ 1 \in DOMAIN b /\ b[1] \in Slot \X (Ptr \cup {NULL})
      /\ Len(b) \in Nat /\ DOMAIN b = 1..Len(b) /\ DOMAIN Tail(b) = 1..(Len(b) - 1)
      /\ \A i \in 1..(Len(b) - 1) : Tail(b)[i] = b[i + 1]
  BY <1>1
<1>3. s \in Slot /\ v \in Ptr \cup {NULL} /\ b[1] = <<s, v>>
  BY <1>2
<1>4. /\ hazard_table' = [hazard_table EXCEPT ![Pos(small_id[t], s)] = v]
      /\ buffer' = [buffer EXCEPT ![t] = Tail(b)]
      /\ UNCHANGED <<small_id, rp>>
  BY <1>2 DEF Drain, idVars
<1>5. buffer'[t] = Tail(b) /\ \A u \in Thread : u # t => buffer'[u] = buffer[u]
  BY <1>0, <1>4 DEF ReadType
<1> HIDE DEF s, v
<1>6. Pos(small_id[t], s) \in Positions
  BY <1>0, <1>1, <1>3, PosInTable
<1>7. hazard_table'[Pos(small_id[t], s)] = v
  BY <1>0, <1>4, <1>6 DEF ReadType
<1>8. ASSUME NEW u \in Thread, NEW r \in Slot, Attached(u), t # u \/ s # r
      PROVE  hazard_table'[Pos(small_id[u], r)] = hazard_table[Pos(small_id[u], r)]
  <2>1. Pos(small_id[u], r) # Pos(small_id[t], s)
    BY <1>0, <1>1, <1>3, <1>8, PosDistinct
  <2>2. Pos(small_id[u], r) \in Positions
    BY <1>0, <1>8, PosInTable
  <2> QED BY <1>0, <1>4, <2>1, <2>2 DEF ReadType
<1>9. ASSUME NEW id \in Id, NEW r \in Slot, id # small_id[t]
      PROVE  hazard_table'[Pos(id, r)] = hazard_table[Pos(id, r)]
  <2>1. Pos(id, r) # Pos(small_id[t], s) /\ Pos(id, r) \in Positions
    BY <1>0, <1>3, <1>9, BoundAssumption DEF IdType, Id, Pos, Positions, Slot
  <2> QED BY <1>0, <1>4, <2>1 DEF ReadType
<1>10. ASSUME NEW u \in Thread, NEW r \in Slot, Attached(u)
       PROVE  /\ Guarded(u, r) => Guarded(u, r)'
              /\ LastNull(u, r) => LastNull(u, r)'
  <2>1. CASE u # t
    BY <1>4, <1>5, <1>8, <1>10, <2>1 DEF Guarded, LastNull
  <2>2. CASE u = t
    <3>1. Guarded(t, r) => Guarded(t, r)'
      <4> SUFFICES ASSUME Guarded(t, r) PROVE Guarded(t, r)'
        OBVIOUS
      <4>1. s # r /\ \A i \in DOMAIN b : b[i][1] # r
        BY <1>2 DEF Guarded, s
      <4>2. \A i \in DOMAIN Tail(b) : i + 1 \in DOMAIN b /\ Tail(b)[i] = b[i + 1]
        BY <1>2
      <4>3. \A i \in DOMAIN Tail(b) : Tail(b)[i][1] # r
        BY <4>1, <4>2
      <4> QED BY <1>1, <1>4, <1>5, <1>8, <4>1, <4>3 DEF Guarded
    <3>2. ASSUME NEW i \in DOMAIN b, b[i] = <<r, NULL>>, NoEntryAfter(b, i, r)
          PROVE  LastNull(t, r)'
      <4>1. CASE i = 1
        <5>1. r = s /\ v = NULL
          BY <1>3, <3>2, <4>1
        <5>2. NoEntryAfter(Tail(b), 0, r)
          BY <1>2, <3>2, <4>1 DEF NoEntryAfter
        <5> QED BY <1>4, <1>5, <1>7, <5>1, <5>2 DEF LastNull
      <4>2. CASE i > 1
        <5>1. i - 1 \in DOMAIN Tail(b) /\ Tail(b)[i - 1] = <<r, NULL>>
          BY <1>2, <3>2, <4>2
        <5>2. ASSUME NEW j \in DOMAIN Tail(b), j > i - 1
              PROVE  Tail(b)[j][1] # r
          <6>1. j + 1 \in DOMAIN b /\ j + 1 > i /\ Tail(b)[j] = b[j + 1]
            BY <1>2, <3>2, <5>2
          <6> QED BY <3>2, <6>1 DEF NoEntryAfter
        <5>3. NoEntryAfter(Tail(b), i - 1, r)
          BY <5>2 DEF NoEntryAfter
        <5> QED BY <1>5, <5>1, <5>3 DEF LastNull
      <4> QED BY <1>2, <4>1, <4>2
    <3>3. ASSUME NoEntryAfter(b, 0, r), hazard_table[Pos(small_id[t], r)] = NULL
          PROVE  LastNull(t, r)'
      <4>1. s # r
        BY <1>2, <3>3 DEF NoEntryAfter, s
      <4>2. NoEntryAfter(Tail(b), 0, r)
        BY <1>2, <3>3 DEF NoEntryAfter
      <4> QED BY <1>1, <1>4, <1>5, <1>8, <3>3, <4>1, <4>2 DEF LastNull
    <3> QED BY <2>2, <3>1, <3>2, <3>3 DEF LastNull
  <2> QED BY <2>1, <2>2
<1> QED BY <1>9, <1>10

\* Lookups and buffers stay with attached threads.
LEMMA LookupStepInv == IInv /\ Next => LookupInv'
<1> SUFFICES ASSUME IInv, NEW t \in Thread,
                    IdStep(t) \/ ReadStep(t) \/ WriteStep(t)
             PROVE  LookupInv'
  BY DEF Next
<1>0. IdType /\ ReadType /\ HeapType /\ LookupInv
  BY DEF IInv, TypeOK
<1> DEFINE L(u) ==
        /\ buffer[u] # <<>> => Attached(u) /\ ~StoreLoadFence
        /\ InHandler(u) => Attached(u)
        /\ \A s \in Slot : rpc[u][s] # "idle" => Attached(u)
        /\ \A s \in Slot : Loaded(rpc[u][s], rp[u][s], rcell[u][s])
        /\ InHandler(u) => \A s \in Slot :
              Loaded(saved[u][1][s], saved[u][2][s], saved[u][3][s])
<1>a. \A u \in Thread : L(u)
  BY <1>0 DEF LookupInv
<1>b. ASSUME \A u \in Thread : u # t =>
               UNCHANGED <<small_id[u], rpc[u], rp[u], rcell[u], saved[u], buffer[u]>>,
             L(t)'
      PROVE  LookupInv'
  <2>1. ASSUME NEW u \in Thread, u # t PROVE L(u)'
    BY <1>a, <1>b, <2>1 DEF Attached, InHandler
  <2> QED BY <1>b, <2>1 DEF LookupInv
<1>c. \A c \in Cell : Seen(c) \in Ptr
  BY <1>0 DEF Seen, HeapType
<1>1. CASE UNCHANGED <<small_id, rpc, rp, rcell, saved, buffer>>
  BY <1>0, <1>1 DEF LookupInv, Attached, InHandler
<1>2. CASE SmallIdAlloc(t) \/ SmallIdGrow(t)
  <2>1. PICK id \in Id : ~Attached(t) /\ small_id' = [small_id EXCEPT ![t] = id]
                         /\ UNCHANGED <<rpc, rp, rcell, saved, buffer>>
    BY <1>2, AttachFacts
  <2>2. Attached(t)' /\ \A u \in Thread : u # t => small_id'[u] = small_id[u]
    BY <1>0, <2>1 DEF IdType, Attached, Id
  <2>3. L(t)'
    BY <1>a, <2>1, <2>2 DEF InHandler
  <2> QED BY <1>b, <2>1, <2>2, <2>3
<1>3. CASE SmallIdFree(t)
  <2>1. /\ small_id' = [small_id EXCEPT ![t] = -1] /\ UNCHANGED <<rpc, rp, rcell, saved, buffer>>
        /\ buffer[t] = <<>> /\ ~InHandler(t) /\ \A s \in Slot : rpc[t][s] = "idle"
    BY <1>3 DEF SmallIdFree, readVars, ReaderIdle
  <2>2. \A u \in Thread : u # t => small_id'[u] = small_id[u]
    BY <1>0, <2>1 DEF IdType
  <2>3. L(t)'
    BY <2>1 DEF InHandler, Loaded
  <2> QED BY <1>b, <2>1, <2>2, <2>3
<1>4. CASE SmallIdCopy(t) \/ WriteStep(t)
  BY <1>1, <1>4 DEF readVars, idVars, SmallIdCopy, WriteStep, Replace, DrainCell, TryFreeAll,
     TryItem, LockItem, ScanNext, KeepItem, TakeItem, FreeItem, OwnHazardous,
     AppendOwn, FreeOwn
<1>s. ASSUME NEW s \in Slot, NEW v \in Ptr \cup {NULL}, StoreHazard(t, s, v), Attached(t)
      PROVE  /\ \A u \in Thread : u # t => buffer'[u] = buffer[u]
             /\ buffer'[t] # <<>> => ~StoreLoadFence
  BY <1>a, <1>s, StoreFacts
<1>r. ASSUME NEW s \in Slot, Attached(t), UNCHANGED <<small_id, saved>>,
             \A u \in Thread : u # t => buffer'[u] = buffer[u],
             buffer'[t] # <<>> => ~StoreLoadFence,
             NEW pc, NEW p, NEW c, Loaded(pc, p, c),
             rpc' = [rpc EXCEPT ![t][s] = pc],
             rp' = [rp EXCEPT ![t][s] = p],
             rcell' = [rcell EXCEPT ![t][s] = c]
      PROVE  LookupInv'
  <2>1. /\ rpc'[t][s] = pc /\ rp'[t][s] = p /\ rcell'[t][s] = c
        /\ \A r \in Slot : r # s => /\ rpc'[t][r] = rpc[t][r] /\ rp'[t][r] = rp[t][r]
                                    /\ rcell'[t][r] = rcell[t][r]
    BY <1>0, <1>r DEF ReadType, PcType, PtrType, CellType
  <2>2. \A u \in Thread : u # t => UNCHANGED <<rpc[u], rp[u], rcell[u]>>
    BY <1>0, <1>r DEF ReadType
  <2>3. \A r \in Slot : Loaded(rpc'[t][r], rp'[t][r], rcell'[t][r])
    BY <1>a, <1>r, <2>1
  <2>4. L(t)'
    BY <1>a, <1>r, <2>3 DEF Attached, InHandler
  <2> QED BY <1>b, <1>r, <2>2, <2>4
<1>5. ASSUME NEW c \in Cell, Load(t, c) PROVE LookupInv'
  <2>1. /\ rpc' = [rpc EXCEPT ![t][CellSlot[c]] = "loaded"]
        /\ rp' = [rp EXCEPT ![t][CellSlot[c]] = Seen(c)]
        /\ rcell' = [rcell EXCEPT ![t][CellSlot[c]] = c]
        /\ UNCHANGED <<small_id, saved, buffer>> /\ Attached(t)
    BY <1>5 DEF Load, SetReader, idVars
  <2>2. Loaded("loaded", Seen(c), c) /\ CellSlot[c] \in Slot
    BY <1>c, CellAssumption DEF Loaded
  <2> QED BY <1>a, <1>r, <2>1, <2>2
<1>6. ASSUME NEW s \in Slot, Set(t, s) PROVE LookupInv'
  <2>1. /\ rpc' = [rpc EXCEPT ![t][s] = "set"] /\ rpc[t][s] = "loaded"
        /\ StoreHazard(t, s, rp[t][s]) /\ UNCHANGED <<small_id, saved, rp, rcell>>
    BY <1>6 DEF Set, idVars
  <2>2. rp[t][s] \in Ptr /\ rcell[t][s] \in Cell /\ Attached(t)
    BY <1>a, <2>1 DEF Loaded
  <2>3. Loaded("set", rp[t][s], rcell[t][s])
    BY <2>2 DEF Loaded
  <2>4. rp' = [rp EXCEPT ![t][s] = rp[t][s]] /\ rcell' = [rcell EXCEPT ![t][s] = rcell[t][s]]
    BY <1>0, <2>1 DEF ReadType, PtrType, CellType
  <2> QED BY <1>r, <1>s, <2>1, <2>2, <2>3, <2>4
<1>7. ASSUME NEW s \in Slot, CheckSame(t, s) PROVE LookupInv'
  <2>1. /\ rpc' = [rpc EXCEPT ![t][s] = "use"] /\ rpc[t][s] = "set"
        /\ UNCHANGED <<small_id, saved, rp, rcell, buffer>>
    BY <1>7 DEF CheckSame, Use, idVars
  <2>2. rp[t][s] \in Ptr /\ rcell[t][s] \in Cell /\ Attached(t)
    BY <1>a, <2>1 DEF Loaded
  <2>3. Loaded("use", rp[t][s], rcell[t][s])
    BY <2>2 DEF Loaded
  <2>4. rp' = [rp EXCEPT ![t][s] = rp[t][s]] /\ rcell' = [rcell EXCEPT ![t][s] = rcell[t][s]]
    BY <1>0, <2>1 DEF ReadType, PtrType, CellType
  <2> QED BY <1>a, <1>r, <2>1, <2>2, <2>3, <2>4
<1>8. ASSUME NEW s \in Slot, CheckChanged(t, s) \/ Clear(t, s) PROVE LookupInv'
  <2>1. PICK pc \in {"retry", "idle"}, c \in {rcell[t][s], NULL} :
           /\ rpc' = [rpc EXCEPT ![t][s] = pc] /\ rcell' = [rcell EXCEPT ![t][s] = c]
           /\ rp' = [rp EXCEPT ![t][s] = NULL] /\ UNCHANGED <<small_id, saved>>
           /\ pc = "retry" => c = rcell[t][s]
           /\ StoreHazard(t, s, NULL)
    BY <1>8 DEF CheckChanged, Clear, SetReader, idVars
  <2>2. rcell[t][s] \in Cell /\ Attached(t)
    BY <1>a, <1>8 DEF CheckChanged, Clear, Loaded
  <2>3. Loaded(pc, NULL, c)
    BY <2>1, <2>2 DEF Loaded
  <2> QED BY <1>r, <1>s, <2>1, <2>2, <2>3
<1>9. ASSUME NEW s \in Slot, Reload(t, s) PROVE LookupInv'
  <2>1. /\ rpc' = [rpc EXCEPT ![t][s] = "loaded"]
        /\ rp' = [rp EXCEPT ![t][s] = Seen(rcell[t][s])]
        /\ rcell' = [rcell EXCEPT ![t][s] = rcell[t][s]]
        /\ UNCHANGED <<small_id, saved, buffer>>
    BY <1>9 DEF Reload, SetReader, idVars
  <2>2. rcell[t][s] \in Cell /\ Attached(t)
    BY <1>a, <1>9 DEF Reload, Loaded
  <2>3. Loaded("loaded", Seen(rcell[t][s]), rcell[t][s])
    BY <1>c, <2>2 DEF Loaded
  <2> QED BY <1>a, <1>r, <2>1, <2>2, <2>3
<1>10. CASE Drain(t)
  <2>1. /\ buffer' = [buffer EXCEPT ![t] = Tail(@)] /\ buffer[t] # <<>>
        /\ UNCHANGED <<small_id, rpc, rp, rcell, saved>>
    BY <1>10 DEF Drain, idVars
  <2>2. \A u \in Thread : u # t => buffer'[u] = buffer[u]
    BY <1>0, <2>1 DEF ReadType
  <2>3. L(t)'
    BY <1>a, <2>1 DEF Attached, InHandler
  <2> QED BY <1>b, <2>1, <2>2, <2>3
<1>11. CASE SignalEnter(t)
  <2>1. /\ saved' = [saved EXCEPT ![t] = <<rpc[t], rp[t], rcell[t]>>]
        /\ rpc' = [rpc EXCEPT ![t] = [s \in Slot |-> "idle"]]
        /\ rp' = [rp EXCEPT ![t] = [s \in Slot |-> NULL]]
        /\ rcell' = [rcell EXCEPT ![t] = [s \in Slot |-> NULL]]
        /\ UNCHANGED <<small_id, buffer>> /\ ~ReaderIdle(t)
    BY <1>11 DEF SignalEnter, idVars
  <2>2. \A u \in Thread : u # t => UNCHANGED <<rpc[u], rp[u], rcell[u], saved[u]>>
    BY <1>0, <2>1 DEF ReadType
  <2>3. saved'[t] = <<rpc[t], rp[t], rcell[t]>> /\ \A s \in Slot : rpc'[t][s] = "idle"
    BY <1>0, <2>1 DEF ReadType
  <2>4. Attached(t)
    <3>1. rpc[t] \in [Slot -> {"idle", "loaded", "set", "retry", "use"}]
      BY <1>0 DEF ReadType, PcType
    <3>2. PICK s \in Slot : rpc[t][s] # "idle"
      BY <2>1, <3>1 DEF ReaderIdle
    <3> QED BY <1>a, <3>2
  <2>5. \A s \in Slot : Loaded(rpc'[t][s], rp'[t][s], rcell'[t][s])
    BY <2>3 DEF Loaded
  <2>6. \A s \in Slot : Loaded(saved'[t][1][s], saved'[t][2][s], saved'[t][3][s])
    BY <1>a, <2>3
  <2>7. L(t)'
    BY <1>a, <2>1, <2>3, <2>4, <2>5, <2>6 DEF Attached, InHandler
  <2> QED BY <1>b, <2>1, <2>2, <2>7
<1>12. CASE SignalReturn(t)
  <2>1. /\ rpc' = [rpc EXCEPT ![t] = saved[t][1]]
        /\ rp' = [rp EXCEPT ![t] = saved[t][2]]
        /\ rcell' = [rcell EXCEPT ![t] = saved[t][3]]
        /\ saved' = [saved EXCEPT ![t] = <<>>]
        /\ UNCHANGED <<small_id, buffer>> /\ InHandler(t)
    BY <1>12 DEF SignalReturn, idVars
  <2>2. \A u \in Thread : u # t => UNCHANGED <<rpc[u], rp[u], rcell[u], saved[u]>>
    BY <1>0, <2>1 DEF ReadType
  <2>3. /\ rpc'[t] = saved[t][1] /\ rp'[t] = saved[t][2] /\ rcell'[t] = saved[t][3]
        /\ saved'[t] = <<>>
    BY <1>0, <2>1 DEF ReadType
  <2>4. Attached(t) /\ \A s \in Slot : Loaded(saved[t][1][s], saved[t][2][s], saved[t][3][s])
    BY <1>a, <2>1
  <2>5. L(t)'
    BY <1>a, <2>1, <2>3, <2>4 DEF Attached, InHandler
  <2> QED BY <1>b, <2>1, <2>2, <2>5
<1> QED BY <1>2, <1>3, <1>4, <1>5, <1>6, <1>7, <1>8, <1>9, <1>10, <1>11, <1>12
        DEF IdStep, ReadStep

\* A slot in use holds the pointer while the lookup is protected; a vacant one
\* is clear as soon as the stores to it have reached memory.
LEMMA ReadStepInv == IInv /\ Next => ReadInv'
<1> SUFFICES ASSUME IInv, NEW t \in Thread,
                    IdStep(t) \/ ReadStep(t) \/ WriteStep(t)
             PROVE  ReadInv'
  BY DEF Next
<1>0. IdType /\ ReadType /\ IdInv /\ LookupInv /\ ReadInv /\ NoStaleHazard
  BY DEF IInv, TypeOK
<1> DEFINE R(u, r) == /\ Protected(u, r) => Guarded(u, r)
                      /\ Vacant(u, r) => LastNull(u, r)
<1>a. \A u \in Thread, r \in Slot : R(u, r)
  BY <1>0 DEF ReadInv
<1>b. (\A u \in Thread, r \in Slot : R(u, r)') => ReadInv'
  BY DEF ReadInv
<1>k. ASSUME NEW u \in Thread, NEW r \in Slot,
             UNCHANGED <<small_id[u], rpc[u][r], rp[u][r], saved[u]>>,
             r \in exposed'[u] <=> r \in exposed[u],
             Attached(u) => /\ Guarded(u, r) => Guarded(u, r)'
                            /\ LastNull(u, r) => LastNull(u, r)'
      PROVE  R(u, r)'
  <2>1. Protected(u, r) => Attached(u)
    BY <1>0 DEF Protected, LookupInv
  <2>2. (Protected(u, r)' => Protected(u, r)) /\ (Vacant(u, r)' => Vacant(u, r))
    BY <1>k DEF Protected, Vacant, Attached, InHandler
  <2> QED BY <1>a, <1>k, <2>1, <2>2 DEF Vacant
<1>n. ASSUME NEW u \in Thread, NEW r \in Slot,
             UNCHANGED <<small_id[u], rp[u][r], buffer[u], hazard_table>>
      PROVE  /\ Guarded(u, r) => Guarded(u, r)'
             /\ LastNull(u, r) => LastNull(u, r)'
  BY <1>n DEF Guarded, LastNull
<1>1. CASE UNCHANGED <<small_id, hazard_table, rpc, rp, saved, buffer, exposed>>
  <2>1. ASSUME NEW u \in Thread, NEW r \in Slot PROVE R(u, r)'
    BY <1>k, <1>n, <1>1
  <2> QED BY <1>b, <2>1
<1>2. CASE SmallIdAlloc(t) \/ SmallIdGrow(t)
  <2>1. PICK id \in Id :
           /\ ~Attached(t)
           /\ \A u \in Thread : small_id[u] # id
           /\ small_id' = [small_id EXCEPT ![t] = id]
           /\ hazard_table' = hazard_table
           /\ UNCHANGED <<rpc, rp, saved, buffer, exposed>>
    BY <1>2, AttachFacts
  <2> SUFFICES ASSUME NEW u \in Thread, NEW r \in Slot PROVE R(u, r)'
    BY <1>b
  <2>2. CASE u = t
    <3>1. rpc[t][r] = "idle" /\ hazard_table[Pos(id, r)] = NULL /\ buffer[t] = <<>>
      BY <1>0, <2>1 DEF NoStaleHazard, LookupInv
    <3>2. small_id'[t] = id
      BY <1>0, <2>1 DEF IdType
    <3>3. LastNull(t, r)'
      BY <2>1, <3>1, <3>2 DEF LastNull, NoEntryAfter
    <3>4. ~Protected(t, r)'
      BY <2>1, <3>1 DEF Protected
    <3> QED BY <2>2, <3>3, <3>4
  <2>3. CASE u # t
    <3>1. small_id'[u] = small_id[u]
      BY <1>0, <2>1, <2>3 DEF IdType
    <3> QED BY <1>k, <1>n, <2>1, <3>1
  <2> QED BY <2>2, <2>3
<1>3. CASE SmallIdCopy(t) \/ WriteStep(t)
  BY <1>1, <1>3 DEF readVars, idVars, SmallIdCopy, WriteStep, Replace, DrainCell, TryFreeAll,
     TryItem, LockItem, ScanNext, KeepItem, TakeItem, FreeItem, OwnHazardous,
     AppendOwn, FreeOwn
<1>4. CASE SmallIdFree(t)
  <2>1. /\ small_id' = [small_id EXCEPT ![t] = -1]
        /\ UNCHANGED <<hazard_table, rpc, rp, saved, buffer, exposed>>
        /\ \A r \in Slot : rpc[t][r] = "idle"
    BY <1>4 DEF SmallIdFree, readVars, ReaderIdle
  <2> SUFFICES ASSUME NEW u \in Thread, NEW r \in Slot PROVE R(u, r)'
    BY <1>b
  <2>2. CASE u = t
    <3>1. ~Attached(t)' /\ ~Protected(t, r)'
      BY <1>0, <2>1 DEF IdType, Attached, Protected
    <3> QED BY <2>2, <3>1 DEF Vacant
  <2>3. CASE u # t
    <3>1. small_id'[u] = small_id[u]
      BY <1>0, <2>1, <2>3 DEF IdType
    <3> QED BY <1>k, <1>n, <2>1, <3>1
  <2> QED BY <2>2, <2>3
<1>c. ASSUME NEW s \in Slot, UNCHANGED <<small_id, saved>>,
             \A u \in Thread, r \in Slot : t # u \/ s # r =>
                 /\ UNCHANGED <<rpc[u][r], rp[u][r]>>
                 /\ r \in exposed'[u] <=> r \in exposed[u]
                 /\ Attached(u) => /\ Guarded(u, r) => Guarded(u, r)'
                                   /\ LastNull(u, r) => LastNull(u, r)',
             R(t, s)'
      PROVE  ReadInv'
  <2> SUFFICES ASSUME NEW u \in Thread, NEW r \in Slot, t # u \/ s # r PROVE R(u, r)'
    BY <1>b, <1>c
  <2> QED BY <1>c, <1>k
<1>e. ASSUME NEW s \in Slot, NEW pc, NEW p, NEW c, SetReader(t, s, pc, c, p)
      PROVE  /\ rpc'[t][s] = pc
             /\ \A u \in Thread, r \in Slot : t # u \/ s # r =>
                  /\ UNCHANGED <<rpc[u][r], rp[u][r]>>
                  /\ r \in exposed'[u] <=> r \in exposed[u]
  BY <1>0, <1>e DEF SetReader, ReadType, PcType, PtrType
<1>5. ASSUME NEW c \in Cell, Load(t, c) PROVE ReadInv'
  <2> DEFINE s == CellSlot[c]
  <2>1. /\ s \in Slot /\ SetReader(t, s, "loaded", c, Seen(c))
        /\ UNCHANGED <<hazard_table, small_id, saved, buffer>>
    BY <1>5, CellAssumption DEF Load, idVars
  <2> HIDE DEF s
  <2>2. /\ rpc'[t][s] = "loaded"
        /\ \A u \in Thread, r \in Slot : t # u \/ s # r =>
             /\ UNCHANGED <<rpc[u][r], rp[u][r]>>
             /\ r \in exposed'[u] <=> r \in exposed[u]
    BY <1>e, <2>1
  <2>3. R(t, s)'
    BY <2>2 DEF Protected, Vacant, Between
  <2> QED BY <1>c, <1>n, <2>1, <2>2, <2>3
<1>6. ASSUME NEW s \in Slot, Set(t, s) PROVE ReadInv'
  <2>1. /\ rpc' = [rpc EXCEPT ![t][s] = "set"] /\ rpc[t][s] = "loaded"
        /\ UNCHANGED <<rp, saved, exposed, small_id>>
        /\ StoreHazard(t, s, rp[t][s])
    BY <1>6 DEF Set, idVars
  <2>2. rp[t][s] \in Ptr /\ Attached(t)
    BY <1>0, <2>1 DEF LookupInv, Loaded
  <2>3. \A u \in Thread, r \in Slot : Attached(u) /\ (t # u \/ s # r) =>
                 /\ Guarded(u, r) => Guarded(u, r)'
                 /\ LastNull(u, r) => LastNull(u, r)'
    BY <2>1, <2>2, StoreKeeps
  <2>4. rpc'[t][s] = "set" /\ \A u \in Thread, r \in Slot : t # u \/ s # r => UNCHANGED rpc[u][r]
    BY <1>0, <2>1 DEF ReadType, PcType
  <2>5. R(t, s)'
    BY <2>4 DEF Protected, Vacant, Between
  <2> QED BY <1>c, <2>1, <2>3, <2>4, <2>5
<1>7. ASSUME NEW s \in Slot, CheckSame(t, s) PROVE ReadInv'
  <2>1. /\ rpc' = [rpc EXCEPT ![t][s] = "use"]
        /\ exposed' = [exposed EXCEPT ![t] = IF Guarded(t, s) /\ late[rcell[t][s]] = NULL
                                             THEN @ \ {s} ELSE @ \cup {s}]
        /\ UNCHANGED <<rp, small_id, saved, buffer, hazard_table>>
    BY <1>7 DEF CheckSame, Use, idVars
  <2>2. /\ rpc'[t][s] = "use"
        /\ \A u \in Thread, r \in Slot : t # u \/ s # r =>
             UNCHANGED rpc[u][r] /\ (r \in exposed'[u] <=> r \in exposed[u])
    BY <1>0, <2>1 DEF ReadType, PcType
  <2>3. s \notin exposed'[t] => Guarded(t, s)
    BY <1>0, <2>1 DEF ReadType
  <2>4. R(t, s)'
    BY <1>n, <2>1, <2>2, <2>3 DEF Protected, Vacant, Between
  <2> QED BY <1>c, <1>n, <2>1, <2>2, <2>4
<1>8. ASSUME NEW s \in Slot, CheckChanged(t, s) \/ Clear(t, s) PROVE ReadInv'
  <2>0. Attached(t)
    BY <1>0, <1>8 DEF CheckChanged, Clear, LookupInv
  <2>1. PICK pc \in {"retry", "idle"}, c \in {rcell[t][s], NULL} :
           /\ SetReader(t, s, pc, c, NULL) /\ UNCHANGED <<small_id, saved>>
           /\ StoreHazard(t, s, NULL)
    BY <1>8 DEF CheckChanged, Clear, idVars
  <2>2. /\ rpc'[t][s] = pc
        /\ \A u \in Thread, r \in Slot : t # u \/ s # r =>
             /\ UNCHANGED <<rpc[u][r], rp[u][r]>>
             /\ r \in exposed'[u] <=> r \in exposed[u]
    BY <1>e, <2>1
  <2>3. /\ \A u \in Thread, r \in Slot : Attached(u) /\ (t # u \/ s # r) =>
                 /\ Guarded(u, r) /\ rp'[u][r] = rp[u][r] => Guarded(u, r)'
                 /\ LastNull(u, r) => LastNull(u, r)'
        /\ LastNull(t, s)'
    BY <2>0, <2>1, StoreKeeps
  <2>4. R(t, s)'
    BY <2>2, <2>3 DEF Protected
  <2> QED BY <1>c, <2>1, <2>2, <2>3, <2>4
<1>9. ASSUME NEW s \in Slot, Reload(t, s) PROVE ReadInv'
  <2>1. /\ SetReader(t, s, "loaded", rcell[t][s], Seen(rcell[t][s]))
        /\ UNCHANGED <<hazard_table, small_id, saved, buffer>>
    BY <1>9 DEF Reload, idVars
  <2>2. /\ rpc'[t][s] = "loaded"
        /\ \A u \in Thread, r \in Slot : t # u \/ s # r =>
             /\ UNCHANGED <<rpc[u][r], rp[u][r]>>
             /\ r \in exposed'[u] <=> r \in exposed[u]
    BY <1>e, <2>1
  <2>3. R(t, s)'
    BY <2>2 DEF Protected, Vacant, Between
  <2> QED BY <1>c, <1>n, <2>1, <2>2, <2>3
<1>10. CASE Drain(t)
  <2>1. UNCHANGED <<small_id, rpc, rp, saved, exposed>>
    BY <1>10 DEF Drain, idVars
  <2>2. \A u \in Thread, r \in Slot : Attached(u) => /\ Guarded(u, r) => Guarded(u, r)'
                                                     /\ LastNull(u, r) => LastNull(u, r)'
    BY <1>10, DrainKeeps
  <2>3. ASSUME NEW u \in Thread, NEW r \in Slot PROVE R(u, r)'
    BY <1>k, <2>1, <2>2
  <2> QED BY <1>b, <2>3
<1>i. ASSUME \A u \in Thread : u # t => UNCHANGED <<rpc[u], rp[u], saved[u], exposed[u]>>,
             UNCHANGED <<small_id, buffer, hazard_table>>,
             \A r \in Slot : R(t, r)'
      PROVE  ReadInv'
  <2>1. ASSUME NEW u \in Thread, NEW r \in Slot, u # t PROVE R(u, r)'
    BY <1>k, <1>n, <1>i, <2>1
  <2> QED BY <1>b, <1>i, <2>1
<1>11. CASE SignalEnter(t)
  <2>1. /\ saved' = [saved EXCEPT ![t] = <<rpc[t], rp[t], rcell[t]>>]
        /\ rpc' = [rpc EXCEPT ![t] = [s \in Slot |-> "idle"]]
        /\ rp' = [rp EXCEPT ![t] = [s \in Slot |-> NULL]]
        /\ exposed' = [exposed EXCEPT ![t] = {}]
        /\ UNCHANGED <<small_id, buffer, hazard_table>> /\ ~InHandler(t)
    BY <1>11 DEF SignalEnter, idVars
  <2>2. \A u \in Thread : u # t => UNCHANGED <<rpc[u], rp[u], saved[u], exposed[u]>>
    BY <1>0, <2>1 DEF ReadType
  <2>3. saved'[t] = <<rpc[t], rp[t], rcell[t]>> /\ \A r \in Slot : rpc'[t][r] = "idle"
    BY <1>0, <2>1 DEF ReadType
  <2>4. ASSUME NEW r \in Slot PROVE R(t, r)'
    <3>1. ~Protected(t, r)'
      BY <2>3 DEF Protected
    <3>2. Vacant(t, r)' => Vacant(t, r)
      BY <2>1, <2>3 DEF Vacant, InHandler, Attached
    <3>3. LastNull(t, r) => LastNull(t, r)'
      BY <2>1 DEF LastNull
    <3> QED BY <1>a, <3>1, <3>2, <3>3
  <2> QED BY <1>i, <2>1, <2>2, <2>4
<1>12. CASE SignalReturn(t)
  <2>1. /\ rpc' = [rpc EXCEPT ![t] = saved[t][1]]
        /\ rp' = [rp EXCEPT ![t] = saved[t][2]]
        /\ saved' = [saved EXCEPT ![t] = <<>>]
        /\ exposed' = [exposed EXCEPT ![t] = {s \in Slot : saved[t][1][s] = "use"}]
        /\ UNCHANGED <<small_id, buffer, hazard_table>> /\ InHandler(t)
        /\ \A r \in Slot : rpc[t][r] = "idle"
    BY <1>12 DEF SignalReturn, ReaderIdle, idVars
  <2>2. \A u \in Thread : u # t => UNCHANGED <<rpc[u], rp[u], saved[u], exposed[u]>>
    BY <1>0, <2>1 DEF ReadType
  <2>3. /\ rpc'[t] = saved[t][1] /\ saved'[t] = <<>>
        /\ exposed'[t] = {s \in Slot : saved[t][1][s] = "use"}
    BY <1>0, <2>1 DEF ReadType
  <2>4. ASSUME NEW r \in Slot PROVE R(t, r)'
    <3>1. ~Protected(t, r)'
      BY <2>3 DEF Protected
    <3>2. Vacant(t, r)' => Vacant(t, r)
      BY <2>1, <2>3 DEF Vacant, Between, InHandler, Attached
    <3>3. LastNull(t, r) => LastNull(t, r)'
      BY <2>1 DEF LastNull
    <3> QED BY <1>a, <3>1, <3>2, <3>3
  <2> QED BY <1>i, <2>1, <2>2, <2>4
<1> QED BY <1>2, <1>3, <1>4, <1>5, <1>6, <1>7, <1>8, <1>9, <1>10, <1>11, <1>12
        DEF IdStep, ReadStep

\* A lookup can only become protected with a block that is in a cell.
LEMMA NewUseIsLinked ==
    ASSUME IInv, NEW t \in Thread, ReadStep(t)
    PROVE  /\ UNCHANGED <<idVars, writeVars, delayVars, heapVars>>
           /\ \A u \in Thread, r \in Slot : Protected(u, r)' =>
                 \/ Protected(u, r) /\ rp'[u][r] = rp[u][r]
                 \/ heap[rp'[u][r]] = "linked"
<1>0. ReadType /\ HeapInv /\ LookupInv
  BY DEF IInv, TypeOK
<1> DEFINE G == \A u \in Thread, r \in Slot : Protected(u, r)' =>
                 \/ Protected(u, r) /\ rp'[u][r] = rp[u][r]
                 \/ heap[rp'[u][r]] = "linked"
<1>r. /\ rpc \in [Thread -> PcType] /\ rp \in [Thread -> PtrType]
      /\ exposed \in [Thread -> SUBSET Slot]
  BY <1>0 DEF ReadType
<1>1. UNCHANGED <<idVars, writeVars, delayVars, heapVars>>
  BY DEF ReadStep, Load, Set, CheckSame, CheckChanged, Reload, Clear, Drain,
         SignalEnter, SignalReturn
<1>e. ASSUME NEW s \in Slot, NEW pc \in {"idle", "loaded", "retry"}, NEW p, NEW c,
             SetReader(t, s, pc, c, p)
      PROVE  G
  <2>1. /\ rpc'[t][s] # "use"
        /\ \A u \in Thread, r \in Slot : t # u \/ s # r =>
             /\ UNCHANGED <<rpc[u][r], rp[u][r]>>
             /\ r \in exposed'[u] <=> r \in exposed[u]
    BY <1>0, <1>e DEF SetReader, ReadType, PcType, PtrType
  <2> QED BY <2>1 DEF Protected
<1>2. ASSUME NEW c \in Cell, Load(t, c) PROVE G
  BY <1>e, <1>2, CellAssumption DEF Load
<1>3. ASSUME NEW s \in Slot, Set(t, s) PROVE G
  <2>1. rpc' = [rpc EXCEPT ![t][s] = "set"] /\ UNCHANGED <<rp, exposed>>
    BY <1>3 DEF Set
  <2>2. rpc'[t][s] = "set" /\ \A u \in Thread, r \in Slot : t # u \/ s # r => UNCHANGED rpc[u][r]
    BY <1>0, <2>1 DEF ReadType, PcType
  <2> QED BY <2>1, <2>2 DEF Protected
<1>4. ASSUME NEW s \in Slot, CheckSame(t, s) PROVE G
  <2>1. /\ rpc' = [rpc EXCEPT ![t][s] = "use"] /\ UNCHANGED rp
        /\ exposed' = [exposed EXCEPT ![t] = IF Guarded(t, s) /\ late[rcell[t][s]] = NULL
                                             THEN @ \ {s} ELSE @ \cup {s}]
        /\ rpc[t][s] = "set" /\ Seen(rcell[t][s]) = rp[t][s]
    BY <1>4 DEF CheckSame, Use
  <2>2. \A u \in Thread, r \in Slot : t # u \/ s # r =>
             UNCHANGED rpc[u][r] /\ (r \in exposed'[u] <=> r \in exposed[u])
    BY <1>0, <2>1 DEF ReadType, PcType
  <2>3. s \notin exposed'[t] => late[rcell[t][s]] = NULL
    BY <1>0, <2>1 DEF ReadType
  <2>4. rcell[t][s] \in Cell
    BY <1>0, <2>1 DEF LookupInv, Loaded
  <2>5. s \notin exposed'[t] => heap[rp'[t][s]] = "linked"
    BY <1>0, <2>1, <2>3, <2>4 DEF Seen, HeapInv
  <2> QED BY <2>1, <2>2, <2>5 DEF Protected
<1>5. ASSUME NEW s \in Slot, CheckChanged(t, s) PROVE G
  BY <1>e, <1>5 DEF CheckChanged
<1>6. ASSUME NEW s \in Slot, Reload(t, s) PROVE G
  BY <1>e, <1>6 DEF Reload
<1>7. ASSUME NEW s \in Slot, Clear(t, s) PROVE G
  BY <1>e, <1>7 DEF Clear
<1>8. CASE Drain(t)
  BY <1>8 DEF Drain, Protected
<1>9. CASE SignalEnter(t)
  <2>1. /\ rpc' = [rpc EXCEPT ![t] = [s \in Slot |-> "idle"]]
        /\ rp' = [rp EXCEPT ![t] = [s \in Slot |-> NULL]]
        /\ exposed' = [exposed EXCEPT ![t] = {}]
    BY <1>9 DEF SignalEnter
  <2>2. rpc'[t] = [s \in Slot |-> "idle"]
    BY <1>r, <2>1
  <2>3. \A r \in Slot : rpc'[t][r] = "idle"
    BY <2>2
  <2>4. \A u \in Thread : u # t => rpc'[u] = rpc[u]
    BY <1>r, <2>1
  <2>5. \A u \in Thread : u # t => rp'[u] = rp[u]
    BY <1>r, <2>1
  <2>6. \A u \in Thread, r \in Slot : u # t => (r \in exposed'[u] <=> r \in exposed[u])
    BY <1>r, <2>1
  <2> QED BY <1>1, <2>3, <2>4, <2>5, <2>6 DEF Protected
<1>10. CASE SignalReturn(t)
  <2>1. /\ rpc' = [rpc EXCEPT ![t] = saved[t][1]]
        /\ rp' = [rp EXCEPT ![t] = saved[t][2]]
        /\ exposed' = [exposed EXCEPT ![t] = {s \in Slot : saved[t][1][s] = "use"}]
    BY <1>10 DEF SignalReturn
  <2>2. rpc'[t] = saved[t][1] /\ exposed'[t] = {s \in Slot : saved[t][1][s] = "use"}
    BY <1>r, <2>1
  <2>3. \A r \in Slot : rpc'[t][r] = "use" => r \in exposed'[t]
    BY <2>2
  <2>4. \A u \in Thread : u # t => rpc'[u] = rpc[u]
    BY <1>r, <2>1
  <2>5. \A u \in Thread : u # t => rp'[u] = rp[u]
    BY <1>r, <2>1
  <2>6. \A u \in Thread, r \in Slot : u # t => (r \in exposed'[u] <=> r \in exposed[u])
    BY <1>r, <2>1
  <2> QED BY <1>1, <2>3, <2>4, <2>5, <2>6 DEF Protected
<1> QED BY <1>1, <1>2, <1>3, <1>4, <1>5, <1>6, <1>7, <1>8, <1>9, <1>10 DEF ReadStep

\* The block a scan is about is retired.
LEMMA TargetRetired ==
    ASSUME IInv, NEW w \in Thread, wpc[w] \in {"scanItem", "scanOwn"}
    PROVE  heap[Target(w)] = "retired" /\ Target(w) \in Ptr
<1>0. OwnInv /\ DelayedInv /\ WriteType /\ DelayType
  BY DEF IInv, TypeOK
<1>1. CASE wpc[w] = "scanItem"
  BY <1>0, <1>1 DEF Target, DelayedInv, DelayType
<1>2. CASE wpc[w] = "scanOwn"
  BY <1>0, <1>2 DEF Target, OwnInv, WriteType
<1> QED BY <1>1, <1>2

\* When a scan has seen every word, no protected reader uses the block.
LEMMA DoneMeansUnused ==
    ASSUME IInv, NEW w \in Thread, wpc[w] \in {"scanItem", "scanOwn"}, ScanDone(w),
           NEW t \in Thread, NEW s \in Slot, Protected(t, s)
    PROVE  rp[t][s] # Target(w)
<1>0. IdType /\ WriteType /\ ScanInv
  BY DEF IInv, TypeOK
<1> SUFFICES ASSUME rp[t][s] = Target(w) PROVE FALSE
  OBVIOUS
<1>1. /\ Pos(small_id[t], s) >= scan[w]
      /\ small_id[t] <= scan_highest[w]
  BY <1>0 DEF ScanInv
<1>2. small_id[t] \in Int /\ scan_highest[w] \in Int /\ scan[w] = 2 * (scan_highest[w] + 1)
  BY <1>0 DEF IdType, WriteType, ScanDone
<1> QED BY <1>1, <1>2 DEF Pos, Slot

\* Readers that use the block a scan is about stay ahead of the scan.
LEMMA ScanStepInv == IInv /\ Next => ScanInv'
<1> SUFFICES ASSUME IInv, NEW t \in Thread,
                    IdStep(t) \/ ReadStep(t) \/ WriteStep(t)
             PROVE  ScanInv'
  BY DEF Next
<1>0. /\ IdType /\ ReadType /\ WriteType /\ HeapType /\ IdInv /\ ReadInv /\ ItemInv /\ OwnInv
      /\ DelayedInv /\ ScanInv /\ LookupInv
  BY DEF IInv, TypeOK
<1> DEFINE A(w) == scan[w] <= 2 * (scan_highest[w] + 1) /\ scan_highest[w] <= highest_small_id
           B(w) == wpc[w] \in {"scanItem", "scanOwn"} =>
                     \A u \in Thread, r \in Slot :
                        Protected(u, r) /\ rp[u][r] = Target(w) =>
                           /\ Pos(small_id[u], r) >= scan[w]
                           /\ small_id[u] <= scan_highest[w]
           C(w) == wpc[w] = "freeItem" =>
                     \A u \in Thread, r \in Slot : Protected(u, r) => rp[u][r] # witem[w]
<1>a. \A w \in Thread : A(w) /\ B(w) /\ C(w)
  BY <1>0 DEF ScanInv
<1>b. (\A w \in Thread : A(w)' /\ B(w)' /\ C(w)') => ScanInv'
  BY DEF ScanInv
<1>1. CASE SmallIdAlloc(t) \/ SmallIdGrow(t)
  <2>1. PICK id \in Id :
           /\ ~Attached(t)
           /\ small_id' = [small_id EXCEPT ![t] = id]
           /\ highest_small_id' = IF id > highest_small_id THEN id ELSE highest_small_id
           /\ UNCHANGED <<rpc, rp, exposed, writeVars>>
    BY <1>1, AttachFacts
  <2>2. \A u \in Thread, r \in Slot : Protected(u, r) => small_id'[u] = small_id[u]
    BY <1>0, <2>1 DEF Protected, LookupInv, IdType
  <2>3. highest_small_id' \in Int /\ highest_small_id' >= highest_small_id
    BY <1>0, <2>1 DEF IdType, Id
  <2>4. ASSUME NEW w \in Thread PROVE A(w)'
    BY <1>0, <1>a, <2>1, <2>3 DEF writeVars, WriteType, IdType
  <2>5. ASSUME NEW w \in Thread PROVE B(w)' /\ C(w)'
    BY <1>a, <2>1, <2>2 DEF writeVars, Target, Protected
  <2> QED BY <1>b, <2>4, <2>5
<1>2. CASE SmallIdCopy(t) \/ SmallIdFree(t)
  <2>1. /\ \A u \in Thread, r \in Slot : Protected(u, r) => small_id'[u] = small_id[u]
        /\ UNCHANGED <<rpc, rp, exposed, writeVars, highest_small_id>>
    BY <1>0, <1>2 DEF SmallIdCopy, SmallIdFree, readVars, ReaderIdle, IdType, Protected
  <2> QED BY <1>a, <1>b, <2>1 DEF writeVars, Target, Protected
<1>3. CASE ReadStep(t)
  <2>1. /\ UNCHANGED <<idVars, writeVars, heapVars>>
        /\ \A u \in Thread, r \in Slot : Protected(u, r)' =>
                 \/ Protected(u, r) /\ rp'[u][r] = rp[u][r]
                 \/ heap[rp'[u][r]] = "linked"
    BY <1>3, NewUseIsLinked
  <2>2. ASSUME NEW w \in Thread PROVE A(w)' /\ B(w)' /\ C(w)'
    <3>1. A(w)'
      BY <1>a, <2>1 DEF idVars, writeVars
    <3>2. wpc[w] \in {"scanItem", "scanOwn"} => heap[Target(w)] = "retired"
      BY TargetRetired
    <3>3. UNCHANGED <<wpc, Target(w), scan, scan_highest, small_id, witem>>
      BY <2>1 DEF idVars, writeVars, Target
    <3>4. B(w)'
      BY <1>a, <2>1, <3>2, <3>3
    <3>5. C(w)'
      BY <1>0, <1>a, <2>1, <3>3 DEF ItemInv
    <3> QED BY <3>1, <3>4, <3>5
  <2> QED BY <1>b, <2>2
<1>4. CASE WriteStep(t)
  <2>0. UNCHANGED <<rpc, rp, exposed, small_id, highest_small_id>>
    BY <1>4 DEF WriteStep, readVars, idVars, Replace, DrainCell, TryFreeAll, TryItem, LockItem,
       ScanNext, KeepItem, TakeItem, FreeItem, OwnHazardous, AppendOwn, FreeOwn
  <2>s. ASSUME \A w \in Thread : w # t =>
                  UNCHANGED <<wpc[w], wp[w], witem[w], scan[w], scan_highest[w]>>,
               A(t)', B(t)', C(t)'
        PROVE  ScanInv'
    BY <1>a, <1>b, <2>0, <2>s DEF Target, Protected
  <2>e. EndScan(t) => /\ \A w \in Thread : w # t => UNCHANGED <<scan[w], scan_highest[w]>>
                      /\ A(t)'
    BY <1>0, <2>0 DEF EndScan, WriteType, IdType
  <2>f. StartScan(t) => /\ \A w \in Thread : w # t => UNCHANGED <<scan[w], scan_highest[w]>>
                        /\ A(t)' /\ B(t)'
    <3> SUFFICES ASSUME StartScan(t)
                 PROVE  /\ \A w \in Thread : w # t => UNCHANGED <<scan[w], scan_highest[w]>>
                        /\ A(t)' /\ B(t)'
      OBVIOUS
    <3>1. scan'[t] = 0 /\ scan_highest'[t] = highest_small_id
          /\ \A w \in Thread : w # t => UNCHANGED <<scan[w], scan_highest[w]>>
      BY <1>0 DEF StartScan, WriteType
    <3>2. A(t)'
      BY <1>0, <2>0, <3>1 DEF IdType
    <3>3. \A u \in Thread, r \in Slot : Protected(u, r) =>
             Pos(small_id[u], r) >= 0 /\ small_id[u] <= highest_small_id
      BY <1>0 DEF Protected, LookupInv, IdInv, IdType, Attached, Pos, Slot
    <3> QED BY <2>0, <3>1, <3>2, <3>3 DEF Protected
  <2>n. NextIndex(t) /\ UNCHANGED wp => ScanInv'
    <3> SUFFICES ASSUME NextIndex(t), UNCHANGED wp PROVE ScanInv'
      OBVIOUS
    <3>1. /\ wpc'[t] \in {"try", "idle", "scanOwn"}
          /\ \A u \in Thread : u # t => wpc'[u] = wpc[u] /\ witem'[u] = witem[u]
      BY <1>0, OthersKeep
    <3>2. IF wpc'[t] = "scanOwn" THEN StartScan(t) ELSE EndScan(t)
      BY <1>0, NextIndexFacts
    <3> QED BY <2>e, <2>f, <2>s, <3>1, <3>2
  <2>1. ASSUME NEW c \in Cell, Replace(t, c) PROVE ScanInv'
    <3>1. /\ wp' = [wp EXCEPT ![t] = cell[c]] /\ wpc' = [wpc EXCEPT ![t] = "try"]
          /\ UNCHANGED <<witem, scan, scan_highest>>
      BY <2>1 DEF Replace
    <3>2. A(t)' BY <1>a, <2>0, <3>1
    <3> QED BY <1>0, <2>s, <3>1, <3>2 DEF WriteType
  <2>2. CASE TryFreeAll(t)
    <3>1. /\ wpc' = [wpc EXCEPT ![t] = "try"] /\ UNCHANGED <<wp, witem, scan, scan_highest>>
      BY <2>2 DEF TryFreeAll
    <3>2. A(t)' BY <1>a, <2>0, <3>1
    <3> QED BY <1>0, <2>s, <3>1, <3>2 DEF WriteType
  <2>3. CASE TryItem(t)
    <3>1. CASE Len(delayed_free_table) > widx[t]
      <4>1. /\ wpc' = [wpc EXCEPT ![t] = "lock"] /\ UNCHANGED <<wp, witem, scan, scan_highest>>
        BY <2>3, <3>1 DEF TryItem
      <4>2. A(t)' BY <1>a, <2>0, <4>1
      <4> QED BY <1>0, <2>s, <4>1, <4>2 DEF WriteType
    <3> QED BY <2>n, <2>3, <3>1 DEF TryItem
  <2>4. CASE LockItem(t)
    <3>1. CASE Len(delayed_free_table) > widx[t]
      <4>1. /\ wpc' = [wpc EXCEPT ![t] = "scanItem"] /\ UNCHANGED wp /\ StartScan(t)
            /\ witem' = [witem EXCEPT ![t] = delayed_free_table[widx[t] + 1]]
        BY <2>4, <3>1 DEF LockItem
      <4>2. /\ \A w \in Thread : w # t => UNCHANGED <<scan[w], scan_highest[w]>>
            /\ A(t)' /\ B(t)'
        BY <2>f, <4>1
      <4>3. /\ \A w \in Thread : w # t => UNCHANGED <<wpc[w], wp[w], witem[w]>>
            /\ wpc'[t] = "scanItem"
        BY <1>0, <4>1 DEF WriteType
      <4> QED BY <2>s, <4>2, <4>3
    <3> QED BY <2>n, <2>4, <3>1 DEF LockItem
  <2>5. CASE ScanNext(t)
    <3>1. /\ wpc[t] \in {"scanItem", "scanOwn"} /\ ~ScanDone(t) /\ ~ScanHit(t)
          /\ scan' = [scan EXCEPT ![t] = scan[t] + 1]
          /\ UNCHANGED <<wpc, wp, witem, scan_highest>>
      BY <2>5 DEF ScanNext
    <3>2. scan[t] \in Int /\ scan_highest[t] \in Int /\ scan'[t] = scan[t] + 1
      BY <1>0, <3>1 DEF WriteType
    <3>3. A(t)'
      BY <1>0, <1>a, <2>0, <3>1, <3>2 DEF ScanDone, IdType
    <3>4. ASSUME NEW u \in Thread, NEW r \in Slot, Protected(u, r), rp[u][r] = Target(t)
          PROVE  Pos(small_id[u], r) >= scan[t] + 1 /\ small_id[u] <= scan_highest[t]
      <4>1. Pos(small_id[u], r) >= scan[t] /\ small_id[u] <= scan_highest[t]
        BY <1>a, <3>1, <3>4
      <4>2. hazard_table[Pos(small_id[u], r)] = Target(t)
        BY <1>0, <3>4 DEF ReadInv, Guarded
      <4>3. Pos(small_id[u], r) # scan[t]
        BY <3>1, <4>2 DEF ScanHit
      <4>4. Pos(small_id[u], r) \in Int
        BY <1>0 DEF IdType, Pos, Slot
      <4> QED BY <3>2, <4>1, <4>3, <4>4
    <3>5. B(t)'
      BY <2>0, <3>1, <3>2, <3>4 DEF Target, Protected
    <3>6. C(t)'
      BY <3>1
    <3>7. \A w \in Thread : w # t =>
             UNCHANGED <<wpc[w], wp[w], witem[w], scan[w], scan_highest[w]>>
      BY <1>0, <3>1 DEF WriteType
    <3> QED BY <2>s, <3>3, <3>5, <3>6, <3>7
  <2>6. CASE KeepItem(t)
    BY <2>n, <2>6 DEF KeepItem
  <2>7. CASE TakeItem(t)
    <3>1. /\ wpc' = [wpc EXCEPT ![t] = "freeItem"] /\ EndScan(t) /\ UNCHANGED <<wp, witem>>
          /\ wpc[t] = "scanItem" /\ ScanDone(t)
      BY <2>7 DEF TakeItem
    <3>2. \A u \in Thread, r \in Slot : Protected(u, r) => rp[u][r] # witem[t]
      BY <3>1, DoneMeansUnused DEF Target
    <3>3. wpc'[t] = "freeItem" /\ \A w \in Thread : w # t => wpc'[w] = wpc[w]
      BY <1>0, <3>1 DEF WriteType
    <3> QED BY <2>0, <2>e, <2>s, <3>1, <3>2, <3>3 DEF Protected
  <2>8. CASE FreeItem(t)
    BY <2>n, <2>8 DEF FreeItem
  <2>9. CASE OwnHazardous(t)
    <3>1. /\ wpc' = [wpc EXCEPT ![t] = "append"] /\ EndScan(t) /\ UNCHANGED <<wp, witem>>
      BY <2>9 DEF OwnHazardous
    <3>2. wpc'[t] = "append" /\ \A w \in Thread : w # t => wpc'[w] = wpc[w]
      BY <1>0, <3>1 DEF WriteType
    <3> QED BY <2>e, <2>s, <3>1, <3>2
  <2>10. CASE AppendOwn(t) \/ FreeOwn(t)
    <3>1. /\ wpc' = [wpc EXCEPT ![t] = "idle"] /\ wp' = [wp EXCEPT ![t] = NULL]
          /\ EndScan(t) /\ UNCHANGED witem
      BY <2>10 DEF AppendOwn, FreeOwn, Finish
    <3>2. wpc'[t] = "idle" /\ \A w \in Thread : w # t => wpc'[w] = wpc[w] /\ wp'[w] = wp[w]
      BY <1>0, <3>1 DEF WriteType
    <3> QED BY <2>e, <2>s, <3>1, <3>2
  <2>11. CASE DrainCell(t)
    <3>1. UNCHANGED writeVars
      BY <2>11 DEF DrainCell
    <3> QED BY <1>a, <1>b, <2>0, <3>1 DEF writeVars, Target, Protected
  <2> QED BY <1>4, <2>1, <2>2, <2>3, <2>4, <2>5, <2>6, <2>7, <2>8, <2>9, <2>10, <2>11
          DEF WriteStep
<1> QED BY <1>1, <1>2, <1>3, <1>4 DEF IdStep

\* No step frees a block that a reader uses.
LEMMA UseStepInv == IInv /\ Next => ProtectedNotFreed'
<1> SUFFICES ASSUME IInv, NEW t \in Thread,
                    IdStep(t) \/ ReadStep(t) \/ WriteStep(t)
             PROVE  ProtectedNotFreed'
  BY DEF Next
<1>0. /\ HeapType /\ ReadType /\ WriteType /\ ProtectedNotFreed
      /\ ScanInv /\ LookupInv
  BY DEF IInv, TypeOK
<1>a. \A u \in Thread, r \in Slot : Protected(u, r) => heap[rp[u][r]] # "free"
  BY <1>0 DEF ProtectedNotFreed
<1>b. (\A u \in Thread, r \in Slot : Protected(u, r)' => heap'[rp'[u][r]] # "free")
          => ProtectedNotFreed'
  BY DEF ProtectedNotFreed
<1>1. CASE UNCHANGED <<rpc, rp, exposed, heap>>
  BY <1>a, <1>b, <1>1 DEF Protected
<1>2. CASE SmallIdAlloc(t) \/ SmallIdGrow(t)
  <2>1. UNCHANGED <<rpc, rp, exposed, heapVars>>
    BY <1>2, AttachFacts
  <2> QED BY <1>1, <2>1 DEF heapVars
<1>3. CASE SmallIdCopy(t) \/ SmallIdFree(t)
  BY <1>1, <1>3 DEF SmallIdCopy, SmallIdFree, readVars, heapVars
<1>4. CASE ReadStep(t)
  <2>1. /\ UNCHANGED heapVars
        /\ \A u \in Thread, r \in Slot : Protected(u, r)' =>
                 \/ Protected(u, r) /\ rp'[u][r] = rp[u][r]
                 \/ heap[rp'[u][r]] = "linked"
    BY <1>4, NewUseIsLinked
  <2> QED BY <1>a, <1>b, <2>1 DEF heapVars
<1>5. ASSUME NEW c \in Cell, Replace(t, c) PROVE ProtectedNotFreed'
  <2>1. PICK q \in Ptr : heap' = [heap EXCEPT ![q] = "linked", ![cell[c]] = "retired"]
    BY <1>5 DEF Replace
  <2>2. \A p \in Ptr : heap'[p] = "free" => heap[p] = "free"
    BY <1>0, <2>1 DEF HeapType
  <2>3. UNCHANGED <<rpc, rp, exposed>>
    BY <1>5 DEF Replace, readVars
  <2>4. \A u \in Thread, r \in Slot : Protected(u, r) => rp[u][r] \in Ptr
    BY <1>0 DEF Protected, LookupInv, Loaded
  <2> QED BY <1>a, <1>b, <2>2, <2>3, <2>4 DEF Protected
<1>6. CASE FreeItem(t)
  <2>1. /\ heap' = [heap EXCEPT ![witem[t]] = "free"] /\ UNCHANGED <<rpc, rp, exposed>>
        /\ \A u \in Thread, r \in Slot : Protected(u, r) => rp[u][r] # witem[t]
    BY <1>0, <1>6 DEF FreeItem, readVars, ScanInv
  <2> QED BY <1>0, <1>a, <1>b, <2>1 DEF HeapType, Protected, LookupInv, Loaded
<1>7. CASE FreeOwn(t)
  <2>1. /\ heap' = [heap EXCEPT ![wp[t]] = "free"] /\ UNCHANGED <<rpc, rp, exposed>>
        /\ wpc[t] = "scanOwn" /\ ScanDone(t)
    BY <1>7 DEF FreeOwn, readVars
  <2>2. \A u \in Thread, r \in Slot : Protected(u, r) => rp[u][r] # wp[t]
    BY <2>1, DoneMeansUnused DEF Target
  <2> QED BY <1>0, <1>a, <1>b, <2>1, <2>2 DEF HeapType, Protected, LookupInv, Loaded
<1>8. CASE WriteStep(t) /\ ~FreeItem(t) /\ ~FreeOwn(t) /\ ~\E c \in Cell : Replace(t, c)
  BY <1>1, <1>8 DEF WriteStep, readVars, heapVars, DrainCell, TryFreeAll, TryItem, LockItem,
     ScanNext, KeepItem, TakeItem, OwnHazardous, AppendOwn
<1> QED BY <1>2, <1>3, <1>4, <1>5, <1>6, <1>7, <1>8 DEF IdStep

\* The slots of an id are clear when its thread gives it up.
LEMMA StaleStepInv == IInv /\ Next => NoStaleHazard'
<1> SUFFICES ASSUME IInv, NEW t \in Thread,
                    IdStep(t) \/ ReadStep(t) \/ WriteStep(t)
             PROVE  NoStaleHazard'
  BY DEF Next
<1>0. IdType /\ ReadType /\ ReadInv /\ LookupInv /\ NoStaleHazard
  BY DEF IInv, TypeOK
<1>1. CASE UNCHANGED <<small_id, hazard_table>>
  BY <1>0, <1>1 DEF NoStaleHazard
<1>2. CASE SmallIdAlloc(t) \/ SmallIdGrow(t)
  <2>1. PICK id \in Id : ~Attached(t) /\ small_id' = [small_id EXCEPT ![t] = id]
                         /\ hazard_table' = hazard_table
    BY <1>2, AttachFacts
  <2>2. \A i \in Id : (\A u \in Thread : small_id'[u] # i) => \A u \in Thread : small_id[u] # i
    BY <1>0, <2>1 DEF IdType, Id, Attached
  <2> QED BY <1>0, <2>1, <2>2 DEF NoStaleHazard
<1>3. CASE SmallIdFree(t)
  <2>1. /\ small_id' = [small_id EXCEPT ![t] = -1] /\ hazard_table' = hazard_table
        /\ Attached(t) /\ ~InHandler(t) /\ buffer[t] = <<>>
        /\ \A s \in Slot : rpc[t][s] = "idle"
    BY <1>3 DEF SmallIdFree, readVars, ReaderIdle
  <2>2. \A s \in Slot : hazard_table[Pos(small_id[t], s)] = NULL
    BY <1>0, <2>1 DEF ReadInv, Vacant, Between, LastNull
  <2> SUFFICES ASSUME NEW id \in Id, \A u \in Thread : small_id'[u] # id, NEW s \in Slot
               PROVE  hazard_table[Pos(id, s)] = NULL
    BY <2>1 DEF NoStaleHazard
  <2>3. CASE id = small_id[t]
    BY <2>2, <2>3
  <2>4. CASE id # small_id[t]
    <3>1. \A u \in Thread : small_id[u] # id
      BY <1>0, <2>1, <2>4 DEF IdType
    <3> QED BY <1>0, <3>1 DEF NoStaleHazard
  <2> QED BY <2>3, <2>4
<1>4. CASE SmallIdCopy(t) \/ WriteStep(t)
  BY <1>1, <1>4 DEF readVars, idVars, SmallIdCopy, WriteStep, Replace, DrainCell, TryFreeAll,
     TryItem, LockItem, ScanNext, KeepItem, TakeItem, FreeItem, OwnHazardous,
     AppendOwn, FreeOwn
<1>s. ASSUME NEW s \in Slot, NEW v \in Ptr \cup {NULL}, StoreHazard(t, s, v), Attached(t),
             small_id' = small_id
      PROVE  NoStaleHazard'
  <2>1. \A id \in Id, r \in Slot : id # small_id[t] =>
                hazard_table'[Pos(id, r)] = hazard_table[Pos(id, r)]
    BY <1>s, StoreFacts
  <2> QED BY <1>0, <1>s, <2>1 DEF NoStaleHazard
<1>5. ASSUME NEW s \in Slot, Set(t, s) PROVE NoStaleHazard'
  <2>1. rp[t][s] \in Ptr \cup {NULL} /\ Attached(t) /\ small_id' = small_id
        /\ StoreHazard(t, s, rp[t][s])
    BY <1>0, <1>5 DEF Set, LookupInv, Loaded, idVars
  <2> QED BY <1>s, <2>1
<1>6. ASSUME NEW s \in Slot, CheckChanged(t, s) \/ Clear(t, s) PROVE NoStaleHazard'
  <2>1. Attached(t) /\ small_id' = small_id /\ StoreHazard(t, s, NULL)
    BY <1>0, <1>6 DEF CheckChanged, Clear, LookupInv, idVars
  <2> QED BY <1>s, <2>1
<1>7. CASE Drain(t)
  <2>1. /\ \A id \in Id, r \in Slot : id # small_id[t] =>
                hazard_table'[Pos(id, r)] = hazard_table[Pos(id, r)]
        /\ small_id' = small_id
    BY <1>7, DrainKeeps DEF Drain, idVars
  <2> QED BY <1>0, <2>1 DEF NoStaleHazard
<1>8. CASE SignalEnter(t) \/ SignalReturn(t)
  BY <1>1, <1>8 DEF SignalEnter, SignalReturn, idVars
<1> QED BY <1>1, <1>2, <1>3, <1>4, <1>5, <1>6, <1>7, <1>8
        DEF IdStep, ReadStep, Load, CheckSame, Use, Reload, idVars
-----------------------------------------------------------------------------
(***************************************************************************)
(* The theorems.                                                           *)
(***************************************************************************)

\* The invariant holds initially.
LEMMA InitInv == Init => IInv
<1> SUFFICES ASSUME Init PROVE IInv
  OBVIOUS
<1>1. HeapType /\ HeapInv
  BY DEF Init, HeapType, HeapInv
<1>2. IdType /\ IdInv
  BY BoundAssumption, NullAssumption, ThreadAssumption
     DEF Init, IdType, IdInv, Id, NotGrowing, Attached
<1>3. ReadType /\ NoStaleHazard
  BY BoundAssumption DEF Init, ReadType, PcType, PtrType, CellType, NoStaleHazard, Positions,
                         Pos, Id, Slot
<1>10. LookupInv
  BY DEF Init, LookupInv, Loaded, Attached, InHandler
<1>11. ReadInv
  <2>1. ASSUME NEW t \in Thread, NEW s \in Slot, Attached(t) PROVE LastNull(t, s)
    <3>1. small_id[t] = 0 /\ Pos(small_id[t], s) \in Positions
      BY <2>1, BoundAssumption DEF Init, Attached, Pos, Positions, Slot
    <3> QED BY <3>1 DEF Init, LastNull, NoEntryAfter
  <2> QED BY <2>1 DEF Init, ReadInv, Protected, Vacant
<1>4. DelayType /\ DelayedInv
  BY DEF Init, DelayType, DelayedInv
<1>5. WriteType
  BY BoundAssumption DEF Init, WriteType
<1>6. OwnInv /\ ItemInv
  BY DEF Init, OwnInv, ItemInv
<1>7. ClaimInv
  BY DEF Init, ClaimInv
<1>8. ScanInv
  BY DEF Init, ScanInv
<1>9. ProtectedNotFreed
  BY DEF Init, ProtectedNotFreed, Protected
<1> QED BY <1>1, <1>2, <1>3, <1>4, <1>5, <1>6, <1>7, <1>8, <1>9, <1>10, <1>11
        DEF IInv, TypeOK

\* Every step keeps the invariant.
LEMMA NextInv == IInv /\ [Next]_vars => IInv'
<1>1. CASE Next
  BY <1>1, IdTypeStep, ReadTypeStep, HeapTypeStep, DelayTypeStep, WriteTypeStep, LookupStepInv,
     IdStepInv, HeapStepInv, OwnStepInv, DelayedStepInv, ItemStepInv, ClaimStepInv,
     ReadStepInv, ScanStepInv, UseStepInv, StaleStepInv DEF IInv, TypeOK
<1>2. CASE UNCHANGED vars
  <2>1. UNCHANGED <<idVars, readVars, writeVars, delayVars, heapVars>>
    BY <1>2 DEF vars
  <2>2. IInv => TypeOK'
    BY <2>1 DEF idVars, readVars, writeVars, delayVars, heapVars, IInv, TypeOK, IdType,
       ReadType, HeapType, DelayType, WriteType
  <2>3. IInv => IdInv' /\ HeapInv' /\ OwnInv' /\ DelayedInv' /\ ItemInv' /\ ClaimInv'
    BY <2>1 DEF idVars, writeVars, delayVars, heapVars, IInv, IdInv, HeapInv, OwnInv,
       DelayedInv, ItemInv, ClaimInv, Attached
  <2>4. IInv => LookupInv'
    BY <2>1 DEF idVars, readVars, IInv, LookupInv, Attached, InHandler
  <2>5. IInv => ReadInv' /\ ProtectedNotFreed' /\ NoStaleHazard'
    BY <2>1 DEF idVars, readVars, heapVars, IInv, ReadInv, ProtectedNotFreed, NoStaleHazard,
       Protected, Guarded, Vacant, LastNull, Attached, InHandler
  <2>6. IInv => ScanInv'
    BY <2>1 DEF idVars, readVars, writeVars, IInv, ScanInv, Protected, Target
  <2> QED BY <2>2, <2>3, <2>4, <2>5, <2>6 DEF IInv
<1> QED BY <1>1, <1>2

\* The invariant is an invariant of every build.
THEOREM Invariance == Spec => []IInv
BY InitInv, NextInv, PTL DEF Spec

\* Type correctness of the protocol's variables, in every build.
THEOREM TypeCorrect == Spec => []TypeOK
<1>1. IInv => TypeOK
  BY DEF IInv
<1> QED BY Invariance, <1>1, PTL

\* What the scans of mono_thread_hazardous_free_or_queue guarantee in every build,
\* for any number of threads, blocks, cells and ids: a block is not freed while a
\* lookup uses it that read the cell's own contents again with its slot in memory
\* and that no handler has interrupted since.
THEOREM SafeReclamation == Spec => []ProtectedNotFreed
<1>1. IInv => ProtectedNotFreed
  BY DEF IInv
<1> QED BY Invariance, <1>1, PTL

\* The hazard slots of attached threads (mono_hazard_pointer_get) are private,
\* mapped and scanned, in every build.
THEOREM PrivateSlots == Spec => []OwnSlots
<1>1. IInv => OwnSlots
  BY DEF IInv, TypeOK, IdInv, IdType, OwnSlots, Attached
<1> QED BY Invariance, <1>1, PTL

\* A thread that detaches (small_id_free) leaves no hazard pointer behind, in a
\* store buffer or by a handler neither.
THEOREM CleanSlots == Spec => []NoStaleHazard
<1>1. IInv => NoStaleHazard
  BY DEF IInv
<1> QED BY Invariance, <1>1, PTL

\* Blocks handed to mono_thread_hazardous_free_or_queue are neither freed twice
\* nor forgotten, in any build.
THEOREM SingleOwner == Spec => []OneOwner
<1>1. IInv => OneOwner
  <2> SUFFICES ASSUME IInv, NEW p \in Ptr
               PROVE  /\ heap[p] = "retired" => Claims(p) # {}
                      /\ heap[p] # "retired" => Claims(p) = {}
                      /\ \A x, y \in Claims(p) : x = y
    BY DEF OneOwner
  <2>0. OwnInv /\ DelayedInv /\ ItemInv /\ ClaimInv
    BY DEF IInv
  <2>1. heap[p] = "retired" => Claims(p) # {}
    <3> SUFFICES ASSUME heap[p] = "retired" PROVE \E x : x \in Claims(p)
      OBVIOUS
    <3>1. CASE \E t \in Thread : wp[t] = p
      BY <3>1 DEF Claims
    <3>2. CASE \E t \in Thread : wpc[t] = "freeItem" /\ witem[t] = p
      BY <3>2 DEF Claims
    <3>3. CASE \E i \in DOMAIN delayed_free_table : delayed_free_table[i] = p
      BY <3>3 DEF Claims
    <3> QED BY <2>0, <3>1, <3>2, <3>3 DEF ClaimInv
  <2>2. \A t \in Thread : (wp[t] = p => heap[p] = "retired")
                          /\ (wpc[t] = "freeItem" /\ witem[t] = p => heap[p] = "retired")
    BY <2>0, NullAssumption DEF OwnInv, ItemInv
  <2>3. \A i \in DOMAIN delayed_free_table : delayed_free_table[i] = p => heap[p] = "retired"
    BY <2>0 DEF DelayedInv
  <2>4. heap[p] # "retired" => Claims(p) = {}
    BY <2>2, <2>3 DEF Claims
  <2>5. ASSUME NEW x \in Claims(p), NEW y \in Claims(p) PROVE x = y
    <3>1. CASE \E t \in Thread : wp[t] = p /\ x = <<"own", t>>
      BY <2>0, <3>1, NullAssumption DEF Claims, OwnInv, DelayedInv, ItemInv
    <3>2. CASE \E t \in Thread : wpc[t] = "freeItem" /\ witem[t] = p /\ x = <<"item", t>>
      BY <2>0, <3>2 DEF Claims, ItemInv
    <3>3. CASE \E i \in DOMAIN delayed_free_table :
                  delayed_free_table[i] = p /\ x = <<"delayed", i>>
      BY <2>0, <3>3 DEF Claims, ItemInv, DelayedInv
    <3> QED BY <3>1, <3>2, <3>3 DEF Claims
  <2> QED BY <2>1, <2>4, <2>5
<1> QED BY Invariance, <1>1, PTL
=============================================================================
