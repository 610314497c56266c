------------------------- MODULE JitInfoTableProofs -------------------------
(***************************************************************************)
(* The JIT info table: the blocks keep their types, counts, order and      *)
(* owners under every interleaving of the writer, of the threads that      *)
(* free delayed items and of the lookups.                                  *)
(***************************************************************************)
EXTENDS JitInfoTable, TLAPS, FiniteSetTheorems, WellFoundedInduction

\* The fields of a chunk, and the i-th chunk of the current table.
Num(c) == chunk[c].num_elements
Data(c, j) == chunk[c].data[j]
Last(c) == chunk[c].last_code_end
Ref(c) == chunk[c].refcount
CurChunk(i) == table[cur][i]
\* The item waits to be freed.
Pending(item) == \/ \E i \in DOMAIN delayed : delayed[i] = item
                 \/ foreign = item
                 \/ writer.item = item
InChunk(o, c) == \E j \in Index : j < Num(c) /\ Data(c, j) = o
InTable(o, t) == \E i \in DOMAIN table[t] : InChunk(o, table[t][i])

\* A table that is not freed has chunks, all different, none of them freed; the
\* domain has no table when the last one is gone.
StructInv ==
    /\ \A t \in Tables :
         /\ \A i \in DOMAIN table[t] : table[t][i] \in Chunks
         /\ \A i, k \in DOMAIN table[t] : table[t][i] = table[t][k] => i = k
         /\ Len(table[t]) >= 1
    /\ cur # NULL => cur \in Tables
    /\ cur = NULL => Tables = {}

\* The visible elements of a chunk are MonoJitInfos that are not freed.
ElemInv ==
    \A c \in Chunks : \A j \in Index : j < Num(c) => Data(c, j) \in Objs

\* Every chunk is sorted by end address; in the current table so are the chunks,
\* and last_code_end is up to date, but for the element that add has put last.
OrderInv ==
    /\ \A c \in Chunks : \A j, k \in Index :
         j <= k /\ k < Num(c) => End(Data(c, j)) <= End(Data(c, k))
    /\ cur # NULL =>
         /\ \A i \in DOMAIN table[cur] : \A j \in Index : j < Num(CurChunk(i)) =>
              \/ End(Data(CurChunk(i), j)) <= Last(CurChunk(i))
              \/ /\ Data(CurChunk(i), j) = writer.ji
                 /\ writer.chunk = CurChunk(i) /\ i = Len(table[cur])
         /\ \A i, k \in DOMAIN table[cur] : i < k =>
              /\ Last(CurChunk(i)) <= Last(CurChunk(k))
              /\ \A j \in Index : j < Num(CurChunk(k)) =>
                   Last(CurChunk(i)) <= End(Data(CurChunk(k), j))

\* No MonoJitInfo is twice in the current table, but for the one that add moves.
UniqInv ==
    cur # NULL =>
      \A i, k \in DOMAIN table[cur] : \A j, l \in Index :
        /\ j < Num(CurChunk(i)) /\ l < Num(CurChunk(k))
        /\ Data(CurChunk(i), j) = Data(CurChunk(k), l)
        => /\ i = k
           /\ \/ j = l
              \/ /\ writer.pc = "shift" /\ writer.chunk = CurChunk(i)
                 /\ j = writer.i + 1 \/ l = writer.i + 1

\* Add has chosen a chunk: the first one that ends after ji, or the last one.
Storing == writer.pc \in {"count", "shift", "seal"}
PlaceInv ==
    /\ ~Storing => writer.chunk = NULL
    /\ Storing =>
         /\ \E i \in DOMAIN table[cur] : writer.chunk = CurChunk(i)
         /\ \A i \in DOMAIN table[cur] : writer.chunk = CurChunk(i) =>
              /\ \A k \in DOMAIN table[cur] : k < i => Last(CurChunk(k)) <= End(writer.ji)
              /\ i < Len(table[cur]) => End(writer.ji) < Last(CurChunk(i))
\* Between the stores of add: the last element, or ji when there is none, is
\* twice there beyond num_elements...
CountInv ==
    writer.pc = "count" =>
      LET c == writer.chunk
          n == Num(c)
      IN  /\ n < CHUNK_SIZE /\ writer.i = n - 1 /\ writer.pos <= n
          /\ Data(c, n) = (IF n > 0 THEN Data(c, n - 1) ELSE writer.ji)
          /\ \A j \in Index : j < writer.pos => End(Data(c, j)) <= End(writer.ji)
          /\ \A j \in Index : writer.pos <= j /\ j < n => End(writer.ji) < End(Data(c, j))
\* ... then the elements from writer.i + 1 on have moved up...
ShiftInv ==
    writer.pc = "shift" =>
      LET c == writer.chunk
          n == Num(c) - 1
          i == writer.i
      IN  /\ n >= 0 /\ writer.pos <= i + 1 /\ i + 1 <= n
          /\ \A j \in Index : j < writer.pos => End(Data(c, j)) <= End(writer.ji)
          /\ \A j \in Index : writer.pos <= j /\ j <= n /\ j # i + 1 =>
                 End(writer.ji) < End(Data(c, j))
          /\ i + 1 < n => Data(c, i + 1) = Data(c, i + 2)
          /\ i + 1 = n => Data(c, n) = (IF n > 0 THEN Data(c, n - 1) ELSE writer.ji)
          /\ \A j \in Index : j <= n /\ Data(c, j) = writer.ji => n = 0
\* ... and ji is in its place.
SealInv ==
    writer.pc = "seal" =>
      LET c == writer.chunk
      IN  /\ writer.pos < Num(c) /\ Data(c, writer.pos) = writer.ji
          /\ \A j \in Index : j < writer.pos => End(Data(c, j)) <= End(writer.ji)
          /\ \A j \in Index : writer.pos < j /\ j < Num(c) => End(writer.ji) < End(Data(c, j))

\* What the writer works on: the MonoJitInfo it adds overlaps no live one and is
\* in one chunk at most, the one it has removed is in the current table no more.
WriterInv ==
    /\ writer.pc = "idle" => writer = IdleWriter
    /\ writer.pc = "free_all" => writer.ji = NULL
    /\ writer.pc # "idle" => cur # NULL
    /\ writer.pc \in {"try", "own"} <=> writer.item # NULL
    /\ writer.pc \in {"try", "own"} /\ writer.item[1] = "ji" =>
         writer.item[2] = writer.ji /\ num_tables <= 1
    /\ Adding \/ writer.pc = "removed" => writer.ji \in Obj /\ obj[writer.ji] = "ji"
    /\ Adding => \A o \in Live : o = writer.ji \/ Apart(o, writer.ji)
    /\ Adding /\ writer.pc \notin {"shift", "seal"} => \A c \in Chunks : ~InChunk(writer.ji, c)
    /\ Adding => \A c \in Chunks : InChunk(writer.ji, c) => c = writer.chunk
    /\ writer.pc = "removed" => ~InTable(writer.ji, cur)
    /\ writer.pc = "try" => writer.idx \in 0..2

\* Live MonoJitInfos do not overlap, and one that was there at the start stays.
LiveInv ==
    /\ \A x, y \in Live : x = y \/ Apart(x, y)
    /\ cur # NULL => \E o \in InitialObj : <<Start(o), End(o)>> \notin Dynamic /\ o \in Live

\* An item waits in one place only; the tables that wait are the old ones; a
\* MonoJitInfo waits when no chunk holds it.
PendInv ==
    /\ \A i, k \in DOMAIN delayed : delayed[i] = delayed[k] => i = k
    /\ \A i \in DOMAIN delayed : delayed[i] # foreign /\ delayed[i] # writer.item
    /\ foreign = writer.item => foreign = NULL
    /\ \A t \in Table : Pending(<<"table", t>>) <=> t \in Tables /\ t # cur
    /\ \A o \in Obj : Pending(<<"ji", o>>) =>
         /\ obj[o] = "ji" /\ o \notin free_queue
         /\ \A c \in Chunks : ~InChunk(o, c)
         /\ o = writer.ji => writer.item = <<"ji", o>>

\* What is in the free queue is in old tables only, and not in the one that the
\* writer has just replaced.
QueueInv ==
    /\ \A o \in free_queue :
         /\ obj[o] = "ji" /\ o # writer.ji
         /\ cur # NULL => ~InTable(o, cur)
         /\ writer.pc \in {"try", "own"} /\ writer.item[1] = "table" =>
              ~InTable(o, writer.item[2])

\* A MonoJitInfo is live, in the writer's hands, waiting or queued; a tombstone is
\* in exactly one chunk.
ObjInv ==
    /\ cur # NULL => \A o \in Obj : obj[o] = "ji" =>
         \/ o \in Live
         \/ o = writer.ji /\ (Adding \/ writer.pc = "removed")
         \/ Pending(<<"ji", o>>)
         \/ o \in free_queue
    /\ \A o \in Obj : obj[o] = "tombstone" =>
         /\ \E c \in Chunks : InChunk(o, c)
         /\ \A c, d \in Chunks : InChunk(o, c) /\ InChunk(o, d) => c = d

\* The assertions that never fail, whoever frees the delayed items.
FailInv == failure \in {"none", "freed ji read", "mono_domain_free"}

\* A lookup that holds its table in slot 0.
Looking(rd) == rd.pc \in {"index", "bisect", "compare", "scan", "match"}

\* The chunk a lookup is at.
ChunkOfLookup(rd) == table[rd.table][rd.chunk_pos + 1]

\* What a lookup rd with the entry e to find can rely on: its table is not freed
\* and nobody is about to free it, and its indexes are inside the table.
SlotOK(rd, e) ==
    /\ rd.pc # "idle" => cur # NULL /\ writer.pc # "free_all"
    /\ rd.pc = "idle" => e = NULL /\ rd.addr = -1
    /\ ~Looking(rd) => rd.table = NULL /\ rd.ji = NULL
    /\ Looking(rd) => rd.table \in Tables /\ rd.addr \in Nat /\ foreign # <<"table", rd.table>>
    /\ rd.pc = "index" => rd.left <= rd.right /\ rd.right <= Len(table[rd.table])
    /\ Looking(rd) /\ rd.pc # "index" => rd.chunk_pos < Len(table[rd.table])
    /\ rd.pc \in {"bisect", "compare"} => rd.left <= rd.right /\ rd.right <= Num(ChunkOfLookup(rd))
    /\ rd.pc = "compare" => rd.left <= rd.pos /\ rd.pos < rd.right
    /\ rd.pc \in {"compare", "match"} => rd.ji \in Obj
SlotInv(r) == SlotOK(reader[r], expected[r])

\* The invariant of the blocks.
HInv == /\ TypeOK /\ StructInv /\ CountsExact /\ ElemInv /\ OrderInv /\ UniqInv
        /\ PlaceInv /\ CountInv /\ ShiftInv /\ SealInv /\ WriterInv /\ LiveInv
        /\ PendInv /\ QueueInv /\ ObjInv /\ FailInv
-----------------------------------------------------------------------------
(***************************************************************************)
(* Basic facts.                                                            *)
(***************************************************************************)
LEMMA SizeFacts ==
    /\ CHUNK_SIZE \in Nat /\ CHUNK_SIZE >= 4
    /\ Index = 0..(CHUNK_SIZE - 1)
    /\ CHUNK_SIZE \div 2 \in Nat /\ 2 * (CHUNK_SIZE \div 2) = CHUNK_SIZE
BY SizeAssumption DEF Index

LEMMA ObjFacts ==
    ASSUME NEW o \in Obj
    PROVE  Start(o) \in Nat /\ End(o) \in Nat /\ Start(o) < End(o)
           /\ <<Start(o), End(o)>> \in Region
<1>1. PICK x \in Region, k \in 1..Copies : o = <<x[1], x[2], k>>
  BY DEF Obj
<1>2. x \in Nat \X Nat /\ x[1] < x[2]
  BY RegionAssumption
<1>3. Start(o) = x[1] /\ End(o) = x[2]
  BY <1>1 DEF Start, End
<1>4. <<x[1], x[2]>> = x
  BY <1>2
<1> QED BY <1>2, <1>3, <1>4

LEMMA ApartObj ==
    ASSUME NEW x, NEW y
    PROVE  Apart(x, y) <=> End(x) <= Start(y) \/ End(y) <= Start(x)
BY DEF Apart, Start, End

LEMMA NullFacts == NULL \notin Obj /\ NULL \notin Chunk /\ NULL \notin Table /\ NULL \notin Item
    /\ NULL # "ji" /\ NULL # "tombstone"
BY NullAssumption

ChunkType == \A c \in Chunks :
    /\ c \in Chunk /\ Num(c) \in 0..CHUNK_SIZE /\ Last(c) \in Nat /\ Ref(c) \in Nat
    /\ \A j \in Index : Data(c, j) \in Obj \cup {NULL}
LEMMA ChunkFacts == TypeOK => ChunkType
BY DEF TypeOK, ChunkType, Chunks, ChunkRecord, Num, Last, Ref, Data
LEMMA ChunkFactsP == TypeOK' => ChunkType'
BY ChunkFacts, PTL

TableType == \A t \in Tables : t \in Table /\ table[t] \in Seq(Chunk)
                 /\ Len(table[t]) \in Nat /\ DOMAIN table[t] = 1..Len(table[t])
LEMMA TableFacts == TypeOK => TableType
BY DEF TypeOK, TableType, Tables
LEMMA TableFactsP == TypeOK' => TableType'
BY TableFacts, PTL

LiveIs(o) == o \in Live <=> cur # NULL /\ InTable(o, cur) /\ obj[o] # "tombstone"
LEMMA LiveFacts == \A o : LiveIs(o)
<1> SUFFICES ASSUME NEW o PROVE LiveIs(o)
  OBVIOUS
<1> USE DEF InTable, InChunk, Data, Num
<1>1. CASE cur = NULL
  BY <1>1 DEF Live, LiveIs
<1>2. CASE cur # NULL
  <2> DEFINE T == table[cur]
  <2>2. \A p : p \in LivePlaces(cur) <=>
           /\ p \in (DOMAIN T) \X Index /\ p[2] < chunk[T[p[1]]].num_elements
           /\ obj[At(cur, p)] # "tombstone"
    BY DEF LivePlaces, Places, IsTombstone
  <2>3. \A i \in DOMAIN T, j \in Index :
           <<i, j>>[1] = i /\ <<i, j>>[2] = j /\ <<i, j>> \in (DOMAIN T) \X Index
    OBVIOUS
  <2>4. ASSUME o \in Live PROVE InTable(o, cur) /\ obj[o] # "tombstone"
    BY <1>2, <2>2, <2>4 DEF Live, At
  <2>5. ASSUME InTable(o, cur), obj[o] # "tombstone" PROVE o \in Live
    <3>1. PICK i \in DOMAIN T, j \in Index : j < Num(T[i]) /\ Data(T[i], j) = o
      BY <2>5
    <3>2. At(cur, <<i, j>>) = o
      BY <3>1, <2>3 DEF At
    <3> QED BY <1>2, <3>1, <3>2, <2>2, <2>3, <2>5 DEF Live
  <2> QED BY <1>2, <2>4, <2>5 DEF LiveIs
<1> QED BY <1>1, <1>2
LEMMA LiveFactsP == (\A o : LiveIs(o))'
BY LiveFacts, PTL

\* Induction, by way of a smallest counterexample.
LEMMA NatMin ==
    ASSUME NEW T, T \subseteq Nat, T # {}
    PROVE  \E x \in T : \A y \in T : x <= y
<1>1. PICK x \in T : \A y \in T : <<y, x>> \notin OpToRel(<, Nat)
  BY NatLessThanWellFounded, WFMin
<1>2. \A y \in T : <<y, x>> \in Nat \X Nat /\ <<y, x>>[1] = y /\ <<y, x>>[2] = x
  OBVIOUS
<1>3. \A y \in T : ~ (y < x)
  BY <1>1, <1>2 DEF OpToRel
<1> QED BY <1>3

LEMMA Induction ==
    ASSUME NEW S, 0 \in S, \A n \in Nat : n \in S => n + 1 \in S
    PROVE  Nat \subseteq S
<1> SUFFICES ASSUME Nat \ S # {} PROVE FALSE
  OBVIOUS
<1>1. PICK x \in Nat \ S : \A y \in Nat \ S : x <= y
  BY NatMin
<1>2. x # 0
  OBVIOUS
<1>3. x - 1 \in Nat /\ x - 1 < x
  BY <1>2
<1>4. x - 1 \in S
  BY <1>1, <1>3
<1> QED BY <1>3, <1>4

\* What the binary search returns: the elements on both sides of it.
LEMMA BisectFacts ==
    ASSUME NEW n \in Nat, NEW less \in [0..(n - 1) -> BOOLEAN]
    PROVE  /\ Bisect(less, n) \in 0..n
           /\ Bisect(less, n) > 0 => ~less[Bisect(less, n) - 1]
           /\ Bisect(less, n) < n => less[Bisect(less, n)]
<1> DEFINE D == (0..n) \X (0..n)
           F(b, w) == IF w[1] >= w[2] THEN w[1]
                      ELSE LET m == (w[1] + w[2]) \div 2
                           IN  IF less[m] THEN b[<<w[1], m>>] ELSE b[<<m + 1, w[2]>>]
           G(d) == {g \in [D -> 0..n] : \A w \in D : w[2] - w[1] <= d => g[w] = F(g, w)}
           S == {d \in Nat : G(d) # {}}
<1>0. ASSUME NEW w \in D, w[1] < w[2]
      PROVE  /\ (w[1] + w[2]) \div 2 \in 0..(n - 1)
             /\ w[1] <= (w[1] + w[2]) \div 2 /\ (w[1] + w[2]) \div 2 < w[2]
             /\ w[1] \in 0..n /\ w[2] \in 0..n
             /\ <<w[1], (w[1] + w[2]) \div 2>> \in D
             /\ <<(w[1] + w[2]) \div 2 + 1, w[2]>> \in D
  BY <1>0
<1>1. Nat \subseteq S
  <2>1. 0 \in S
    <3> DEFINE g == [w \in D |-> w[1]]
    <3>1. g \in [D -> 0..n]
      OBVIOUS
    <3>2. \A w \in D : w[2] - w[1] <= 0 => g[w] = F(g, w)
      OBVIOUS
    <3> QED BY <3>1, <3>2
  <2>2. ASSUME NEW d \in Nat, d \in S PROVE d + 1 \in S
    <3>1. PICK g \in [D -> 0..n] : \A w \in D : w[2] - w[1] <= d => g[w] = F(g, w)
      BY <2>2
    <3> HIDE DEF D
    <3> DEFINE h == [w \in D |-> IF w[2] - w[1] <= d THEN g[w] ELSE F(g, w)]
    <3>0. \A w \in D : w[1] \in 0..n /\ w[2] \in 0..n
      BY DEF D
    <3>a. ASSUME NEW w \in D PROVE F(g, w) \in 0..n
      <4>1. CASE w[1] >= w[2]
        BY <3>0, <4>1
      <4>2. CASE w[1] < w[2]
        <5>1. /\ <<w[1], (w[1] + w[2]) \div 2>> \in D
              /\ <<(w[1] + w[2]) \div 2 + 1, w[2]>> \in D
          BY <1>0, <4>2
        <5> QED BY <5>1, <3>0, <4>2
      <4> QED BY <4>1, <4>2, <3>0
    <3>2. h \in [D -> 0..n]
      BY <3>a
    <3>3. \A w \in D : w[2] - w[1] <= d => h[w] = g[w]
      OBVIOUS
    <3>4. ASSUME NEW w \in D, w[2] - w[1] <= d + 1 PROVE F(h, w) = F(g, w)
      <4>1. CASE w[1] >= w[2]
        BY <4>1
      <4>2. CASE w[1] < w[2]
        <5> DEFINE m == (w[1] + w[2]) \div 2
        <5>1. <<w[1], m>> \in D /\ <<m + 1, w[2]>> \in D /\ m \in Nat /\ w[1] <= m /\ m < w[2]
          BY <1>0, <4>2
        <5> HIDE DEF m
        <5>2. <<w[1], m>>[2] - <<w[1], m>>[1] <= d /\ <<m + 1, w[2]>>[2] - <<m + 1, w[2]>>[1] <= d
          <6>0. PICK x, y : x = w[1] /\ y = w[2]
            OBVIOUS
          <6>a. x \in Int /\ y \in Int /\ m \in Int /\ x <= m /\ m < y /\ y - x <= d + 1
            BY <6>0, <5>1, <3>4, <3>0
          <6>b. m - x <= d /\ y - (m + 1) <= d
            BY <6>a
          <6>1. m - w[1] <= d /\ w[2] - (m + 1) <= d
            BY <6>0, <6>b
          <6> QED BY <6>1
        <5>3. h[<<w[1], m>>] = g[<<w[1], m>>] /\ h[<<m + 1, w[2]>>] = g[<<m + 1, w[2]>>]
          BY <5>1, <5>2, <3>3
        <5> HIDE DEF h
        <5> QED BY <5>3 DEF m
      <4>3. w[1] >= w[2] \/ w[1] < w[2]
        BY <3>0
      <4> HIDE DEF F, h
      <4> QED BY <4>1, <4>2, <4>3
    <3>5. \A w \in D : w[2] - w[1] <= d + 1 => h[w] = F(g, w)
      BY <3>1
    <3>6. \A w \in D : w[2] - w[1] <= d + 1 => h[w] = F(h, w)
      BY <3>4, <3>5
    <3> HIDE DEF h
    <3>7. h \in G(d + 1)
      BY <3>2, <3>6 DEF D
    <3> HIDE DEF G
    <3>8. G(d + 1) # {}
      BY <3>7
    <3>9. d + 1 \in Nat
      OBVIOUS
    <3> QED BY <3>8, <3>9
  <2> HIDE DEF S
  <2> QED BY <2>1, <2>2, Induction
<1>2. PICK g \in [D -> 0..n] : \A w \in D : w[2] - w[1] <= n => g[w] = F(g, w)
  BY <1>1
<1>3. g = [w \in D |-> F(g, w)]
  <2>1. \A w \in D : w[2] - w[1] <= n
    OBVIOUS
  <2> QED BY <1>2, <2>1
<1> DEFINE b == CHOOSE f : f = [w \in D |-> F(f, w)]
<1>4. b = [w \in D |-> F(b, w)]
  BY <1>3
<1>5. Bisect(less, n) = b[<<0, n>>]
  BY DEF Bisect
<1> HIDE DEF b, D
<1> DEFINE Good(w) == /\ b[w] \in w[1]..w[2]
                      /\ b[w] > w[1] => ~less[b[w] - 1]
                      /\ b[w] < w[2] => less[b[w]]
           Q == {d \in Nat : \A w \in D : w[1] <= w[2] /\ w[2] - w[1] <= d => Good(w)}
<1>6. \A w \in D : w[1] \in 0..n /\ w[2] \in 0..n
  BY DEF D
<1>7. \A w \in D : b[w] = F(b, w)
  BY <1>4
<1>8. ASSUME NEW w \in D, w[1] = w[2] PROVE Good(w)
  <2>2. w[1] \in 0..n /\ w[2] \in 0..n
    BY <1>6
  <2>3. b[w] = F(b, w)
    BY <1>7
  <2>1. b[w] = w[1]
    BY <2>2, <2>3, <1>8
  <2> QED BY <2>1, <2>2, <1>8
<1>9. Nat \subseteq Q
  <2>1. 0 \in Q
    BY <1>8, <1>6
  <2>2. ASSUME NEW d \in Nat, d \in Q PROVE d + 1 \in Q
    <3> SUFFICES ASSUME NEW w \in D, w[1] < w[2], w[2] - w[1] <= d + 1 PROVE Good(w)
      BY <1>8, <1>6
    <3> DEFINE m == (w[1] + w[2]) \div 2
    <3>1. /\ <<w[1], m>> \in D /\ <<m + 1, w[2]>> \in D /\ m \in 0..(n - 1)
          /\ w[1] <= m /\ m < w[2] /\ w[1] \in 0..n /\ w[2] \in 0..n
      BY <1>0
    <3> DEFINE lo == <<w[1], m>>
               hi == <<m + 1, w[2]>>
    <3>2. lo[1] = w[1] /\ lo[2] = m /\ hi[1] = m + 1 /\ hi[2] = w[2]
      OBVIOUS
    <3>4. b[w] = IF less[m] THEN b[lo] ELSE b[hi]
      <4>1. b[w] = F(b, w)
        BY <1>7
      <4>2. ~(w[1] >= w[2])
        BY <3>1
      <4> QED BY <4>1, <4>2
    <3> HIDE DEF m
    <3>a. lo[2] - lo[1] <= d /\ hi[2] - hi[1] <= d /\ lo[1] <= lo[2] /\ hi[1] <= hi[2]
      <4>0. PICK x, y : x = w[1] /\ y = w[2]
        OBVIOUS
      <4>1. x \in Int /\ y \in Int /\ m \in Int /\ x <= m /\ m < y /\ y - x <= d + 1
        BY <4>0, <3>1
      <4>2. m - x <= d /\ y - (m + 1) <= d /\ m + 1 <= y
        BY <4>1
      <4> HIDE DEF lo, hi
      <4> QED BY <4>0, <4>1, <4>2, <3>2
    <3>b. lo \in D /\ hi \in D
      BY <3>1
    <3> HIDE DEF lo, hi, Good
    <3>3. Good(lo) /\ Good(hi)
      BY <2>2, <3>a, <3>b
    <3> USE DEF Good
    <3>5. CASE less[m]
      <4>1. b[w] = b[lo] /\ b[lo] \in w[1]..m
        BY <3>2, <3>3, <3>4, <3>5
      <4>2. b[lo] > w[1] => ~less[b[lo] - 1]
        BY <3>2, <3>3
      <4>3. b[lo] < m => less[b[lo]]
        BY <3>2, <3>3
      <4>4. b[w] \in w[1]..w[2] /\ (b[w] < m \/ b[w] = m)
        BY <4>1, <3>1
      <4>5. b[w] < w[2] => less[b[w]]
        BY <4>1, <4>3, <4>4, <3>5
      <4> QED BY <4>1, <4>2, <4>4, <4>5
    <3>6. CASE ~less[m]
      <4>1. b[w] = b[hi] /\ b[hi] \in (m + 1)..w[2]
        BY <3>2, <3>3, <3>4, <3>6
      <4>2. b[hi] > m + 1 => ~less[b[hi] - 1]
        BY <3>2, <3>3
      <4>3. b[hi] < w[2] => less[b[hi]]
        BY <3>2, <3>3
      <4>4. b[hi] = m + 1 => b[hi] - 1 = m
        BY <3>1
      <4> HIDE DEF Good
      <4>5. b[w] > w[1] => ~less[b[w] - 1]
        BY <4>1, <4>2, <4>4, <3>6, <3>1
      <4> QED BY <4>1, <4>3, <4>5, <3>1 DEF Good
    <3> QED BY <3>5, <3>6
  <2> HIDE DEF Q
  <2> QED BY <2>1, <2>2, Induction
<1>10. Good(<<0, n>>)
  <2>1. <<0, n>> \in D /\ <<0, n>>[1] = 0 /\ <<0, n>>[2] = n
    BY DEF D
  <2> QED BY <2>1, <1>9
<1> QED BY <1>5, <1>10
-----------------------------------------------------------------------------
(***************************************************************************)
(* Searching and ranking.                                                  *)
(***************************************************************************)

\* jit_info_table_index finds the chunk an address belongs to.
LEMMA IndexFacts ==
    ASSUME TypeOK, StructInv, OrderInv, cur # NULL, NEW addr \in Nat
    PROVE  LET i == jit_info_table_index(addr) + 1
           IN  /\ i \in DOMAIN table[cur]
               /\ \A k \in DOMAIN table[cur] : k < i => Last(CurChunk(k)) <= addr
               /\ i < Len(table[cur]) => addr < Last(CurChunk(i))
<1> DEFINE n == Len(table[cur])
           less == [i \in 0..(n - 1) |-> addr < chunk[table[cur][i + 1]].last_code_end]
           b == Bisect(less, n)
           i == jit_info_table_index(addr) + 1
<1>0. cur \in Tables /\ n \in Nat /\ n >= 1 /\ DOMAIN table[cur] = 1..n
      /\ \A k \in 1..n : CurChunk(k) \in Chunks
  BY TableFacts DEF StructInv, TableType, CurChunk
<1>1. \A k \in 1..n : Last(CurChunk(k)) \in Nat
  BY <1>0, ChunkFacts DEF ChunkType
<1>2. less \in [0..(n - 1) -> BOOLEAN]
  OBVIOUS
<1>3. \A k \in 1..n : less[k - 1] <=> addr < Last(CurChunk(k))
  <2> TAKE k \in 1..n
  <2>1. k - 1 \in 0..(n - 1) /\ (k - 1) + 1 = k
    BY <1>0
  <2> QED BY <2>1 DEF Last, CurChunk
<1>4. i = (IF b >= n THEN n - 1 ELSE b) + 1
  BY DEF jit_info_table_index
<1> HIDE DEF less, n
<1>5. b \in 0..n /\ (b > 0 => ~less[b - 1]) /\ (b < n => less[b])
  BY <1>0, <1>2, BisectFacts
<1> HIDE DEF b, i
<1>6. i \in 1..n
  BY <1>0, <1>4, <1>5
<1>7. i < n => addr < Last(CurChunk(i))
  <2> SUFFICES ASSUME i < n PROVE addr < Last(CurChunk(i))
    OBVIOUS
  <2>1. b = i - 1 /\ b < n
    BY <1>0, <1>4, <1>5
  <2> QED BY <2>1, <1>3, <1>5, <1>6
<1>8. ASSUME NEW k \in 1..n, k < i PROVE Last(CurChunk(k)) <= addr
  <2>1. b \in 1..n /\ k <= b
    BY <1>0, <1>4, <1>5, <1>8
  <2>2. Last(CurChunk(b)) <= addr
    BY <2>1, <1>1, <1>3, <1>5
  <2>3. k < b => Last(CurChunk(k)) <= Last(CurChunk(b))
    BY <2>1, <1>0 DEF OrderInv
  <2> QED BY <2>1, <2>2, <2>3, <1>1
<1> QED BY <1>0, <1>6, <1>7, <1>8 DEF i, n

\* jit_info_table_chunk_index finds the element an address belongs to.
LEMMA ChunkIndexFacts ==
    ASSUME TypeOK, ElemInv, OrderInv, NEW c \in Chunks, NEW addr \in Nat
    PROVE  LET p == jit_info_table_chunk_index(c, addr)
           IN  /\ p \in 0..Num(c)
               /\ \A j \in Index : j < p => End(Data(c, j)) <= addr
               /\ \A j \in Index : p <= j /\ j < Num(c) => addr < End(Data(c, j))
<1> DEFINE n == Num(c)
           less == [i \in 0..(n - 1) |-> addr < End(chunk[c].data[i])]
           p == jit_info_table_chunk_index(c, addr)
<1>0. n \in 0..CHUNK_SIZE
  BY ChunkFacts DEF ChunkType
<1>1. \A j \in Index : j < n => End(Data(c, j)) \in Nat
  BY ObjFacts DEF ElemInv, Objs
<1>2. less \in [0..(n - 1) -> BOOLEAN]
  OBVIOUS
<1>3. \A j \in Index : j < n => (less[j] <=> addr < End(Data(c, j)))
  <2> SUFFICES ASSUME NEW j \in Index, j < n PROVE less[j] <=> addr < End(Data(c, j))
    OBVIOUS
  <2>1. j \in 0..(n - 1)
    BY <1>0, SizeFacts
  <2> QED BY <2>1 DEF Data
<1>4. p = Bisect(less, n)
  BY DEF jit_info_table_chunk_index, Num
<1> HIDE DEF less, n, p
<1>5. p \in 0..n /\ (p > 0 => ~less[p - 1]) /\ (p < n => less[p])
  BY <1>0, <1>2, <1>4, SizeFacts, BisectFacts
<1>6. ASSUME NEW j \in Index, j < p PROVE End(Data(c, j)) <= addr
  <2>1. p - 1 \in Index /\ p - 1 < n /\ j <= p - 1 /\ j < n
    BY <1>0, <1>5, <1>6, SizeFacts
  <2>2. End(Data(c, p - 1)) <= addr
    BY <2>1, <1>1, <1>3, <1>5, <1>6, SizeFacts
  <2>3. End(Data(c, j)) <= End(Data(c, p - 1))
    BY <2>1 DEF OrderInv, n
  <2> QED BY <2>1, <2>2, <2>3, <1>1
<1>7. ASSUME NEW j \in Index, p <= j, j < n PROVE addr < End(Data(c, j))
  <2>1. p \in Index /\ p < n
    BY <1>0, <1>5, <1>7, SizeFacts
  <2>2. addr < End(Data(c, p))
    BY <2>1, <1>3, <1>5
  <2>3. End(Data(c, p)) <= End(Data(c, j))
    BY <2>1, <1>7 DEF OrderInv, n
  <2> QED BY <2>1, <2>2, <2>3, <1>1, <1>7
<1> QED BY <1>5, <1>6, <1>7 DEF n, p

\* The places of a set are numbered by their rank.
LEMMA RankFacts ==
    ASSUME NEW S, IsFiniteSet(S), S \subseteq Nat \X Nat
    PROVE  /\ Cardinality(S) \in Nat
           /\ \A p \in S : Rank(S, p) \in 0..(Cardinality(S) - 1) /\ Nth(S, Rank(S, p)) = p
           /\ \A n \in 0..(Cardinality(S) - 1) : Nth(S, n) \in S /\ Rank(S, Nth(S, n)) = n
           /\ \A p, q \in S : Before(p, q) <=> Rank(S, p) < Rank(S, q)
<1> DEFINE N == Cardinality(S)
           below(p) == {q \in S : Before(q, p)}
<1>0. \A p \in S : p[1] \in Nat /\ p[2] \in Nat /\ p = <<p[1], p[2]>>
  OBVIOUS
<1>1. N \in Nat
  BY FS_CardinalityType
<1>2. \A p \in S : IsFiniteSet(below(p)) /\ below(p) \in SUBSET S /\ Rank(S, p) \in Nat
  BY FS_Subset, FS_CardinalityType DEF Rank
<1>3. \A p \in S : p \notin below(p)
  BY <1>0 DEF Before
<1>4. ASSUME NEW p \in S PROVE Rank(S, p) \in 0..(N - 1)
  <2>1. below(p) \in SUBSET (S \ {p})
    BY <1>3
  <2>2. IsFiniteSet(S \ {p}) /\ Cardinality(S \ {p}) = N - 1
    BY FS_RemoveElement
  <2>3. Cardinality(below(p)) <= N - 1
    BY <2>1, <2>2, FS_Subset
  <2> QED BY <2>3, <1>1, <1>2 DEF Rank
<1>5. ASSUME NEW p \in S, NEW q \in S, Before(p, q) PROVE Rank(S, p) < Rank(S, q)
  <2>1. below(p) \in SUBSET (below(q) \ {p})
    BY <1>0, <1>3, <1>5 DEF Before
  <2>2. p \in below(q)
    BY <1>5
  <2>3. IsFiniteSet(below(q) \ {p}) /\ Cardinality(below(q) \ {p}) = Cardinality(below(q)) - 1
    BY <1>2, <2>2, FS_RemoveElement
  <2>4. Cardinality(below(p)) <= Cardinality(below(q)) - 1
    BY <2>1, <2>3, FS_Subset
  <2>5. Rank(S, p) = Cardinality(below(p)) /\ Rank(S, q) = Cardinality(below(q))
    BY DEF Rank
  <2>6. Rank(S, p) \in Nat /\ Rank(S, q) \in Nat
    BY <1>2
  <2> HIDE DEF below
  <2> QED BY <2>4, <2>5, <2>6
<1>6. \A p, q \in S : p = q \/ Before(p, q) \/ Before(q, p)
  BY <1>0 DEF Before
<1>z. \A p \in S : Rank(S, p) \in Nat
  BY <1>2
<1> HIDE DEF below
<1>7. \A p, q \in S : Before(p, q) <=> Rank(S, p) < Rank(S, q)
  BY <1>z, <1>5, <1>6
<1>8. \A p, q \in S : Rank(S, p) = Rank(S, q) => p = q
  BY <1>z, <1>5, <1>6
<1> DEFINE f == [p \in S |-> Rank(S, p)]
<1>9. f \in [S -> 0..(N - 1)]
  BY <1>4
<1>10. f \in Injection(S, 0..(N - 1))
  BY <1>8, <1>9 DEF Injection, IsInjective
<1>11. IsFiniteSet(0..(N - 1)) /\ Cardinality(0..(N - 1)) = N
  <2>1. 0 \in Int /\ N - 1 \in Int
    BY <1>1
  <2>2. Cardinality(0..(N - 1)) = IF 0 > N - 1 THEN 0 ELSE (N - 1) - 0 + 1
    BY <2>1, FS_Interval
  <2> HIDE DEF N
  <2> QED BY <2>1, <2>2, <1>1, FS_Interval
<1>12. f \in Surjection(S, 0..(N - 1))
  BY <1>10, <1>11, FS_Injection
<1>13. \A n \in 0..(N - 1) : \E p \in S : Rank(S, p) = n
  BY <1>12 DEF Surjection
<1>14. \A n \in 0..(N - 1) : Nth(S, n) \in S /\ Rank(S, Nth(S, n)) = n
  BY <1>13 DEF Nth
<1>15. \A p \in S : Nth(S, Rank(S, p)) = p
  BY <1>4, <1>8, <1>14
<1> QED BY <1>1, <1>4, <1>7, <1>14, <1>15

-----------------------------------------------------------------------------
(***************************************************************************)
(* The stores of add into a chunk.                                         *)
(***************************************************************************)
LEMMA AddingFacts ==
    ASSUME HInv, writer.pc \in {"search", "count", "shift", "seal"}
    PROVE  /\ Adding /\ writer.ji \in Obj /\ obj[writer.ji] = "ji" /\ writer.ji \in Objs
           /\ cur # NULL /\ cur \in Tables /\ writer.item = NULL
           /\ End(writer.ji) \in Nat
<1>1. Adding /\ cur # NULL /\ writer.item = NULL
  BY DEF HInv, WriterInv, Adding
<1>2. writer.ji \in Obj /\ obj[writer.ji] = "ji"
  BY <1>1 DEF HInv, WriterInv
<1> QED BY <1>1, <1>2, ObjFacts, NullFacts DEF HInv, StructInv, Objs

\* What any store leaves true: c is the only chunk that changes, and the only
\* new element is the MonoJitInfo that is being added.
LEMMA StoreCommon ==
    ASSUME HInv, UnchangedByStore, TypeOK',
           writer.pc \in {"search", "count", "shift", "seal"},
           NEW k \in DOMAIN table[cur], NEW c, c = CurChunk(k), NEW ji, ji = writer.ji,
           writer.pc # "search" => writer.chunk = c,
           \A d \in Chunk \ {c} : chunk'[d] = chunk[d],
           chunk'[c] # NULL, Ref(c)' = Ref(c),
           NEW added \in BOOLEAN,
           \A o : InChunk(o, c)' <=> InChunk(o, c) \/ (added /\ o = ji),
           \/ /\ writer'.pc \in {"count", "shift", "seal"} /\ writer'.ji = ji
              /\ writer'.item = NULL
              /\ writer'.chunk = c
              /\ writer'.pc = "count" => ~added /\ writer.pc = "search"
           \/ writer' = IdleWriter /\ InChunk(ji, c)'
    PROVE  /\ StructInv' /\ CountsExact' /\ ElemInv' /\ LiveInv' /\ PendInv'
           /\ QueueInv' /\ ObjInv' /\ WriterInv' /\ FailInv'
           /\ \A d \in Chunks \ {c} :
                /\ Num(d)' = Num(d) /\ Last(d)' = Last(d)
                /\ \A j \in Index : Data(d, j)' = Data(d, j)
           /\ \A i : CurChunk(i)' = CurChunk(i)
           /\ Chunks' = Chunks /\ c \in Chunks
<1>0. /\ Adding /\ writer.ji \in Obj /\ obj[writer.ji] = "ji" /\ writer.ji \in Objs
      /\ cur # NULL /\ cur \in Tables /\ writer.item = NULL
  BY AddingFacts
<1>1. /\ obj' = obj /\ table' = table /\ num_tables' = num_tables /\ free_queue' = free_queue
      /\ cur' = cur /\ delayed' = delayed /\ foreign' = foreign /\ failure' = failure
  BY DEF UnchangedByStore, ghosts
<1>2. c \in Chunks /\ c \in Chunk /\ chunk[c] # NULL
  BY <1>0 DEF HInv, StructInv, CurChunk, Chunks
<1>3. Chunks' = Chunks /\ Tables' = Tables /\ Objs' = Objs
  BY <1>1, <1>2 DEF Chunks, Tables, Objs
<1>4. \A d \in Chunks \ {c} : /\ Num(d)' = Num(d) /\ Last(d)' = Last(d) /\ Ref(d)' = Ref(d)
                              /\ \A j \in Index : Data(d, j)' = Data(d, j)
  BY DEF Num, Last, Ref, Data, Chunks
<1>5. \A d \in Chunks : \A o : InChunk(o, d)' <=> InChunk(o, d) \/ (added /\ o = ji /\ d = c)
  <2>1. ASSUME NEW d \in Chunks, d # c, NEW o PROVE InChunk(o, d)' <=> InChunk(o, d)
    BY <2>1, <1>4 DEF InChunk
  <2> QED BY <2>1
<1>6. \A i : CurChunk(i)' = CurChunk(i)
  BY <1>1 DEF CurChunk
<1>7. StructInv'
  BY <1>1, <1>3 DEF HInv, StructInv
<1>8. CountsExact'
  <2>1. \A d \in Chunk : {t \in Tables : d \in ChunksOf(t)}' = {t \in Tables : d \in ChunksOf(t)}
    BY <1>1, <1>3 DEF ChunksOf
  <2>2. \A d \in Chunk : d # c => chunk'[d] = chunk[d]
    OBVIOUS
  <2>3. chunk'[c] # NULL /\ chunk[c] # NULL /\ chunk'[c].refcount = chunk[c].refcount
    BY <1>2 DEF Chunks, Ref
  <2> QED BY <2>1, <2>2, <2>3, <1>1, <1>3 DEF HInv, CountsExact
<1>9. ElemInv'
  <2>1. \A d \in Chunks : \A o : InChunk(o, d) => o \in Objs
    BY DEF HInv, ElemInv, InChunk
  <2>2. \A d \in Chunks : \A o : InChunk(o, d)' => o \in Objs
    BY <2>1, <1>5, <1>0
  <2>3. \A d \in Chunks, j \in Index : j < Num(d)' => Data(d, j)' \in Objs
    BY <2>2 DEF InChunk
  <2> QED BY <2>3, <1>3 DEF ElemInv
<1>10. \A d \in ChunksOf(cur) : d \in Chunks
  BY <1>0 DEF HInv, StructInv, ChunksOf
<1>11. \A o : InTable(o, cur)' <=> InTable(o, cur) \/ (added /\ o = ji)
  <2>1. \A i \in DOMAIN table[cur] : table[cur][i] \in Chunks
    BY <1>0 DEF HInv, StructInv
  <2> QED BY <2>1, <1>1, <1>5 DEF InTable, CurChunk
<1>12. \A o : o \in Live' <=> o \in Live \/ (added /\ o = ji)
  BY <1>11, <1>0, <1>1, LiveFacts, LiveFactsP, NullFacts DEF LiveIs
<1>13. \A o \in Live : o = ji \/ Apart(o, writer.ji)
  BY <1>0 DEF HInv, WriterInv
<1>14. LiveInv'
  <2>1. \A x, y \in Live : x = y \/ Apart(x, y)
    BY DEF HInv, LiveInv
  <2>2. \A x, y : Apart(x, y) <=> Apart(y, x)
    BY DEF Apart
  <2>3. \A x, y \in Live' : x = y \/ Apart(x, y)
    BY <2>1, <2>2, <1>12, <1>13
  <2> QED BY <2>3, <1>12, <1>0, <1>1 DEF HInv, LiveInv
<1>15. \A item \in Item : Pending(item)' <=> Pending(item)
  BY <1>0, <1>1, NullFacts DEF Pending, IdleWriter
<1>16. PendInv'
  <2>1. \A t \in Table : <<"table", t>> \in Item
    BY DEF Item
  <2>2. \A o \in Obj : <<"ji", o>> \in Item
    BY DEF Item
  <2>3. writer'.item = NULL /\ (writer'.ji = writer.ji \/ writer'.ji = NULL)
    BY DEF IdleWriter
  <2>4. \A o \in Obj : Pending(<<"ji", o>>) => o # writer.ji
    BY <2>2, <1>0, NullFacts DEF HInv, PendInv
  <2>5. \A o \in Obj : Pending(<<"ji", o>>)' =>
           /\ obj'[o] = "ji" /\ o \notin free_queue'
           /\ \A d \in Chunks' : ~InChunk(o, d)'
           /\ o # writer'.ji
    BY <2>2, <2>3, <2>4, <1>1, <1>3, <1>5, <1>15, NullFacts DEF HInv, PendInv
  <2>6. \A t \in Table : Pending(<<"table", t>>)' <=> t \in Tables' /\ t # cur'
    BY <2>1, <1>1, <1>3, <1>15 DEF HInv, PendInv
  <2>7. \A i \in DOMAIN delayed' : delayed'[i] # foreign' /\ delayed'[i] # writer'.item
    BY <2>3, <1>1, <1>0 DEF HInv, PendInv
  <2> QED BY <2>3, <2>5, <2>6, <2>7, <1>1, <1>0 DEF HInv, PendInv
<1>17. QueueInv'
  <2>1. \A o \in free_queue : o \in Obj /\ obj[o] = "ji" /\ o # writer.ji /\ ~InTable(o, cur)
    BY <1>0 DEF HInv, QueueInv, TypeOK
  <2>2. writer'.pc \notin {"try", "own"} /\ (writer'.ji = writer.ji \/ writer'.ji = NULL)
    BY DEF IdleWriter
  <2> QED BY <2>1, <2>2, <1>1, <1>11, NullFacts DEF QueueInv
<1>18. InTable(ji, cur)' => ji \in Live'
  BY <1>0, <1>1, LiveFactsP, NullFacts DEF LiveIs
<1>19. ObjInv'
  <2>1. writer' = IdleWriter => ji \in Live'
    <3>1. InChunk(ji, c)' => InTable(ji, cur)'
      BY <1>1 DEF InTable, CurChunk
    <3> QED BY <3>1, <1>18 DEF IdleWriter
  <2>2. writer' # IdleWriter => Adding' /\ writer'.ji = writer.ji
    BY DEF Adding
  <2>3. ASSUME NEW o \in Obj, obj'[o] = "ji", cur' # NULL
        PROVE  \/ o \in Live'
               \/ o = writer'.ji /\ (Adding' \/ writer'.pc = "removed")
               \/ Pending(<<"ji", o>>)'
               \/ o \in free_queue'
    <3>1. <<"ji", o>> \in Item
      BY DEF Item
    <3>2. \/ o \in Live \/ o = ji \/ Pending(<<"ji", o>>) \/ o \in free_queue
      BY <2>3, <1>1 DEF HInv, ObjInv
    <3> QED BY <3>1, <3>2, <2>1, <2>2, <1>1, <1>12, <1>15
  <2>4. ASSUME NEW o \in Obj, obj'[o] = "tombstone"
        PROVE  /\ \E d \in Chunks' : InChunk(o, d)'
               /\ \A d, e \in Chunks' : InChunk(o, d)' /\ InChunk(o, e)' => d = e
    <3>1. o # writer.ji /\ obj[o] = "tombstone"
      BY <2>4, <1>0, <1>1
    <3> QED BY <3>1, <1>3, <1>5 DEF HInv, ObjInv
  <2> QED BY <2>3, <2>4 DEF ObjInv
<1>20. WriterInv'
  <2>1. CASE writer' = IdleWriter
    BY <2>1, NullFacts DEF WriterInv, IdleWriter, Adding
  <2>2. CASE writer'.pc \in {"count", "shift", "seal"} /\ writer'.ji = writer.ji
              /\ writer'.item = NULL /\ writer'.chunk = c
              /\ (writer'.pc = "count" => ~added /\ writer.pc = "search")
    <3>1. \A o \in Live' : o = writer'.ji \/ Apart(o, writer'.ji)
      BY <2>2, <1>12, <1>13
    <3>2. \A d \in Chunks : InChunk(writer.ji, d) => d = writer.chunk /\ writer.pc \in {"shift", "seal"}
      BY <1>0 DEF HInv, WriterInv
    <3>3. writer.pc \in {"shift", "seal"} => writer.chunk = c
      OBVIOUS
    <3>4. \A d \in Chunks' : InChunk(ji, d)' => d = writer'.chunk
      BY <3>2, <3>3, <2>2, <1>3, <1>5
    <3>5. writer'.pc = "count" => \A d \in Chunks' : ~InChunk(ji, d)'
      BY <3>2, <2>2, <1>3, <1>5
    <3>6. Adding' /\ writer'.pc \notin {"idle", "free_all", "try", "own", "removed", "search"}
      BY <2>2 DEF Adding
    <3>7. \A d \in Chunks' : ~InChunk(ji, d)' <=> ~InChunk(writer.ji, d)'
      BY <2>2 DEF InChunk
    <3> QED BY <3>1, <3>4, <3>5, <3>6, <3>7, <2>2, <1>0, <1>1, NullFacts DEF WriterInv
  <2> QED BY <2>1, <2>2
<1>21. FailInv'
  BY <1>1 DEF HInv, FailInv
<1> QED BY <1>2, <1>3, <1>4, <1>6, <1>7, <1>8, <1>9, <1>14, <1>16, <1>17, <1>19, <1>20, <1>21

LEMMA StoreType ==
    ASSUME TypeOK, UnchangedByStore, writer' \in WriterRecord,
           chunk' \in [Chunk -> ChunkRecord \cup {NULL}]
    PROVE  TypeOK'
BY DEF TypeOK, UnchangedByStore, ghosts

\* The effect of a store on the chunk it goes to.
LEMMA DataStore ==
    ASSUME TypeOK, NEW c \in Chunks, NEW n \in Index, NEW o \in Obj \cup {NULL},
           chunk' = [chunk EXCEPT ![c].data[n] = o]
    PROVE  /\ chunk' \in [Chunk -> ChunkRecord \cup {NULL}] /\ chunk'[c] # NULL
           /\ Ref(c)' = Ref(c) /\ Num(c)' = Num(c) /\ Last(c)' = Last(c)
           /\ \A j \in Index : Data(c, j)' = IF j = n THEN o ELSE Data(c, j)
           /\ \A d \in Chunk \ {c} : chunk'[d] = chunk[d]
<1>1. c \in Chunk /\ chunk[c] \in ChunkRecord
  BY DEF TypeOK, Chunks
<1>2. chunk'[c] = [chunk[c] EXCEPT !.data = [chunk[c].data EXCEPT ![n] = o]]
  BY <1>1 DEF TypeOK
<1>3. chunk'[c] \in ChunkRecord
  BY <1>1, <1>2 DEF ChunkRecord
<1>4. \A d \in Chunk \ {c} : chunk'[d] = chunk[d]
  BY DEF TypeOK
<1>5. chunk' \in [Chunk -> ChunkRecord \cup {NULL}]
  BY <1>3, <1>4, <1>1 DEF TypeOK
<1>6. /\ Ref(c)' = Ref(c) /\ Num(c)' = Num(c) /\ Last(c)' = Last(c)
      /\ \A j \in Index : Data(c, j)' = IF j = n THEN o ELSE Data(c, j)
  BY <1>1, <1>2 DEF ChunkRecord, Ref, Num, Last, Data
<1> QED BY <1>3, <1>4, <1>5, <1>6, NullAssumption

LEMMA NumStore ==
    ASSUME TypeOK, NEW c \in Chunks, Num(c) < CHUNK_SIZE,
           chunk' = [chunk EXCEPT ![c].num_elements = @ + 1]
    PROVE  /\ chunk' \in [Chunk -> ChunkRecord \cup {NULL}] /\ chunk'[c] # NULL
           /\ Ref(c)' = Ref(c) /\ Num(c)' = Num(c) + 1 /\ Last(c)' = Last(c)
           /\ \A j \in Index : Data(c, j)' = Data(c, j)
           /\ \A d \in Chunk \ {c} : chunk'[d] = chunk[d]
<1>1. c \in Chunk /\ chunk[c] \in ChunkRecord
  BY DEF TypeOK, Chunks
<1>2. chunk'[c] = [chunk[c] EXCEPT !.num_elements = chunk[c].num_elements + 1]
  BY <1>1 DEF TypeOK
<1>3. chunk'[c] \in ChunkRecord
  <2>1. PICK n : n = chunk[c].num_elements + 1
    OBVIOUS
  <2>a. chunk[c].num_elements \in 0..CHUNK_SIZE /\ chunk[c].num_elements < CHUNK_SIZE
    BY <1>1 DEF ChunkRecord, Num
  <2>b. CHUNK_SIZE \in Nat
    BY SizeFacts
  <2>2. n \in 0..CHUNK_SIZE
    BY <2>1, <2>a, <2>b
  <2>3. chunk'[c] = [chunk[c] EXCEPT !.num_elements = n]
    BY <2>1, <1>2
  <2> QED BY <2>2, <2>3, <1>1 DEF ChunkRecord
<1>4. \A d \in Chunk \ {c} : chunk'[d] = chunk[d]
  BY DEF TypeOK
<1>5. chunk' \in [Chunk -> ChunkRecord \cup {NULL}]
  BY <1>3, <1>4, <1>1 DEF TypeOK
<1>6. /\ Ref(c)' = Ref(c) /\ Num(c)' = Num(c) + 1 /\ Last(c)' = Last(c)
      /\ \A j \in Index : Data(c, j)' = Data(c, j)
  BY <1>1, <1>2 DEF ChunkRecord, Ref, Num, Last, Data
<1> QED BY <1>3, <1>4, <1>5, <1>6, NullAssumption

LEMMA LastStore ==
    ASSUME TypeOK, NEW c \in Chunks, NEW n \in Nat,
           chunk' = [chunk EXCEPT ![c].last_code_end = n]
    PROVE  /\ chunk' \in [Chunk -> ChunkRecord \cup {NULL}] /\ chunk'[c] # NULL
           /\ Ref(c)' = Ref(c) /\ Num(c)' = Num(c) /\ Last(c)' = n
           /\ \A j \in Index : Data(c, j)' = Data(c, j)
           /\ \A d \in Chunk \ {c} : chunk'[d] = chunk[d]
<1>1. c \in Chunk /\ chunk[c] \in ChunkRecord
  BY DEF TypeOK, Chunks
<1>2. chunk'[c] = [chunk[c] EXCEPT !.last_code_end = n]
  BY <1>1 DEF TypeOK
<1>3. chunk'[c] \in ChunkRecord
  BY <1>1, <1>2 DEF ChunkRecord
<1>4. \A d \in Chunk \ {c} : chunk'[d] = chunk[d]
  BY DEF TypeOK
<1>5. chunk' \in [Chunk -> ChunkRecord \cup {NULL}]
  BY <1>3, <1>4, <1>1 DEF TypeOK
<1>6. /\ Ref(c)' = Ref(c) /\ Num(c)' = Num(c) /\ Last(c)' = n
      /\ \A j \in Index : Data(c, j)' = Data(c, j)
  BY <1>1, <1>2 DEF ChunkRecord, Ref, Num, Last, Data
<1> QED BY <1>3, <1>4, <1>5, <1>6, NullAssumption

\* The facts about the current table every store needs.
LEMMA CurFacts ==
    ASSUME HInv, cur # NULL
    PROVE  /\ cur \in Tables /\ Len(table[cur]) \in Nat /\ DOMAIN table[cur] = 1..Len(table[cur])
           /\ \A i \in DOMAIN table[cur] :
                /\ CurChunk(i) \in Chunks /\ CurChunk(i) \in Chunk /\ CurChunk(i) # NULL
                /\ Num(CurChunk(i)) \in 0..CHUNK_SIZE /\ Last(CurChunk(i)) \in Nat
                /\ \A j \in Index : j < Num(CurChunk(i)) =>
                     /\ Data(CurChunk(i), j) \in Obj /\ End(Data(CurChunk(i), j)) \in Nat
           /\ \A i, k \in DOMAIN table[cur] : CurChunk(i) = CurChunk(k) => i = k
<1>1. cur \in Tables /\ \A i \in DOMAIN table[cur] : CurChunk(i) \in Chunks
  BY DEF HInv, StructInv, CurChunk
<1>2. TypeOK
  BY DEF HInv
<1>3. \A i \in DOMAIN table[cur], j \in Index : j < Num(CurChunk(i)) =>
         /\ Data(CurChunk(i), j) \in Obj /\ End(Data(CurChunk(i), j)) \in Nat
  BY <1>1, ObjFacts DEF HInv, ElemInv, Objs
<1>4. \A i, k \in DOMAIN table[cur] : CurChunk(i) = CurChunk(k) => i = k
  BY <1>1 DEF HInv, StructInv, CurChunk
<1>5. cur \in Tables /\ Len(table[cur]) \in Nat /\ DOMAIN table[cur] = 1..Len(table[cur])
  BY <1>1, <1>2, TableFacts DEF TableType
<1>6. \A i \in DOMAIN table[cur] :
         /\ CurChunk(i) \in Chunk /\ CurChunk(i) # NULL
         /\ Num(CurChunk(i)) \in 0..CHUNK_SIZE /\ Last(CurChunk(i)) \in Nat
  BY <1>1, <1>2, ChunkFacts, NullFacts DEF ChunkType
<1> QED BY <1>1, <1>3, <1>4, <1>5, <1>6

LEMMA GrowStep ==
    ASSUME HInv, Grow
    PROVE  HInv'
<1>0. PICK k, c, n, ji, p : /\ k = Target(writer.ji) /\ c = CurChunk(k) /\ n = Num(c)
                            /\ ji = writer.ji /\ p = jit_info_table_chunk_index(c, End(ji))
  OBVIOUS
<1>a. TypeOK /\ StructInv /\ OrderInv /\ ElemInv
  BY DEF HInv
<1>b. /\ writer.pc = "search" /\ writer \in WriterRecord
      /\ writer.chunk = NULL
  BY DEF HInv, Grow, WriterAt, PlaceInv, Storing, TypeOK
<1>c. /\ Adding /\ ji \in Obj /\ ji \in Objs /\ cur # NULL /\ cur \in Tables
      /\ writer.item = NULL /\ End(ji) \in Nat
  BY <1>0, <1>b, AddingFacts
<1>d. /\ k \in DOMAIN table[cur]
      /\ \A i \in DOMAIN table[cur] : i < k => Last(CurChunk(i)) <= End(ji)
      /\ k < Len(table[cur]) => End(ji) < Last(c)
  BY <1>0, <1>a, <1>c, IndexFacts DEF Target
<1>e. /\ c \in Chunks /\ c \in Chunk /\ n \in 0..CHUNK_SIZE
  BY <1>0, <1>c, <1>d, CurFacts
<1>f. /\ p \in 0..n
      /\ \A j \in Index : j < p => End(Data(c, j)) <= End(ji)
      /\ \A j \in Index : p <= j /\ j < n => End(ji) < End(Data(c, j))
  BY <1>0, <1>a, <1>c, <1>e, ChunkIndexFacts
<1>g. /\ n < CHUNK_SIZE /\ n \in Index
      /\ chunk' = [chunk EXCEPT ![c].data[n] = IF n > 0 THEN Data(c, n - 1) ELSE ji]
      /\ writer' = [writer EXCEPT !.pc = "count", !.chunk = c, !.i = n - 1, !.pos = p]
      /\ UnchangedByStore
  <2>1. n < CHUNK_SIZE
    BY <1>0 DEF Grow, Num, CurChunk
  <2>2. n \in Index
    BY <2>1, <1>e, SizeFacts
  <2>3. chunk' = [chunk EXCEPT ![c].data[n] = IF n > 0 THEN Data(c, n - 1) ELSE ji]
    BY <1>0 DEF Grow, Num, Data, CurChunk
  <2>4. writer' = [writer EXCEPT !.pc = "count", !.chunk = c, !.i = n - 1, !.pos = p]
    BY <1>0 DEF Grow, Num, CurChunk
  <2> QED BY <2>1, <2>2, <2>3, <2>4 DEF Grow
<1>v. PICK v : v = IF n > 0 THEN Data(c, n - 1) ELSE ji
  OBVIOUS
<1>h. v \in Obj
  <2>1. n > 0 => n - 1 \in Index /\ n - 1 < n
    BY <1>e, <1>g, SizeFacts
  <2> QED BY <2>1, <1>v, <1>0, <1>a, <1>c, <1>e DEF ElemInv, Objs
<1>i. /\ writer'.pc = "count" /\ writer'.chunk = c /\ writer'.i = n - 1 /\ writer'.pos = p
      /\ writer'.ji = ji /\ writer'.item = NULL
      /\ writer' \in WriterRecord
  <2>1. n - 1 \in -1..CHUNK_SIZE /\ p \in 0..CHUNK_SIZE
    BY <1>e, <1>f, SizeFacts
  <2> QED BY <2>1, <1>0, <1>b, <1>c, <1>e, <1>g DEF WriterRecord
<1>j. /\ chunk' \in [Chunk -> ChunkRecord \cup {NULL}] /\ chunk'[c] # NULL
      /\ Ref(c)' = Ref(c) /\ Num(c)' = Num(c) /\ Last(c)' = Last(c)
      /\ \A j \in Index : Data(c, j)' = IF j = n THEN v ELSE Data(c, j)
      /\ \A d \in Chunk \ {c} : chunk'[d] = chunk[d]
  <2>1. chunk' = [chunk EXCEPT ![c].data[n] = v]
    BY <1>g, <1>v
  <2> QED BY <2>1, <1>a, <1>e, <1>g, <1>h, DataStore
<1>k. TypeOK'
  BY <1>a, <1>g, <1>i, <1>j, StoreType
<1>l. \A o : InChunk(o, c)' <=> InChunk(o, c)
  <2>1. \A j \in Index : j < n => Data(c, j)' = Data(c, j)
    BY <1>j, <1>e, SizeFacts
  <2> QED BY <2>1, <1>j, <1>0 DEF InChunk
<1>m. /\ StructInv' /\ CountsExact' /\ ElemInv' /\ LiveInv' /\ PendInv'
      /\ QueueInv' /\ ObjInv' /\ WriterInv' /\ FailInv'
      /\ \A d \in Chunks \ {c} :
           /\ Num(d)' = Num(d) /\ Last(d)' = Last(d)
           /\ \A j \in Index : Data(d, j)' = Data(d, j)
      /\ \A i : CurChunk(i)' = CurChunk(i)
      /\ Chunks' = Chunks
  <2>1. c = CurChunk(k) /\ ji = writer.ji
    BY <1>0
  <2>2. PICK added \in BOOLEAN : added = FALSE
    OBVIOUS
  <2>3. \A o : InChunk(o, c)' <=> InChunk(o, c) \/ (added /\ o = ji)
    BY <1>l, <2>2
  <2>4. /\ writer'.pc \in {"count", "shift", "seal"} /\ writer'.ji = ji
        /\ writer'.item = NULL /\ writer'.chunk = c
        /\ writer'.pc = "count" => ~added /\ writer.pc = "search"
    BY <1>b, <1>i, <2>2
  <2>5. writer.pc \in {"search", "count", "shift", "seal"} /\ (writer.pc # "search" => writer.chunk = c)
    BY <1>b
  <2> QED BY <2>1, <2>3, <2>4, <2>5, <1>b, <1>d, <1>g, <1>i, <1>j, <1>k, StoreCommon
<1>n. \A d \in Chunks : /\ Num(d)' = Num(d) /\ Last(d)' = Last(d)
                        /\ \A j \in Index : j < Num(d) => Data(d, j)' = Data(d, j)
  BY <1>j, <1>m, <1>e, <1>0
<1>o. cur' = cur /\ table' = table
  BY <1>g DEF UnchangedByStore
<1>p. \A i \in DOMAIN table[cur] : CurChunk(i) \in Chunks /\ CurChunk(i) # NULL
  BY <1>c, CurFacts
<1>1. OrderInv'
  <2>1. \A d \in Chunks' : \A j, l \in Index :
          j <= l /\ l < Num(d)' => End(Data(d, j)') <= End(Data(d, l)')
    BY <1>a, <1>m, <1>n, SizeFacts, ChunkFacts DEF OrderInv, ChunkType
  <2>2. \A i \in DOMAIN table[cur], j \in Index : j < Num(CurChunk(i)) =>
          End(Data(CurChunk(i), j)) <= Last(CurChunk(i))
    BY <1>a, <1>b, <1>c, <1>p DEF OrderInv
  <2> QED BY <2>1, <2>2, <1>a, <1>c, <1>m, <1>n, <1>o, <1>p DEF OrderInv, End
<1>2. UniqInv'
  BY <1>b, <1>c, <1>m, <1>n, <1>o, <1>p DEF HInv, UniqInv
<1>3. PlaceInv'
  <2>1. \A i \in DOMAIN table[cur] : c = CurChunk(i) => i = k
    BY <1>0, <1>c, <1>d, CurFacts
  <2> QED BY <2>1, <1>c, <1>d, <1>e, <1>i, <1>m, <1>n, <1>o, <1>p, <1>0 DEF PlaceInv, Storing
<1>4. CountInv'
  <2> SUFFICES
        /\ n < CHUNK_SIZE /\ writer'.i = n - 1 /\ writer'.pos <= n
        /\ Data(c, n)' = (IF n > 0 THEN Data(c, n - 1)' ELSE writer'.ji)
        /\ \A j \in Index : j < writer'.pos => End(Data(c, j)') <= End(writer'.ji)
        /\ \A j \in Index : writer'.pos <= j /\ j < n => End(writer'.ji) < End(Data(c, j)')
    <3>1. Num(c)' = n
      BY <1>j, <1>0
    <3> QED BY <3>1, <1>i DEF CountInv
  <2>1. n > 0 => n - 1 \in Index /\ n - 1 # n
    BY <1>e, <1>g, SizeFacts
  <2>2. Data(c, n)' = v
    BY <1>g, <1>j
  <2>3. n > 0 => Data(c, n - 1)' = Data(c, n - 1)
    BY <1>j, <2>1
  <2>4. p <= n
    BY <1>f, <1>e
  <2>5. writer'.i = n - 1 /\ writer'.pos = p /\ writer'.ji = ji
    BY <1>i, <1>0
  <2>6. \A j \in Index : j < n => Data(c, j)' = Data(c, j)
    <3>1. \A j \in Index : j < n => j # n
      BY <1>g, SizeFacts
    <3> QED BY <3>1, <1>j
  <2>7. \A j \in Index : j < p => j < n
    BY <1>e, <1>f, SizeFacts
  <2>8. \A j \in Index : j < p => End(Data(c, j)') <= End(ji)
    BY <2>6, <2>7, <1>f
  <2>9. \A j \in Index : p <= j /\ j < n => End(ji) < End(Data(c, j)')
    BY <2>6, <1>f
  <2>10. Data(c, n)' = IF n > 0 THEN Data(c, n - 1)' ELSE ji
    BY <2>2, <2>3, <1>v
  <2>11. n < CHUNK_SIZE
    BY <1>g
  <2> QED BY <2>4, <2>5, <2>8, <2>9, <2>10, <2>11
<1>5. ShiftInv' /\ SealInv'
  BY <1>i DEF ShiftInv, SealInv
<1> QED BY <1>1, <1>2, <1>3, <1>4, <1>5, <1>k, <1>m DEF HInv

LEMMA StoringFacts ==
    ASSUME HInv, Storing
    PROVE  \E k \in DOMAIN table[cur] :
             /\ writer.chunk = CurChunk(k)
             /\ CurChunk(k) \in Chunks /\ CurChunk(k) \in Chunk
             /\ Num(CurChunk(k)) \in 0..CHUNK_SIZE
             /\ \A i \in DOMAIN table[cur] : CurChunk(k) = CurChunk(i) => i = k
             /\ \A i \in DOMAIN table[cur] : i < k => Last(CurChunk(i)) <= End(writer.ji)
             /\ k < Len(table[cur]) => End(writer.ji) < Last(CurChunk(k))
<1>1. cur # NULL
  BY AddingFacts DEF Storing
<1>2. PICK k \in DOMAIN table[cur] : writer.chunk = CurChunk(k)
  BY DEF HInv, PlaceInv
<1>3. /\ \A i \in DOMAIN table[cur] : i < k => Last(CurChunk(i)) <= End(writer.ji)
      /\ k < Len(table[cur]) => End(writer.ji) < Last(CurChunk(k))
  BY <1>2 DEF HInv, PlaceInv
<1> QED BY <1>1, <1>2, <1>3, CurFacts

LEMMA CountStep ==
    ASSUME HInv, Count
    PROVE  HInv'
<1>a. TypeOK /\ StructInv /\ OrderInv /\ ElemInv
  BY DEF HInv
<1>b. /\ writer.pc = "count" /\ writer \in WriterRecord /\ Storing
      /\ chunk' = [chunk EXCEPT ![writer.chunk].num_elements = @ + 1]
      /\ writer' = [writer EXCEPT !.pc = "shift"]
      /\ UnchangedByStore
  BY DEF HInv, Count, WriterAt, Storing, TypeOK
<1>0. PICK k, c, n, ji :
        /\ k \in DOMAIN table[cur]
        /\ writer.chunk = c /\ c = CurChunk(k) /\ n = Num(c) /\ ji = writer.ji
        /\ c \in Chunks /\ c \in Chunk /\ n \in 0..CHUNK_SIZE
        /\ \A i \in DOMAIN table[cur] : c = CurChunk(i) => i = k
        /\ \A i \in DOMAIN table[cur] : i < k => Last(CurChunk(i)) <= End(ji)
        /\ k < Len(table[cur]) => End(ji) < Last(c)
  BY <1>b, StoringFacts
<1>h. k \in DOMAIN table[cur]
  BY <1>0
<1>c. /\ Adding /\ ji \in Obj /\ ji \in Objs /\ cur # NULL /\ cur \in Tables
      /\ writer.item = NULL /\ End(ji) \in Nat
  BY <1>0, <1>b, AddingFacts
<1>d. /\ n < CHUNK_SIZE /\ writer.i = n - 1 /\ writer.pos <= n
      /\ Data(c, n) = (IF n > 0 THEN Data(c, n - 1) ELSE ji)
      /\ \A j \in Index : j < writer.pos => End(Data(c, j)) <= End(ji)
      /\ \A j \in Index : writer.pos <= j /\ j < n => End(ji) < End(Data(c, j))
      /\ writer.pos \in Nat /\ n \in Index
  BY <1>0, <1>b, SizeFacts DEF HInv, CountInv, WriterRecord
<1>e. n > 0 => n - 1 \in Index /\ n - 1 < n
  BY <1>d, SizeFacts
<1>f. \A d \in Chunks : ~InChunk(ji, d)
  BY <1>0, <1>b, <1>c DEF HInv, WriterInv
<1>i. /\ writer'.pc = "shift" /\ writer'.chunk = c /\ writer'.i = n - 1 /\ writer'.pos = writer.pos
      /\ writer'.ji = ji /\ writer'.item = NULL
      /\ writer' \in WriterRecord
  BY <1>0, <1>b, <1>c, <1>d DEF WriterRecord
<1>j. /\ chunk' \in [Chunk -> ChunkRecord \cup {NULL}] /\ chunk'[c] # NULL
      /\ Ref(c)' = Ref(c) /\ Num(c)' = n + 1 /\ Last(c)' = Last(c)
      /\ \A j \in Index : Data(c, j)' = Data(c, j)
      /\ \A d \in Chunk \ {c} : chunk'[d] = chunk[d]
  BY <1>0, <1>a, <1>b, <1>d, NumStore
<1>k. TypeOK'
  BY <1>a, <1>b, <1>i, <1>j, StoreType
<1>v. PICK added \in BOOLEAN : added <=> n = 0
  <2>1. (n = 0) \in BOOLEAN
    OBVIOUS
  <2> QED BY <2>1
<1>l. \A o : InChunk(o, c)' <=> InChunk(o, c) \/ (added /\ o = ji)
  <2>1. \A o : InChunk(o, c)' <=> \E j \in Index : j <= n /\ Data(c, j) = o
    BY <1>j, <1>0, SizeFacts DEF InChunk
  <2>2. \A o : InChunk(o, c) <=> \E j \in Index : j < n /\ Data(c, j) = o
    BY <1>0 DEF InChunk
  <2>3. CASE n = 0
    <3>1. \A j \in Index : j <= n <=> j = n
      BY <2>3, SizeFacts
    <3> QED BY <2>1, <2>2, <2>3, <3>1, <1>v, <1>d
  <2>4. CASE n > 0
    <3>1. \A j \in Index : j <= n <=> j < n \/ j = n
      BY <1>0, SizeFacts
    <3> QED BY <2>1, <2>2, <2>4, <3>1, <1>v, <1>d, <1>e
  <2> QED BY <2>3, <2>4, <1>0
<1>m. /\ StructInv' /\ CountsExact' /\ ElemInv' /\ LiveInv' /\ PendInv'
      /\ QueueInv' /\ ObjInv' /\ WriterInv' /\ FailInv'
      /\ \A d \in Chunks \ {c} :
           /\ Num(d)' = Num(d) /\ Last(d)' = Last(d)
           /\ \A j \in Index : Data(d, j)' = Data(d, j)
      /\ \A i : CurChunk(i)' = CurChunk(i)
      /\ Chunks' = Chunks
  <2>4. /\ writer'.pc \in {"count", "shift", "seal"} /\ writer'.ji = ji
        /\ writer'.item = NULL /\ writer'.chunk = c
        /\ writer'.pc = "count" => ~added /\ writer.pc = "search"
    BY <1>i
  <2>5. writer.pc \in {"search", "count", "shift", "seal"} /\ (writer.pc # "search" => writer.chunk = c)
    BY <1>0, <1>b
  <2> QED BY <2>4, <2>5, <1>0, <1>b, <1>i, <1>j, <1>k, <1>l, StoreCommon
<1>o. cur' = cur /\ table' = table
  BY <1>b DEF UnchangedByStore
<1>p. \A i \in DOMAIN table[cur] :
        /\ CurChunk(i) \in Chunks /\ CurChunk(i) # NULL
        /\ i # k => CurChunk(i) # c
  BY <1>c, <1>0, CurFacts
<1>q. \A i \in DOMAIN table[cur] : i # k =>
        /\ Num(CurChunk(i))' = Num(CurChunk(i)) /\ Last(CurChunk(i))' = Last(CurChunk(i))
        /\ \A j \in Index : Data(CurChunk(i), j)' = Data(CurChunk(i), j)
  BY <1>p, <1>m
<1>r. \A j \in Index : j < Num(c)' => j < n \/ j = n
  BY <1>j, <1>0, SizeFacts
<1>s. \A j \in Index : j < n => End(Data(c, j)) \in Nat
  BY <1>0, <1>c, CurFacts
<1>t. Len(table[cur]) \in Nat /\ DOMAIN table[cur] = 1..Len(table[cur]) /\ Last(c) \in Nat
  BY <1>0, <1>c, CurFacts
<1>1. OrderInv'
  <2>1. \A j, l \in Index : j <= l /\ l < Num(c)' => End(Data(c, j)') <= End(Data(c, l)')
    <3> SUFFICES ASSUME NEW j \in Index, NEW l \in Index, j <= l, l < n + 1
                 PROVE  End(Data(c, j)) <= End(Data(c, l))
      BY <1>j
    <3>1. CASE l < n
      BY <3>1, <1>a, <1>0 DEF OrderInv
    <3>2. CASE l = n /\ j < n
      <4>1. n > 0 /\ j <= n - 1
        BY <3>2, <1>0, SizeFacts
      <4>2. End(Data(c, j)) <= End(Data(c, n - 1))
        BY <4>1, <1>a, <1>e, <1>0 DEF OrderInv
      <4> QED BY <4>1, <4>2, <3>2, <1>d
    <3>3. CASE l = n /\ j = n
      <4>1. End(Data(c, n)) \in Nat
        BY <1>d, <1>e, <1>c, <1>s, <1>0
      <4> QED BY <4>1, <3>3
    <3> QED BY <3>1, <3>2, <3>3, <1>0, SizeFacts
  <2>2. \A d \in Chunks' : \A j, l \in Index :
          j <= l /\ l < Num(d)' => End(Data(d, j)') <= End(Data(d, l)')
    <3> SUFFICES ASSUME NEW d \in Chunks, d # c PROVE \A j, l \in Index :
          j <= l /\ l < Num(d)' => End(Data(d, j)') <= End(Data(d, l)')
      BY <2>1, <1>m
    <3> QED BY <1>a, <1>m DEF OrderInv
  <2>3. ASSUME NEW i \in DOMAIN table[cur], NEW j \in Index, j < Num(CurChunk(i))'
        PROVE  \/ End(Data(CurChunk(i), j)') <= Last(CurChunk(i))'
               \/ /\ Data(CurChunk(i), j)' = ji
                  /\ c = CurChunk(i) /\ i = Len(table[cur])
    <3>1. CASE i # k
      BY <3>1, <2>3, <1>0, <1>a, <1>c, <1>p, <1>q, <1>m DEF OrderInv
    <3>2. CASE i = k /\ j < n
      BY <3>2, <1>0, <1>a, <1>c, <1>j, <1>m DEF OrderInv
    <3>3. CASE i = k /\ j = n /\ n > 0
      BY <3>3, <1>0, <1>a, <1>c, <1>d, <1>e, <1>j, <1>m DEF OrderInv
    <3>4. CASE i = k /\ j = n /\ n = 0
      <4>1. Data(CurChunk(i), j)' = ji /\ c = CurChunk(i)
        BY <3>4, <1>0, <1>d, <1>j, <1>m
      <4>2. k < Len(table[cur]) => End(ji) <= Last(c)
        BY <1>0, <1>c, <1>t
      <4>3. k < Len(table[cur]) \/ k = Len(table[cur])
        BY <1>h, <1>t
      <4> QED BY <4>1, <4>2, <4>3, <3>4, <1>0, <1>j, <1>m
    <3> QED BY <3>1, <3>2, <3>3, <3>4, <2>3, <1>0, <1>r, <1>m
  <2>4. ASSUME NEW i \in DOMAIN table[cur], NEW l \in DOMAIN table[cur], i < l
        PROVE  /\ Last(CurChunk(i))' <= Last(CurChunk(l))'
               /\ \A j \in Index : j < Num(CurChunk(l))' =>
                    Last(CurChunk(i))' <= End(Data(CurChunk(l), j)')
    <3>0. \A x \in DOMAIN table[cur] : Last(CurChunk(x))' = Last(CurChunk(x))
      BY <1>0, <1>j, <1>q, <1>m
    <3>1. Last(CurChunk(i))' <= Last(CurChunk(l))'
      BY <3>0, <2>4, <1>a, <1>c DEF OrderInv
    <3>2. ASSUME NEW j \in Index, j < Num(CurChunk(l))'
          PROVE  Last(CurChunk(i)) <= End(Data(CurChunk(l), j)')
      <4>1. CASE l # k
        BY <4>1, <3>2, <2>4, <1>a, <1>c, <1>q DEF OrderInv
      <4>2. CASE l = k /\ j < n
        BY <4>2, <2>4, <1>0, <1>a, <1>c, <1>j, <1>m DEF OrderInv
      <4>3. CASE l = k /\ j = n /\ n > 0
        BY <4>3, <2>4, <1>0, <1>a, <1>c, <1>d, <1>e, <1>j, <1>m DEF OrderInv
      <4>4. CASE l = k /\ j = n /\ n = 0
        BY <4>4, <2>4, <1>0, <1>d, <1>j, <1>m
      <4> QED BY <4>1, <4>2, <4>3, <4>4, <3>2, <1>0, <1>r, <1>m
    <3> QED BY <3>0, <3>1, <3>2
  <2> QED BY <2>2, <2>3, <2>4, <1>i, <1>m, <1>o DEF OrderInv
<1>2. UniqInv'
  <2>0. writer'.i + 1 = n
    BY <1>0, <1>i
  <2> SUFFICES ASSUME NEW i \in DOMAIN table[cur], NEW l \in DOMAIN table[cur],
                      NEW x \in Index, NEW y \in Index,
                      x < Num(CurChunk(i))', y < Num(CurChunk(l))',
                      Data(CurChunk(i), x)' = Data(CurChunk(l), y)'
               PROVE  /\ i = l
                      /\ x = y \/ (c = CurChunk(i) /\ (x = n \/ y = n))
    BY <2>0, <1>i, <1>m, <1>o DEF UniqInv
  <2> DEFINE val(a, z) == IF a = k /\ z = n THEN (IF n = 0 THEN ji ELSE Data(c, n - 1))
                          ELSE Data(CurChunk(a), z)
  <2>1. Data(CurChunk(i), x)' = val(i, x) /\ Data(CurChunk(l), y)' = val(l, y)
    <3>1. ASSUME NEW a \in DOMAIN table[cur], NEW z \in Index PROVE Data(CurChunk(a), z)' = val(a, z)
      <4>1. CASE a = k
        <5>1. Data(CurChunk(a), z)' = Data(c, z)'
          BY <4>1, <1>0, <1>m
        <5>2. Data(c, z)' = Data(c, z) /\ Data(CurChunk(a), z) = Data(c, z)
          BY <4>1, <1>0, <1>j
        <5>3. Data(c, n) = IF n = 0 THEN ji ELSE Data(c, n - 1)
          <6>1. n \in Nat
            BY <1>0, SizeFacts
          <6> QED BY <6>1, <1>d
        <5>4. CASE z = n
          BY <4>1, <5>1, <5>2, <5>3, <5>4
        <5>5. CASE z # n
          BY <4>1, <5>1, <5>2, <5>5
        <5> QED BY <5>4, <5>5
      <4>2. CASE a # k
        BY <4>2, <1>0, <1>m, <1>q
      <4> QED BY <4>1, <4>2
    <3> QED BY <3>1
  <2>2. /\ (i = k /\ x = n) \/ x < Num(CurChunk(i))
        /\ (l = k /\ y = n) \/ y < Num(CurChunk(l))
    BY <1>0, <1>r, <1>m, <1>q
  <2>3. \A a \in DOMAIN table[cur], z \in Index : z < Num(CurChunk(a)) => Data(CurChunk(a), z) # ji
    BY <1>f, <1>p DEF InChunk
  <2>4. \A a, b \in DOMAIN table[cur], z, w \in Index :
           z < Num(CurChunk(a)) /\ w < Num(CurChunk(b)) /\ Data(CurChunk(a), z) = Data(CurChunk(b), w)
           => a = b /\ z = w
    BY <1>b, <1>c DEF HInv, UniqInv
  <2>5. CASE i = k /\ x = n /\ l = k /\ y = n
    BY <2>5
  <2>6. CASE i = k /\ x = n /\ ~(l = k /\ y = n)
    <3>1. y < Num(CurChunk(l)) /\ Data(CurChunk(l), y) = (IF n = 0 THEN ji ELSE Data(c, n - 1))
      BY <2>6, <2>1, <2>2
    <3>2. n > 0 /\ Data(CurChunk(l), y) = Data(CurChunk(k), n - 1)
      BY <3>1, <2>3, <1>0
    <3>3. l = k
      BY <3>1, <3>2, <2>4, <1>e, <1>0
    <3> QED BY <3>3, <2>6, <1>0
  <2>7. CASE ~(i = k /\ x = n) /\ l = k /\ y = n
    <3>1. x < Num(CurChunk(i)) /\ Data(CurChunk(i), x) = (IF n = 0 THEN ji ELSE Data(c, n - 1))
      BY <2>7, <2>1, <2>2
    <3>2. n > 0 /\ Data(CurChunk(i), x) = Data(CurChunk(k), n - 1)
      BY <3>1, <2>3, <1>0
    <3>3. i = k
      BY <3>1, <3>2, <2>4, <1>e, <1>0
    <3> QED BY <3>3, <2>7, <1>0
  <2>8. CASE ~(i = k /\ x = n) /\ ~(l = k /\ y = n)
    BY <2>8, <2>1, <2>2, <2>4
  <2> QED BY <2>5, <2>6, <2>7, <2>8
<1>3. PlaceInv'
  <2>1. \A i \in DOMAIN table[cur] : Last(CurChunk(i))' = Last(CurChunk(i))
    BY <1>0, <1>j, <1>q, <1>m
  <2> QED BY <2>1, <1>0, <1>i, <1>m, <1>o DEF PlaceInv, Storing
<1>5. ShiftInv'
  <2>1. /\ Num(c)' - 1 = n /\ writer'.pos <= writer'.i + 1 /\ writer'.i + 1 = n
    BY <1>d, <1>i, <1>j, <1>0
  <2>2. \A j \in Index : j <= n /\ Data(c, j) = ji => n = 0
    <3>1. \A j \in Index : j <= n => j < n \/ j = n
      BY <1>0, SizeFacts
    <3> QED BY <3>1, <1>d, <1>e, <1>f, <1>0 DEF InChunk
  <2>3. \A j \in Index : writer.pos <= j /\ j <= n /\ j # n => End(ji) < End(Data(c, j))
    BY <1>d, <1>0, SizeFacts
  <2>4. n > 0 => Data(c, n - 1)' = Data(c, n - 1)
    BY <1>e, <1>j
  <2> QED BY <2>1, <2>2, <2>3, <2>4, <1>d, <1>i, <1>j, <1>0 DEF ShiftInv
<1>6. CountInv' /\ SealInv'
  BY <1>i DEF CountInv, SealInv
<1> QED BY <1>1, <1>2, <1>3, <1>5, <1>6, <1>k, <1>m DEF HInv

LEMMA ShiftStep ==
    ASSUME HInv, Shift
    PROVE  HInv'
<1>a. TypeOK /\ StructInv /\ OrderInv /\ ElemInv
  BY DEF HInv
<1>b. /\ writer.pc = "shift" /\ writer \in WriterRecord /\ Storing
      /\ writer.i >= writer.pos
      /\ chunk' = [chunk EXCEPT ![writer.chunk].data[writer.i + 1] = Data(writer.chunk, writer.i)]
      /\ writer' = [writer EXCEPT !.i = writer.i - 1]
      /\ UnchangedByStore
  BY DEF HInv, Shift, WriterAt, Storing, TypeOK, Data
<1>0. PICK k, c, n, ji, i :
        /\ k \in DOMAIN table[cur]
        /\ writer.chunk = c /\ c = CurChunk(k) /\ n = Num(c) - 1 /\ ji = writer.ji /\ i = writer.i
        /\ c \in Chunks /\ c \in Chunk /\ Num(c) \in 0..CHUNK_SIZE
        /\ \A m \in DOMAIN table[cur] : c = CurChunk(m) => m = k
        /\ \A m \in DOMAIN table[cur] : m < k => Last(CurChunk(m)) <= End(ji)
        /\ k < Len(table[cur]) => End(ji) < Last(c)
  BY <1>b, StoringFacts
<1>h. k \in DOMAIN table[cur]
  BY <1>0
<1>c. /\ Adding /\ ji \in Obj /\ ji \in Objs /\ cur # NULL /\ cur \in Tables
      /\ writer.item = NULL /\ End(ji) \in Nat
  BY <1>0, <1>b, AddingFacts
<1>d. /\ n >= 0 /\ writer.pos <= i + 1 /\ i + 1 <= n
      /\ \A j \in Index : j < writer.pos => End(Data(c, j)) <= End(ji)
      /\ \A j \in Index : writer.pos <= j /\ j <= n /\ j # i + 1 => End(ji) < End(Data(c, j))
      /\ i + 1 < n => Data(c, i + 1) = Data(c, i + 2)
      /\ i + 1 = n => Data(c, n) = (IF n > 0 THEN Data(c, n - 1) ELSE ji)
      /\ \A j \in Index : j <= n /\ Data(c, j) = ji => n = 0
      /\ writer.pos \in Nat
  BY <1>0, <1>b DEF HInv, ShiftInv, WriterRecord
<1>e. /\ n \in Index /\ i \in Index /\ i + 1 \in Index /\ i \in Nat /\ n > 0
      /\ writer.pos <= i /\ Num(c) = n + 1 /\ i < n
      /\ i + 1 < n => i + 2 \in Index
      /\ \A j \in Index : j < Num(c) <=> j <= n
      /\ i < Num(c) /\ i + 1 < Num(c)
  <2>a. writer.i \in -1..CHUNK_SIZE /\ writer.pos <= writer.i
    BY <1>b DEF WriterRecord
  <2>b. i \in Int /\ writer.pos <= i
    BY <2>a, <1>0, SizeFacts
  <2>c. n \in Int /\ Num(c) = n + 1
    <3>1. n = Num(c) - 1 /\ Num(c) \in 0..CHUNK_SIZE
      BY <1>0
    <3> QED BY <3>1, SizeFacts
  <2>1. i \in Int /\ n \in Int /\ Num(c) = n + 1 /\ writer.pos <= i
    BY <2>b, <2>c
  <2>2. n >= 0 /\ i + 1 <= n /\ writer.pos \in Nat /\ Num(c) \in 0..CHUNK_SIZE
    BY <1>0, <1>d
  <2> QED BY <2>1, <2>2, SizeFacts
<1>f. i + 1 = n => Data(c, i + 1) = Data(c, i)
  BY <1>d, <1>e
<1>i. /\ writer'.pc = "shift" /\ writer'.chunk = c /\ writer'.i = i - 1 /\ writer'.pos = writer.pos
      /\ writer'.ji = ji /\ writer'.item = NULL
      /\ writer' \in WriterRecord
  <2>1. i - 1 \in -1..CHUNK_SIZE
    BY <1>e, SizeFacts
  <2> QED BY <2>1, <1>0, <1>b, <1>c DEF WriterRecord
<1>g. Data(c, i) \in Obj
  BY <1>a, <1>0, <1>e DEF ElemInv, Objs
<1>v. PICK v : v = Data(c, i)
  OBVIOUS
<1>j. /\ chunk' \in [Chunk -> ChunkRecord \cup {NULL}] /\ chunk'[c] # NULL
      /\ Ref(c)' = Ref(c) /\ Num(c)' = Num(c) /\ Last(c)' = Last(c)
      /\ \A j \in Index : Data(c, j)' = IF j = i + 1 THEN v ELSE Data(c, j)
      /\ \A d \in Chunk \ {c} : chunk'[d] = chunk[d]
  <2>0. PICK h \in Index : h = i + 1
    BY <1>e
  <2>1. chunk' = [chunk EXCEPT ![c].data[h] = v]
    BY <1>0, <1>b, <1>v, <2>0
  <2>2. v \in Obj
    BY <1>g, <1>v
  <2>3. /\ chunk' \in [Chunk -> ChunkRecord \cup {NULL}] /\ chunk'[c] # NULL
        /\ Ref(c)' = Ref(c) /\ Num(c)' = Num(c) /\ Last(c)' = Last(c)
        /\ \A j \in Index : Data(c, j)' = IF j = h THEN v ELSE Data(c, j)
        /\ \A d \in Chunk \ {c} : chunk'[d] = chunk[d]
    <3>1. c \in Chunks /\ TypeOK /\ h \in Index
      BY <1>0, <1>a
    <3> QED BY <2>1, <2>2, <3>1, DataStore
  <2> QED BY <2>0, <2>3
<1>k. TypeOK'
  BY <1>a, <1>b, <1>i, <1>j, StoreType
<1>z. PICK added \in BOOLEAN : added = FALSE
  OBVIOUS
<1>l. \A o : InChunk(o, c)' <=> InChunk(o, c) \/ (added /\ o = ji)
  <2>1. \A o : InChunk(o, c)' <=> \E j \in Index : j <= n /\ (IF j = i + 1 THEN v ELSE Data(c, j)) = o
    BY <1>j, <1>e DEF InChunk
  <2>2. \A o : InChunk(o, c) <=> \E j \in Index : j <= n /\ Data(c, j) = o
    BY <1>e DEF InChunk
  <2>3. i # i + 1 /\ i <= n /\ i + 1 <= n /\ (i + 1 < n => i + 2 # i + 1 /\ i + 2 <= n)
    BY <1>e
  <2>4. ASSUME NEW o, InChunk(o, c) PROVE InChunk(o, c)'
    <3>1. PICK j \in Index : j <= n /\ Data(c, j) = o
      BY <2>2, <2>4
    <3>2. CASE j # i + 1
      BY <3>1, <3>2, <2>1
    <3>3. CASE j = i + 1 /\ i + 1 < n
      BY <3>1, <3>3, <2>1, <2>3, <1>d, <1>e
    <3>4. CASE j = i + 1 /\ i + 1 = n
      BY <3>1, <3>4, <2>1, <2>3, <1>f, <1>e
    <3> QED BY <3>2, <3>3, <3>4, <1>d, <1>e, <1>0
  <2>5. ASSUME NEW o, InChunk(o, c)' PROVE InChunk(o, c)
    BY <2>1, <2>2, <2>3, <2>5, <1>v, <1>e
  <2> QED BY <2>4, <2>5, <1>z
<1>m. /\ StructInv' /\ CountsExact' /\ ElemInv' /\ LiveInv' /\ PendInv'
      /\ QueueInv' /\ ObjInv' /\ WriterInv' /\ FailInv'
      /\ \A d \in Chunks \ {c} :
           /\ Num(d)' = Num(d) /\ Last(d)' = Last(d)
           /\ \A j \in Index : Data(d, j)' = Data(d, j)
      /\ \A m : CurChunk(m)' = CurChunk(m)
      /\ Chunks' = Chunks
  <2>4. /\ writer'.pc \in {"count", "shift", "seal"} /\ writer'.ji = ji
        /\ writer'.item = NULL /\ writer'.chunk = c
        /\ writer'.pc = "count" => ~added /\ writer.pc = "search"
    BY <1>i
  <2>5. writer.pc \in {"search", "count", "shift", "seal"} /\ (writer.pc # "search" => writer.chunk = c)
    BY <1>0, <1>b
  <2> QED BY <2>4, <2>5, <1>0, <1>b, <1>i, <1>j, <1>k, <1>l, StoreCommon
<1>o. cur' = cur /\ table' = table
  BY <1>b DEF UnchangedByStore
<1>p. \A m \in DOMAIN table[cur] :
        /\ CurChunk(m) \in Chunks /\ CurChunk(m) # NULL
        /\ m # k => CurChunk(m) # c
  BY <1>c, <1>0, CurFacts
<1>q. \A m \in DOMAIN table[cur] : 
        /\ Num(CurChunk(m))' = Num(CurChunk(m)) /\ Last(CurChunk(m))' = Last(CurChunk(m))
        /\ \A j \in Index : Data(CurChunk(m), j)' = IF m = k /\ j = i + 1 THEN v ELSE Data(CurChunk(m), j)
  BY <1>p, <1>m, <1>j, <1>0
<1>r. \A j, l \in Index : j <= l /\ l <= n => End(Data(c, j)) <= End(Data(c, l))
                                        /\ End(Data(c, j)) \in Nat /\ End(Data(c, l)) \in Nat
  <2>1. \A j, l \in Index : j <= l /\ l <= n => End(Data(c, j)) <= End(Data(c, l))
    BY <1>a, <1>0, <1>e DEF OrderInv
  <2>2. \A j \in Index : j <= n => End(Data(c, j)) \in Nat
    BY <1>0, <1>c, <1>e, CurFacts
  <2>3. \A j, l \in Index : j <= l /\ l <= n => j <= n
    BY <1>e, SizeFacts
  <2> QED BY <2>1, <2>2, <2>3
<1>1. OrderInv'
  <2>1. \A j, l \in Index : j <= l /\ l < Num(c)' => End(Data(c, j)') <= End(Data(c, l)')
    <3> SUFFICES ASSUME NEW j \in Index, NEW l \in Index, j <= l, l <= n
                 PROVE  End(IF j = i + 1 THEN v ELSE Data(c, j)) <= End(IF l = i + 1 THEN v ELSE Data(c, l))
      BY <1>j, <1>e
    <3>0. j \in Nat /\ l \in Nat
      BY SizeFacts
    <3>1. CASE j # i + 1 /\ l # i + 1
      BY <3>1, <1>r
    <3>2. CASE j = i + 1 /\ l = i + 1
      BY <3>2, <1>r, <1>e, <1>v
    <3>3. CASE j = i + 1 /\ l # i + 1
      BY <3>3, <1>r, <1>e, <1>v, <3>0
    <3>4. CASE j # i + 1 /\ l = i + 1
      <4>1. j <= i
        BY <3>4, <3>0, <1>e
      <4> QED BY <4>1, <3>4, <1>r, <1>e, <1>v
    <3> QED BY <3>1, <3>2, <3>3, <3>4
  <2>2. \A d \in Chunks' : \A j, l \in Index :
          j <= l /\ l < Num(d)' => End(Data(d, j)') <= End(Data(d, l)')
    <3> SUFFICES ASSUME NEW d \in Chunks, d # c PROVE \A j, l \in Index :
          j <= l /\ l < Num(d)' => End(Data(d, j)') <= End(Data(d, l)')
      BY <2>1, <1>m
    <3> QED BY <1>a, <1>m DEF OrderInv
  <2>3. ASSUME NEW m \in DOMAIN table[cur], NEW j \in Index, j < Num(CurChunk(m))'
        PROVE  \/ End(Data(CurChunk(m), j)') <= Last(CurChunk(m))'
               \/ /\ Data(CurChunk(m), j)' = ji
                  /\ c = CurChunk(m) /\ m = Len(table[cur])
    <3>1. PICK l \in Index : l < Num(CurChunk(m)) /\ Data(CurChunk(m), j)' = Data(CurChunk(m), l)
      BY <2>3, <1>q, <1>0, <1>e, <1>v
    <3> QED BY <3>1, <1>0, <1>a, <1>c, <1>q DEF OrderInv
  <2>4. ASSUME NEW m \in DOMAIN table[cur], NEW l \in DOMAIN table[cur], m < l
        PROVE  /\ Last(CurChunk(m))' <= Last(CurChunk(l))'
               /\ \A j \in Index : j < Num(CurChunk(l))' =>
                    Last(CurChunk(m))' <= End(Data(CurChunk(l), j)')
    <3>1. Last(CurChunk(m))' <= Last(CurChunk(l))'
      BY <2>4, <1>a, <1>c, <1>q DEF OrderInv
    <3>2. ASSUME NEW j \in Index, j < Num(CurChunk(l))'
          PROVE  Last(CurChunk(m)) <= End(Data(CurChunk(l), j)')
      <4>1. PICK x \in Index : x < Num(CurChunk(l)) /\ Data(CurChunk(l), j)' = Data(CurChunk(l), x)
        BY <3>2, <1>q, <1>0, <1>e, <1>v
      <4> QED BY <4>1, <2>4, <1>a, <1>c DEF OrderInv
    <3> QED BY <3>1, <3>2, <1>q
  <2> QED BY <2>2, <2>3, <2>4, <1>i, <1>m, <1>o DEF OrderInv
<1>2. UniqInv'
  <2>0. writer'.i + 1 = i /\ writer.i + 1 = i + 1 /\ i # i + 1
    BY <1>0, <1>e, <1>i
  <2> SUFFICES ASSUME NEW m \in DOMAIN table[cur], NEW l \in DOMAIN table[cur],
                      NEW x \in Index, NEW y \in Index,
                      x < Num(CurChunk(m))', y < Num(CurChunk(l))',
                      Data(CurChunk(m), x)' = Data(CurChunk(l), y)'
               PROVE  /\ m = l
                      /\ x = y \/ (c = CurChunk(m) /\ (x = i \/ y = i))
    BY <2>0, <1>i, <1>m, <1>o DEF UniqInv
  <2> DEFINE src(a, z) == IF a = k /\ z = i + 1 THEN i ELSE z
  <2>1. /\ src(m, x) \in Index /\ src(l, y) \in Index
        /\ src(m, x) < Num(CurChunk(m)) /\ src(l, y) < Num(CurChunk(l))
        /\ Data(CurChunk(m), src(m, x)) = Data(CurChunk(l), src(l, y))
    BY <1>q, <1>0, <1>e, <1>v
  <2>2. \A a, b \in DOMAIN table[cur], z, w \in Index :
           z < Num(CurChunk(a)) /\ w < Num(CurChunk(b)) /\ Data(CurChunk(a), z) = Data(CurChunk(b), w)
           => a = b /\ (z = w \/ (c = CurChunk(a) /\ (z = i + 1 \/ w = i + 1)))
    BY <1>b, <1>c, <1>0, <2>0 DEF HInv, UniqInv
  <2>3. /\ m = l
        /\ src(m, x) = src(l, y) \/ (c = CurChunk(m) /\ (src(m, x) = i + 1 \/ src(l, y) = i + 1))
    <3> HIDE DEF src
    <3> QED BY <2>1, <2>2
  <2>4. c = CurChunk(m) => m = k
    BY <1>0
  <2>5. src(m, x) = i + 1 => m # k
    BY <2>0
  <2>6. src(l, y) = i + 1 => l # k
    BY <2>0
  <2>7. src(m, x) = src(l, y)
    <3> HIDE DEF src
    <3> QED BY <2>3, <2>4, <2>5, <2>6
  <2> QED BY <2>3, <2>7, <1>0
<1>3. PlaceInv'
  BY <1>q, <1>0, <1>i, <1>m, <1>o DEF PlaceInv, Storing
<1>5. ShiftInv'
  <2>1. /\ Num(c)' - 1 = n /\ writer'.i + 1 = i /\ writer'.i + 2 = i + 1
    BY <1>e, <1>i, <1>j, <1>0
  <2>2. \A j \in Index : j <= n /\ Data(c, j)' = ji => n = 0
    BY <1>d, <1>e, <1>j, <1>v
  <2>3. \A j \in Index : writer.pos <= j /\ j <= n /\ j # i => End(ji) < End(Data(c, j)')
    BY <1>d, <1>e, <1>j, <1>v
  <2>4. \A j \in Index : j < writer.pos => End(Data(c, j)') <= End(ji)
    BY <1>d, <1>e, <1>j, <1>v, SizeFacts
  <2>5. Data(c, i)' = Data(c, i + 1)'
    BY <1>e, <1>j, <1>v
  <2>6. i < n /\ writer.pos <= i
    BY <1>e
  <2> QED BY <2>1, <2>2, <2>3, <2>4, <2>5, <2>6, <1>d, <1>e, <1>i DEF ShiftInv
<1>6. CountInv' /\ SealInv'
  BY <1>i DEF CountInv, SealInv
<1> QED BY <1>1, <1>2, <1>3, <1>5, <1>6, <1>k, <1>m DEF HInv

LEMMA InsertStep ==
    ASSUME HInv, Insert
    PROVE  HInv'
<1>a. TypeOK /\ StructInv /\ OrderInv /\ ElemInv
  BY DEF HInv
<1>b. /\ writer.pc = "shift" /\ writer \in WriterRecord /\ Storing
      /\ writer.i < writer.pos
      /\ chunk' = [chunk EXCEPT ![writer.chunk].data[writer.pos] = writer.ji]
      /\ writer' = [writer EXCEPT !.pc = "seal"]
      /\ UnchangedByStore
  BY DEF HInv, Insert, WriterAt, Storing, TypeOK
<1>0. PICK k, c, n, ji, p :
        /\ k \in DOMAIN table[cur]
        /\ writer.chunk = c /\ c = CurChunk(k) /\ n = Num(c) - 1 /\ ji = writer.ji /\ p = writer.pos
        /\ c \in Chunks /\ c \in Chunk /\ Num(c) \in 0..CHUNK_SIZE
        /\ \A m \in DOMAIN table[cur] : c = CurChunk(m) => m = k
        /\ \A m \in DOMAIN table[cur] : m < k => Last(CurChunk(m)) <= End(ji)
        /\ k < Len(table[cur]) => End(ji) < Last(c)
  BY <1>b, StoringFacts
<1>h. k \in DOMAIN table[cur]
  BY <1>0
<1>c. /\ Adding /\ ji \in Obj /\ ji \in Objs /\ cur # NULL /\ cur \in Tables
      /\ writer.item = NULL /\ End(ji) \in Nat
  BY <1>0, <1>b, AddingFacts
<1>d. /\ n >= 0 /\ p <= writer.i + 1 /\ writer.i + 1 <= n
      /\ \A j \in Index : j < p => End(Data(c, j)) <= End(ji)
      /\ \A j \in Index : p <= j /\ j <= n /\ j # writer.i + 1 => End(ji) < End(Data(c, j))
      /\ writer.i + 1 < n => Data(c, writer.i + 1) = Data(c, writer.i + 2)
      /\ writer.i + 1 = n => Data(c, n) = (IF n > 0 THEN Data(c, n - 1) ELSE ji)
      /\ \A j \in Index : j <= n /\ Data(c, j) = ji => n = 0
      /\ p \in Nat /\ writer.i \in Int
  BY <1>0, <1>b DEF HInv, ShiftInv, WriterRecord
<1>e. /\ n \in Index /\ p \in Index /\ writer.i + 1 = p /\ writer.i + 2 = p + 1 /\ n \in Nat
      /\ Num(c) = n + 1 /\ p <= n /\ p < Num(c) /\ p \in Nat
      /\ p < n => p + 1 \in Index
      /\ n > 0 => n - 1 \in Index /\ n - 1 # n /\ n - 1 <= n
      /\ \A j \in Index : j < Num(c) <=> j <= n
  <2>1. n \in Int /\ Num(c) = n + 1 /\ Num(c) \in 0..CHUNK_SIZE /\ writer.i < p
    BY <1>0, <1>b
  <2>2. n >= 0 /\ p <= writer.i + 1 /\ writer.i + 1 <= n /\ p \in Nat /\ writer.i \in Int
    BY <1>d
  <2> QED BY <2>1, <2>2, SizeFacts
<1>f. /\ \A j \in Index : p < j /\ j <= n => End(ji) < End(Data(c, j))
      /\ p < n => Data(c, p) = Data(c, p + 1)
      /\ p = n => Data(c, n) = (IF n > 0 THEN Data(c, n - 1) ELSE ji)
  BY <1>d, <1>e, SizeFacts
<1>g. \A d \in Chunks : InChunk(ji, d) => d = c
  BY <1>0, <1>b, <1>c DEF HInv, WriterInv
<1>i. /\ writer'.pc = "seal" /\ writer'.chunk = c /\ writer'.pos = p
      /\ writer'.ji = ji /\ writer'.item = NULL
      /\ writer' \in WriterRecord
  BY <1>0, <1>b, <1>c DEF WriterRecord
<1>j. /\ chunk' \in [Chunk -> ChunkRecord \cup {NULL}] /\ chunk'[c] # NULL
      /\ Ref(c)' = Ref(c) /\ Num(c)' = Num(c) /\ Last(c)' = Last(c)
      /\ \A j \in Index : Data(c, j)' = IF j = p THEN ji ELSE Data(c, j)
      /\ \A d \in Chunk \ {c} : chunk'[d] = chunk[d]
  <2>1. chunk' = [chunk EXCEPT ![c].data[p] = ji]
    BY <1>0, <1>b
  <2>2. c \in Chunks /\ TypeOK
    BY <1>0, <1>a
  <2>3. ji \in Obj /\ p \in Index
    BY <1>c, <1>e
  <2> QED BY <2>1, <2>2, <2>3, DataStore
<1>k. TypeOK'
  BY <1>a, <1>b, <1>i, <1>j, StoreType
<1>z. PICK added \in BOOLEAN : added = TRUE
  OBVIOUS
<1>l. \A o : InChunk(o, c)' <=> InChunk(o, c) \/ (added /\ o = ji)
  <2>1. \A o : InChunk(o, c)' <=> \E j \in Index : j <= n /\ (IF j = p THEN ji ELSE Data(c, j)) = o
    BY <1>j, <1>e DEF InChunk
  <2>2. \A o : InChunk(o, c) <=> \E j \in Index : j <= n /\ Data(c, j) = o
    BY <1>e DEF InChunk
  <2>4. ASSUME NEW o, InChunk(o, c) PROVE InChunk(o, c)'
    <3>1. PICK j \in Index : j <= n /\ Data(c, j) = o
      BY <2>2, <2>4
    <3>2. CASE j # p
      BY <3>1, <3>2, <2>1
    <3>3. CASE j = p /\ p < n
      <4>1. p + 1 \in Index /\ p + 1 # p /\ p + 1 <= n
        BY <3>3, <1>e
      <4> QED BY <4>1, <3>1, <3>3, <2>1, <1>f
    <3>4. CASE j = p /\ p = n /\ n > 0
      BY <3>1, <3>4, <2>1, <1>f, <1>e
    <3>5. CASE j = p /\ p = n /\ n = 0
      BY <3>1, <3>5, <2>1, <1>f, <1>e
    <3> QED BY <3>2, <3>3, <3>4, <3>5, <1>e
  <2>5. ASSUME NEW o, InChunk(o, c)' PROVE InChunk(o, c) \/ o = ji
    BY <2>1, <2>2, <2>5
  <2>6. InChunk(ji, c)'
    BY <2>1, <1>e
  <2> QED BY <2>4, <2>5, <2>6, <1>z
<1>m. /\ StructInv' /\ CountsExact' /\ ElemInv' /\ LiveInv' /\ PendInv'
      /\ QueueInv' /\ ObjInv' /\ WriterInv' /\ FailInv'
      /\ \A d \in Chunks \ {c} :
           /\ Num(d)' = Num(d) /\ Last(d)' = Last(d)
           /\ \A j \in Index : Data(d, j)' = Data(d, j)
      /\ \A m : CurChunk(m)' = CurChunk(m)
      /\ Chunks' = Chunks
  <2>4. /\ writer'.pc \in {"count", "shift", "seal"} /\ writer'.ji = ji
        /\ writer'.item = NULL /\ writer'.chunk = c
        /\ writer'.pc = "count" => ~added /\ writer.pc = "search"
    BY <1>i
  <2>5. writer.pc \in {"search", "count", "shift", "seal"} /\ (writer.pc # "search" => writer.chunk = c)
    BY <1>0, <1>b
  <2> QED BY <2>4, <2>5, <1>0, <1>b, <1>i, <1>j, <1>k, <1>l, StoreCommon
<1>o. cur' = cur /\ table' = table
  BY <1>b DEF UnchangedByStore
<1>p. \A m \in DOMAIN table[cur] :
        /\ CurChunk(m) \in Chunks /\ CurChunk(m) # NULL
        /\ m # k => CurChunk(m) # c
  BY <1>c, <1>0, CurFacts
<1>q. \A m \in DOMAIN table[cur] : 
        /\ Num(CurChunk(m))' = Num(CurChunk(m)) /\ Last(CurChunk(m))' = Last(CurChunk(m))
        /\ \A j \in Index : Data(CurChunk(m), j)' = IF m = k /\ j = p THEN ji ELSE Data(CurChunk(m), j)
  BY <1>p, <1>m, <1>j, <1>0
<1>t. Len(table[cur]) \in Nat /\ DOMAIN table[cur] = 1..Len(table[cur]) /\ Last(c) \in Nat
  BY <1>0, <1>c, CurFacts
<1>1. OrderInv'
  <2>1. \A j, l \in Index : j <= l /\ l < Num(c)' => End(Data(c, j)') <= End(Data(c, l)')
    <3> SUFFICES ASSUME NEW j \in Index, NEW l \in Index, j <= l, l <= n
                 PROVE  End(IF j = p THEN ji ELSE Data(c, j)) <= End(IF l = p THEN ji ELSE Data(c, l))
      BY <1>j, <1>e
    <3>0. j \in Nat /\ l \in Nat
      BY SizeFacts
    <3>1. CASE j # p /\ l # p
      BY <3>1, <1>a, <1>0, <1>e DEF OrderInv
    <3>2. CASE j = p /\ l = p
      BY <3>2, <1>c
    <3>3. CASE j = p /\ l # p
      <4>1. End(ji) < End(Data(c, l)) /\ End(Data(c, l)) \in Nat
        BY <3>3, <3>0, <1>f, <1>e, <1>0, <1>c, CurFacts
      <4> QED BY <4>1, <3>3, <1>c
    <3>4. CASE j # p /\ l = p
      <4>1. j < p
        BY <3>4, <3>0, <1>e
      <4> QED BY <4>1, <3>4, <1>d
    <3> QED BY <3>1, <3>2, <3>3, <3>4
  <2>2. \A d \in Chunks' : \A j, l \in Index :
          j <= l /\ l < Num(d)' => End(Data(d, j)') <= End(Data(d, l)')
    <3> SUFFICES ASSUME NEW d \in Chunks, d # c PROVE \A j, l \in Index :
          j <= l /\ l < Num(d)' => End(Data(d, j)') <= End(Data(d, l)')
      BY <2>1, <1>m
    <3> QED BY <1>a, <1>m DEF OrderInv
  <2>3. ASSUME NEW m \in DOMAIN table[cur], NEW j \in Index, j < Num(CurChunk(m))'
        PROVE  \/ End(Data(CurChunk(m), j)') <= Last(CurChunk(m))'
               \/ /\ Data(CurChunk(m), j)' = ji
                  /\ c = CurChunk(m) /\ m = Len(table[cur])
    <3>1. CASE ~(m = k /\ j = p)
      BY <3>1, <2>3, <1>0, <1>a, <1>c, <1>q DEF OrderInv
    <3>2. CASE m = k /\ j = p
      <4>1. Data(CurChunk(m), j)' = ji /\ c = CurChunk(m)
        BY <3>2, <1>0, <1>q
      <4>2. k < Len(table[cur]) => End(ji) <= Last(c)
        BY <1>0, <1>c, <1>t
      <4>3. k < Len(table[cur]) \/ k = Len(table[cur])
        BY <1>h, <1>t
      <4> QED BY <4>1, <4>2, <4>3, <3>2, <1>0, <1>q
    <3> QED BY <3>1, <3>2
  <2>4. ASSUME NEW m \in DOMAIN table[cur], NEW l \in DOMAIN table[cur], m < l
        PROVE  /\ Last(CurChunk(m))' <= Last(CurChunk(l))'
               /\ \A j \in Index : j < Num(CurChunk(l))' =>
                    Last(CurChunk(m))' <= End(Data(CurChunk(l), j)')
    <3>1. Last(CurChunk(m))' <= Last(CurChunk(l))'
      BY <2>4, <1>a, <1>c, <1>q DEF OrderInv
    <3>2. ASSUME NEW j \in Index, j < Num(CurChunk(l))'
          PROVE  Last(CurChunk(m)) <= End(Data(CurChunk(l), j)')
      <4>1. CASE ~(l = k /\ j = p)
        BY <4>1, <3>2, <2>4, <1>a, <1>c, <1>q DEF OrderInv
      <4>2. CASE l = k /\ j = p
        BY <4>2, <2>4, <1>0, <1>q
      <4> QED BY <4>1, <4>2
    <3> QED BY <3>1, <3>2, <1>q
  <2> QED BY <2>2, <2>3, <2>4, <1>i, <1>m, <1>o DEF OrderInv
<1>2. UniqInv'
  <2> SUFFICES ASSUME NEW m \in DOMAIN table[cur], NEW l \in DOMAIN table[cur],
                      NEW x \in Index, NEW y \in Index,
                      x < Num(CurChunk(m)), y < Num(CurChunk(l)),
                      Data(CurChunk(m), x)' = Data(CurChunk(l), y)'
               PROVE  m = l /\ x = y
    BY <1>i, <1>m, <1>o, <1>q DEF UniqInv
  <2>1. \A a \in DOMAIN table[cur], z \in Index :
           z < Num(CurChunk(a)) /\ Data(CurChunk(a), z) = ji => a = k /\ z = p
    <3> SUFFICES ASSUME NEW a \in DOMAIN table[cur], NEW z \in Index,
                        z < Num(CurChunk(a)), Data(CurChunk(a), z) = ji
                 PROVE  a = k /\ z = p
      OBVIOUS
    <3>1. a = k
      BY <1>g, <1>p, <1>0 DEF InChunk
    <3>2. z <= n
      BY <3>1, <1>0, <1>e
    <3>3. n = 0
      BY <3>1, <3>2, <1>0, <1>d
    <3> QED BY <3>1, <3>2, <3>3, <1>e, SizeFacts
  <2>2. \A a, b \in DOMAIN table[cur], z, w \in Index :
           z < Num(CurChunk(a)) /\ w < Num(CurChunk(b)) /\ Data(CurChunk(a), z) = Data(CurChunk(b), w)
           => a = b /\ (z = w \/ (c = CurChunk(a) /\ (z = p \/ w = p)))
    BY <1>b, <1>c, <1>0, <1>e DEF HInv, UniqInv
  <2>3. CASE m = k /\ x = p /\ l = k /\ y = p
    BY <2>3
  <2>4. CASE m = k /\ x = p /\ ~(l = k /\ y = p)
    BY <2>1, <2>4, <1>q
  <2>5. CASE ~(m = k /\ x = p) /\ l = k /\ y = p
    BY <2>1, <2>5, <1>q
  <2>6. CASE ~(m = k /\ x = p) /\ ~(l = k /\ y = p)
    <3>1. m = l /\ (x = y \/ (c = CurChunk(m) /\ (x = p \/ y = p)))
      BY <2>2, <2>6, <1>q
    <3> QED BY <3>1, <2>6, <1>0
  <2> QED BY <2>3, <2>4, <2>5, <2>6
<1>3. PlaceInv'
  BY <1>q, <1>0, <1>i, <1>m, <1>o DEF PlaceInv, Storing
<1>5. SealInv'
  <2>1. \A j \in Index : j < p => Data(c, j)' = Data(c, j)
    BY <1>j, <1>e, SizeFacts
  <2>2. \A j \in Index : p < j => Data(c, j)' = Data(c, j)
    BY <1>j, <1>e, SizeFacts
  <2>3. Data(c, p)' = ji /\ p < Num(c)'
    BY <1>j, <1>e
  <2> QED BY <2>1, <2>2, <2>3, <1>d, <1>f, <1>e, <1>i, <1>j DEF SealInv
<1>6. CountInv' /\ ShiftInv'
  BY <1>i DEF CountInv, ShiftInv
<1> QED BY <1>1, <1>2, <1>3, <1>5, <1>6, <1>k, <1>m DEF HInv

LEMMA SealStep ==
    ASSUME HInv, Seal
    PROVE  HInv'
<1>a. TypeOK /\ StructInv /\ OrderInv /\ ElemInv
  BY DEF HInv
<1>b. /\ writer.pc = "seal" /\ writer \in WriterRecord /\ Storing
      /\ chunk' = [chunk EXCEPT ![writer.chunk].last_code_end =
                     End(Data(writer.chunk, Num(writer.chunk) - 1))]
      /\ writer' = IdleWriter
      /\ UnchangedByStore
  BY DEF HInv, Seal, WriterAt, Storing, TypeOK, Data, Num
<1>0. PICK k, c, n, ji :
        /\ k \in DOMAIN table[cur]
        /\ writer.chunk = c /\ c = CurChunk(k) /\ n = Num(c) - 1 /\ ji = writer.ji
        /\ c \in Chunks /\ c \in Chunk /\ Num(c) \in 0..CHUNK_SIZE
        /\ \A m \in DOMAIN table[cur] : c = CurChunk(m) => m = k
        /\ \A m \in DOMAIN table[cur] : m < k => Last(CurChunk(m)) <= End(ji)
        /\ k < Len(table[cur]) => End(ji) < Last(c)
  BY <1>b, StoringFacts
<1>h. k \in DOMAIN table[cur]
  BY <1>0
<1>c. /\ Adding /\ ji \in Obj /\ ji \in Objs /\ cur # NULL /\ cur \in Tables
      /\ writer.item = NULL /\ End(ji) \in Nat
  BY <1>0, <1>b, AddingFacts
<1>d. writer.pos < Num(c) /\ Data(c, writer.pos) = ji /\ writer.pos \in Nat /\ writer.pos \in Index
  <2>1. writer.pos < Num(c) /\ Data(c, writer.pos) = ji /\ writer.pos \in Nat
    BY <1>0, <1>b DEF HInv, SealInv, WriterRecord
  <2>2. Num(c) \in 0..CHUNK_SIZE
    BY <1>0
  <2> QED BY <2>1, <2>2, SizeFacts
<1>e. n \in Index /\ n < Num(c) /\ \A j \in Index : j < Num(c) <=> j <= n
  <2>1. n = Num(c) - 1 /\ Num(c) \in 0..CHUNK_SIZE
    BY <1>0
  <2>2. writer.pos < Num(c) /\ writer.pos \in Nat
    BY <1>d
  <2> QED BY <2>1, <2>2, SizeFacts
<1>v. PICK v : v = End(Data(c, n))
  OBVIOUS
<1>w. v \in Nat
  BY <1>v, <1>0, <1>c, <1>e, CurFacts
<1>j. /\ chunk' \in [Chunk -> ChunkRecord \cup {NULL}] /\ chunk'[c] # NULL
      /\ Ref(c)' = Ref(c) /\ Num(c)' = Num(c) /\ Last(c)' = v
      /\ \A j \in Index : Data(c, j)' = Data(c, j)
      /\ \A d \in Chunk \ {c} : chunk'[d] = chunk[d]
  <2>1. chunk' = [chunk EXCEPT ![c].last_code_end = v]
    BY <1>0, <1>b, <1>v
  <2>2. c \in Chunks
    BY <1>0
  <2> QED BY <2>1, <2>2, <1>a, <1>w, LastStore
<1>i. writer' = IdleWriter /\ writer' \in WriterRecord
  BY <1>b, SizeFacts DEF WriterRecord, IdleWriter
<1>k. TypeOK'
  BY <1>a, <1>b, <1>i, <1>j, StoreType
<1>z. PICK added \in BOOLEAN : added = FALSE
  OBVIOUS
<1>l. \A o : InChunk(o, c)' <=> InChunk(o, c) \/ (added /\ o = ji)
  BY <1>j, <1>z DEF InChunk
<1>n. InChunk(ji, c)'
  BY <1>d, <1>j DEF InChunk
<1>m. /\ StructInv' /\ CountsExact' /\ ElemInv' /\ LiveInv' /\ PendInv'
      /\ QueueInv' /\ ObjInv' /\ WriterInv' /\ FailInv'
      /\ \A d \in Chunks \ {c} :
           /\ Num(d)' = Num(d) /\ Last(d)' = Last(d)
           /\ \A j \in Index : Data(d, j)' = Data(d, j)
      /\ \A m : CurChunk(m)' = CurChunk(m)
      /\ Chunks' = Chunks
  <2>5. writer.pc \in {"search", "count", "shift", "seal"} /\ (writer.pc # "search" => writer.chunk = c)
    BY <1>0, <1>b
  <2> QED BY <2>5, <1>0, <1>b, <1>i, <1>j, <1>k, <1>l, <1>n, StoreCommon
<1>o. cur' = cur /\ table' = table
  BY <1>b DEF UnchangedByStore
<1>p. \A m \in DOMAIN table[cur] :
        /\ CurChunk(m) \in Chunks /\ CurChunk(m) # NULL
        /\ m # k => CurChunk(m) # c
  BY <1>c, <1>0, CurFacts
<1>q. \A m \in DOMAIN table[cur] : 
        /\ Num(CurChunk(m))' = Num(CurChunk(m))
        /\ Last(CurChunk(m))' = IF m = k THEN v ELSE Last(CurChunk(m))
        /\ \A j \in Index : Data(CurChunk(m), j)' = Data(CurChunk(m), j)
  BY <1>p, <1>m, <1>j, <1>0
<1>t. /\ Len(table[cur]) \in Nat /\ DOMAIN table[cur] = 1..Len(table[cur])
      /\ \A m \in DOMAIN table[cur] : Last(CurChunk(m)) \in Nat
  BY <1>0, <1>c, CurFacts
<1>u. k < Len(table[cur]) => v <= Last(c)
  BY <1>a, <1>0, <1>c, <1>e, <1>v, <1>t DEF OrderInv
<1>1. OrderInv'
  <2>2. \A d \in Chunks' : \A j, l \in Index :
          j <= l /\ l < Num(d)' => End(Data(d, j)') <= End(Data(d, l)')
    BY <1>a, <1>m, <1>j DEF OrderInv
  <2>3. ASSUME NEW m \in DOMAIN table[cur], NEW j \in Index, j < Num(CurChunk(m))
        PROVE  End(Data(CurChunk(m), j)) <= Last(CurChunk(m))'
    <3>1. CASE m # k
      <4>1. writer.chunk # CurChunk(m)
        BY <3>1, <1>0, <1>p
      <4> QED BY <3>1, <4>1, <2>3, <1>a, <1>c, <1>q DEF OrderInv
    <3>2. CASE m = k
      <4>1. j <= n /\ n < Num(c)
        BY <3>2, <2>3, <1>0, <1>e
      <4>2. End(Data(c, j)) <= End(Data(c, n))
        BY <4>1, <1>a, <1>0, <1>e DEF OrderInv
      <4> QED BY <4>2, <3>2, <1>0, <1>q, <1>v
    <3> QED BY <3>1, <3>2
  <2>4. ASSUME NEW m \in DOMAIN table[cur], NEW l \in DOMAIN table[cur], m < l
        PROVE  /\ Last(CurChunk(m))' <= Last(CurChunk(l))'
               /\ \A j \in Index : j < Num(CurChunk(l)) =>
                    Last(CurChunk(m))' <= End(Data(CurChunk(l), j))
    <3>1. /\ Last(CurChunk(m)) <= Last(CurChunk(l))
          /\ \A j \in Index : j < Num(CurChunk(l)) => Last(CurChunk(m)) <= End(Data(CurChunk(l), j))
      BY <2>4, <1>a, <1>c DEF OrderInv
    <3>2. m = k => l # k /\ k < Len(table[cur])
      BY <2>4, <1>t
    <3>3. \A j \in Index : j < Num(CurChunk(l)) => End(Data(CurChunk(l), j)) \in Nat
      BY <1>c, CurFacts
    <3>4. Last(CurChunk(m))' <= Last(CurChunk(m)) /\ Last(CurChunk(m))' \in Nat
      BY <3>2, <1>u, <1>q, <1>w, <1>t, <1>0
    <3>5. l = k => Last(CurChunk(m)) <= v
      BY <3>1, <1>v, <1>e, <1>0
    <3>6. m # k \/ l # k
      BY <2>4, <1>t
    <3>7. Last(CurChunk(l))' = (IF l = k THEN v ELSE Last(CurChunk(l)))
      BY <1>q
    <3> QED BY <3>1, <3>3, <3>4, <3>5, <3>7, <1>t, <1>w
  <2> QED BY <2>2, <2>3, <2>4, <1>i, <1>m, <1>o, <1>q DEF OrderInv
<1>2. UniqInv'
  BY <1>b, <1>c, <1>i, <1>m, <1>o, <1>p, <1>q DEF HInv, UniqInv, IdleWriter
<1>3. PlaceInv' /\ CountInv' /\ ShiftInv' /\ SealInv'
  BY <1>i DEF PlaceInv, Storing, CountInv, ShiftInv, SealInv, IdleWriter
<1> QED BY <1>1, <1>2, <1>3, <1>k, <1>m DEF HInv

-----------------------------------------------------------------------------
(***************************************************************************)
(* Steps that leave the chunks alone.                                      *)
(***************************************************************************)
LEMMA SameCounts ==
    ASSUME CountsExact, UNCHANGED <<chunk, table, num_tables, free_queue>>
    PROVE  CountsExact'
<1>1. Tables' = Tables /\ \A t : ChunksOf(t)' = ChunksOf(t)
  BY DEF Tables, ChunksOf
<1>2. \A c \in Chunk : {t \in Tables : c \in ChunksOf(t)}' = {t \in Tables : c \in ChunksOf(t)}
  BY <1>1
<1> QED BY <1>1, <1>2 DEF CountsExact

\* A step of a lookup.
LEMMA SameHeap ==
    ASSUME HInv, TypeOK',
           UNCHANGED <<obj, chunk, table, num_tables, free_queue, cur, delayed, writer, foreign, failure>>
    PROVE  HInv'
<1>1. StructInv' /\ CountsExact' /\ ElemInv'
  <2>1. StructInv'
    BY DEF HInv, StructInv, Tables, Chunks
  <2>2. CountsExact'
    BY SameCounts DEF HInv
  <2>3. ElemInv'
    BY DEF HInv, ElemInv, Chunks, Objs, Num, Data
  <2> QED BY <2>1, <2>2, <2>3
<1>2. OrderInv'
  BY DEF HInv, OrderInv, Chunks, Num, Data, Last, CurChunk
<1>3. UniqInv'
  BY DEF HInv, UniqInv, Num, Data, CurChunk
<1>4. PlaceInv' /\ CountInv' /\ ShiftInv' /\ SealInv'
  BY DEF HInv, PlaceInv, CountInv, ShiftInv, SealInv, Storing, Num, Data, Last, CurChunk
<1>5. Live' = Live
  BY DEF Live, LivePlaces, Places, At, IsTombstone
<1>6. WriterInv'
  BY <1>5 DEF HInv, WriterInv, Adding, InTable, InChunk, Num, Data, Chunks
<1>7. LiveInv'
  BY <1>5 DEF HInv, LiveInv
<1>a. \A o, c : InChunk(o, c)' <=> InChunk(o, c)
  BY DEF InChunk, Num, Data
<1>b. \A o, t : InTable(o, t)' <=> InTable(o, t)
  BY <1>a DEF InTable
<1>c. Tables' = Tables /\ Chunks' = Chunks /\ \A x : Pending(x)' <=> Pending(x)
  BY DEF Tables, Chunks, Pending
<1>d. PendInv'
  BY <1>a, <1>c DEF HInv, PendInv
<1>8. PendInv' /\ QueueInv'
  BY <1>b, <1>d DEF HInv, QueueInv
<1>9. ObjInv'
  BY <1>5 DEF HInv, ObjInv, Pending, Adding, Chunks, InChunk, Num, Data
<1>10. FailInv'
  BY DEF HInv, FailInv
<1> QED BY <1>1, <1>2, <1>3, <1>4, <1>6, <1>7, <1>8, <1>9, <1>10 DEF HInv

\* The tables and their number.
LEMMA TablesFinite == IsFiniteSet(Tables) /\ Cardinality(Tables) \in Nat
<1>1. IsFiniteSet(Table)
  BY SizeAssumption, FS_Interval DEF Table
<1> QED BY <1>1, FS_Subset, FS_CardinalityType DEF Tables

LEMMA OneTable ==
    ASSUME HInv, cur # NULL, num_tables <= 1
    PROVE  Tables = {cur}
<1>1. cur \in Tables /\ num_tables = Cardinality(Tables)
  BY DEF HInv, StructInv, CountsExact
<1>2. Cardinality(Tables \ {cur}) = Cardinality(Tables) - 1 /\ IsFiniteSet(Tables \ {cur})
  BY <1>1, TablesFinite, FS_RemoveElement
<1>3. Cardinality(Tables \ {cur}) \in Nat
  BY <1>2, FS_CardinalityType
<1>4. Cardinality(Tables \ {cur}) = 0
  BY <1>1, <1>2, <1>3, TablesFinite
<1>5. Tables \ {cur} = {}
  BY <1>2, <1>4, FS_EmptySet
<1> QED BY <1>1, <1>5

\* Every chunk that is not freed belongs to a table.
LEMMA ChunkHeld ==
    ASSUME HInv, NEW c \in Chunks
    PROVE  \E t \in Tables : \E i \in DOMAIN table[t] : table[t][i] = c
<1>1. c \in Chunk /\ chunk[c] # NULL
  BY DEF Chunks
<1>2. {t \in Tables : c \in ChunksOf(t)} # {}
  BY <1>1 DEF HInv, CountsExact
<1> QED BY <1>2 DEF ChunksOf

LEMMA OneTableChunks ==
    ASSUME HInv, cur # NULL, num_tables <= 1, NEW o, ~InTable(o, cur), NEW c \in Chunks
    PROVE  ~InChunk(o, c)
BY OneTable, ChunkHeld DEF InTable

LEMMA AddStartStep ==
    ASSUME HInv, NEW x \in Region, AddStart(x)
    PROVE  HInv'
<1>1. PICK o : o \in FreeCopies(x) /\ obj' = [obj EXCEPT ![o] = "ji"]
                /\ writer' = [writer EXCEPT !.pc = "search", !.ji = o]
                /\ allowed' = [r \in Reader |-> IF Covers(o, reader[r].addr) THEN allowed[r] \cup {o}
                                                ELSE allowed[r]]
  BY DEF AddStart
<1>2. o \in Obj /\ obj[o] = NULL /\ Start(o) = x[1] /\ End(o) = x[2]
  BY <1>1 DEF FreeCopies, Start, End
<1>3. /\ writer.pc = "idle" /\ writer = IdleWriter /\ cur # NULL
      /\ \A y \in Live : Apart(x, y)
      /\ chunk' = chunk /\ table' = table /\ num_tables' = num_tables /\ free_queue' = free_queue
      /\ cur' = cur /\ delayed' = delayed /\ foreign' = foreign /\ reader' = reader
      /\ expected' = expected /\ failure' = failure
  BY DEF AddStart, WriterAt, HInv, WriterInv
<1>4. /\ writer'.pc = "search" /\ writer'.ji = o /\ writer'.chunk = NULL /\ writer'.item = NULL
      /\ writer' \in WriterRecord
  <2>1. writer \in WriterRecord
    BY DEF HInv, TypeOK
  <2>2. writer' = [writer EXCEPT !.pc = "search", !.ji = o]
    BY <1>1
  <2>3. writer.chunk = NULL /\ writer.item = NULL
    BY <1>3 DEF IdleWriter
  <2> QED BY <2>1, <2>2, <2>3, <1>2 DEF WriterRecord
<1>5. obj' \in [Obj -> {NULL, "ji", "tombstone"}] /\ obj'[o] = "ji"
      /\ \A y \in Obj \ {o} : obj'[y] = obj[y]
  BY <1>1, <1>2 DEF HInv, TypeOK
<1>6. TypeOK'
  <2>1. allowed' \in [Reader -> SUBSET Obj]
    BY <1>1, <1>2 DEF HInv, TypeOK
  <2> QED BY <2>1, <1>3, <1>4, <1>5 DEF HInv, TypeOK
<1>7. Tables' = Tables /\ Chunks' = Chunks /\ Objs \subseteq Objs'
  BY <1>3, <1>5, NullFacts DEF Tables, Chunks, Objs
<1>8. \A c, y : InChunk(y, c)' <=> InChunk(y, c)
  BY <1>3 DEF InChunk, Num, Data
<1>9. \A c \in Chunks : ~InChunk(o, c)
  BY <1>2 DEF HInv, ElemInv, InChunk, Objs
<1>10. \A y : InTable(y, cur)' <=> InTable(y, cur)
  BY <1>3, <1>8 DEF InTable
<1>11. cur \in Tables /\ \A y : InTable(y, cur) => y \in Obj /\ y # o
  <2>1. cur \in Tables /\ \A i \in DOMAIN table[cur] : table[cur][i] \in Chunks
    BY <1>3 DEF HInv, StructInv
  <2>2. \A c \in Chunks : \A y : InChunk(y, c) => y \in Obj
    BY DEF HInv, ElemInv, InChunk, Objs
  <2> QED BY <2>1, <2>2, <1>9 DEF InTable
<1>12. \A y : y \in Live' <=> y \in Live
  BY <1>3, <1>5, <1>10, <1>11, LiveFacts, LiveFactsP DEF LiveIs
<1>13. \A item \in Item : Pending(item)' <=> Pending(item)
  BY <1>3, <1>4, NullFacts DEF Pending, IdleWriter
<1>14. StructInv' /\ CountsExact' /\ ElemInv'
  <2>1. StructInv'
    BY <1>3, <1>7 DEF HInv, StructInv
  <2>2. CountsExact'
    BY <1>3, SameCounts DEF HInv
  <2>3. ElemInv'
    BY <1>3, <1>7 DEF HInv, ElemInv, Num, Data
  <2> QED BY <2>1, <2>2, <2>3
<1>15. OrderInv'
  <2>1. \A c \in Chunks' : \A j, k \in Index :
           j <= k /\ k < Num(c)' => End(Data(c, j)') <= End(Data(c, k)')
    BY <1>3, <1>7 DEF HInv, OrderInv, Num, Data
  <2>2. \A i \in DOMAIN table[cur] : \A j \in Index : j < Num(CurChunk(i)) =>
           End(Data(CurChunk(i), j)) <= Last(CurChunk(i))
    <3>1. \A i \in DOMAIN table[cur] : CurChunk(i) # NULL
      BY <1>3, CurFacts
    <3> QED BY <3>1, <1>3 DEF HInv, OrderInv, IdleWriter
  <2>3. \A c : Num(c)' = Num(c) /\ Last(c)' = Last(c) /\ \A j : Data(c, j)' = Data(c, j)
    BY <1>3 DEF Num, Data, Last
  <2>4. \A i : CurChunk(i)' = CurChunk(i)
    BY <1>3 DEF CurChunk
  <2> QED BY <2>1, <2>2, <2>3, <2>4, <1>3 DEF HInv, OrderInv
<1>16. UniqInv'
  BY <1>3, <1>4 DEF HInv, UniqInv, Num, Data, CurChunk, IdleWriter
<1>17. PlaceInv' /\ CountInv' /\ ShiftInv' /\ SealInv'
  BY <1>4 DEF PlaceInv, CountInv, ShiftInv, SealInv, Storing
<1>18. LiveInv'
  BY <1>3, <1>12 DEF HInv, LiveInv
<1>19. WriterInv'
  <2>1. \A y \in Live' : y = o \/ Apart(y, o)
    <3>1. \A y \in Live : Apart(x, y)
      BY <1>3
    <3>2. \A y : Apart(x, y) => Apart(y, o)
      BY <1>2 DEF Apart, Start, End
    <3> QED BY <3>1, <3>2, <1>12
  <2>2. \A c \in Chunks' : ~InChunk(writer.ji, c)'
    <3>1. \A c : InChunk(writer.ji, c)' <=> InChunk(o, c)
      BY <1>3, <1>4 DEF InChunk, Num, Data
    <3> QED BY <3>1, <1>7, <1>9
  <2> QED BY <2>1, <2>2, <1>2, <1>3, <1>4, <1>5, NullFacts DEF WriterInv, Adding
<1>20. \A y \in Obj : <<"ji", y>> \in Item /\ (Pending(<<"ji", y>>) => y # o)
  <2>1. \A y \in Obj : <<"ji", y>> \in Item
    BY DEF Item
  <2> QED BY <2>1, <1>2, NullFacts DEF HInv, PendInv
<1>21. PendInv'
  <2>1. \A t \in Table : <<"table", t>> \in Item
    BY DEF Item
  <2>2. \A t \in Table : Pending(<<"table", t>>)' <=> t \in Tables' /\ t # cur'
    BY <2>1, <1>3, <1>7, <1>13 DEF HInv, PendInv
  <2>3. \A y \in Obj : Pending(<<"ji", y>>)' =>
         /\ obj'[y] = "ji" /\ y \notin free_queue'
         /\ \A c \in Chunks' : ~InChunk(y, c)'
         /\ y # writer'.ji
    BY <1>20, <1>3, <1>4, <1>5, <1>7, <1>8, <1>13 DEF HInv, PendInv
  <2> QED BY <2>2, <2>3, <1>3, <1>4 DEF HInv, PendInv, IdleWriter
<1>22. QueueInv'
  <2>1. \A y \in free_queue : y \in Obj /\ obj[y] = "ji" /\ y # o /\ ~InTable(y, cur)
    BY <1>2, <1>3, NullFacts DEF HInv, QueueInv, TypeOK
  <2> QED BY <2>1, <1>3, <1>4, <1>5, <1>10 DEF QueueInv
<1>23. ObjInv'
  <2>1. ASSUME NEW y \in Obj, obj'[y] = "ji"
        PROVE  y \in Live' \/ (y = writer'.ji /\ Adding') \/ Pending(<<"ji", y>>)' \/ y \in free_queue'
    <3>1. CASE y = o
      BY <3>1, <1>4 DEF Adding
    <3>2. CASE y # o
      <4>1. obj[y] = "ji"
        BY <3>2, <2>1, <1>5
      <4>2. y \in Live \/ Pending(<<"ji", y>>) \/ y \in free_queue
        BY <4>1, <1>3, NullFacts DEF HInv, ObjInv, Adding, IdleWriter
      <4> QED BY <4>2, <1>3, <1>12, <1>13, <1>20
    <3> QED BY <3>1, <3>2
  <2>2. ASSUME NEW y \in Obj, obj'[y] = "tombstone"
        PROVE  /\ \E c \in Chunks' : InChunk(y, c)'
               /\ \A c, d \in Chunks' : InChunk(y, c)' /\ InChunk(y, d)' => c = d
    BY <2>2, <1>5, <1>7, <1>8 DEF HInv, ObjInv
  <2> QED BY <2>1, <2>2 DEF ObjInv
<1>24. FailInv'
  BY <1>3 DEF HInv, FailInv
<1> QED BY <1>6, <1>14, <1>15, <1>16, <1>17, <1>18, <1>19, <1>21, <1>22, <1>23, <1>24 DEF HInv

\* A step that changes none of the blocks.
LEMMA SameChunks ==
    ASSUME HInv, UNCHANGED <<obj, chunk, table, cur>>,
           writer' = writer \/ (~Storing /\ ~Storing' /\ writer'.chunk = NULL)
    PROVE  /\ StructInv' /\ ElemInv' /\ OrderInv' /\ UniqInv' /\ PlaceInv' /\ CountInv'
           /\ ShiftInv' /\ SealInv' /\ LiveInv'
           /\ Live' = Live /\ Tables' = Tables /\ Chunks' = Chunks
           /\ \A o, c : InChunk(o, c)' <=> InChunk(o, c)
           /\ \A o, t : InTable(o, t)' <=> InTable(o, t)
<1>1. StructInv' /\ Tables' = Tables /\ Chunks' = Chunks
  BY DEF HInv, StructInv, Tables, Chunks
<1>2. ElemInv'
  BY DEF HInv, ElemInv, Chunks, Objs, Num, Data
<1>3. Live' = Live
  BY DEF Live, LivePlaces, Places, At, IsTombstone
<1>4. LiveInv'
  BY <1>3 DEF HInv, LiveInv
<1>5. \A o, c : InChunk(o, c)' <=> InChunk(o, c)
  BY DEF InChunk, Num, Data
<1>6. \A o, t : InTable(o, t)' <=> InTable(o, t)
  BY <1>5 DEF InTable
<1>7. CASE writer' = writer
  <2>1. OrderInv' /\ UniqInv'
    BY <1>7 DEF HInv, OrderInv, UniqInv, Chunks, Num, Data, Last, CurChunk
  <2>2. PlaceInv' /\ CountInv' /\ ShiftInv' /\ SealInv'
    BY <1>7 DEF HInv, PlaceInv, CountInv, ShiftInv, SealInv, Storing, Num, Data, Last, CurChunk
  <2> QED BY <1>1, <1>2, <1>3, <1>4, <1>5, <1>6, <2>1, <2>2
<1>8. CASE ~Storing /\ ~Storing' /\ writer'.chunk = NULL
  <2>1. PlaceInv' /\ CountInv' /\ ShiftInv' /\ SealInv'
    BY <1>8 DEF PlaceInv, CountInv, ShiftInv, SealInv, Storing
  <2>2. writer.chunk = NULL
    BY <1>8 DEF HInv, PlaceInv
  <2>3. \A c : Num(c)' = Num(c) /\ Last(c)' = Last(c) /\ \A j : Data(c, j)' = Data(c, j)
    BY DEF Num, Data, Last
  <2>4. \A i : CurChunk(i)' = CurChunk(i)
    BY DEF CurChunk
  <2>5. cur # NULL => \A i \in DOMAIN table[cur] : CurChunk(i) # NULL
    BY CurFacts
  <2>6. UniqInv'
    BY <1>8, <2>2, <2>3, <2>4, <2>5 DEF HInv, UniqInv, Storing
  <2>7. OrderInv'
    BY <1>1, <2>2, <2>3, <2>4, <2>5 DEF HInv, OrderInv
  <2> QED BY <1>1, <1>2, <1>3, <1>4, <1>5, <1>6, <2>1, <2>6, <2>7
<1> QED BY <1>7, <1>8

Distinct(s) == \A k, m \in DOMAIN s : s[k] = s[m] => k = m
Holds(s, x) == \E k \in DOMAIN s : s[k] = x
LEMMA RemoveFastFacts ==
    ASSUME NEW s \in Seq(Item), NEW i \in Nat, i < Len(s),
           Distinct(s), NEW q, q = RemoveIndexFast(s, i)
    PROVE  /\ q \in Seq(Item) /\ Distinct(q)
           /\ \A x : Holds(q, x) <=> Holds(s, x) /\ x # s[i + 1]
           /\ i + 1 \in DOMAIN s /\ s[i + 1] \in Item
<1> USE DEF Distinct, Holds
<1> DEFINE n == Len(s)
<1>1. n \in Nat /\ n >= 1 /\ DOMAIN s = 1..n /\ i + 1 \in 1..n /\ n - 1 \in Nat
  OBVIOUS
<1>2. q = [k \in 1..(n - 1) |-> IF k = i + 1 THEN s[n] ELSE s[k]]
  BY DEF RemoveIndexFast
<1>3. \A k \in 1..n : s[k] \in Item
  BY <1>1
<1>4. q \in [1..(n - 1) -> Item]
  BY <1>1, <1>2, <1>3
<1>5. q \in Seq(Item) /\ DOMAIN q = 1..(n - 1)
  <2>1. \A f, m : m \in Nat /\ f \in [1..m -> Item] => f \in Seq(Item)
    OBVIOUS
  <2> QED BY <2>1, <1>1, <1>4
<1> HIDE DEF n
<1>6. \A k \in 1..(n - 1) : k \in 1..n /\ k # n /\ q[k] = IF k = i + 1 THEN s[n] ELSE s[k]
  BY <1>1, <1>2
<1>7. n \in 1..n
  BY <1>1
<1>8. \A k, m \in 1..(n - 1) : q[k] = q[m] => k = m
  BY <1>1, <1>6, <1>7
<1>9. ASSUME NEW x PROVE (\E k \in 1..(n - 1) : q[k] = x) <=> (\E k \in 1..n : s[k] = x) /\ x # s[i + 1]
  <2>1. ASSUME NEW k \in 1..(n - 1), q[k] = x PROVE (\E m \in 1..n : s[m] = x) /\ x # s[i + 1]
    BY <2>1, <1>1, <1>6, <1>7
  <2>2. ASSUME NEW k \in 1..n, s[k] = x, x # s[i + 1] PROVE \E m \in 1..(n - 1) : q[m] = x
    <3>1. k # i + 1
      BY <2>2
    <3>2. CASE k = n
      <4>1. i + 1 \in 1..(n - 1)
        BY <3>1, <3>2, <1>1
      <4> QED BY <4>1, <3>2, <2>2, <1>6
    <3>3. CASE k # n
      <4>1. k \in 1..(n - 1)
        BY <3>3, <1>1
      <4> QED BY <4>1, <3>1, <2>2, <1>6
    <3> QED BY <3>2, <3>3
  <2> QED BY <2>1, <2>2
<1> QED BY <1>1, <1>3, <1>5, <1>8, <1>9

LEMMA ForeignTakeStep ==
    ASSUME HInv, NEW i \in 0..(Len(delayed) - 1), ForeignTake(i)
    PROVE  HInv'
<1>1. /\ i \in Nat /\ i < Len(delayed) /\ foreign = NULL /\ foreign' = delayed[i + 1]
      /\ delayed' = RemoveIndexFast(delayed, i)
      /\ UNCHANGED <<obj, chunk, table, cur, num_tables, free_queue, writer, reader, expected, allowed, failure>>
  BY DEF ForeignTake, Freeable, heap, ghosts
<1>2. PICK item : item = delayed[i + 1]
  OBVIOUS
<1>3. /\ delayed \in Seq(Item)
      /\ \A k, m \in DOMAIN delayed : delayed[k] = delayed[m] => k = m
  BY DEF HInv, TypeOK, PendInv
<1>4. /\ delayed' \in Seq(Item)
      /\ \A k, m \in DOMAIN delayed' : delayed'[k] = delayed'[m] => k = m
      /\ \A x : (\E k \in DOMAIN delayed' : delayed'[k] = x)
                  <=> (\E k \in DOMAIN delayed : delayed[k] = x) /\ x # item
      /\ i + 1 \in DOMAIN delayed /\ item \in Item
  <2>1. PICK s, q : s = delayed /\ q = RemoveIndexFast(s, i)
    OBVIOUS
  <2>2. s \in Seq(Item) /\ i \in Nat /\ i < Len(s) /\ Distinct(s) /\ q = RemoveIndexFast(s, i)
    BY <2>1, <1>1, <1>3 DEF Distinct
  <2>3. /\ q \in Seq(Item) /\ Distinct(q)
        /\ \A x : Holds(q, x) <=> Holds(s, x) /\ x # s[i + 1]
        /\ i + 1 \in DOMAIN s /\ s[i + 1] \in Item
    BY <2>2, RemoveFastFacts
  <2> QED BY <2>1, <2>3, <1>1, <1>2 DEF Distinct, Holds
<1>5. TypeOK'
  BY <1>1, <1>2, <1>4 DEF HInv, TypeOK
<1>6. /\ StructInv' /\ ElemInv' /\ OrderInv' /\ UniqInv' /\ PlaceInv' /\ CountInv'
      /\ ShiftInv' /\ SealInv' /\ LiveInv'
      /\ Live' = Live /\ Tables' = Tables /\ Chunks' = Chunks
      /\ \A o, c : InChunk(o, c)' <=> InChunk(o, c)
      /\ \A o, t : InTable(o, t)' <=> InTable(o, t)
  BY <1>1, SameChunks
<1>7. CountsExact' /\ FailInv'
  BY <1>1, SameCounts DEF HInv, FailInv
<1>8. Adding' <=> Adding
  BY <1>1 DEF Adding
<1>9. WriterInv'
  BY <1>1, <1>6, <1>8 DEF HInv, WriterInv, InChunk, InTable, Num, Data, Chunks
<1>10. \A x \in Item : Pending(x)' <=> Pending(x)
  BY <1>1, <1>2, <1>4, NullFacts DEF Pending
<1>11. PendInv'
  <2>1. \A t \in Table : <<"table", t>> \in Item
    BY DEF Item
  <2>2. \A y \in Obj : <<"ji", y>> \in Item
    BY DEF Item
  <2>3. item # writer.item
    BY <1>2, <1>4 DEF HInv, PendInv
  <2>4. \A k \in DOMAIN delayed' : delayed'[k] # foreign' /\ delayed'[k] # writer'.item
    BY <1>1, <1>2, <1>4 DEF HInv, PendInv
  <2>5. foreign' # writer'.item
    BY <2>3, <1>1, <1>2
  <2>6. \A t \in Table : Pending(<<"table", t>>)' <=> t \in Tables' /\ t # cur'
    BY <2>1, <1>1, <1>6, <1>10 DEF HInv, PendInv
  <2>7. \A y \in Obj : Pending(<<"ji", y>>)' =>
         /\ obj'[y] = "ji" /\ y \notin free_queue'
         /\ \A c \in Chunks' : ~InChunk(y, c)'
         /\ y = writer'.ji => writer'.item = <<"ji", y>>
    BY <2>2, <1>1, <1>6, <1>10 DEF HInv, PendInv
  <2> QED BY <2>4, <2>5, <2>6, <2>7, <1>4 DEF PendInv
<1>12. QueueInv'
  BY <1>1, <1>6 DEF HInv, QueueInv
<1>13. ObjInv'
  <2>1. \A y \in Obj : <<"ji", y>> \in Item
    BY DEF Item
  <2> QED BY <2>1, <1>1, <1>6, <1>8, <1>10 DEF HInv, ObjInv
<1> QED BY <1>5, <1>6, <1>7, <1>9, <1>11, <1>12, <1>13 DEF HInv

LEMMA DomainFreeStep ==
    ASSUME HInv, mono_domain_free
    PROVE  HInv'
<1>1. /\ writer.pc = "idle" /\ writer = IdleWriter /\ cur # NULL /\ writer \in WriterRecord
      /\ writer' = [writer EXCEPT !.pc = "free_all", !.idx = Len(delayed) - 1]
      /\ UNCHANGED <<obj, chunk, table, cur, num_tables, free_queue, delayed, foreign, reader, expected, allowed, failure>>
  BY DEF mono_domain_free, WriterAt, heap, ghosts, HInv, WriterInv, TypeOK
<1>2. /\ writer'.pc = "free_all" /\ writer'.chunk = NULL /\ writer'.ji = NULL /\ writer'.item = NULL
      /\ writer.chunk = NULL /\ writer.ji = NULL /\ writer.item = NULL
      /\ writer' \in WriterRecord
  <2>1. Len(delayed) - 1 \in Int
    BY DEF HInv, TypeOK
  <2>2. writer.chunk = NULL /\ writer.ji = NULL /\ writer.item = NULL
    BY <1>1 DEF IdleWriter
  <2> QED BY <2>1, <2>2, <1>1 DEF WriterRecord
<1>3. TypeOK'
  BY <1>1, <1>2 DEF HInv, TypeOK
<1>4. /\ StructInv' /\ ElemInv' /\ OrderInv' /\ UniqInv' /\ PlaceInv' /\ CountInv'
      /\ ShiftInv' /\ SealInv' /\ LiveInv'
      /\ Live' = Live /\ Tables' = Tables /\ Chunks' = Chunks
      /\ \A o, c : InChunk(o, c)' <=> InChunk(o, c)
      /\ \A o, t : InTable(o, t)' <=> InTable(o, t)
  <2>1. ~Storing /\ ~Storing'
    BY <1>1, <1>2 DEF Storing
  <2> QED BY <2>1, <1>1, <1>2, SameChunks
<1>5. CountsExact' /\ FailInv'
  BY <1>1, SameCounts DEF HInv, FailInv
<1>6. ~Adding /\ ~Adding'
  BY <1>1, <1>2 DEF Adding
<1>7. WriterInv'
  BY <1>1, <1>2, <1>6 DEF WriterInv
<1>8. \A x : Pending(x)' <=> Pending(x)
  BY <1>1, <1>2 DEF Pending
<1>9. PendInv'
  BY <1>1, <1>2, <1>4, <1>8 DEF HInv, PendInv
<1>10. QueueInv'
  BY <1>1, <1>2, <1>4 DEF HInv, QueueInv
<1>11. ObjInv'
  BY <1>1, <1>2, <1>4, <1>6, <1>8 DEF HInv, ObjInv
<1> QED BY <1>3, <1>4, <1>5, <1>7, <1>9, <1>10, <1>11 DEF HInv

LEMMA QueueStep ==
    ASSUME HInv, mono_jit_info_free_or_queue
    PROVE  HInv'
<1>1. /\ writer.pc = "removed" /\ writer \in WriterRecord /\ cur # NULL
      /\ UNCHANGED <<obj, chunk, table, cur, num_tables, delayed, foreign, reader, expected, allowed, failure>>
  BY DEF mono_jit_info_free_or_queue, WriterAt, ghosts, HInv, WriterInv, TypeOK
<1>2. PICK ji : ji = writer.ji
  OBVIOUS
<1>3. ji \in Obj /\ obj[ji] = "ji" /\ ~InTable(ji, cur) /\ writer.item = NULL
  BY <1>1, <1>2 DEF HInv, WriterInv
<1>4. <<"ji", ji>> \in Item /\ \A y \in Obj : <<"ji", y>> \in Item
  BY <1>3 DEF Item
<1>5. ~Pending(<<"ji", ji>>) /\ ji \notin free_queue
  BY <1>2, <1>3, <1>4, NullFacts DEF HInv, PendInv, QueueInv
<1>6. ASSUME NEW w, w = writer', w.chunk = NULL, w.pc \in {"try", "idle"}
      PROVE  /\ StructInv' /\ ElemInv' /\ OrderInv' /\ UniqInv' /\ PlaceInv' /\ CountInv'
             /\ ShiftInv' /\ SealInv' /\ LiveInv'
             /\ Live' = Live /\ Tables' = Tables /\ Chunks' = Chunks
             /\ \A o, c : InChunk(o, c)' <=> InChunk(o, c)
             /\ \A o, t : InTable(o, t)' <=> InTable(o, t)
  <2>1. ~Storing /\ ~Storing'
    BY <1>1, <1>6 DEF Storing
  <2> QED BY <2>1, <1>1, <1>6, SameChunks
<1>7. FailInv'
  BY <1>1 DEF HInv, FailInv
<1>8. CASE num_tables <= 1
  <2>1. /\ writer' = [writer EXCEPT !.pc = "try", !.item = <<"ji", ji>>, !.idx = 2]
        /\ free_queue' = free_queue
    BY <1>2, <1>8 DEF mono_jit_info_free_or_queue
  <2>2. /\ writer'.pc = "try" /\ writer'.ji = ji /\ writer'.item = <<"ji", ji>> /\ writer'.idx = 2
        /\ writer'.chunk = NULL /\ writer' \in WriterRecord
    <3>1. writer.chunk = NULL
      BY <1>1 DEF HInv, PlaceInv, Storing
    <3>2. 2 \in Int /\ "try" \in {"idle", "search", "try", "own", "count", "shift", "seal", "removed", "free_all"}
      OBVIOUS
    <3>3. PICK it : it = <<"ji", ji>>
      OBVIOUS
    <3>4. writer' = [writer EXCEPT !.pc = "try", !.item = it, !.idx = 2] /\ it \in Item
      BY <3>3, <2>1, <1>4
    <3> QED BY <3>1, <3>2, <3>3, <3>4, <1>1, <1>2 DEF WriterRecord
  <2>3. /\ StructInv' /\ ElemInv' /\ OrderInv' /\ UniqInv' /\ PlaceInv' /\ CountInv'
        /\ ShiftInv' /\ SealInv' /\ LiveInv'
        /\ Live' = Live /\ Tables' = Tables /\ Chunks' = Chunks
        /\ \A o, c : InChunk(o, c)' <=> InChunk(o, c)
        /\ \A o, t : InTable(o, t)' <=> InTable(o, t)
    BY <2>2, <1>6
  <2>4. TypeOK'
    BY <2>1, <2>2, <1>1 DEF HInv, TypeOK
  <2>5. CountsExact'
    BY <2>1, <1>1, SameCounts DEF HInv
  <2>6. <<"ji", ji>>[1] = "ji" /\ <<"ji", ji>>[2] = ji /\ <<"ji", ji>>[1] # "table"
    OBVIOUS
  <2>7. ~Adding /\ ~Adding'
    BY <2>2, <2>6, <1>1 DEF Adding
  <2>8. WriterInv'
    BY <2>2, <2>6, <2>7, <1>1, <1>4, <1>8, NullFacts DEF WriterInv
  <2>9. \A x \in Item : Pending(x)' <=> Pending(x) \/ x = <<"ji", ji>>
    BY <2>2, <1>1, <1>3, NullFacts DEF Pending
  <2>10. \A c \in Chunks : ~InChunk(ji, c)
    BY <1>1, <1>3, <1>8, OneTableChunks
  <2>11. PendInv'
    <3>1. \A t \in Table : <<"table", t>> \in Item /\ <<"table", t>> # <<"ji", ji>>
      BY DEF Item
    <3>2. \A k \in DOMAIN delayed' : delayed'[k] # foreign' /\ delayed'[k] # writer'.item
      BY <2>2, <1>1, <1>5 DEF HInv, PendInv, Pending
    <3>3. foreign' # writer'.item
      BY <2>2, <1>1, <1>5 DEF Pending
    <3>4. \A t \in Table : Pending(<<"table", t>>)' <=> t \in Tables' /\ t # cur'
      BY <3>1, <2>3, <2>9, <1>1 DEF HInv, PendInv
    <3>5. \A y \in Obj : <<"ji", y>> = <<"ji", ji>> <=> y = ji
      OBVIOUS
    <3>6. \A y \in Obj : Pending(<<"ji", y>>)' =>
           /\ obj'[y] = "ji" /\ y \notin free_queue'
           /\ \A c \in Chunks' : ~InChunk(y, c)'
           /\ y = writer'.ji => writer'.item = <<"ji", y>>
      <4> SUFFICES ASSUME NEW y \in Obj, Pending(<<"ji", y>>)'
                   PROVE  /\ obj'[y] = "ji" /\ y \notin free_queue'
                          /\ \A c \in Chunks' : ~InChunk(y, c)'
                          /\ y = writer'.ji => writer'.item = <<"ji", y>>
        OBVIOUS
      <4>1. CASE y = ji
        BY <4>1, <2>1, <2>2, <2>3, <2>10, <1>1, <1>3, <1>5
      <4>2. CASE y # ji
        <5>1. Pending(<<"ji", y>>)
          BY <4>2, <3>5, <2>9, <1>4
        <5> QED BY <5>1, <4>2, <2>1, <2>2, <2>3, <1>1 DEF HInv, PendInv
      <4> QED BY <4>1, <4>2
    <3> QED BY <3>2, <3>3, <3>4, <3>6, <1>1 DEF HInv, PendInv
  <2>12. QueueInv'
    BY <2>1, <2>2, <2>3, <2>6, <1>1, <1>2 DEF HInv, QueueInv
  <2>13. ObjInv'
    <3>1. ASSUME NEW y \in Obj, obj[y] = "ji"
          PROVE  y \in Live \/ y = ji \/ Pending(<<"ji", y>>) \/ y \in free_queue
      BY <3>1, <1>1, <1>2 DEF HInv, ObjInv
    <3> QED BY <3>1, <2>1, <2>3, <2>9, <1>1, <1>4 DEF HInv, ObjInv
  <2> QED BY <2>3, <2>4, <2>5, <2>8, <2>11, <2>12, <2>13, <1>7 DEF HInv
<1>9. CASE ~(num_tables <= 1)
  <2>1. writer' = IdleWriter /\ free_queue' = free_queue \cup {ji}
    BY <1>2, <1>9 DEF mono_jit_info_free_or_queue
  <2>2. /\ writer'.pc = "idle" /\ writer'.ji = NULL /\ writer'.item = NULL
        /\ writer'.chunk = NULL /\ writer' \in WriterRecord
    BY <2>1, SizeFacts DEF WriterRecord, IdleWriter
  <2>3. /\ StructInv' /\ ElemInv' /\ OrderInv' /\ UniqInv' /\ PlaceInv' /\ CountInv'
        /\ ShiftInv' /\ SealInv' /\ LiveInv'
        /\ Live' = Live /\ Tables' = Tables /\ Chunks' = Chunks
        /\ \A o, c : InChunk(o, c)' <=> InChunk(o, c)
        /\ \A o, t : InTable(o, t)' <=> InTable(o, t)
    BY <2>2, <1>6
  <2>4. TypeOK'
    BY <2>1, <2>2, <1>1, <1>3 DEF HInv, TypeOK
  <2>5. CountsExact'
    <3>1. \A t : ChunksOf(t)' = ChunksOf(t)
      BY <1>1 DEF ChunksOf
    <3>2. \A c \in Chunk : {t \in Tables : c \in ChunksOf(t)}' = {t \in Tables : c \in ChunksOf(t)}
      BY <3>1, <2>3
    <3>3. num_tables > 1
      BY <1>9 DEF HInv, TypeOK
    <3> QED BY <3>2, <3>3, <2>3, <1>1 DEF HInv, CountsExact
  <2>7. ~Adding /\ ~Adding'
    BY <2>2, <1>1 DEF Adding
  <2>8. WriterInv'
    BY <2>1, <2>2, <2>7 DEF WriterInv
  <2>9. \A x : Pending(x)' <=> Pending(x)
    BY <2>2, <1>1, <1>3 DEF Pending
  <2>11. PendInv'
    <3>6. \A y \in Obj : Pending(<<"ji", y>>)' =>
           /\ obj'[y] = "ji" /\ y \notin free_queue'
           /\ \A c \in Chunks' : ~InChunk(y, c)'
           /\ y # writer'.ji
      BY <2>1, <2>2, <2>3, <2>9, <1>1, <1>5, NullFacts DEF HInv, PendInv
    <3>7. \A t \in Table : Pending(<<"table", t>>)' <=> t \in Tables' /\ t # cur'
      BY <2>3, <2>9, <1>1 DEF HInv, PendInv
    <3> QED BY <3>6, <3>7, <2>2, <1>1, <1>3 DEF HInv, PendInv
  <2>12. QueueInv'
    <3>1. ASSUME NEW y \in free_queue' PROVE obj'[y] = "ji" /\ y # NULL /\ ~InTable(y, cur)
      BY <3>1, <2>1, <1>1, <1>3, NullFacts DEF HInv, QueueInv, TypeOK
    <3>2. \A y : InTable(y, cur)' <=> InTable(y, cur)
      BY <1>1 DEF InTable, InChunk, Num, Data
    <3> QED BY <3>1, <3>2, <2>2 DEF QueueInv
  <2>13. ObjInv'
    <3>1. ASSUME NEW y \in Obj, obj[y] = "ji"
          PROVE  y \in Live \/ y = ji \/ Pending(<<"ji", y>>) \/ y \in free_queue
      BY <3>1, <1>1, <1>2 DEF HInv, ObjInv
    <3> QED BY <3>1, <2>1, <2>3, <2>9, <1>1, <1>4 DEF HInv, ObjInv
  <2> QED BY <2>3, <2>4, <2>5, <2>8, <2>11, <2>12, <2>13, <1>7 DEF HInv
<1> QED BY <1>8, <1>9

-----------------------------------------------------------------------------
(***************************************************************************)
(* Freeing.                                                                *)
(***************************************************************************)
Holders(c) == {t \in Tables : c \in ChunksOf(t)}

LEMMA HoldersFinite ==
    ASSUME NEW c
    PROVE  IsFiniteSet(Holders(c)) /\ Cardinality(Holders(c)) \in Nat
BY TablesFinite, FS_Subset, FS_CardinalityType DEF Holders

\* What the release of an item, or of nothing, does to the blocks.
Freed(item) ==
    /\ Tables' = Tables \ {t \in Table : item = <<"table", t>>}
    /\ \A t \in Tables' : table'[t] = table[t]
    /\ Chunks' \subseteq Chunks
    /\ \A c \in Chunks' :
         /\ Num(c)' = Num(c) /\ Last(c)' = Last(c)
         /\ \A j : Data(c, j)' = Data(c, j)
    /\ \A t \in Tables' : \A i \in DOMAIN table[t] : table[t][i] \in Chunks'
    /\ \A o \in Obj : obj'[o] = obj[o] \/ obj'[o] = NULL
    /\ \A o \in Obj : obj'[o] # obj[o] => \A c \in Chunks' : ~InChunk(o, c)
    /\ \A o \in Obj : obj'[o] # obj[o] /\ obj[o] = "ji" =>
         item = <<"ji", o>> \/ o \in free_queue \ free_queue'
    /\ \A o \in Obj : obj'[o] = "tombstone" =>
         \A c \in Chunks : InChunk(o, c) => c \in Chunks'
    /\ \A o \in Obj : item = <<"ji", o>> => obj'[o] = NULL
    /\ free_queue' \subseteq free_queue
    /\ \A o \in free_queue \ free_queue' : obj'[o] = NULL
    /\ \A o \in free_queue' : obj'[o] = obj[o]
    /\ CountsExact' /\ FailInv' /\ num_tables' <= num_tables
    /\ obj' \in [Obj -> {NULL, "ji", "tombstone"}]
    /\ chunk' \in [Chunk -> ChunkRecord \cup {NULL}]
    /\ table' \in [Table -> Seq(Chunk) \cup {NULL}]
    /\ num_tables' \in Nat /\ free_queue' \in SUBSET Obj /\ failure' \in Failure

LEMMA KeepFacts ==
    ASSUME HInv, UNCHANGED <<heap, failure>>
    PROVE  Freed(NULL)
<1>1. /\ obj' = obj /\ chunk' = chunk /\ table' = table /\ num_tables' = num_tables
      /\ free_queue' = free_queue /\ failure' = failure
  BY DEF heap
<1>2. Tables' = Tables /\ Chunks' = Chunks
  BY <1>1 DEF Tables, Chunks
<1>3. /\ \A t \in Table : NULL # <<"table", t>>
      /\ \A o \in Obj : NULL # <<"ji", o>>
  <2>1. /\ \A t \in Table : <<"table", t>> \in Item
        /\ \A o \in Obj : <<"ji", o>> \in Item
    BY DEF Item
  <2> QED BY <2>1, NullFacts
<1>4. \A c : Num(c)' = Num(c) /\ Last(c)' = Last(c) /\ \A j : Data(c, j)' = Data(c, j)
  BY <1>1 DEF Num, Last, Data
<1>5. CountsExact' /\ FailInv'
  BY <1>1, SameCounts DEF HInv, FailInv
<1>6. \A t \in Tables : \A i \in DOMAIN table[t] : table[t][i] \in Chunks
  BY DEF HInv, StructInv
<1>7. \A o \in Obj : obj'[o] = "tombstone" => obj'[o] = obj[o]
  BY <1>1
<1>8. Tables' = Tables \ {t \in Table : NULL = <<"table", t>>}
  BY <1>2, <1>3
<1>9. /\ obj' \in [Obj -> {NULL, "ji", "tombstone"}]
      /\ chunk' \in [Chunk -> ChunkRecord \cup {NULL}]
      /\ table' \in [Table -> Seq(Chunk) \cup {NULL}]
      /\ num_tables' \in Nat /\ free_queue' \in SUBSET Obj /\ failure' \in Failure
  BY <1>1 DEF HInv, TypeOK
<1>10. num_tables' <= num_tables
  BY <1>1 DEF HInv, TypeOK
<1> QED BY <1>1, <1>2, <1>3, <1>4, <1>5, <1>6, <1>8, <1>9, <1>10 DEF Freed

LEMMA JiFreeFacts ==
    ASSUME HInv, NEW o \in Obj, Pending(<<"ji", o>>), Free(<<"ji", o>>)
    PROVE  Freed(<<"ji", o>>)
<1>1. /\ obj' = [obj EXCEPT ![o] = NULL]
      /\ chunk' = chunk /\ table' = table /\ num_tables' = num_tables
      /\ free_queue' = free_queue /\ failure' = failure
  BY DEF Free
<1>2. Tables' = Tables /\ Chunks' = Chunks
  BY <1>1 DEF Tables, Chunks
<1>3. /\ obj[o] = "ji" /\ o \notin free_queue /\ \A c \in Chunks : ~InChunk(o, c)
  BY DEF HInv, PendInv
<1>4. \A c : Num(c)' = Num(c) /\ Last(c)' = Last(c) /\ \A j : Data(c, j)' = Data(c, j)
  BY <1>1 DEF Num, Last, Data
<1>5. CountsExact' /\ FailInv'
  BY <1>1, SameCounts DEF HInv, FailInv
<1>6. \A t \in Tables : \A i \in DOMAIN table[t] : table[t][i] \in Chunks
  BY DEF HInv, StructInv
<1>7. /\ obj' \in [Obj -> {NULL, "ji", "tombstone"}] /\ obj'[o] = NULL
      /\ \A y \in Obj : y # o => obj'[y] = obj[y]
  BY <1>1 DEF HInv, TypeOK
<1>8. Tables' = Tables \ {t \in Table : <<"ji", o>> = <<"table", t>>}
  BY <1>2
<1>9. \A y \in Obj : <<"ji", o>> = <<"ji", y>> <=> y = o
  OBVIOUS
<1>10. /\ chunk' \in [Chunk -> ChunkRecord \cup {NULL}]
      /\ table' \in [Table -> Seq(Chunk) \cup {NULL}]
      /\ num_tables' \in Nat /\ free_queue' \in SUBSET Obj /\ failure' \in Failure
      /\ num_tables' <= num_tables
  BY <1>1 DEF HInv, TypeOK
<1>11. \A y \in free_queue : y \in Obj
  BY DEF HInv, TypeOK
<1> QED BY <1>1, <1>2, <1>3, <1>4, <1>5, <1>6, <1>7, <1>8, <1>9, <1>10, <1>11 DEF Freed

\* jit_info_table_free, for a retired table or for the only one.
LEMMA TableFreeFacts ==
    ASSUME HInv, NEW t \in Tables, jit_info_table_free(t),
           cur # NULL, t # cur \/ num_tables = 1, Running
    PROVE  Freed(<<"table", t>>)
<1>0. /\ num_tables' = num_tables - 1
      /\ free_queue' = free_queue \ Flushed
      /\ obj' = [o \in Obj |-> IF o \in Flushed \/ (o \in Walked(t) /\ IsTombstone(o))
                             THEN NULL ELSE obj[o]]
      /\ chunk' = [c \in Chunk |-> IF c \notin ChunksOf(t) THEN chunk[c]
                                 ELSE IF chunk[c].refcount = 1 THEN NULL
                                 ELSE [chunk[c] EXCEPT !.refcount = @ - 1]]
      /\ table' = [table EXCEPT ![t] = NULL]
      /\ failure' \in {failure, "freed ji read"}
  BY DEF jit_info_table_free
<1>a. TypeOK /\ CountsExact /\ StructInv /\ t \in Table
  BY DEF HInv, Tables
<1>1. Tables' = Tables \ {t} /\ \A u \in Table \ {t} : table'[u] = table[u]
  BY <1>0, <1>a DEF Tables, TypeOK
<1>2. \A u \in Tables' : table'[u] = table[u] /\ ChunksOf(u)' = ChunksOf(u) /\ u \in Table
  <2>1. \A u \in Tables' : table'[u] = table[u] /\ u \in Table
    BY <1>1 DEF Tables
  <2> QED BY <2>1 DEF ChunksOf
<1>3. \A c \in ChunksOf(t) : c \in Chunks /\ c \in Chunk /\ chunk[c] # NULL /\ chunk[c] \in ChunkRecord
  BY <1>a DEF ChunksOf, StructInv, Chunks, TypeOK
<1>4. \A c \in Chunk : Holders(c) # {} => chunk[c] # NULL /\ chunk[c].refcount = Cardinality(Holders(c))
  BY <1>a DEF CountsExact, Holders
<1>5. \A c \in Chunk : Holders(c) = {} => chunk[c] = NULL
  BY <1>a DEF CountsExact, Holders
<1>6. \A c \in Chunk : Holders(c)' = Holders(c) \ {t}
  BY <1>1, <1>2 DEF Holders
<1>7. \A c \in ChunksOf(t) : t \in Holders(c)
  BY DEF Holders
<1>8. \A c \in Chunk \ ChunksOf(t) : Holders(c)' = Holders(c) /\ chunk'[c] = chunk[c]
  <2>1. \A c \in Chunk \ ChunksOf(t) : Holders(c)' = Holders(c)
    BY <1>6 DEF Holders
  <2>2. \A c \in Chunk \ ChunksOf(t) : chunk'[c] = chunk[c]
    BY <1>0
  <2> QED BY <2>1, <2>2
<1>9. ASSUME NEW c \in ChunksOf(t)
      PROVE  /\ chunk[c].refcount \in Nat /\ chunk[c].refcount >= 1
             /\ Cardinality(Holders(c)') = chunk[c].refcount - 1
             /\ IsFiniteSet(Holders(c)')
             /\ Holders(c)' = {} <=> chunk[c].refcount = 1
  <2>1. c \in Chunk /\ t \in Holders(c) /\ chunk[c].refcount = Cardinality(Holders(c))
    BY <1>3, <1>4, <1>7, <1>9
  <2>2. IsFiniteSet(Holders(c)) /\ Cardinality(Holders(c)) \in Nat
    BY HoldersFinite
  <2>3. IsFiniteSet(Holders(c) \ {t}) /\ Cardinality(Holders(c) \ {t}) = Cardinality(Holders(c)) - 1
    BY <2>1, <2>2, FS_RemoveElement
  <2>4. Cardinality(Holders(c) \ {t}) \in Nat
    BY <2>3, FS_CardinalityType
  <2>5. Holders(c) \ {t} = {} <=> Cardinality(Holders(c) \ {t}) = 0
    BY <2>3, FS_EmptySet
  <2> QED BY <2>1, <2>2, <2>3, <2>4, <2>5, <1>6
<1>10. ASSUME NEW c \in ChunksOf(t), chunk[c].refcount = 1 PROVE chunk'[c] = NULL
  BY <1>0, <1>3, <1>10
<1>11. ASSUME NEW c \in ChunksOf(t), chunk[c].refcount # 1
       PROVE  /\ chunk'[c] \in ChunkRecord /\ chunk'[c] # NULL
              /\ chunk'[c].refcount = chunk[c].refcount - 1
              /\ Num(c)' = Num(c) /\ Last(c)' = Last(c)
              /\ \A j : Data(c, j)' = Data(c, j)
  <2>1. chunk'[c] = [chunk[c] EXCEPT !.refcount = chunk[c].refcount - 1]
    BY <1>0, <1>3, <1>11
  <2>2. chunk[c].refcount - 1 \in Nat
    BY <1>9, <1>11
  <2>3. chunk[c] \in ChunkRecord
    BY <1>3, <1>11
  <2>4. chunk'[c] \in ChunkRecord
    BY <2>1, <2>2, <2>3 DEF ChunkRecord
  <2>5. chunk'[c].refcount = chunk[c].refcount - 1 /\ Num(c)' = Num(c) /\ Last(c)' = Last(c)
        /\ \A j : Data(c, j)' = Data(c, j)
    BY <2>1, <2>3 DEF ChunkRecord, Num, Last, Data
  <2> QED BY <2>4, <2>5, NullAssumption
<1>12. chunk' \in [Chunk -> ChunkRecord \cup {NULL}]
  <2>1. \A c \in Chunk : chunk'[c] \in ChunkRecord \cup {NULL}
    BY <1>8, <1>10, <1>11, <1>a DEF TypeOK
  <2>2. DOMAIN chunk' = Chunk /\ chunk' = [c \in Chunk |-> chunk'[c]]
    BY <1>0
  <2> QED BY <2>1, <2>2
<1>13. Chunks' \subseteq Chunks
  BY <1>3, <1>8 DEF Chunks
<1>14. \A c \in Chunks' : /\ Num(c)' = Num(c) /\ Last(c)' = Last(c)
                          /\ \A j : Data(c, j)' = Data(c, j)
  <2> SUFFICES ASSUME NEW c \in Chunks'
               PROVE  /\ Num(c)' = Num(c) /\ Last(c)' = Last(c)
                      /\ \A j : Data(c, j)' = Data(c, j)
    OBVIOUS
  <2>1. c \in Chunk /\ chunk'[c] # NULL
    BY DEF Chunks
  <2>2. CASE c \in ChunksOf(t)
    BY <2>1, <2>2, <1>10, <1>11
  <2>3. CASE c \notin ChunksOf(t)
    BY <2>1, <2>3, <1>8 DEF Num, Last, Data
  <2> QED BY <2>2, <2>3
<1>15. num_tables' = Cardinality(Tables') /\ num_tables' \in Nat /\ num_tables' <= num_tables
  <2>1. num_tables = Cardinality(Tables)
    BY <1>a DEF CountsExact
  <2>2. IsFiniteSet(Tables \ {t}) /\ Cardinality(Tables \ {t}) = Cardinality(Tables) - 1
    BY TablesFinite, FS_RemoveElement
  <2>3. Cardinality(Tables \ {t}) \in Nat
    BY <2>2, FS_CardinalityType
  <2>4. num_tables' = num_tables - 1 /\ num_tables \in Nat /\ Tables' = Tables \ {t}
    BY <1>0, <1>1, <1>a DEF TypeOK
  <2>5. num_tables' = Cardinality(Tables')
    BY <2>1, <2>2, <2>4
  <2>6. num_tables' \in Nat
    BY <2>3, <2>4, <2>5
  <2> QED BY <2>4, <2>5, <2>6
<1>16. free_queue' \subseteq free_queue /\ (free_queue' # {} => num_tables' > 1)
       /\ (num_tables' <= 1 => free_queue' = {}) /\ (~(num_tables' <= 1) => free_queue' = free_queue)
  <2>1. Flushed = IF num_tables' <= 1 THEN free_queue ELSE {}
    BY <1>0 DEF Flushed
  <2>2. num_tables' \in Nat /\ (~(num_tables' <= 1) => num_tables' > 1)
    BY <1>15
  <2>3. free_queue' = free_queue \ Flushed
    BY <1>0
  <2> QED BY <2>1, <2>2, <2>3
<1>17. CountsExact'
  <2>1. ASSUME NEW c \in Chunk
        PROVE  IF Holders(c)' = {} THEN chunk'[c] = NULL
               ELSE chunk'[c] # NULL /\ chunk'[c].refcount = Cardinality(Holders(c)')
    <3>1. CASE c \in ChunksOf(t)
      BY <3>1, <1>9, <1>10, <1>11
    <3>2. CASE c \notin ChunksOf(t)
      BY <3>2, <1>4, <1>5, <1>8
    <3> QED BY <3>1, <3>2
  <2> QED BY <2>1, <1>15, <1>16 DEF CountsExact, Holders
<1>18. \A u \in Tables' : \A i \in DOMAIN table[u] : table[u][i] \in Chunks'
  <2> SUFFICES ASSUME NEW u \in Tables', NEW i \in DOMAIN table[u] PROVE table[u][i] \in Chunks'
    OBVIOUS
  <2>1. PICK c : c = table[u][i]
    OBVIOUS
  <2>2. u \in Tables /\ c \in Chunks /\ c \in Chunk /\ c \in ChunksOf(u)
    BY <2>1, <1>1, <1>a DEF StructInv, Chunks, ChunksOf
  <2>3. u \in Holders(c)'
    BY <2>2, <1>2 DEF Holders
  <2>4. chunk'[c] # NULL
    BY <2>2, <2>3, <1>17 DEF CountsExact, Holders
  <2> QED BY <2>1, <2>2, <2>4 DEF Chunks
<1>19. \A o \in Obj : obj'[o] = IF o \in Flushed \/ (o \in Walked(t) /\ IsTombstone(o)) THEN NULL ELSE obj[o]
  BY <1>0
<1>20. Flushed \subseteq free_queue /\ \A o \in free_queue : o \in Obj /\ obj[o] = "ji"
  BY DEF Flushed, HInv, QueueInv, TypeOK
<1>21. \A o : o \in Walked(t) <=> \E c \in ChunksOf(t) : chunk[c].refcount = 1 /\ InChunk(o, c)
  <2>1. \A c \in ChunksOf(t) : \A o : o \in ElementsOf(c) <=> InChunk(o, c)
    <3> SUFFICES ASSUME NEW c \in ChunksOf(t), NEW o PROVE o \in ElementsOf(c) <=> InChunk(o, c)
      OBVIOUS
    <3>1. c \in Chunks /\ Num(c) \in 0..CHUNK_SIZE
      BY <1>3, <1>a, ChunkFacts DEF ChunkType
    <3>2. \A j : j \in 0..(Num(c) - 1) <=> j \in Index /\ j < Num(c)
      BY <3>1, SizeFacts
    <3> QED BY <3>2 DEF ElementsOf, InChunk, Num, Data
  <2> QED BY <2>1 DEF Walked, LastChunks
<1>22. \A o \in Obj : obj'[o] = obj[o] \/ obj'[o] = NULL
  BY <1>19
<1>23. ASSUME NEW o \in Obj, o \in Flushed, NEW c \in Chunks' PROVE ~InChunk(o, c)
  <2>1. num_tables' <= 1
    BY <1>23, <1>0 DEF Flushed
  <2>2. t # cur => Tables' = {cur}
    <3>1. t # cur => cur \in Tables'
      BY <1>1, <1>a DEF StructInv
    <3>2. IsFiniteSet(Tables') /\ Cardinality(Tables') <= 1
      BY <2>1, <1>1, <1>15, TablesFinite, FS_RemoveElement
    <3>3. IsFiniteSet(Tables' \ {cur}) /\ (cur \in Tables' => Cardinality(Tables' \ {cur}) = Cardinality(Tables') - 1)
      BY <3>2, FS_RemoveElement
    <3>4. Cardinality(Tables' \ {cur}) \in Nat
      BY <3>3, FS_CardinalityType
    <3>5. cur \in Tables' => Cardinality(Tables' \ {cur}) = 0
      BY <3>2, <3>3, <3>4, <1>15
    <3>6. cur \in Tables' => Tables' \ {cur} = {}
      BY <3>3, <3>5, FS_EmptySet
    <3> QED BY <3>1, <3>6
  <2>3. t = cur => Tables' = {}
    <3>2. t = cur => num_tables = 1
      OBVIOUS
    <3>1. t = cur => num_tables' = 0
      <4>1. num_tables' = num_tables - 1
        BY <1>0
      <4> QED BY <3>2, <4>1
    <3> QED BY <3>1, <1>1, <1>15, TablesFinite, FS_RemoveElement, FS_EmptySet
  <2>4. c \in Chunk /\ chunk'[c] # NULL
    BY DEF Chunks
  <2>5. Holders(c)' # {}
    BY <2>4, <1>17 DEF CountsExact, Holders
  <2>6. cur \in Holders(c)'
    BY <2>2, <2>3, <2>5 DEF Holders
  <2>7. \E i \in DOMAIN table[cur] : table[cur][i] = c
    BY <2>6, <1>2 DEF Holders, ChunksOf
  <2>8. ~InTable(o, cur)
    BY <1>20, <1>23 DEF HInv, QueueInv
  <2> QED BY <2>7, <2>8 DEF InTable
<1>24. ASSUME NEW o \in Obj, o \in Walked(t), IsTombstone(o), NEW c \in Chunks' PROVE ~InChunk(o, c)
  <2>1. PICK d \in ChunksOf(t) : chunk[d].refcount = 1 /\ InChunk(o, d)
    BY <1>21, <1>24
  <2>2. chunk'[d] = NULL /\ d \in Chunks
    BY <2>1, <1>10, <1>3
  <2>3. c # d /\ c \in Chunks
    BY <2>2, <1>13 DEF Chunks
  <2> QED BY <2>1, <2>2, <2>3, <1>24 DEF HInv, ObjInv, IsTombstone
<1>25. ASSUME NEW o \in Obj, obj'[o] = "tombstone", NEW c \in Chunks, InChunk(o, c) PROVE c \in Chunks'
  <2>1. obj[o] = "tombstone" /\ o \notin Walked(t)
    BY <1>19, <1>25, NullFacts DEF IsTombstone
  <2>2. c \in Chunk /\ (c \in ChunksOf(t) => chunk[c].refcount # 1)
    BY <2>1, <1>21, <1>25 DEF Chunks
  <2>3. chunk'[c] # NULL
    BY <2>2, <1>8, <1>11 DEF Chunks
  <2> QED BY <2>2, <2>3 DEF Chunks
<1>26. obj' \in [Obj -> {NULL, "ji", "tombstone"}]
  BY <1>0, <1>a DEF TypeOK
<1>27. table' \in [Table -> Seq(Chunk) \cup {NULL}]
  BY <1>0, <1>a DEF TypeOK
<1>28. FailInv' /\ failure' \in Failure
  BY <1>0 DEF FailInv, Failure, Running
<1>29. \A u \in Table : <<"table", t>> = <<"table", u>> <=> u = t
  OBVIOUS
<1>30. Tables' = Tables \ {u \in Table : <<"table", t>> = <<"table", u>>}
  BY <1>1, <1>29, <1>a
<1>31. \A o \in Obj : <<"table", t>> # <<"ji", o>>
  OBVIOUS
<1>32. free_queue' \in SUBSET Obj
  BY <1>16, <1>20
<1>33. \A o \in Obj : obj'[o] # obj[o] => \A c \in Chunks' : ~InChunk(o, c)
  BY <1>19, <1>23, <1>24
<1>34. \A o \in Obj : obj'[o] # obj[o] /\ obj[o] = "ji" => o \in free_queue \ free_queue'
  BY <1>0, <1>19, <1>20 DEF IsTombstone
<1>35. \A o \in free_queue \ free_queue' : obj'[o] = NULL
  BY <1>0, <1>19, <1>20
<1>36. \A o \in free_queue' : obj'[o] = obj[o]
  BY <1>0, <1>19, <1>20 DEF IsTombstone
<1> HIDE DEF Freed
<1>37. \A u \in Tables' : table'[u] = table[u]
  BY <1>2
<1> QED BY <1>12, <1>13, <1>14, <1>15, <1>16, <1>17, <1>18, <1>22, <1>25, <1>26, <1>27, <1>28, <1>30,
           <1>31, <1>32, <1>33, <1>34, <1>35, <1>36, <1>37 DEF Freed

LEMMA FreedView ==
    ASSUME HInv, NEW item, Freed(item), cur' = cur, cur # NULL => item # <<"table", cur>>,
           writer' = writer \/ (~Storing /\ ~Storing' /\ writer'.chunk = NULL)
    PROVE  /\ StructInv' /\ ElemInv' /\ OrderInv' /\ UniqInv' /\ PlaceInv' /\ CountInv'
           /\ ShiftInv' /\ SealInv' /\ LiveInv'
           /\ Live' = Live /\ Tables' \subseteq Tables /\ Chunks' \subseteq Chunks
           /\ \A c \in Chunks' : \A o : InChunk(o, c)' <=> InChunk(o, c)
           /\ \A t \in Tables' : \A o : InTable(o, t)' <=> InTable(o, t)
           /\ cur # NULL => cur \in Tables'
<1>0. /\ Tables' = Tables \ {t \in Table : item = <<"table", t>>}
      /\ \A t \in Tables' : table'[t] = table[t]
      /\ Chunks' \subseteq Chunks
      /\ \A c \in Chunks' :
           /\ Num(c)' = Num(c) /\ Last(c)' = Last(c)
           /\ \A j : Data(c, j)' = Data(c, j)
      /\ \A t \in Tables' : \A i \in DOMAIN table[t] : table[t][i] \in Chunks'
      /\ \A o \in Obj : obj'[o] # obj[o] => \A c \in Chunks' : ~InChunk(o, c)
  BY DEF Freed
<1>1. Tables' \subseteq Tables /\ (cur # NULL => cur \in Tables') /\ (cur = NULL => Tables = {})
  BY <1>0 DEF HInv, StructInv
<1>2. StructInv'
  <2>1. \A t \in Tables' : /\ \A i \in DOMAIN table'[t] : table'[t][i] \in Chunks'
                           /\ \A i, k \in DOMAIN table'[t] : table'[t][i] = table'[t][k] => i = k
                           /\ Len(table'[t]) >= 1
    BY <1>0, <1>1 DEF HInv, StructInv
  <2> QED BY <2>1, <1>1 DEF StructInv
<1>3. \A c \in Chunks' : \A o : InChunk(o, c)' <=> InChunk(o, c)
  BY <1>0 DEF InChunk
<1>4. \A t \in Tables' : \A o : InTable(o, t)' <=> InTable(o, t)
  BY <1>0, <1>3 DEF InTable
<1>5. \A c \in Chunks', j \in Index : j < Num(c) => Data(c, j) \in Objs /\ InChunk(Data(c, j), c)
  BY <1>0 DEF HInv, ElemInv, InChunk
<1>6. \A c \in Chunks', j \in Index : j < Num(c) => obj'[Data(c, j)] = obj[Data(c, j)] /\ Data(c, j) \in Objs'
  BY <1>0, <1>5 DEF Objs
<1>7. ElemInv'
  BY <1>0, <1>6 DEF ElemInv
<1>8. Live' = Live
  <2>1. CASE cur = NULL
    BY <2>1, LiveFacts, LiveFactsP DEF LiveIs
  <2>2. CASE cur # NULL
    <3>1. PICK t : t = cur
      OBVIOUS
    <3>2. t \in Tables' /\ t = cur'
      BY <3>1, <2>2, <1>1
    <3>3. \A o : InTable(o, t)' <=> InTable(o, t)
      BY <3>2, <1>4
    <3>4. \A o : InTable(o, t) => obj'[o] = obj[o]
      <4> SUFFICES ASSUME NEW o, InTable(o, t) PROVE obj'[o] = obj[o]
        OBVIOUS
      <4>1. PICK i \in DOMAIN table[t], j \in Index : j < Num(table[t][i]) /\ Data(table[t][i], j) = o
        BY DEF InTable, InChunk
      <4>2. PICK c : c = table[t][i]
        OBVIOUS
      <4>3. c \in Chunks' /\ j < Num(c) /\ Data(c, j) = o
        BY <4>1, <4>2, <3>2, <1>0
      <4> QED BY <4>3, <1>6
    <3>5. \A o : o \in Live <=> InTable(o, t) /\ obj[o] # "tombstone"
      BY <3>1, <2>2, LiveFacts DEF LiveIs
    <3>6. \A o : o \in Live' <=> InTable(o, t)' /\ obj'[o] # "tombstone"
      BY <3>2, <3>1, <2>2, LiveFactsP DEF LiveIs
    <3> QED BY <3>3, <3>4, <3>5, <3>6
  <2> QED BY <2>1, <2>2
<1>9. LiveInv'
  BY <1>8 DEF HInv, LiveInv
<1>10. ASSUME cur # NULL
       PROVE  /\ DOMAIN table'[cur'] = DOMAIN table[cur] /\ Len(table'[cur']) = Len(table[cur])
              /\ \A i : CurChunk(i)' = CurChunk(i)
              /\ \A i \in DOMAIN table[cur] :
                   /\ CurChunk(i) \in Chunks' /\ CurChunk(i) # NULL
                   /\ Num(CurChunk(i))' = Num(CurChunk(i)) /\ Last(CurChunk(i))' = Last(CurChunk(i))
                   /\ \A j : Data(CurChunk(i), j)' = Data(CurChunk(i), j)
  <2>1. cur \in Tables' /\ table'[cur'] = table[cur]
    BY <1>10, <1>0, <1>1
  <2>2. \A i : CurChunk(i)' = CurChunk(i)
    BY <2>1 DEF CurChunk
  <2>3. \A i \in DOMAIN table[cur] : CurChunk(i) \in Chunks' /\ CurChunk(i) # NULL
    BY <2>1, <1>0, <1>10, CurFacts DEF CurChunk
  <2>4. ASSUME NEW i \in DOMAIN table[cur]
        PROVE  /\ Num(CurChunk(i))' = Num(CurChunk(i)) /\ Last(CurChunk(i))' = Last(CurChunk(i))
               /\ \A j : Data(CurChunk(i), j)' = Data(CurChunk(i), j)
    <3>1. PICK c : c = CurChunk(i)
      OBVIOUS
    <3>2. c \in Chunks' /\ CurChunk(i)' = c
      BY <3>1, <2>2, <2>3
    <3>3. Num(c)' = Num(c) /\ Last(c)' = Last(c) /\ \A j : Data(c, j)' = Data(c, j)
      BY <3>2, <1>0
    <3> QED BY <3>1, <3>2, <3>3
  <2> QED BY <2>1, <2>2, <2>3, <2>4
<1>11. \A c \in Chunks' : \A j, k \in Index :
         j <= k /\ k < Num(c)' => End(Data(c, j)') <= End(Data(c, k)')
  BY <1>0 DEF HInv, OrderInv
<1>12. CASE writer' = writer
  <2>1. OrderInv'
    BY <1>10, <1>11, <1>12 DEF HInv, OrderInv
  <2>2. UniqInv'
    BY <1>10, <1>12 DEF HInv, UniqInv
  <2>3. CASE ~Storing
    <3>1. PlaceInv' /\ CountInv' /\ ShiftInv' /\ SealInv'
      BY <2>3, <1>12 DEF HInv, PlaceInv, CountInv, ShiftInv, SealInv, Storing
    <3> QED BY <2>1, <2>2, <3>1, <1>1, <1>2, <1>3, <1>4, <1>7, <1>8, <1>9, <1>0
  <2>4. CASE Storing
    <3>1. cur # NULL
      BY <2>4 DEF HInv, WriterInv, Storing
    <3>2. PICK c : c = writer.chunk
      OBVIOUS
    <3>3. c \in Chunks' /\ c = writer'.chunk
      BY <2>4, <3>1, <3>2, <1>10, <1>12 DEF HInv, PlaceInv
    <3>4. Num(c)' = Num(c) /\ \A j : Data(c, j)' = Data(c, j)
      BY <3>3, <1>0
    <3>5. /\ Num(writer.chunk)' = Num(writer.chunk)
          /\ \A j : Data(writer.chunk, j)' = Data(writer.chunk, j)
      BY <3>2, <3>3, <3>4
    <3>6. PlaceInv'
      BY <3>1, <2>4, <1>10, <1>12 DEF HInv, PlaceInv, Storing
    <3>7. CountInv'
      <4>1. PICK n : n = Num(c)
        OBVIOUS
      <4>2. Num(writer.chunk)' = n /\ Num(writer.chunk) = n
        BY <4>1, <3>2, <3>5
      <4>4. writer.pc = "count" => Data(writer.chunk, Num(writer.chunk))' = Data(c, n)
        BY <3>4, <3>3, <4>2
      <4> QED BY <3>2, <3>5, <4>2, <4>4, <1>12 DEF HInv, CountInv
    <3>8. ShiftInv'
      BY <3>5, <1>12 DEF HInv, ShiftInv
    <3>9. SealInv'
      BY <3>5, <1>12 DEF HInv, SealInv
    <3> QED BY <2>1, <2>2, <3>6, <3>7, <3>8, <3>9, <1>1, <1>2, <1>3, <1>4, <1>7, <1>8, <1>9, <1>0
  <2> QED BY <2>3, <2>4
<1>13. CASE ~Storing /\ ~Storing' /\ writer'.chunk = NULL
  <2>1. PlaceInv' /\ CountInv' /\ ShiftInv' /\ SealInv'
    BY <1>13 DEF PlaceInv, CountInv, ShiftInv, SealInv, Storing
  <2>2. writer.chunk = NULL
    BY <1>13 DEF HInv, PlaceInv
  <2>3. UniqInv'
    BY <1>10, <1>13, <2>2 DEF HInv, UniqInv, Storing
  <2>4. OrderInv'
    BY <1>10, <1>11, <2>2 DEF HInv, OrderInv
  <2> QED BY <2>1, <2>3, <2>4, <1>1, <1>2, <1>3, <1>4, <1>7, <1>8, <1>9, <1>0
<1> QED BY <1>12, <1>13

\* What the writer remembers over the release of an item.
WriterKeeps(item) ==
    /\ writer' = writer \/ (~Storing /\ ~Storing' /\ writer'.chunk = NULL)
    /\ writer'.ji \in {writer.ji, NULL}
    /\ Adding' <=> Adding
    /\ writer'.pc = "removed" <=> writer.pc = "removed"
    /\ Adding \/ writer.pc = "removed" => writer'.ji = writer.ji
    /\ writer'.item = NULL \/ (writer'.item = writer.item /\ writer.item # item)
    /\ \A o \in Obj : writer'.ji = o /\ writer.item = <<"ji", o>> => writer'.item = writer.item
    /\ writer'.pc = "idle" => writer' = IdleWriter
    /\ writer'.pc = "free_all" => writer'.ji = NULL
    /\ writer'.pc # "idle" => writer.pc # "idle"
    /\ writer'.pc \in {"try", "own"} <=> writer'.item # NULL
    /\ writer'.pc \in {"try", "own"} => writer.pc \in {"try", "own"} /\ writer'.ji = writer.ji
    /\ writer'.pc = "try" => writer'.idx \in 0..2

LEMMA FreedStep ==
    ASSUME HInv, NEW item \in Item \cup {NULL}, Freed(item), item # NULL => Pending(item),
           UNCHANGED <<cur, reader, expected, allowed>>,
           delayed' \in Seq(Item), foreign' \in Item \cup {NULL}, writer' \in WriterRecord,
           Distinct(delayed'),
           \A i \in DOMAIN delayed' : delayed'[i] # foreign' /\ delayed'[i] # writer'.item,
           foreign' = writer'.item => foreign' = NULL,
           \A x \in Item : Pending(x)' <=> Pending(x) /\ x # item,
           WriterKeeps(item)
    PROVE  HInv'
<1>0. /\ Tables' = Tables \ {t \in Table : item = <<"table", t>>}
      /\ Chunks' \subseteq Chunks
      /\ \A o \in Obj : obj'[o] = obj[o] \/ obj'[o] = NULL
      /\ \A o \in Obj : obj'[o] # obj[o] => \A c \in Chunks' : ~InChunk(o, c)
      /\ \A o \in Obj : obj'[o] # obj[o] /\ obj[o] = "ji" =>
           item = <<"ji", o>> \/ o \in free_queue \ free_queue'
      /\ \A o \in Obj : obj'[o] = "tombstone" =>
           \A c \in Chunks : InChunk(o, c) => c \in Chunks'
      /\ \A o \in Obj : item = <<"ji", o>> => obj'[o] = NULL
      /\ free_queue' \subseteq free_queue
      /\ \A o \in free_queue \ free_queue' : obj'[o] = NULL
      /\ \A o \in free_queue' : obj'[o] = obj[o]
      /\ num_tables' <= num_tables /\ num_tables' \in Nat
  BY DEF Freed
<1>1. CountsExact' /\ FailInv'
  BY DEF Freed
<1>2. TypeOK'
  <2>1. /\ obj' \in [Obj -> {NULL, "ji", "tombstone"}]
        /\ chunk' \in [Chunk -> ChunkRecord \cup {NULL}]
        /\ table' \in [Table -> Seq(Chunk) \cup {NULL}]
        /\ num_tables' \in Nat /\ free_queue' \in SUBSET Obj /\ failure' \in Failure
    BY DEF Freed
  <2> QED BY <2>1 DEF HInv, TypeOK
<1>3. /\ \A t \in Table : <<"table", t>> \in Item
      /\ \A o \in Obj : <<"ji", o>> \in Item
  BY DEF Item
<1>4. cur # NULL => item # <<"table", cur>>
  <2>1. cur # NULL => cur \in Table
    BY DEF HInv, TypeOK
  <2>2. cur # NULL => ~Pending(<<"table", cur>>)
    BY <2>1 DEF HInv, PendInv
  <2> QED BY <2>1, <2>2, <1>3, NullFacts
<1>5. writer' = writer \/ (~Storing /\ ~Storing' /\ writer'.chunk = NULL)
  BY DEF WriterKeeps
<1>6. /\ StructInv' /\ ElemInv' /\ OrderInv' /\ UniqInv' /\ PlaceInv' /\ CountInv'
      /\ ShiftInv' /\ SealInv' /\ LiveInv'
      /\ Live' = Live /\ Tables' \subseteq Tables /\ Chunks' \subseteq Chunks
      /\ \A c \in Chunks' : \A o : InChunk(o, c)' <=> InChunk(o, c)
      /\ \A t \in Tables' : \A o : InTable(o, t)' <=> InTable(o, t)
      /\ cur # NULL => cur \in Tables'
  BY <1>4, <1>5, FreedView
<1>7. PICK ji : ji = writer.ji
  OBVIOUS
<1>8. \A o \in Obj : o = writer.ji /\ (Adding \/ writer.pc = "removed") =>
         item # <<"ji", o>> /\ o \notin free_queue
  <2> SUFFICES ASSUME NEW o \in Obj, o = writer.ji, Adding \/ writer.pc = "removed"
               PROVE  item # <<"ji", o>> /\ o \notin free_queue
    OBVIOUS
  <2>1. o \notin free_queue
    BY DEF HInv, QueueInv
  <2>2. writer.item # <<"ji", o>>
    <3>1. <<"ji", o>>[1] = "ji" /\ <<"ji", o>>[1] # "table" /\ <<"ji", o>> # NULL
      BY <1>3, NullFacts
    <3> QED BY <3>1 DEF HInv, WriterInv, Adding
  <2>3. ~Pending(<<"ji", o>>)
    BY <2>2 DEF HInv, PendInv
  <2> QED BY <2>1, <2>3, <1>3, NullFacts
<1>9. cur # NULL => \A o : InTable(o, cur)' <=> InTable(o, cur)
  <2>1. PICK t : t = cur
    OBVIOUS
  <2>2. cur # NULL => \A o : InTable(o, t)' <=> InTable(o, t)
    BY <2>1, <1>6
  <2> QED BY <2>1, <2>2
<1>10. WriterInv'
  <2>1. Adding' \/ writer'.pc = "removed" =>
          /\ writer'.ji = ji /\ ji \in Obj /\ obj[ji] = "ji" /\ obj'[ji] = "ji"
          /\ Adding \/ writer.pc = "removed"
    <3>1. Adding' \/ writer'.pc = "removed" =>
             writer'.ji = ji /\ ji \in Obj /\ obj[ji] = "ji" /\ (Adding \/ writer.pc = "removed")
      BY <1>7 DEF HInv, WriterInv, WriterKeeps
    <3> QED BY <3>1, <1>0, <1>7, <1>8
  <2>2. Adding' => \A o \in Live' : o = writer'.ji \/ Apart(o, writer'.ji)
    BY <2>1, <1>6, <1>7 DEF HInv, WriterInv, WriterKeeps
  <2>3. \A c \in Chunks' : InChunk(ji, c)' <=> InChunk(ji, c)
    BY <1>6
  <2>4. Adding' /\ writer'.pc \notin {"shift", "seal"} => \A c \in Chunks' : ~InChunk(writer.ji, c)'
    <3>1. Adding' /\ writer'.pc \notin {"shift", "seal"} => Adding /\ writer.pc \notin {"shift", "seal"}
      BY <1>5 DEF WriterKeeps, Storing
    <3>2. Adding' /\ writer'.pc \notin {"shift", "seal"} => \A c \in Chunks' : ~InChunk(ji, c)
      BY <3>1, <1>6, <1>7 DEF HInv, WriterInv
    <3> QED BY <3>2, <2>1, <2>3
  <2>5. Adding' => \A c \in Chunks' : InChunk(writer.ji, c)' => c = writer'.chunk
    <3>1. CASE writer'.pc \notin {"shift", "seal"}
      BY <3>1, <2>4
    <3>2. CASE writer'.pc \in {"shift", "seal"}
      <4>1. writer' = writer
        BY <3>2, <1>5 DEF Storing
      <4>2. Adding' => \A c \in Chunks' : InChunk(ji, c) => c = writer.chunk
        BY <4>1, <1>6, <1>7 DEF HInv, WriterInv, WriterKeeps
      <4> QED BY <4>1, <4>2, <2>1, <2>3
    <3> QED BY <3>1, <3>2
  <2>6. writer'.pc = "removed" => ~InTable(writer.ji, cur)'
    <3>1. writer'.pc = "removed" => ~InTable(ji, cur) /\ cur # NULL
      BY <1>7 DEF HInv, WriterInv, WriterKeeps
    <3>2. cur # NULL => (InTable(ji, cur)' <=> InTable(ji, cur))
      BY <1>9
    <3> QED BY <3>1, <3>2, <2>1
  <2>7. writer'.pc # "idle" => cur' # NULL
    BY DEF HInv, WriterInv, WriterKeeps
  <2>8. writer'.pc \in {"try", "own"} /\ writer'.item[1] = "ji" =>
          writer'.item[2] = writer'.ji /\ num_tables' <= 1
    <3>1. writer'.pc \in {"try", "own"} =>
             writer'.item = writer.item /\ writer.pc \in {"try", "own"} /\ writer'.ji = writer.ji
      BY DEF WriterKeeps
    <3>2. writer.pc \in {"try", "own"} /\ writer.item[1] = "ji" => writer.item[2] = writer.ji /\ num_tables <= 1
      BY DEF HInv, WriterInv
    <3>3. num_tables <= 1 => num_tables' <= 1
      BY <1>0 DEF HInv, TypeOK
    <3> QED BY <3>1, <3>2, <3>3
  <2>9. /\ writer'.pc = "idle" => writer' = IdleWriter
        /\ writer'.pc = "free_all" => writer'.ji = NULL
        /\ writer'.pc \in {"try", "own"} <=> writer'.item # NULL
        /\ writer'.pc = "try" => writer'.idx \in 0..2
    BY DEF WriterKeeps
  <2> HIDE DEF Freed, WriterKeeps
  <2> QED BY <2>1, <2>2, <2>4, <2>5, <2>6, <2>7, <2>8, <2>9 DEF WriterInv
<1>11. PendInv'
  <2>1. \A t \in Table : Pending(<<"table", t>>)' <=> t \in Tables' /\ t # cur'
    <3> TAKE t \in Table
    <3>1. Pending(<<"table", t>>) <=> t \in Tables /\ t # cur
      BY DEF HInv, PendInv
    <3>2. t \in Tables' <=> t \in Tables /\ item # <<"table", t>>
      BY <1>0
    <3>3. Pending(<<"table", t>>)' <=> Pending(<<"table", t>>) /\ <<"table", t>> # item
      BY <1>3
    <3> QED BY <3>1, <3>2, <3>3
  <2>2. ASSUME NEW o \in Obj, Pending(<<"ji", o>>)'
        PROVE  /\ obj'[o] = "ji" /\ o \notin free_queue'
               /\ \A c \in Chunks' : ~InChunk(o, c)'
               /\ o = writer'.ji => writer'.item = <<"ji", o>>
    <3>1. Pending(<<"ji", o>>) /\ <<"ji", o>> # item
      BY <2>2, <1>3
    <3>2. /\ obj[o] = "ji" /\ o \notin free_queue /\ \A c \in Chunks : ~InChunk(o, c)
          /\ o = writer.ji => writer.item = <<"ji", o>>
      BY <3>1 DEF HInv, PendInv
    <3>3. obj'[o] = "ji" /\ o \notin free_queue'
      BY <3>1, <3>2, <1>0
    <3>4. \A c \in Chunks' : ~InChunk(o, c)'
      BY <3>2, <1>6
    <3>5. o = writer'.ji => writer'.item = <<"ji", o>>
      BY <3>2, NullFacts DEF WriterKeeps
    <3> QED BY <3>3, <3>4, <3>5
  <2> QED BY <2>1, <2>2 DEF PendInv, Distinct
<1>12. QueueInv'
  <2>1. ASSUME NEW o \in free_queue'
        PROVE  /\ obj'[o] = "ji" /\ o # writer'.ji
               /\ cur' # NULL => ~InTable(o, cur)'
               /\ writer'.pc \in {"try", "own"} /\ writer'.item[1] = "table" =>
                    ~InTable(o, writer.item[2])'
    <3>1. /\ o \in free_queue /\ o \in Obj /\ obj[o] = "ji" /\ o # writer.ji /\ obj'[o] = "ji"
          /\ cur # NULL => ~InTable(o, cur)
      BY <2>1, <1>0 DEF HInv, QueueInv, TypeOK
    <3>2. o # writer'.ji
      BY <3>1, NullFacts DEF WriterKeeps
    <3>3. cur' # NULL => ~InTable(o, cur)'
      BY <3>1, <1>9
    <3>4. ASSUME writer'.pc \in {"try", "own"}, writer'.item[1] = "table"
          PROVE  ~InTable(o, writer.item[2])'
      <4>1. writer'.item = writer.item /\ writer.item # item /\ writer.pc \in {"try", "own"} /\ writer.item # NULL
        BY <3>4 DEF WriterKeeps
      <4>2. PICK t : t = writer.item[2]
        OBVIOUS
      <4>3. t \in Table /\ writer.item = <<"table", t>>
        BY <4>1, <4>2, <3>4 DEF HInv, TypeOK, WriterRecord, Item
      <4>4. t \in Tables'
        <5>1. Pending(<<"table", t>>)
          BY <4>3 DEF Pending
        <5>2. t \in Tables
          BY <5>1, <4>3 DEF HInv, PendInv
        <5> QED BY <5>2, <4>1, <4>3, <1>0
      <4>5. ~InTable(o, t)
        BY <4>1, <4>2, <3>1, <3>4 DEF HInv, QueueInv
      <4>6. ~InTable(o, t)'
        BY <4>4, <4>5, <1>6
      <4>7. t = writer'.item[2]
        BY <4>1, <4>2
      <4> QED BY <4>6, <4>7
    <3> QED BY <3>1, <3>2, <3>3, <3>4
  <2> QED BY <2>1 DEF QueueInv
<1>13. ObjInv'
  <2>1. ASSUME cur' # NULL, NEW o \in Obj, obj'[o] = "ji"
        PROVE  \/ o \in Live'
               \/ o = writer'.ji /\ (Adding' \/ writer'.pc = "removed")
               \/ Pending(<<"ji", o>>)'
               \/ o \in free_queue'
    <3>1. obj[o] = "ji" /\ item # <<"ji", o>> /\ (o \in free_queue => o \in free_queue')
      BY <2>1, <1>0, NullFacts
    <3>2. \/ o \in Live
          \/ o = writer.ji /\ (Adding \/ writer.pc = "removed")
          \/ Pending(<<"ji", o>>)
          \/ o \in free_queue
      BY <3>1, <2>1 DEF HInv, ObjInv
    <3>3. CASE o \in Live
      BY <3>3, <1>6
    <3>4. CASE o = writer.ji /\ (Adding \/ writer.pc = "removed")
      BY <3>4 DEF WriterKeeps
    <3>5. CASE Pending(<<"ji", o>>)
      BY <3>5, <3>1, <1>3
    <3>6. CASE o \in free_queue
      BY <3>6, <3>1
    <3> QED BY <3>2, <3>3, <3>4, <3>5, <3>6
  <2>2. ASSUME NEW o \in Obj, obj'[o] = "tombstone"
        PROVE  /\ \E c \in Chunks' : InChunk(o, c)'
               /\ \A c, d \in Chunks' : InChunk(o, c)' /\ InChunk(o, d)' => c = d
    <3>1. obj[o] = "tombstone"
      BY <2>2, <1>0, NullFacts
    <3>2. PICK c \in Chunks : InChunk(o, c)
      BY <3>1 DEF HInv, ObjInv
    <3>3. c \in Chunks'
      BY <3>2, <2>2, <1>0
    <3>4. \A b, d \in Chunks' : InChunk(o, b)' /\ InChunk(o, d)' => b = d
      BY <3>1, <1>6 DEF HInv, ObjInv
    <3> QED BY <3>2, <3>3, <3>4, <1>6
  <2> QED BY <2>1, <2>2 DEF ObjInv
<1> QED BY <1>1, <1>2, <1>6, <1>10, <1>11, <1>12, <1>13 DEF HInv

LEMMA ItemFree ==
    ASSUME HInv, Running, NEW item \in Item, Pending(item), Free(item)
    PROVE  Freed(item)
<1>1. CASE item \in {"table"} \X Table
  <2>1. PICK t \in Table : item = <<"table", t>>
    BY <1>1
  <2>2. t \in Tables /\ t # cur
    BY <2>1 DEF HInv, PendInv
  <2>3. cur # NULL
    BY <2>2 DEF HInv, StructInv
  <2>4. jit_info_table_free(t)
    <3>1. <<"table", t>>[1] = "table" /\ <<"table", t>>[2] = t
      OBVIOUS
    <3> QED BY <3>1, <2>1 DEF Free
  <2>5. Freed(<<"table", t>>)
    BY <2>2, <2>3, <2>4, TableFreeFacts
  <2> QED BY <2>1, <2>5
<1>2. CASE item \in {"ji"} \X Obj
  <2>1. PICK o \in Obj : item = <<"ji", o>>
    BY <1>2
  <2>2. Pending(<<"ji", o>>) /\ Free(<<"ji", o>>)
    BY <2>1
  <2>3. Freed(<<"ji", o>>)
    BY <2>2, JiFreeFacts
  <2> QED BY <2>1, <2>3
<1> QED BY <1>1, <1>2 DEF Item

\* try_free_delayed_free_item frees an item of the delayed ones, or nothing.
LEMMA TryFreeFacts ==
    ASSUME HInv, Running, NEW n \in Nat, TryFree(n)
    PROVE  \E item \in Item \cup {NULL} :
             /\ Freed(item)
             /\ item # NULL => Holds(delayed, item) /\ ~Hazardous(item)
             /\ delayed' \in Seq(Item) /\ Distinct(delayed')
             /\ \A x \in Item : Holds(delayed', x) <=> Holds(delayed, x) /\ x # item
<1>0. delayed \in Seq(Item) /\ Distinct(delayed)
  BY DEF HInv, TypeOK, PendInv, Distinct
<1>1. CASE ~Freeable(n)
  <2>1. UNCHANGED <<heap, delayed, failure>>
    BY <1>1 DEF TryFree
  <2>2. Freed(NULL)
    BY <2>1, KeepFacts
  <2>3. delayed' = delayed
    BY <2>1
  <2>4. \A x \in Item : Holds(delayed', x) <=> Holds(delayed, x) /\ x # NULL
    BY <2>3, NullFacts
  <2> QED BY <2>2, <2>3, <2>4, <1>0
<1>2. CASE Freeable(n)
  <2>1. PICK s, q : s = delayed /\ q = RemoveIndexFast(s, n)
    OBVIOUS
  <2>2. Free(s[n + 1]) /\ delayed' = q
    BY <1>2, <2>1 DEF TryFree
  <2>3. s \in Seq(Item) /\ n < Len(s) /\ Distinct(s)
    BY <1>0, <1>2, <2>1 DEF Freeable
  <2>4. /\ q \in Seq(Item) /\ Distinct(q)
        /\ \A x : Holds(q, x) <=> Holds(s, x) /\ x # s[n + 1]
        /\ n + 1 \in DOMAIN s /\ s[n + 1] \in Item
    BY <2>1, <2>3, RemoveFastFacts
  <2>5. PICK item : item = s[n + 1]
    OBVIOUS
  <2>6. item \in Item /\ Holds(s, item) /\ Free(item)
    BY <2>2, <2>4, <2>5 DEF Holds
  <2>7. Pending(item)
    BY <2>1, <2>6 DEF Pending, Holds
  <2>8. Freed(item)
    BY <2>6, <2>7, ItemFree
  <2>9. ~Hazardous(item)
    BY <1>2, <2>1, <2>5 DEF Freeable
  <2> QED BY <2>1, <2>2, <2>4, <2>5, <2>6, <2>8, <2>9
<1> QED BY <1>1, <1>2

\* The same for the whole of a step that tries a delayed item.
LEMMA TryFreeStep ==
    ASSUME HInv, Running, NEW n \in Nat, TryFree(n),
           UNCHANGED <<cur, foreign, reader, expected, allowed>>,
           writer' \in WriterRecord, writer'.item = writer.item,
           \A item : item # writer.item \/ writer.item = NULL => WriterKeeps(item)
    PROVE  HInv'
<1>1. PICK item \in Item \cup {NULL} :
         /\ Freed(item)
         /\ item # NULL => Holds(delayed, item)
         /\ delayed' \in Seq(Item) /\ Distinct(delayed')
         /\ \A x \in Item : Holds(delayed', x) <=> Holds(delayed, x) /\ x # item
  BY TryFreeFacts
<1>2. /\ \A i \in DOMAIN delayed : delayed[i] # foreign /\ delayed[i] # writer.item
      /\ foreign = writer.item => foreign = NULL
  BY DEF HInv, PendInv
<1>3. item # NULL => Pending(item) /\ item # foreign /\ item # writer.item
  BY <1>1, <1>2 DEF Pending, Holds
<1>4. \A i \in DOMAIN delayed' : delayed'[i] # foreign' /\ delayed'[i] # writer'.item
  <2> SUFFICES ASSUME NEW i \in DOMAIN delayed' PROVE delayed'[i] # foreign /\ delayed'[i] # writer.item
    OBVIOUS
  <2>1. delayed'[i] \in Item /\ Holds(delayed', delayed'[i])
    BY <1>1 DEF Holds
  <2>2. Holds(delayed, delayed'[i])
    BY <2>1, <1>1
  <2> QED BY <2>2, <1>2 DEF Holds
<1>5. foreign' = writer'.item => foreign' = NULL
  BY <1>2
<1>6. \A x \in Item : Pending(x)' <=> Pending(x) /\ x # item
  <2> TAKE x \in Item
  <2>1. Pending(x)' <=> Holds(delayed', x) \/ foreign = x \/ writer.item = x
    BY DEF Pending, Holds
  <2>2. Pending(x) <=> Holds(delayed, x) \/ foreign = x \/ writer.item = x
    BY DEF Pending, Holds
  <2>3. Holds(delayed', x) <=> Holds(delayed, x) /\ x # item
    BY <1>1
  <2>4. x = item => x # foreign /\ x # writer.item
    BY <1>3, NullFacts
  <2> QED BY <2>1, <2>2, <2>3, <2>4
<1>7. WriterKeeps(item)
  BY <1>3
<1>8. foreign' \in Item \cup {NULL}
  BY DEF HInv, TypeOK
<1> QED BY <1>1, <1>3, <1>4, <1>5, <1>6, <1>7, <1>8, FreedStep

LEMMA TryItemStep ==
    ASSUME HInv, TryItem
    PROVE  HInv'
<1>1. /\ writer.pc = "try" /\ Running /\ writer \in WriterRecord /\ writer.idx \in 0..2
      /\ writer.chunk = NULL /\ writer.item # NULL
      /\ TryFree(writer.idx)
      /\ writer' = IF writer.idx = 0 THEN [writer EXCEPT !.pc = "own"]
                   ELSE [writer EXCEPT !.idx = @ - 1]
      /\ UNCHANGED <<cur, foreign, reader, expected, allowed>>
  BY DEF TryItem, WriterAt, HInv, WriterInv, TypeOK, PlaceInv, Storing
<1>2. /\ writer' \in WriterRecord /\ writer'.item = writer.item /\ writer'.ji = writer.ji
      /\ writer'.chunk = NULL /\ writer'.pc \in {"try", "own"}
      /\ writer'.pc = "try" => writer'.idx \in 0..2
  <2>1. CASE writer.idx = 0
    BY <2>1, <1>1 DEF WriterRecord
  <2>2. CASE writer.idx # 0
    BY <2>2, <1>1 DEF WriterRecord
  <2> QED BY <2>1, <2>2
<1>3. ASSUME NEW item, item # writer.item \/ writer.item = NULL PROVE WriterKeeps(item)
  <2>1. ~Storing /\ ~Storing'
    BY <1>1, <1>2 DEF Storing
  <2>2. Adding' <=> Adding
    BY <1>1, <1>2 DEF Adding
  <2> QED BY <2>1, <2>2, <1>1, <1>2, <1>3 DEF WriterKeeps
<1>4. PICK n : n = writer.idx
  OBVIOUS
<1>5. n \in Nat /\ TryFree(n)
  BY <1>1, <1>4
<1> QED BY <1>1, <1>2, <1>3, <1>5, TryFreeStep

LEMMA FreeAllStep ==
    ASSUME HInv, mono_thread_hazardous_try_free_all
    PROVE  HInv'
<1>1. /\ writer.pc = "free_all" /\ Running /\ writer \in WriterRecord /\ writer.idx \in Nat
      /\ writer.chunk = NULL /\ writer.item = NULL /\ writer.ji = NULL
      /\ TryFree(writer.idx)
      /\ writer' = [writer EXCEPT !.idx = @ - 1]
      /\ UNCHANGED <<cur, foreign, reader, expected, allowed>>
  <2>1. /\ writer.pc = "free_all" /\ Running /\ writer \in WriterRecord /\ writer.idx >= 0
        /\ TryFree(writer.idx)
        /\ writer' = [writer EXCEPT !.idx = @ - 1]
        /\ UNCHANGED <<cur, foreign, reader, expected, allowed>>
    BY DEF mono_thread_hazardous_try_free_all, WriterAt, HInv, TypeOK
  <2>2. writer.chunk = NULL /\ writer.item = NULL /\ writer.ji = NULL
    BY <2>1 DEF HInv, WriterInv, PlaceInv, Storing
  <2>3. writer.idx \in Nat
    BY <2>1 DEF WriterRecord
  <2> QED BY <2>1, <2>2, <2>3
<1>2. /\ writer' \in WriterRecord /\ writer'.item = NULL /\ writer'.ji = NULL
      /\ writer'.chunk = NULL /\ writer'.pc = "free_all"
  <2>1. writer.idx - 1 \in Int
    BY <1>1
  <2> QED BY <2>1, <1>1 DEF WriterRecord
<1>3. ASSUME NEW item PROVE WriterKeeps(item)
  <2>1. ~Storing /\ ~Storing'
    BY <1>1, <1>2 DEF Storing
  <2>2. ~Adding' /\ ~Adding
    BY <1>1, <1>2 DEF Adding
  <2>3. \A o \in Obj : writer'.ji # o
    BY <1>2, NullFacts
  <2> QED BY <2>1, <2>2, <2>3, <1>1, <1>2 DEF WriterKeeps
<1>4. PICK n : n = writer.idx
  OBVIOUS
<1>5. n \in Nat /\ TryFree(n)
  BY <1>1, <1>4
<1> QED BY <1>1, <1>2, <1>3, <1>5, TryFreeStep

LEMMA ForeignFreeStep ==
    ASSUME HInv, ForeignFree
    PROVE  HInv'
<1>1. /\ Running /\ foreign \in Item /\ Free(foreign) /\ foreign' = NULL
      /\ UNCHANGED <<cur, delayed, writer, reader, expected, allowed>>
      /\ writer \in WriterRecord /\ delayed \in Seq(Item)
  BY DEF ForeignFree, HInv, TypeOK
<1>2. PICK item : item = foreign
  OBVIOUS
<1>3. item \in Item /\ Pending(item) /\ Free(item) /\ item # NULL
  BY <1>1, <1>2, NullFacts DEF Pending
<1>4. Freed(item)
  BY <1>1, <1>3, ItemFree
<1>5. /\ \A i \in DOMAIN delayed : delayed[i] # foreign /\ delayed[i] # writer.item
      /\ foreign = writer.item => foreign = NULL
      /\ Distinct(delayed)
  BY DEF HInv, PendInv, Distinct
<1>6. \A x \in Item : Pending(x)' <=> Pending(x) /\ x # item
  BY <1>1, <1>2, <1>3, <1>5, NullFacts DEF Pending
<1>7. WriterKeeps(item)
  <2>1. writer.item # item
    BY <1>2, <1>3, <1>5
  <2>2. /\ writer.pc = "idle" => writer = IdleWriter
        /\ writer.pc = "free_all" => writer.ji = NULL
        /\ writer.pc \in {"try", "own"} <=> writer.item # NULL
        /\ writer.pc = "try" => writer.idx \in 0..2
    BY DEF HInv, WriterInv
  <2>3. Adding' <=> Adding
    BY <1>1 DEF Adding
  <2> QED BY <2>1, <2>2, <2>3, <1>1 DEF WriterKeeps
<1>8. \A i \in DOMAIN delayed' : delayed'[i] # foreign' /\ delayed'[i] # writer'.item
  <2>1. \A i \in DOMAIN delayed : delayed[i] \in Item
    BY <1>1
  <2> QED BY <2>1, <1>1, <1>5, NullFacts
<1> QED BY <1>1, <1>3, <1>4, <1>5, <1>6, <1>7, <1>8, FreedStep

LEMMA AppendFacts ==
    ASSUME NEW s \in Seq(Item), NEW x \in Item, ~Holds(s, x), Distinct(s), NEW q, q = Append(s, x)
    PROVE  q \in Seq(Item) /\ Distinct(q) /\ \A y : Holds(q, y) <=> Holds(s, y) \/ y = x
<1>1. q \in Seq(Item) /\ Len(q) = Len(s) + 1 /\ DOMAIN q = 1..(Len(s) + 1) /\ DOMAIN s = 1..Len(s)
      /\ Len(s) \in Nat
  OBVIOUS
<1>2. \A k \in 1..(Len(s) + 1) : q[k] = IF k = Len(s) + 1 THEN x ELSE s[k]
  OBVIOUS
<1>3. \A k \in 1..(Len(s) + 1) : k = Len(s) + 1 \/ k \in 1..Len(s)
  BY <1>1
<1>4. \A k \in 1..Len(s) : k \in 1..(Len(s) + 1) /\ k # Len(s) + 1
  BY <1>1
<1>5. Len(s) + 1 \in 1..(Len(s) + 1)
  BY <1>1
<1>6. \A k \in 1..Len(s) : s[k] # x
  BY <1>1 DEF Holds
<1>7. Distinct(q)
  BY <1>1, <1>2, <1>3, <1>6 DEF Distinct
<1>8. \A y : Holds(q, y) <=> Holds(s, y) \/ y = x
  BY <1>1, <1>2, <1>3, <1>4, <1>5 DEF Holds
<1> QED BY <1>1, <1>7, <1>8

LEMMA OwnStep ==
    ASSUME HInv, Own
    PROVE  HInv'
<1>1. /\ Running /\ writer.pc = "own" /\ writer.item \in Item /\ writer.chunk = NULL
      /\ writer' = IF writer.item[1] = "table"
                   THEN [IdleWriter EXCEPT !.pc = "search", !.ji = writer.ji]
                   ELSE IdleWriter
      /\ UNCHANGED <<cur, foreign, reader, expected, allowed>>
      /\ delayed \in Seq(Item) /\ writer.ji \in Obj \cup {NULL} /\ foreign \in Item \cup {NULL}
  BY DEF Own, WriterAt, HInv, TypeOK, WriterInv, PlaceInv, Storing, WriterRecord
<1>2. PICK item : item = writer.item
  OBVIOUS
<1>3. /\ writer'.item = NULL /\ writer'.chunk = NULL /\ writer' \in WriterRecord
      /\ item[1] = "table" => writer'.pc = "search" /\ writer'.ji = writer.ji
      /\ item[1] # "table" => writer' = IdleWriter /\ writer'.pc = "idle" /\ writer'.ji = NULL
  <2>1. 0 \in 0..CHUNK_SIZE /\ 0 \in -1..CHUNK_SIZE /\ 0 \in Int
    BY SizeFacts
  <2> QED BY <2>1, <1>1, <1>2 DEF IdleWriter, WriterRecord
<1>4. ASSUME NEW x PROVE WriterKeeps(x)
  <2>1. ~Storing /\ ~Storing'
    BY <1>1, <1>3 DEF Storing
  <2>2. Adding <=> item[1] = "table"
    BY <1>1, <1>2 DEF Adding
  <2>3. Adding' <=> item[1] = "table"
    BY <1>3 DEF Adding
  <2>4. \A o \in Obj : writer'.ji = o /\ writer.item = <<"ji", o>> => writer'.item = writer.item
    <3>1. \A o \in Obj : item = <<"ji", o>> => item[1] # "table"
      OBVIOUS
    <3> QED BY <3>1, <1>2, <1>3, NullFacts
  <2> QED BY <2>1, <2>2, <2>3, <2>4, <1>1, <1>2, <1>3 DEF WriterKeeps
<1>5. /\ \A i \in DOMAIN delayed : delayed[i] # foreign /\ delayed[i] # item
      /\ foreign # item
      /\ Distinct(delayed)
  BY <1>1, <1>2, NullFacts DEF HInv, PendInv, Distinct
<1>6. item \in Item /\ Pending(item) /\ item # NULL /\ ~Holds(delayed, item)
  BY <1>1, <1>2, <1>5, NullFacts DEF Pending, Holds
<1>7. \A x \in Item : Pending(x) <=> Holds(delayed, x) \/ foreign = x \/ item = x
  BY <1>2 DEF Pending, Holds
<1>8. \A x \in Item : Pending(x)' <=> Holds(delayed', x) \/ foreign = x
  BY <1>1, <1>3, NullFacts DEF Pending, Holds
<1>9. \A x : Holds(delayed, x) => x \in Item /\ x # NULL /\ x # foreign
  BY <1>1, <1>5, NullFacts DEF Holds
<1>10. foreign' = writer'.item => foreign' = NULL
  BY <1>3
<1>11. CASE Hazardous(writer.item)
  <2>1. delayed' = Append(delayed, item) /\ UNCHANGED <<heap, failure>>
    BY <1>11, <1>2 DEF Own
  <2>2. Freed(NULL)
    BY <2>1, KeepFacts
  <2>3. PICK s, q : s = delayed /\ q = Append(s, item)
    OBVIOUS
  <2>4. q \in Seq(Item) /\ Distinct(q) /\ \A y : Holds(q, y) <=> Holds(s, y) \/ y = item
    BY <2>3, <1>1, <1>5, <1>6, AppendFacts
  <2>5. delayed' = q
    BY <2>1, <2>3
  <2>6. \A x \in Item : Pending(x)' <=> Pending(x) /\ x # NULL
    BY <2>3, <2>4, <2>5, <1>7, <1>8, NullFacts
  <2>7. \A i \in DOMAIN delayed' : delayed'[i] # foreign' /\ delayed'[i] # writer'.item
    <3>1. \A y : Holds(q, y) => y # foreign /\ y # NULL
      BY <2>3, <2>4, <1>5, <1>6, <1>9
    <3> QED BY <3>1, <2>5, <1>1, <1>3 DEF Holds
  <2> QED BY <2>2, <2>4, <2>5, <2>6, <2>7, <1>1, <1>3, <1>4, <1>10, FreedStep
<1>12. CASE ~Hazardous(writer.item)
  <2>1. Free(item) /\ delayed' = delayed
    BY <1>12, <1>2 DEF Own
  <2>2. Freed(item)
    BY <2>1, <1>1, <1>6, ItemFree
  <2>3. \A x \in Item : Pending(x)' <=> Pending(x) /\ x # item
    BY <2>1, <1>5, <1>6, <1>7, <1>8
  <2>4. \A i \in DOMAIN delayed' : delayed'[i] # foreign' /\ delayed'[i] # writer'.item
    BY <2>1, <1>1, <1>3, <1>9 DEF Holds
  <2> QED BY <2>1, <2>2, <2>3, <2>4, <1>1, <1>3, <1>4, <1>5, <1>6, <1>10, FreedStep
<1> QED BY <1>11, <1>12

\* The end of the domain.
LEMMA FreeCurrentStep ==
    ASSUME HInv, FreeCurrent
    PROVE  HInv'
<1>1. /\ Running /\ writer.pc = "free_all" /\ cur # NULL /\ writer' = IdleWriter
      /\ writer.item = NULL /\ writer.ji = NULL /\ writer.chunk = NULL
      /\ UNCHANGED <<delayed, foreign, reader, expected, allowed>>
      /\ delayed \in Seq(Item)
  BY DEF FreeCurrent, WriterAt, HInv, TypeOK, WriterInv, PlaceInv, Storing
<1>2. /\ writer'.pc = "idle" /\ writer'.item = NULL /\ writer'.ji = NULL /\ writer'.chunk = NULL
      /\ writer' \in WriterRecord
  <2>1. 0 \in 0..CHUNK_SIZE /\ 0 \in -1..CHUNK_SIZE /\ 0 \in Int
    BY SizeFacts
  <2> QED BY <2>1, <1>1 DEF IdleWriter, WriterRecord
<1>3. ~Storing /\ ~Storing' /\ ~Adding /\ ~Adding'
  BY <1>1, <1>2 DEF Storing, Adding
<1>4. \A x : Pending(x)' <=> Pending(x)
  BY <1>1, <1>2 DEF Pending
<1>5. WriterInv'
  BY <1>1, <1>2, <1>3 DEF WriterInv
<1>6. CASE num_tables # 1
  <2>1. failure' = "mono_domain_free" /\ UNCHANGED <<obj, chunk, table, num_tables, free_queue, cur>>
    BY <1>6 DEF FreeCurrent, heap
  <2>2. /\ StructInv' /\ ElemInv' /\ OrderInv' /\ UniqInv' /\ PlaceInv' /\ CountInv'
        /\ ShiftInv' /\ SealInv' /\ LiveInv'
        /\ Live' = Live /\ Tables' = Tables /\ Chunks' = Chunks
        /\ \A o, c : InChunk(o, c)' <=> InChunk(o, c)
        /\ \A o, t : InTable(o, t)' <=> InTable(o, t)
    BY <2>1, <1>2, <1>3, SameChunks
  <2>3. TypeOK'
    BY <2>1, <1>1, <1>2 DEF HInv, TypeOK, Failure
  <2>4. CountsExact' /\ FailInv'
    BY <2>1, SameCounts DEF HInv, FailInv
  <2>5. PendInv'
    BY <2>1, <2>2, <1>1, <1>2, <1>4 DEF HInv, PendInv
  <2>6. QueueInv'
    <3>1. \A y : InTable(y, cur)' <=> InTable(y, cur)
      BY <2>1 DEF InTable, InChunk, Num, Data
    <3> QED BY <3>1, <2>1, <1>1, <1>2 DEF HInv, QueueInv
  <2>7. ObjInv'
    BY <2>1, <2>2, <1>1, <1>3, <1>4 DEF HInv, ObjInv
  <2> QED BY <2>2, <2>3, <2>4, <2>5, <2>6, <2>7, <1>5 DEF HInv
<1>7. CASE num_tables = 1
  <2>1. PICK t : t = cur
    OBVIOUS
  <2>2. jit_info_table_free(t) /\ cur' = NULL
    BY <1>7, <2>1 DEF FreeCurrent
  <2>3. t \in Tables /\ t \in Table /\ Tables = {t}
    <3>1. num_tables <= 1
      BY <1>7
    <3>2. Tables = {cur}
      BY <3>1, <1>1, OneTable
    <3> QED BY <3>2, <2>1 DEF Tables
  <2>4. Freed(<<"table", t>>)
    BY <2>2, <2>3, <1>1, <1>7, TableFreeFacts
  <2>5. Tables' = {}
    <3>1. Tables' = Tables \ {u \in Table : <<"table", t>> = <<"table", u>>}
      BY <2>4 DEF Freed
    <3> QED BY <3>1, <2>3
  <2>6. /\ CountsExact' /\ FailInv' /\ free_queue' \subseteq free_queue
        /\ \A o \in free_queue' : obj'[o] = obj[o]
        /\ \A o \in Obj : obj'[o] = obj[o] \/ obj'[o] = NULL
    BY <2>4 DEF Freed
  <2>7. Chunks' = {}
    BY <2>5, <2>6 DEF CountsExact, Chunks
  <2>8. num_tables' = 0
    <3>1. num_tables' = num_tables - 1
      BY <2>2 DEF jit_info_table_free
    <3> QED BY <3>1, <1>7
  <2>9. TypeOK'
    <3>1. /\ obj' \in [Obj -> {NULL, "ji", "tombstone"}]
          /\ chunk' \in [Chunk -> ChunkRecord \cup {NULL}]
          /\ table' \in [Table -> Seq(Chunk) \cup {NULL}]
          /\ num_tables' \in Nat /\ free_queue' \in SUBSET Obj /\ failure' \in Failure
      BY <2>4 DEF Freed
    <3> QED BY <3>1, <2>2, <1>1, <1>2 DEF HInv, TypeOK
  <2>10. StructInv' /\ ElemInv' /\ OrderInv' /\ UniqInv'
    BY <2>2, <2>5, <2>7 DEF StructInv, ElemInv, OrderInv, UniqInv
  <2>11. PlaceInv' /\ CountInv' /\ ShiftInv' /\ SealInv'
    BY <1>2, <1>3 DEF PlaceInv, CountInv, ShiftInv, SealInv, Storing
  <2>12. Live' = {}
    BY <2>2, LiveFactsP DEF LiveIs
  <2>13. LiveInv'
    BY <2>2, <2>12 DEF LiveInv
  <2>14. free_queue' = {}
    BY <2>6, <2>8 DEF CountsExact
  <2>15. QueueInv'
    BY <2>14 DEF QueueInv
  <2>16. \A o \in Obj : obj[o] = "tombstone" => obj'[o] # "tombstone"
    <3> SUFFICES ASSUME NEW o \in Obj, obj[o] = "tombstone", obj'[o] = "tombstone" PROVE FALSE
      OBVIOUS
    <3>1. PICK c \in Chunks : InChunk(o, c)
      BY DEF HInv, ObjInv
    <3>2. c \in Chunks'
      BY <3>1, <2>4 DEF Freed
    <3> QED BY <3>2, <2>7
  <2>17. ObjInv'
    <3>1. \A o \in Obj : obj'[o] # "tombstone"
      <4>1. \A o \in Obj : obj'[o] = obj[o] \/ obj'[o] = NULL
        BY <2>4 DEF Freed
      <4>2. NULL # "tombstone"
        BY NullFacts
      <4> QED BY <4>1, <4>2, <2>16
    <3> QED BY <3>1, <2>2 DEF ObjInv
  <2>18. PendInv'
    <3>1. \A u \in Table : ~Pending(<<"table", u>>)
      BY <2>1, <2>3 DEF HInv, PendInv
    <3>2. ASSUME NEW o \in Obj, Pending(<<"ji", o>>)
          PROVE  obj'[o] = "ji" /\ o # NULL
      <4>1. obj[o] = "ji" /\ o \notin free_queue
        BY <3>2 DEF HInv, PendInv
      <4>2. obj'[o] # obj[o] /\ obj[o] = "ji" => <<"table", t>> = <<"ji", o>> \/ o \in free_queue
        BY <2>4 DEF Freed
      <4> QED BY <4>1, <4>2, NullFacts
    <3> QED BY <3>1, <3>2, <2>5, <2>7, <2>14, <1>1, <1>2, <1>4 DEF HInv, PendInv
  <2> QED BY <2>6, <2>9, <2>10, <2>11, <2>13, <2>15, <2>17, <2>18, <1>5 DEF HInv
<1> QED BY <1>6, <1>7

-----------------------------------------------------------------------------
(***************************************************************************)
(* Removing.                                                               *)
(***************************************************************************)
PlacesIs(p) == p \in Places(cur) <=>
    \E i \in DOMAIN table[cur], j \in Index : p = <<i, j>> /\ j < Num(CurChunk(i))
LEMMA PlaceFacts ==
    /\ \A p : PlacesIs(p)
    /\ \A i, j : At(cur, <<i, j>>) = Data(CurChunk(i), j)
<1>1. ASSUME NEW p PROVE PlacesIs(p)
  <2>1. ASSUME p \in Places(cur)
        PROVE  \E i \in DOMAIN table[cur], j \in Index : p = <<i, j>> /\ j < Num(CurChunk(i))
    <3>1. p \in (DOMAIN table[cur]) \X Index /\ p[2] < chunk[table[cur][p[1]]].num_elements
      BY <2>1 DEF Places
    <3>2. p[1] \in DOMAIN table[cur] /\ p[2] \in Index /\ p = <<p[1], p[2]>>
      BY <3>1
    <3> QED BY <3>1, <3>2 DEF Num, CurChunk
  <2>2. ASSUME NEW i \in DOMAIN table[cur], NEW j \in Index, p = <<i, j>>, j < Num(CurChunk(i))
        PROVE  p \in Places(cur)
    <3>1. p[1] = i /\ p[2] = j /\ p \in (DOMAIN table[cur]) \X Index
      BY <2>2
    <3> QED BY <3>1, <2>2 DEF Places, Num, CurChunk
  <2> QED BY <2>1, <2>2 DEF PlacesIs
<1>2. ASSUME NEW i, NEW j PROVE At(cur, <<i, j>>) = Data(CurChunk(i), j)
  BY DEF At, Data, CurChunk
<1> QED BY <1>1, <1>2

\* The elements of the table that a walk meets before o.
LEMMA WalkFacts ==
    ASSUME HInv, cur # NULL, writer.chunk = NULL, writer.pc = "idle", NEW o \in Live,
           NEW i \in DOMAIN table[cur], NEW j \in Index, j < Num(CurChunk(i)), Data(CurChunk(i), j) = o,
           NEW a \in DOMAIN table[cur], NEW b,
           a = jit_info_table_index(Start(o)) + 1,
           b = jit_info_table_chunk_index(CurChunk(a), Start(o))
    PROVE  /\ a <= i /\ (a = i => b <= j)
           /\ \A k \in DOMAIN table[cur], l \in Index :
                /\ l < Num(CurChunk(k)) /\ a <= k /\ (a = k => b <= l)
                /\ k < i \/ (k = i /\ l < j)
                => IsTombstone(Data(CurChunk(k), l)) /\ End(Data(CurChunk(k), l)) <= End(o)
<1>0. TypeOK /\ StructInv /\ ElemInv /\ OrderInv
  BY DEF HInv
<1>1. o \in Obj /\ Start(o) \in Nat /\ End(o) \in Nat /\ Start(o) < End(o)
  BY CurFacts, ObjFacts
<1>2. /\ \A k \in DOMAIN table[cur] : k < a => Last(CurChunk(k)) <= Start(o)
      /\ a < Len(table[cur]) => Start(o) < Last(CurChunk(a))
  BY <1>0, <1>1, IndexFacts
<1>3. CurChunk(a) \in Chunks
  BY CurFacts
<1>4. /\ b \in 0..Num(CurChunk(a))
      /\ \A l \in Index : l < b => End(Data(CurChunk(a), l)) <= Start(o)
      /\ \A l \in Index : b <= l /\ l < Num(CurChunk(a)) => Start(o) < End(Data(CurChunk(a), l))
  BY <1>0, <1>1, <1>3, ChunkIndexFacts
<1>5. /\ Len(table[cur]) \in Nat /\ DOMAIN table[cur] = 1..Len(table[cur])
      /\ \A k \in DOMAIN table[cur] :
           /\ CurChunk(k) # NULL /\ Num(CurChunk(k)) \in 0..CHUNK_SIZE /\ Last(CurChunk(k)) \in Nat
           /\ \A l \in Index : l < Num(CurChunk(k)) =>
                Data(CurChunk(k), l) \in Obj /\ End(Data(CurChunk(k), l)) \in Nat
  BY CurFacts
<1>6. \A k \in DOMAIN table[cur], l \in Index : l < Num(CurChunk(k)) =>
         End(Data(CurChunk(k), l)) <= Last(CurChunk(k))
  BY <1>0, <1>5 DEF OrderInv
<1>7. a <= i
  <2> SUFFICES ASSUME i < a PROVE FALSE
    BY <1>5
  <2>1. Last(CurChunk(i)) <= Start(o) /\ End(o) <= Last(CurChunk(i))
    BY <1>2, <1>6
  <2> QED BY <2>1, <1>1, <1>5
<1>8. a = i => b <= j
  <2> SUFFICES ASSUME a = i, j < b PROVE FALSE
    BY <1>4, <1>5, SizeFacts
  <2>1. End(o) <= Start(o)
    BY <1>4
  <2> QED BY <2>1, <1>1
<1>9. ASSUME NEW k \in DOMAIN table[cur], NEW l \in Index,
             l < Num(CurChunk(k)), a <= k, a = k => b <= l,
             k < i \/ (k = i /\ l < j)
      PROVE  IsTombstone(Data(CurChunk(k), l)) /\ End(Data(CurChunk(k), l)) <= End(o)
  <2>1. PICK x : x = Data(CurChunk(k), l)
    OBVIOUS
  <2>2. x \in Obj /\ Start(x) \in Nat /\ End(x) \in Nat /\ Start(x) < End(x)
    BY <2>1, <1>5, <1>9, ObjFacts
  <2>3. End(x) <= End(o)
    <3>1. CASE k < i
      <4>1. End(x) <= Last(CurChunk(k))
        BY <2>1, <1>6, <1>9
      <4>2. Last(CurChunk(k)) <= End(o)
        BY <3>1, <1>0 DEF OrderInv
      <4> QED BY <4>1, <4>2, <2>2, <1>1, <1>5
    <3>2. CASE k = i /\ l < j
      <4>1. CurChunk(i) \in Chunks /\ l <= j
        BY <3>2, CurFacts, SizeFacts
      <4> QED BY <4>1, <3>2, <2>1, <1>0 DEF OrderInv
    <3> QED BY <3>1, <3>2, <1>9
  <2>4. Start(o) < End(x)
    <3>1. CASE a = k
      BY <3>1, <2>1, <1>4, <1>9
    <3>2. CASE a < k
      <4>1. Start(o) < Last(CurChunk(a))
        BY <3>2, <1>2, <1>5
      <4>2. Last(CurChunk(a)) <= End(x)
        BY <3>2, <2>1, <1>0, <1>9 DEF OrderInv
      <4> QED BY <4>1, <4>2, <2>2, <1>1, <1>5
    <3> QED BY <3>1, <3>2, <1>5, <1>9
  <2>5. x # o
    <3> SUFFICES ASSUME x = o PROVE FALSE
      OBVIOUS
    <3>1. k = i /\ l = j
      BY <2>1, <1>9 DEF HInv, UniqInv
    <3> QED BY <3>1, <1>9, <1>5, SizeFacts
  <2>6. InTable(x, cur)
    BY <2>1, <1>9 DEF InTable, InChunk, CurChunk
  <2>7. x \in Live => FALSE
    <3> SUFFICES ASSUME x \in Live PROVE FALSE
      OBVIOUS
    <3>1. Apart(x, o)
      BY <2>5 DEF HInv, LiveInv
    <3>2. End(x) <= Start(o) \/ End(o) <= Start(x)
      BY <3>1, ApartObj
    <3> QED BY <3>2, <2>2, <2>3, <2>4, <1>1
  <2>8. obj[x] = "tombstone"
    BY <2>6, <2>7, LiveFacts DEF LiveIs
  <2> QED BY <2>1, <2>3, <2>8 DEF IsTombstone
<1> QED BY <1>7, <1>8, <1>9

\* The assertion of mono_jit_info_table_remove: the walk gets to o.
LEMMA ReachedFacts ==
    ASSUME HInv, writer.pc = "idle", NEW o \in Live
    PROVE  Reached(o) # {}
<1>1. cur # NULL /\ writer.chunk = NULL /\ InTable(o, cur)
  BY LiveFacts DEF LiveIs, HInv, PlaceInv, Storing
<1>2. PICK i \in DOMAIN table[cur], j \in Index : j < Num(CurChunk(i)) /\ Data(CurChunk(i), j) = o
  BY <1>1 DEF InTable, InChunk, CurChunk
<1>3. PICK a, b : /\ a = jit_info_table_index(Start(o)) + 1
                  /\ b = jit_info_table_chunk_index(CurChunk(a), Start(o))
  OBVIOUS
<1>4. a \in DOMAIN table[cur]
  <2>1. o \in Obj /\ Start(o) \in Nat
    BY <1>1, <1>2, CurFacts, ObjFacts
  <2>2. TypeOK /\ StructInv /\ OrderInv
    BY DEF HInv
  <2> QED BY <2>1, <2>2, <1>1, <1>3, IndexFacts
<1>5. /\ a <= i /\ (a = i => b <= j)
      /\ \A k \in DOMAIN table[cur], l \in Index :
           /\ l < Num(CurChunk(k)) /\ a <= k /\ (a = k => b <= l)
           /\ k < i \/ (k = i /\ l < j)
           => IsTombstone(Data(CurChunk(k), l)) /\ End(Data(CurChunk(k), l)) <= End(o)
  BY <1>1, <1>2, <1>3, <1>4, WalkFacts
<1>6. WalkStart(Start(o)) = <<a, b>>
  BY <1>3 DEF WalkStart, CurChunk
<1>7. DOMAIN table[cur] = 1..Len(table[cur]) /\ b \in Nat /\ Len(table[cur]) \in Nat
  <2>1. o \in Obj /\ Start(o) \in Nat /\ CurChunk(a) \in Chunks /\ Num(CurChunk(a)) \in 0..CHUNK_SIZE
    BY <1>1, <1>2, <1>4, CurFacts, ObjFacts
  <2>2. TypeOK /\ ElemInv /\ OrderInv
    BY DEF HInv
  <2>3. b \in 0..Num(CurChunk(a))
    BY <2>1, <2>2, <1>3, ChunkIndexFacts
  <2> QED BY <2>1, <2>3, <1>1, CurFacts, SizeFacts
<1>8. /\ <<i, j>> \in Places(cur) /\ At(cur, <<i, j>>) = o
  BY <1>2, PlaceFacts DEF PlacesIs
<1>9. \A k \in Nat, l \in Nat : Before(<<k, l>>, <<a, b>>) <=> k < a \/ (k = a /\ l < b)
  BY DEF Before
<1>10. \A k \in Nat, l \in Nat : Before(<<k, l>>, <<i, j>>) <=> k < i \/ (k = i /\ l < j)
  BY DEF Before
<1>11. \A k \in DOMAIN table[cur], l \in Index : k \in Nat /\ l \in Nat
  BY <1>7, SizeFacts
<1>12. ~Before(<<i, j>>, <<a, b>>)
  <2>1. i \in Nat /\ j \in Nat /\ a \in Nat /\ b \in Nat
    BY <1>4, <1>7, <1>11
  <2>2. ~(i < a \/ (i = a /\ j < b))
    <3>1. a <= i /\ (a = i => b <= j)
      BY <1>5
    <3> QED BY <3>1, <2>1
  <2> QED BY <2>1, <2>2, <1>9
<1>13. ASSUME NEW q \in Places(cur), Before(q, <<i, j>>), ~Before(q, <<a, b>>)
       PROVE  IsTombstone(At(cur, q)) /\ End(At(cur, q)) <= End(o)
  <2>1. PICK k \in DOMAIN table[cur], l \in Index : q = <<k, l>> /\ l < Num(CurChunk(k))
    BY PlaceFacts DEF PlacesIs
  <2>2. k \in Nat /\ l \in Nat /\ a \in Nat
    BY <1>4, <1>11
  <2>3. k < i \/ (k = i /\ l < j)
    BY <2>1, <2>2, <1>10, <1>13
  <2>4. a <= k /\ (a = k => b <= l)
    BY <2>1, <2>2, <1>7, <1>9, <1>13
  <2>5. At(cur, q) = Data(CurChunk(k), l)
    BY <2>1, PlaceFacts
  <2> QED BY <2>1, <2>3, <2>4, <2>5, <1>5
<1> QED BY <1>6, <1>8, <1>12, <1>13 DEF Reached

LEMMA RemoveStep ==
    ASSUME HInv, NEW o \in Obj, RemoveStart(o)
    PROVE  HInv'
<1>1. /\ Running /\ writer.pc = "idle" /\ writer = IdleWriter /\ o \in Live /\ cur # NULL
      /\ <<Start(o), End(o)>> \in Dynamic
      /\ writer \in WriterRecord
      /\ UNCHANGED <<table, num_tables, free_queue, cur, delayed, foreign, reader, allowed>>
  <2>1. o \in Live /\ writer.pc = "idle"
    BY DEF RemoveStart, WriterAt
  <2>2. cur # NULL
    BY <2>1, LiveFacts DEF LiveIs
  <2> QED BY <2>1, <2>2 DEF RemoveStart, WriterAt, HInv, WriterInv, TypeOK
<1>2. writer.chunk = NULL /\ writer.item = NULL /\ writer.ji = NULL
  BY <1>1 DEF IdleWriter
<1>3. Reached(o) # {}
  BY <1>1, ReachedFacts
<1>4. PICK p, y : /\ p \in Reached(o) /\ y \in FreeCopies(o)
                  /\ obj' = [obj EXCEPT ![y] = "tombstone"]
                  /\ chunk' = [chunk EXCEPT ![table[cur][p[1]]].data[p[2]] = y]
                  /\ writer' = [writer EXCEPT !.pc = "removed", !.ji = o]
                  /\ expected' = [r \in Reader |-> IF expected[r] = o THEN NULL ELSE expected[r]]
                  /\ failure' = failure
  <2>1. FreeCopies(o) # {}
    BY DEF RemoveStart
  <2>2. (CHOOSE q \in Reached(o) : TRUE) \in Reached(o) /\ (CHOOSE z \in FreeCopies(o) : TRUE) \in FreeCopies(o)
    BY <2>1, <1>3
  <2> QED BY <2>2, <1>3 DEF RemoveStart
<1>5. y \in Obj /\ obj[y] = NULL /\ Start(y) = Start(o) /\ End(y) = End(o)
  BY <1>4 DEF FreeCopies, Start, End
<1>6. PICK i \in DOMAIN table[cur], j \in Index :
         p = <<i, j>> /\ j < Num(CurChunk(i)) /\ Data(CurChunk(i), j) = o
  <2>1. p \in Places(cur) /\ At(cur, p) = o
    BY <1>4 DEF Reached
  <2> QED BY <2>1, PlaceFacts DEF PlacesIs
<1>7. PICK c : c = CurChunk(i)
  OBVIOUS
<1>8. c \in Chunks /\ c \in Chunk /\ Num(c) \in 0..CHUNK_SIZE
  BY <1>1, <1>6, <1>7, CurFacts
<1>9. chunk' = [chunk EXCEPT ![c].data[j] = y]
  BY <1>4, <1>6, <1>7 DEF CurChunk
<1>10. /\ chunk' \in [Chunk -> ChunkRecord \cup {NULL}] /\ chunk'[c] # NULL
       /\ Ref(c)' = Ref(c) /\ Num(c)' = Num(c) /\ Last(c)' = Last(c)
       /\ \A l \in Index : Data(c, l)' = IF l = j THEN y ELSE Data(c, l)
       /\ \A d \in Chunk \ {c} : chunk'[d] = chunk[d]
  <2>1. TypeOK
    BY DEF HInv
  <2> QED BY <2>1, <1>5, <1>6, <1>8, <1>9, DataStore
<1>11. Chunks' = Chunks /\ Tables' = Tables
  <2>1. Chunks' = Chunks
    BY <1>8, <1>10 DEF Chunks
  <2> QED BY <2>1, <1>1 DEF Tables
<1>12. /\ \A d \in Chunks : Num(d)' = Num(d) /\ Last(d)' = Last(d) /\ Ref(d)' = Ref(d)
       /\ \A d \in Chunks, l \in Index : Data(d, l)' = IF d = c /\ l = j THEN y ELSE Data(d, l)
  <2>1. \A d \in Chunks \ {c} : chunk'[d] = chunk[d]
    BY <1>10 DEF Chunks
  <2>2. \A d \in Chunks \ {c} : Num(d)' = Num(d) /\ Last(d)' = Last(d) /\ Ref(d)' = Ref(d)
                                 /\ \A l : Data(d, l)' = Data(d, l)
    BY <2>1 DEF Num, Last, Ref, Data
  <2> QED BY <2>2, <1>10
<1>13. /\ obj' \in [Obj -> {NULL, "ji", "tombstone"}] /\ obj'[y] = "tombstone"
       /\ \A x \in Obj \ {y} : obj'[x] = obj[x]
  BY <1>4, <1>5 DEF HInv, TypeOK
<1>14. Objs \subseteq Objs' /\ y \in Objs' /\ y \notin Objs
  BY <1>5, <1>13, NullFacts DEF Objs
<1>15. \A d \in Chunks, l \in Index : l < Num(d) => Data(d, l) \in Objs /\ Data(d, l) # y
  BY <1>14 DEF HInv, ElemInv
<1>16. y # o /\ obj[o] = "ji" /\ obj'[o] = "ji" /\ InChunk(o, c)
  <2>1. InChunk(o, c) /\ o \in Objs
    BY <1>6, <1>7, <1>8, <1>15 DEF InChunk
  <2>2. obj[o] # "tombstone"
    BY <1>1, LiveFacts DEF LiveIs
  <2>3. obj[o] = "ji"
    BY <2>1, <2>2 DEF HInv, TypeOK, Objs
  <2> QED BY <2>1, <2>3, <1>13, <1>14
<1>17. ~Storing /\ ~Storing' /\ writer'.pc = "removed" /\ writer'.ji = o /\ writer'.chunk = NULL
       /\ writer'.item = NULL /\ ~Adding /\ ~Adding' /\ writer' \in WriterRecord
  <2>1. writer'.pc = "removed" /\ writer'.ji = o /\ writer'.chunk = NULL /\ writer'.item = NULL
        /\ writer' \in WriterRecord
    BY <1>1, <1>2, <1>4 DEF WriterRecord
  <2> QED BY <2>1, <1>1 DEF Storing, Adding
<1>18. TypeOK'
  <2>1. expected' \in [Reader -> Obj \cup {NULL}]
    BY <1>4 DEF HInv, TypeOK
  <2> QED BY <2>1, <1>1, <1>4, <1>10, <1>13, <1>17 DEF HInv, TypeOK
<1>19. CountsExact'
  <2>1. \A t : ChunksOf(t)' = ChunksOf(t)
    BY <1>1 DEF ChunksOf
  <2>2. \A d \in Chunk : {t \in Tables : d \in ChunksOf(t)}' = {t \in Tables : d \in ChunksOf(t)}
    BY <2>1, <1>11
  <2>3. \A d \in Chunk : (chunk'[d] = NULL <=> chunk[d] = NULL)
                          /\ (chunk[d] # NULL => chunk'[d].refcount = chunk[d].refcount)
    BY <1>11, <1>12 DEF Chunks, Ref
  <2> QED BY <2>2, <2>3, <1>1, <1>11 DEF HInv, CountsExact
<1>20. StructInv' /\ ElemInv'
  <2>1. StructInv'
    BY <1>1, <1>11 DEF HInv, StructInv
  <2>2. ElemInv'
    BY <1>11, <1>12, <1>14, <1>15 DEF ElemInv
  <2> QED BY <2>1, <2>2
<1>21. \A d \in Chunks, l \in Index : l < Num(d) => End(Data(d, l)') = End(Data(d, l))
  BY <1>5, <1>6, <1>7, <1>12
<1>22. /\ DOMAIN table'[cur'] = DOMAIN table[cur] /\ Len(table'[cur']) = Len(table[cur])
       /\ \A k : CurChunk(k)' = CurChunk(k)
       /\ \A k \in DOMAIN table[cur] :
            /\ CurChunk(k) \in Chunks /\ CurChunk(k) # NULL
            /\ Num(CurChunk(k))' = Num(CurChunk(k)) /\ Last(CurChunk(k))' = Last(CurChunk(k))
            /\ \A l \in Index : /\ Data(CurChunk(k), l)' = IF k = i /\ l = j THEN y ELSE Data(CurChunk(k), l)
                                /\ l < Num(CurChunk(k)) =>
                                     End(Data(CurChunk(k), l)') = End(Data(CurChunk(k), l))
  <2>1. \A k : CurChunk(k)' = CurChunk(k)
    BY <1>1 DEF CurChunk
  <2>2. ASSUME NEW k \in DOMAIN table[cur]
        PROVE  /\ CurChunk(k) \in Chunks /\ CurChunk(k) # NULL
               /\ Num(CurChunk(k))' = Num(CurChunk(k)) /\ Last(CurChunk(k))' = Last(CurChunk(k))
               /\ \A l \in Index : /\ Data(CurChunk(k), l)' = IF k = i /\ l = j THEN y ELSE Data(CurChunk(k), l)
                                   /\ l < Num(CurChunk(k)) =>
                                        End(Data(CurChunk(k), l)') = End(Data(CurChunk(k), l))
    <3>1. PICK d : d = CurChunk(k)
      OBVIOUS
    <3>2. d \in Chunks /\ d # NULL /\ CurChunk(k)' = d /\ (d = c <=> k = i)
      BY <3>1, <2>1, <1>1, <1>6, <1>7, CurFacts
    <3>3. Num(d)' = Num(d) /\ Last(d)' = Last(d)
      BY <3>2, <1>12
    <3>4. \A l \in Index : Data(d, l)' = IF k = i /\ l = j THEN y ELSE Data(d, l)
      BY <3>2, <1>12
    <3>5. \A l \in Index : l < Num(d) => End(Data(d, l)') = End(Data(d, l))
      BY <3>2, <1>21
    <3> QED BY <3>1, <3>2, <3>3, <3>4, <3>5
  <2> QED BY <2>1, <2>2, <1>1
<1>23. OrderInv'
  <2>1. \A d \in Chunks' : \A k, l \in Index :
           k <= l /\ l < Num(d)' => End(Data(d, k)') <= End(Data(d, l)')
    <3> SUFFICES ASSUME NEW d \in Chunks', NEW k \in Index, NEW l \in Index, k <= l, l < Num(d)'
                 PROVE  End(Data(d, k)') <= End(Data(d, l)')
      OBVIOUS
    <3>1. d \in Chunks /\ Num(d) \in 0..CHUNK_SIZE
      BY <1>11, ChunkFacts DEF HInv, ChunkType
    <3>2. l < Num(d) /\ k < Num(d)
      BY <3>1, <1>12, SizeFacts
    <3> QED BY <3>1, <3>2, <1>21 DEF HInv, OrderInv
  <2>2. \A k \in DOMAIN table[cur] : \A l \in Index : l < Num(CurChunk(k)) =>
           End(Data(CurChunk(k), l)) <= Last(CurChunk(k))
    BY <1>1, <1>2, <1>22 DEF HInv, OrderInv
  <2>3. \A k, m \in DOMAIN table[cur] : k < m =>
              /\ Last(CurChunk(k)) <= Last(CurChunk(m))
              /\ \A l \in Index : l < Num(CurChunk(m)) => Last(CurChunk(k)) <= End(Data(CurChunk(m), l))
    BY <1>1 DEF HInv, OrderInv
  <2> QED BY <2>1, <2>2, <2>3, <1>22 DEF OrderInv
<1>24. \A k, m \in DOMAIN table[cur] : \A l, n \in Index :
          /\ l < Num(CurChunk(k)) /\ n < Num(CurChunk(m))
          /\ Data(CurChunk(k), l) = Data(CurChunk(m), n)
          => k = m /\ l = n
  BY <1>1 DEF HInv, UniqInv
<1>25. UniqInv'
  <2>1. \A k \in DOMAIN table[cur], l \in Index : l < Num(CurChunk(k)) => Data(CurChunk(k), l) # y
    BY <1>15, <1>22
  <2>2. ASSUME NEW k \in DOMAIN table[cur], NEW m \in DOMAIN table[cur], NEW l \in Index, NEW n \in Index,
               l < Num(CurChunk(k)), n < Num(CurChunk(m)),
               Data(CurChunk(k), l)' = Data(CurChunk(m), n)'
        PROVE  k = m /\ l = n
    BY <2>1, <2>2, <1>22, <1>24
  <2> QED BY <2>2, <1>22 DEF UniqInv
<1>26. PlaceInv' /\ CountInv' /\ ShiftInv' /\ SealInv'
  BY <1>17 DEF PlaceInv, CountInv, ShiftInv, SealInv, Storing
<1>27. \A d \in Chunks : \A x : InChunk(x, d)' => InChunk(x, d) \/ (x = y /\ d = c)
  BY <1>12 DEF InChunk
<1>28. \A d \in Chunks : \A x : x # o /\ InChunk(x, d) => InChunk(x, d)'
  <2> SUFFICES ASSUME NEW d \in Chunks, NEW x, x # o, InChunk(x, d) PROVE InChunk(x, d)'
    OBVIOUS
  <2>1. PICK l \in Index : l < Num(d) /\ Data(d, l) = x
    BY DEF InChunk
  <2>2. ~(d = c /\ l = j)
    BY <2>1, <1>6, <1>7
  <2>3. l < Num(d)' /\ Data(d, l)' = x
    BY <2>1, <2>2, <1>12
  <2> QED BY <2>3 DEF InChunk
<1>29. InChunk(y, c)' /\ \A d \in Chunks : ~InChunk(y, d)
  <2>1. j < Num(c)' /\ Data(c, j)' = y
    BY <1>6, <1>7, <1>8, <1>12
  <2> QED BY <2>1, <1>6, <1>15 DEF InChunk
<1>30. ~InTable(o, cur)'
  <2> SUFFICES ASSUME InTable(o, cur)' PROVE FALSE
    OBVIOUS
  <2>1. PICK k \in DOMAIN table[cur], l \in Index : l < Num(CurChunk(k))' /\ Data(CurChunk(k), l)' = o
    BY <1>22 DEF InTable, InChunk, CurChunk
  <2>2. l < Num(CurChunk(k)) /\ ~(k = i /\ l = j) /\ Data(CurChunk(k), l) = o
    BY <2>1, <1>16, <1>22
  <2> QED BY <2>2, <1>6, <1>24
<1>31. \A x : x # o /\ x # y => (InTable(x, cur)' <=> InTable(x, cur))
  <2> SUFFICES ASSUME NEW x, x # o, x # y PROVE InTable(x, cur)' <=> InTable(x, cur)
    OBVIOUS
  <2>1. \A k \in DOMAIN table[cur] : InChunk(x, CurChunk(k))' <=> InChunk(x, CurChunk(k))
    <3> TAKE k \in DOMAIN table[cur]
    <3>1. PICK d : d = CurChunk(k)
      OBVIOUS
    <3>2. d \in Chunks /\ CurChunk(k)' = d
      BY <3>1, <1>22
    <3>3. InChunk(x, d)' <=> InChunk(x, d)
      BY <3>2, <1>27, <1>28
    <3> QED BY <3>1, <3>2, <3>3
  <2>2. InTable(x, cur) <=> \E k \in DOMAIN table[cur] : InChunk(x, CurChunk(k))
    BY DEF InTable, CurChunk
  <2>3. InTable(x, cur)' <=> \E k \in DOMAIN table'[cur'] : InChunk(x, CurChunk(k))'
    BY DEF InTable, CurChunk
  <2> QED BY <2>1, <2>2, <2>3, <1>22
<1>32. \A x : x \in Live' <=> x \in Live /\ x # o
  <2>1. \A x : x \in Live <=> InTable(x, cur) /\ obj[x] # "tombstone"
    BY <1>1, LiveFacts DEF LiveIs
  <2>2. \A x : x \in Live' <=> InTable(x, cur)' /\ obj'[x] # "tombstone"
    BY <1>1, LiveFactsP DEF LiveIs
  <2>3. \A x : InTable(x, cur) => x \in Obj /\ x # y
    <3>1. \A x : InTable(x, cur) => \E d \in Chunks : InChunk(x, d)
      BY <1>22 DEF InTable, CurChunk
    <3>2. \A d \in Chunks : \A x : InChunk(x, d) => x \in Obj
      BY <1>15 DEF InChunk, Objs
    <3> QED BY <3>1, <3>2, <1>29
  <2> QED BY <2>1, <2>2, <2>3, <1>13, <1>30, <1>31
<1>33. LiveInv'
  <2>1. \A x \in InitialObj : <<Start(x), End(x)>> \notin Dynamic => x # o
    BY <1>1
  <2> QED BY <2>1, <1>1, <1>32 DEF HInv, LiveInv
<1>34. WriterInv'
  <2>1. ~InTable(writer.ji, cur)'
    BY <1>17, <1>30
  <2> QED BY <2>1, <1>1, <1>16, <1>17 DEF WriterInv
<1>35. \A x : Pending(x)' <=> Pending(x)
  BY <1>1, <1>2, <1>17 DEF Pending
<1>36. PendInv'
  <2>1. ASSUME NEW x \in Obj, Pending(<<"ji", x>>)
        PROVE  /\ obj'[x] = "ji" /\ x \notin free_queue'
               /\ \A d \in Chunks' : ~InChunk(x, d)'
               /\ x # o
    <3>1. /\ obj[x] = "ji" /\ x \notin free_queue /\ \A d \in Chunks : ~InChunk(x, d)
      BY <2>1 DEF HInv, PendInv
    <3>2. x # o /\ x # y
      BY <3>1, <1>5, <1>8, <1>16, NullFacts
    <3> QED BY <3>1, <3>2, <1>1, <1>11, <1>13, <1>27
  <2>2. \A t \in Table : Pending(<<"table", t>>)' <=> t \in Tables' /\ t # cur'
    BY <1>1, <1>11, <1>35 DEF HInv, PendInv
  <2> QED BY <2>1, <2>2, <1>1, <1>2, <1>17, <1>35 DEF HInv, PendInv
<1>37. QueueInv'
  <2>1. ASSUME NEW x \in free_queue
        PROVE  obj'[x] = "ji" /\ x # o /\ ~InTable(x, cur)'
    <3>1. x \in Obj /\ obj[x] = "ji" /\ ~InTable(x, cur)
      BY <1>1 DEF HInv, QueueInv, TypeOK
    <3>2. InTable(o, cur)
      BY <1>1, LiveFacts DEF LiveIs
    <3>3. x # o /\ x # y
      BY <3>1, <3>2, <1>5, NullFacts
    <3> QED BY <3>1, <3>3, <1>13, <1>31
  <2> QED BY <2>1, <1>1, <1>17 DEF QueueInv
<1>38. ObjInv'
  <2>1. ASSUME NEW x \in Obj, obj'[x] = "ji"
        PROVE  x \in Live' \/ x = o \/ Pending(<<"ji", x>>)' \/ x \in free_queue'
    <3>1. obj[x] = "ji"
      BY <2>1, <1>13
    <3>2. x \in Live \/ Pending(<<"ji", x>>) \/ x \in free_queue
      BY <3>1, <1>1, <1>2, NullFacts DEF HInv, ObjInv
    <3> QED BY <3>2, <1>1, <1>32, <1>35
  <2>2. ASSUME NEW x \in Obj, obj'[x] = "tombstone"
        PROVE  /\ \E d \in Chunks' : InChunk(x, d)'
               /\ \A d, e \in Chunks' : InChunk(x, d)' /\ InChunk(x, e)' => d = e
    <3>1. CASE x = y
      BY <3>1, <1>8, <1>11, <1>27, <1>29
    <3>2. CASE x # y
      <4>1. obj[x] = "tombstone" /\ x # o
        BY <3>2, <2>2, <1>13, <1>16
      <4>2. \E d \in Chunks : InChunk(x, d)
        BY <4>1 DEF HInv, ObjInv
      <4>3. \A d, e \in Chunks : InChunk(x, d) /\ InChunk(x, e) => d = e
        BY <4>1 DEF HInv, ObjInv
      <4>4. \A d \in Chunks : InChunk(x, d)' <=> InChunk(x, d)
        BY <3>2, <4>1, <1>27, <1>28
      <4> QED BY <4>2, <4>3, <4>4, <1>11
    <3> QED BY <3>1, <3>2
  <2> QED BY <2>1, <2>2, <1>17 DEF ObjInv
<1>39. FailInv'
  BY <1>4 DEF HInv, FailInv
<1> QED BY <1>18, <1>19, <1>20, <1>23, <1>25, <1>26, <1>33, <1>34, <1>36, <1>37, <1>38, <1>39 DEF HInv

-----------------------------------------------------------------------------
(***************************************************************************)
(* Replacing the table.                                                    *)
(***************************************************************************)

\* New chunks that hold the MonoJitInfos of S in order.
PartsOK(parts, S) ==
    /\ Len(parts) \in Nat /\ DOMAIN parts = 1..Len(parts) /\ Len(parts) >= 1
    /\ \A k \in DOMAIN parts : parts[k] \in ChunkRecord /\ parts[k].refcount = 1
    /\ \A k \in DOMAIN parts, j \in Index : j < parts[k].num_elements =>
         parts[k].data[j] \in S /\ End(parts[k].data[j]) <= parts[k].last_code_end
    /\ \A k \in DOMAIN parts : \A j, l \in Index : j <= l /\ l < parts[k].num_elements =>
         End(parts[k].data[j]) <= End(parts[k].data[l])
    /\ \A k, m \in DOMAIN parts : k < m =>
         /\ parts[k].last_code_end <= parts[m].last_code_end
         /\ \A j \in Index : j < parts[m].num_elements =>
              parts[k].last_code_end <= End(parts[m].data[j])
    /\ \A k, m \in DOMAIN parts : \A j, l \in Index :
         /\ j < parts[k].num_elements /\ l < parts[m].num_elements
         /\ parts[k].data[j] = parts[m].data[l]
         => k = m /\ j = l
    /\ \A x \in S : \E k \in DOMAIN parts, j \in Index :
         j < parts[k].num_elements /\ parts[k].data[j] = x
    /\ S # {} => \A k \in DOMAIN parts : \E x \in S : parts[k].last_code_end = End(x)

LEMMA MulFacts ==
    ASSUME NEW a \in Nat, NEW b \in Nat, NEW F \in Nat, a < b
    PROVE  a * F \in Nat /\ b * F \in Nat /\ a * F + F <= b * F
<1>1. a * F \in Nat /\ b * F \in Nat /\ (b - a - 1) * F \in Nat
  <2>1. b - a - 1 \in Nat
    OBVIOUS
  <2>2. \A m, n \in Nat : m * n \in Nat
    OBVIOUS
  <2> QED BY <2>1, <2>2
<1>2. b * F = a * F + F + (b - a - 1) * F
  OBVIOUS
<1> QED BY <1>1, <1>2

AllObj(s, n) == Len(s) = n /\ \A j \in 1..n : s[j] \in Obj
LEMMA ChunkOfFacts ==
    ASSUME NEW s, NEW n \in 0..CHUNK_SIZE, AllObj(s, n), NEW last \in Nat,
           NEW d, d = ChunkOf(s, last)
    PROVE  /\ d \in ChunkRecord /\ d.refcount = 1 /\ d.num_elements = n /\ d.last_code_end = last
           /\ \A j \in Index : j < n => d.data[j] = s[j + 1]
<1>1. \A j \in Index : j < n => j + 1 \in 1..n
  BY SizeFacts
<1>2. d = [refcount |-> 1, num_elements |-> n, last_code_end |-> last,
           data |-> [j \in Index |-> IF j < n THEN s[j + 1] ELSE NULL]]
  BY DEF ChunkOf, AllObj
<1>3. [j \in Index |-> IF j < n THEN s[j + 1] ELSE NULL] \in [Index -> Obj \cup {NULL}]
  BY <1>1 DEF AllObj
<1>4. d \in ChunkRecord
  BY <1>2, <1>3 DEF ChunkRecord
<1>5. \A j \in Index : j < n => d.data[j] = s[j + 1]
  BY <1>2
<1> QED BY <1>2, <1>4, <1>5

\* The elements x[0], ..., x[N - 1] in n chunks of F each.
Fits(N, n, F) == N \in Nat /\ n \in Nat /\ F \in Nat /\ n >= 1 /\ F >= 1 /\ F <= CHUNK_SIZE
                 /\ (n - 1) * F < N /\ N <= n * F
InOrder(x, N) ==
    /\ \A a \in 0..(N - 1) : x[a] \in Obj
    /\ \A a, b \in 0..(N - 1) : a < b => End(x[a]) <= End(x[b]) /\ x[a] # x[b]
Size(k, N, F) == IF k * F <= N THEN F ELSE N - (k - 1) * F
Filled(parts, x, N, n, F) ==
    /\ Len(parts) = n /\ DOMAIN parts = 1..n
    /\ \A k \in 1..n :
         /\ parts[k] \in ChunkRecord /\ parts[k].refcount = 1
         /\ parts[k].num_elements = Size(k, N, F)
         /\ parts[k].last_code_end = End(x[(k - 1) * F + Size(k, N, F) - 1])
         /\ \A j \in Index : j < Size(k, N, F) => parts[k].data[j] = x[(k - 1) * F + j]

LEMMA SizeOf ==
    ASSUME NEW N, NEW n, NEW F, Fits(N, n, F), NEW k \in 1..n
    PROVE  /\ (k - 1) * F \in Nat /\ k * F \in Nat /\ k * F = (k - 1) * F + F
           /\ Size(k, N, F) \in 1..F /\ (k - 1) * F + Size(k, N, F) <= N
           /\ \A m \in 1..n : k < m => (k - 1) * F + Size(k, N, F) <= (m - 1) * F
<1> USE DEF Fits
<1>1. k - 1 \in Nat /\ k \in Nat /\ n - 1 \in Nat
  OBVIOUS
<1>2. (k - 1) * F \in Nat /\ k * F \in Nat /\ (n - 1) * F \in Nat
  <2>2. \A a, b \in Nat : a * b \in Nat
    OBVIOUS
  <2> QED BY <2>2, <1>1
<1>3. k * F = (k - 1) * F + F
  OBVIOUS
<1>4. CASE k = n
  <2>1. (k - 1) * F < N /\ N <= k * F
    BY <1>4
  <2>2. Size(k, N, F) \in 1..F /\ (k - 1) * F + Size(k, N, F) <= N
    BY <2>1, <1>2, <1>3 DEF Size
  <2> QED BY <2>2, <1>2, <1>3, <1>4
<1>5. CASE k < n
  <2>1. k * F <= (n - 1) * F
    <3>1. CASE k = n - 1
      BY <3>1, <1>2
    <3>2. CASE k < n - 1
      <4>1. k * F + F <= (n - 1) * F
        BY <3>2, <1>1, MulFacts
      <4> QED BY <4>1, <1>2
    <3> QED BY <3>1, <3>2, <1>5
  <2>2. k * F <= N
    BY <2>1, <1>2
  <2>3. Size(k, N, F) = F
    BY <2>2 DEF Size
  <2>4. ASSUME NEW m \in 1..n, k < m PROVE (k - 1) * F + F <= (m - 1) * F
    <3>1. m - 1 \in Nat /\ k - 1 < m - 1
      BY <2>4
    <3> QED BY <3>1, <1>1, MulFacts
  <2> QED BY <2>2, <2>3, <2>4, <1>2, <1>3
<1> QED BY <1>4, <1>5

LEMMA FillFacts ==
    ASSUME NEW N, NEW n, NEW F, Fits(N, n, F), NEW x, InOrder(x, N), NEW parts, Filled(parts, x, N, n, F),
           NEW S, S = {x[a] : a \in 0..(N - 1)}
    PROVE  PartsOK(parts, S)
<1> DEFINE first(k) == (k - 1) * F
           size(k) == Size(k, N, F)
<1>0. /\ N \in Nat /\ n \in Nat /\ F \in Nat /\ n >= 1 /\ F >= 1 /\ F <= CHUNK_SIZE
      /\ (n - 1) * F < N /\ N <= n * F
      /\ \A a \in 0..(N - 1) : x[a] \in Obj
      /\ \A a, b \in 0..(N - 1) : a < b => End(x[a]) <= End(x[b]) /\ x[a] # x[b]
  BY DEF Fits, InOrder
<1>1. \A k \in 1..n : /\ first(k) \in Nat /\ k * F \in Nat /\ k * F = first(k) + F
                      /\ size(k) \in 1..F /\ first(k) + size(k) <= N
                      /\ \A m \in 1..n : k < m => first(k) + size(k) <= first(m)
  BY SizeOf
<1>2. /\ Len(parts) = n /\ DOMAIN parts = 1..n
      /\ \A k \in 1..n :
         /\ parts[k] \in ChunkRecord /\ parts[k].refcount = 1
         /\ parts[k].num_elements = size(k)
         /\ parts[k].last_code_end = End(x[first(k) + size(k) - 1])
         /\ \A j \in Index : j < size(k) => parts[k].data[j] = x[first(k) + j]
  BY DEF Filled
<1>3. \A a \in 0..(N - 1) : End(x[a]) \in Nat
  BY <1>0, ObjFacts
<1> HIDE DEF first, size
<1>a. \A k \in 1..n : /\ first(k) \in Nat /\ size(k) \in Nat /\ size(k) >= 1 /\ size(k) <= F
                      /\ first(k) + size(k) <= N
                      /\ \A m \in 1..n : k < m => first(k) + size(k) <= first(m)
  BY <1>0, <1>1
<1>b. /\ \A j \in Index : j \in Nat
      /\ \A j \in Nat : j < F => j \in Index
  BY <1>0, SizeFacts
<1>4. \A k \in 1..n, j \in Index : j < size(k) => /\ first(k) + j \in 0..(N - 1)
                                                  /\ first(k) + j <= first(k) + size(k) - 1
  BY <1>0, <1>a, <1>b
<1>5. \A k \in 1..n : first(k) + size(k) - 1 \in 0..(N - 1)
  BY <1>0, <1>1
<1>6. \A a, b \in 0..(N - 1) : a <= b => End(x[a]) <= End(x[b])
  BY <1>0, <1>3
<1>7. \A k \in 1..n, j \in Index : j < size(k) =>
         parts[k].data[j] \in S /\ End(parts[k].data[j]) <= End(x[first(k) + size(k) - 1])
  BY <1>0, <1>2, <1>4, <1>5, <1>6
<1>8. \A k \in 1..n : \A j, l \in Index : j <= l /\ l < size(k) =>
         End(parts[k].data[j]) <= End(parts[k].data[l])
  <2> SUFFICES ASSUME NEW k \in 1..n, NEW j \in Index, NEW l \in Index, j <= l, l < size(k)
               PROVE  End(parts[k].data[j]) <= End(parts[k].data[l])
    OBVIOUS
  <2>1. j < size(k) /\ first(k) + j <= first(k) + l
    BY <1>0, <1>a, <1>b
  <2>2. parts[k].data[j] = x[first(k) + j] /\ parts[k].data[l] = x[first(k) + l]
    BY <1>0, <2>1, <1>2
  <2> QED BY <1>0, <2>1, <2>2, <1>4, <1>6
<1>9. \A k, m \in 1..n : k < m =>
         /\ End(x[first(k) + size(k) - 1]) <= End(x[first(m) + size(m) - 1])
         /\ \A j \in Index : j < size(m) => End(x[first(k) + size(k) - 1]) <= End(parts[m].data[j])
  <2> SUFFICES ASSUME NEW k \in 1..n, NEW m \in 1..n, k < m
               PROVE  /\ End(x[first(k) + size(k) - 1]) <= End(x[first(m) + size(m) - 1])
                      /\ \A j \in Index : j < size(m) => End(x[first(k) + size(k) - 1]) <= End(parts[m].data[j])
    OBVIOUS
  <2>1. first(k) + size(k) - 1 <= first(m) + size(m) - 1
    BY <1>0, <1>1
  <2>2. \A j \in Index : first(k) + size(k) - 1 <= first(m) + j
    BY <1>0, <1>a, <1>b
  <2> QED BY <1>0, <2>1, <2>2, <1>2, <1>4, <1>5, <1>6
<1>10. \A a, b \in 0..(N - 1) : x[a] = x[b] => a = b
  BY <1>0
<1>11. ASSUME NEW k \in 1..n, NEW m \in 1..n, NEW j \in Index, NEW l \in Index,
              j < size(k), l < size(m), parts[k].data[j] = parts[m].data[l]
       PROVE  k = m /\ j = l
  <2>1. first(k) + j = first(m) + l
    BY <1>0, <1>2, <1>4, <1>10, <1>11
  <2>2. ~(k < m)
    BY <1>0, <2>1, <1>a, <1>b, <1>11
  <2>3. ~(m < k)
    BY <1>0, <2>1, <1>a, <1>b, <1>11
  <2>4. k = m
    BY <1>0, <2>2, <2>3
  <2> QED BY <1>0, <2>1, <2>4, <1>a, <1>b
<1>12. ASSUME NEW a \in 0..(N - 1)
       PROVE  \E k \in 1..n, j \in Index : j < size(k) /\ parts[k].data[j] = x[a]
  <2> DEFINE T == {k \in Nat : a < k * F}
  <2>1. n \in T
    BY <1>0, <1>1
  <2>2. PICK k \in T : \A m \in T : k <= m
    <3>1. T \subseteq Nat /\ T # {}
      BY <1>0, <2>1
    <3> HIDE DEF T
    <3> QED BY <1>0, <3>1, NatMin
  <2>3. k \in Nat /\ a < k * F /\ k <= n /\ k # 0
    <3>1. 0 * F = 0
      BY <1>0
    <3> QED BY <1>0, <2>1, <2>2, <3>1
  <2>4. k \in 1..n
    BY <1>0, <2>3
  <2>5. first(k) <= a
    <3>1. k - 1 \in Nat /\ k - 1 \notin T
      BY <1>0, <2>2, <2>3
    <3>2. ~(a < (k - 1) * F)
      BY <1>0, <3>1
    <3> QED BY <1>0, <3>2, <2>4, <1>1 DEF first
  <2>6. a < first(k) + size(k)
    <3>1. size(k) = IF k * F <= N THEN F ELSE N - first(k)
      BY DEF size, first, Size
    <3> QED BY <1>0, <3>1, <2>3, <2>4, <1>1
  <2>7. PICK j : j = a - first(k)
    OBVIOUS
  <2>8. j \in Index /\ j < size(k) /\ first(k) + j = a
    BY <1>0, <2>4, <2>5, <2>6, <2>7, <1>a, <1>b
  <2>9. parts[k].data[j] = x[a]
    BY <1>0, <2>4, <2>8, <1>2
  <2> QED BY <1>0, <2>4, <2>8, <2>9
<1>13. \A y \in S : \E k \in 1..n, j \in Index : j < size(k) /\ parts[k].data[j] = y
  BY <1>0, <1>12
<1>14. \A k, m \in 1..n : \A j, l \in Index :
         j < size(k) /\ l < size(m) /\ parts[k].data[j] = parts[m].data[l] => k = m /\ j = l
  BY <1>0, <1>11
<1>15. /\ \A k \in DOMAIN parts, j \in Index : j < parts[k].num_elements =>
           parts[k].data[j] \in S /\ End(parts[k].data[j]) <= parts[k].last_code_end
       /\ \A k \in DOMAIN parts : \A j, l \in Index : j <= l /\ l < parts[k].num_elements =>
           End(parts[k].data[j]) <= End(parts[k].data[l])
  BY <1>0, <1>2, <1>7, <1>8
<1>16. \A k, m \in DOMAIN parts : k < m =>
         /\ parts[k].last_code_end <= parts[m].last_code_end
         /\ \A j \in Index : j < parts[m].num_elements =>
              parts[k].last_code_end <= End(parts[m].data[j])
  BY <1>0, <1>2, <1>9
<1>17. \A k, m \in DOMAIN parts : \A j, l \in Index :
         /\ j < parts[k].num_elements /\ l < parts[m].num_elements
         /\ parts[k].data[j] = parts[m].data[l]
         => k = m /\ j = l
  BY <1>0, <1>2, <1>14
<1>18. \A y \in S : \E k \in DOMAIN parts, j \in Index :
         j < parts[k].num_elements /\ parts[k].data[j] = y
  <2> TAKE y \in S
  <2>1. PICK k \in 1..n, j \in Index : j < size(k) /\ parts[k].data[j] = y
    BY <1>0, <1>13
  <2>2. parts[k].num_elements = size(k) /\ k \in DOMAIN parts
    BY <1>0, <1>2
  <2> QED BY <1>0, <2>1, <2>2
<1>19. /\ Len(parts) \in Nat /\ DOMAIN parts = 1..Len(parts) /\ Len(parts) >= 1
       /\ \A k \in DOMAIN parts : parts[k] \in ChunkRecord /\ parts[k].refcount = 1
  BY <1>0, <1>2
<1>20. \A k \in DOMAIN parts : \E y \in S : parts[k].last_code_end = End(y)
  BY <1>2, <1>5
<1> QED BY <1>0, <1>15, <1>16, <1>17, <1>18, <1>19, <1>20 DEF PartsOK

LEMMA DivFacts ==
    ASSUME NEW a \in Nat, NEW C \in Nat, C >= 1
    PROVE  a \div C \in Nat /\ (a \div C) * C <= a /\ a < (a \div C) * C + C
           /\ a % C = a - (a \div C) * C
OBVIOUS

\* jit_info_table_realloc: the number of chunks is right.
LEMMA NumChunksFacts ==
    ASSUME NEW N \in Nat, N >= 1
    PROVE  /\ NumChunks(N) \in Nat /\ NumChunks(N) >= 1
           /\ Fits(N, NumChunks(N), FILLED_NUM_ELEMENTS)
           /\ ReallocAsserts(N)
<1>1. PICK k \in 1..16 : CHUNK_SIZE = 4 * k
  BY SizeAssumption
<1>2. PICK A, n, F : A = (N * 4) \div 3 /\ n = NumChunks(N) /\ F = FILLED_NUM_ELEMENTS
  OBVIOUS
<1>3. F = 3 * k
  BY <1>1, <1>2 DEF FILLED_NUM_ELEMENTS
<1>4. A \in Nat /\ 3 * A <= 4 * N /\ 4 * N < 3 * A + 3 /\ A >= 1
  BY <1>2
<1>5. n = (A + 4 * k - 1) \div (4 * k) /\ A + 4 * k - 1 \in Nat /\ 4 * k \in Nat /\ 4 * k >= 1
  BY <1>1, <1>2, <1>4 DEF NumChunks
<1>6. n \in Nat /\ n * (4 * k) <= A + 4 * k - 1 /\ A + 4 * k - 1 < n * (4 * k) + 4 * k
  BY <1>5, DivFacts
<1>7. PICK m : m = n * k
  OBVIOUS
<1>8. m \in Nat /\ n * (4 * k) = 4 * m /\ n * F = 3 * m /\ (n - 1) * F = 3 * m - 3 * k
  BY <1>3, <1>6, <1>7
<1>9. 4 * m <= A + 4 * k - 1 /\ A + 4 * k - 1 < 4 * m + 4 * k
  BY <1>6, <1>8
<1>10. N <= 3 * m /\ 3 * m - 3 * k < N
  BY <1>4, <1>8, <1>9
<1>11. (n - 1) * F < N /\ N <= n * F
  BY <1>8, <1>10
<1>12. n >= 1
  <2> SUFFICES ASSUME n = 0 PROVE FALSE
    BY <1>6
  <2>1. m = 0
    BY <1>7
  <2> QED BY <2>1, <1>10
<1>13. F \in Nat /\ F >= 1 /\ F <= CHUNK_SIZE
  BY <1>1, <1>3
<1>14. ReallocAsserts(N)
  <2>1. PICK q, e : q = N \div F /\ e = N % F
    OBVIOUS
  <2>2. q \in Nat /\ q * F <= N /\ N < q * F + F /\ e = N - q * F
    BY <2>1, <1>13, DivFacts
  <2>3. ASSUME q < n PROVE q = n - 1 /\ e > 0
    <3>1. ~(q < n - 1)
      <4> SUFFICES ASSUME q < n - 1 PROVE FALSE
        OBVIOUS
      <4>1. n - 1 \in Nat
        BY <1>6, <1>12
      <4>2. q * F \in Nat /\ (n - 1) * F \in Nat /\ q * F + F <= (n - 1) * F
        BY <4>1, <2>2, <1>13, MulFacts
      <4> QED BY <4>2, <2>2, <1>11, <1>13
    <3>2. q = n - 1
      BY <3>1, <2>2, <2>3, <1>6
    <3>3. q * F < N
      BY <3>2, <1>11
    <3>4. q * F \in Nat
      BY <2>2, <1>13
    <3> QED BY <3>2, <3>3, <3>4, <2>2
  <2> QED BY <2>1, <2>3, <1>2, <1>11 DEF ReallocAsserts
<1> QED BY <1>2, <1>6, <1>11, <1>12, <1>13, <1>14 DEF Fits

\* The places of the current table while nothing is being stored.
LEMMA PlacesOrder ==
    ASSUME HInv, cur # NULL, writer.chunk = NULL, writer.pc # "shift"
    PROVE  /\ IsFiniteSet(Places(cur)) /\ Places(cur) \subseteq Nat \X Nat
           /\ \A p \in Places(cur) : At(cur, p) \in Obj /\ InTable(At(cur, p), cur)
           /\ \A p, q \in Places(cur) : Before(p, q) => End(At(cur, p)) <= End(At(cur, q))
           /\ \A p, q \in Places(cur) : At(cur, p) = At(cur, q) => p = q
<1>0. /\ Len(table[cur]) \in Nat /\ DOMAIN table[cur] = 1..Len(table[cur])
      /\ \A k \in DOMAIN table[cur] :
           /\ CurChunk(k) \in Chunks
           /\ CurChunk(k) # NULL /\ Num(CurChunk(k)) \in 0..CHUNK_SIZE /\ Last(CurChunk(k)) \in Nat
           /\ \A l \in Index : l < Num(CurChunk(k)) =>
                Data(CurChunk(k), l) \in Obj /\ End(Data(CurChunk(k), l)) \in Nat
  BY CurFacts
<1>1. IsFiniteSet(Places(cur)) /\ Places(cur) \subseteq Nat \X Nat
  <2>1. IsFiniteSet(DOMAIN table[cur]) /\ IsFiniteSet(Index)
    <3>1. \A a, b \in Int : IsFiniteSet(a..b)
      BY FS_Interval
    <3>2. Len(table[cur]) \in Int /\ 1 \in Int /\ 0 \in Int /\ CHUNK_SIZE - 1 \in Int
      BY <1>0, SizeFacts
    <3>3. IsFiniteSet(1..Len(table[cur])) /\ IsFiniteSet(0..(CHUNK_SIZE - 1))
      BY <3>1, <3>2
    <3> QED BY <3>3, <1>0, SizeFacts
  <2>2. IsFiniteSet((DOMAIN table[cur]) \X Index)
    BY <2>1, FS_Product
  <2>3. Places(cur) \subseteq (DOMAIN table[cur]) \X Index
    BY DEF Places
  <2>4. DOMAIN table[cur] \subseteq Nat /\ Index \subseteq Nat
    BY <1>0, SizeFacts
  <2>5. Places(cur) \in SUBSET ((DOMAIN table[cur]) \X Index)
    BY <2>3
  <2> QED BY <2>2, <2>3, <2>4, <2>5, FS_Subset
<1>2. ASSUME NEW p \in Places(cur) PROVE At(cur, p) \in Obj /\ InTable(At(cur, p), cur)
  <2>1. PICK i \in DOMAIN table[cur], j \in Index : p = <<i, j>> /\ j < Num(CurChunk(i))
    BY PlaceFacts DEF PlacesIs
  <2>2. At(cur, p) = Data(CurChunk(i), j)
    BY <2>1, PlaceFacts
  <2>3. InTable(Data(CurChunk(i), j), cur)
    BY <2>1 DEF InTable, InChunk, CurChunk
  <2> QED BY <2>1, <2>2, <2>3, <1>0
<1>3. ASSUME NEW p \in Places(cur), NEW q \in Places(cur), Before(p, q)
      PROVE  End(At(cur, p)) <= End(At(cur, q))
  <2>1. PICK i \in DOMAIN table[cur], j \in Index : p = <<i, j>> /\ j < Num(CurChunk(i))
    BY PlaceFacts DEF PlacesIs
  <2>2. PICK k \in DOMAIN table[cur], l \in Index : q = <<k, l>> /\ l < Num(CurChunk(k))
    BY PlaceFacts DEF PlacesIs
  <2>3. At(cur, p) = Data(CurChunk(i), j) /\ At(cur, q) = Data(CurChunk(k), l)
    BY <2>1, <2>2, PlaceFacts
  <2>4. i < k \/ (i = k /\ j < l)
    BY <2>1, <2>2, <1>3 DEF Before
  <2>5. CASE i < k
    <3>1. End(Data(CurChunk(i), j)) <= Last(CurChunk(i))
      BY <2>1, <1>0 DEF HInv, OrderInv
    <3>2. Last(CurChunk(i)) <= End(Data(CurChunk(k), l))
      BY <2>2, <2>5 DEF HInv, OrderInv
    <3> QED BY <3>1, <3>2, <2>1, <2>2, <2>3, <1>0
  <2>6. CASE i = k /\ j < l
    <3>1. j <= l
      BY <2>6, SizeFacts
    <3> QED BY <3>1, <2>2, <2>3, <2>6, <1>0 DEF HInv, OrderInv
  <2> QED BY <2>4, <2>5, <2>6
<1>4. ASSUME NEW p \in Places(cur), NEW q \in Places(cur), At(cur, p) = At(cur, q)
      PROVE  p = q
  <2>1. PICK i \in DOMAIN table[cur], j \in Index : p = <<i, j>> /\ j < Num(CurChunk(i))
    BY PlaceFacts DEF PlacesIs
  <2>2. PICK k \in DOMAIN table[cur], l \in Index : q = <<k, l>> /\ l < Num(CurChunk(k))
    BY PlaceFacts DEF PlacesIs
  <2>3. At(cur, p) = Data(CurChunk(i), j) /\ At(cur, q) = Data(CurChunk(k), l)
    BY <2>1, <2>2, PlaceFacts
  <2>4. i = k /\ j = l
    BY <2>1, <2>2, <2>3, <1>4 DEF HInv, UniqInv
  <2> QED BY <2>1, <2>2, <2>4
<1> QED BY <1>1, <1>2, <1>3, <1>4

\* The MonoJitInfos at a set of places, in order.
Slice(s, x, f, m) == Len(s) = m /\ \A j \in 1..m : s[j] = x[f + j - 1]
CopyOf(x, S, N) ==
    /\ N \in Nat /\ InOrder(x, N)
    /\ {x[a] : a \in 0..(N - 1)} = {At(cur, p) : p \in S}
    /\ \A f \in Nat, m \in Nat : f + m <= N => Slice(Copied(S, f, m), x, f, m)
LEMMA CopiedFacts ==
    ASSUME HInv, cur # NULL, writer.chunk = NULL, writer.pc # "shift",
           NEW S, S \subseteq Places(cur), NEW N, N = Cardinality(S)
    PROVE  \E x : CopyOf(x, S, N)
<1>0. /\ IsFiniteSet(Places(cur)) /\ Places(cur) \subseteq Nat \X Nat
      /\ \A p \in Places(cur) : At(cur, p) \in Obj
      /\ \A p, q \in Places(cur) : Before(p, q) => End(At(cur, p)) <= End(At(cur, q))
      /\ \A p, q \in Places(cur) : At(cur, p) = At(cur, q) => p = q
  BY PlacesOrder
<1>1. IsFiniteSet(S) /\ S \subseteq Nat \X Nat
  <2>1. S \in SUBSET Places(cur)
    OBVIOUS
  <2> QED BY <2>1, <1>0, FS_Subset
<1>2. /\ N \in Nat
      /\ \A p \in S : Rank(S, p) \in 0..(N - 1) /\ Nth(S, Rank(S, p)) = p
      /\ \A n \in 0..(N - 1) : Nth(S, n) \in S /\ Rank(S, Nth(S, n)) = n
      /\ \A p, q \in S : Before(p, q) <=> Rank(S, p) < Rank(S, q)
  BY <1>1, RankFacts
<1>3. PICK x : x = [a \in 0..(N - 1) |-> At(cur, Nth(S, a))]
  OBVIOUS
<1>4. \A a \in 0..(N - 1) : x[a] = At(cur, Nth(S, a)) /\ Nth(S, a) \in Places(cur)
  BY <1>2, <1>3
<1>5. InOrder(x, N)
  <2>1. \A a \in 0..(N - 1) : x[a] \in Obj
    BY <1>0, <1>4
  <2>2. ASSUME NEW a \in 0..(N - 1), NEW b \in 0..(N - 1), a < b
        PROVE  End(x[a]) <= End(x[b]) /\ x[a] # x[b]
    <3>1. PICK p, q : p = Nth(S, a) /\ q = Nth(S, b)
      OBVIOUS
    <3>2. p \in S /\ q \in S /\ Rank(S, p) = a /\ Rank(S, q) = b
      BY <3>1, <1>2
    <3>3. Before(p, q) /\ p # q
      BY <3>2, <2>2, <1>2
    <3>4. p \in Places(cur) /\ q \in Places(cur) /\ x[a] = At(cur, p) /\ x[b] = At(cur, q)
      BY <3>1, <3>2, <1>4
    <3> QED BY <3>3, <3>4, <1>0
  <2> QED BY <2>1, <2>2 DEF InOrder
<1>6. {x[a] : a \in 0..(N - 1)} = {At(cur, p) : p \in S}
  <2>1. ASSUME NEW a \in 0..(N - 1) PROVE x[a] \in {At(cur, p) : p \in S}
    BY <1>2, <1>4
  <2>2. ASSUME NEW p \in S PROVE At(cur, p) \in {x[a] : a \in 0..(N - 1)}
    <3>1. Rank(S, p) \in 0..(N - 1) /\ x[Rank(S, p)] = At(cur, p)
      BY <1>2, <1>4
    <3> QED BY <3>1
  <2> QED BY <2>1, <2>2
<1>7. ASSUME NEW first \in Nat, NEW n \in Nat, first + n <= N
      PROVE  /\ Len(Copied(S, first, n)) = n
             /\ \A j \in 1..n : Copied(S, first, n)[j] = x[first + j - 1]
  <2>1. Copied(S, first, n) = [j \in 1..n |-> At(cur, Nth(S, first + j - 1))]
    BY DEF Copied
  <2>2. \A j \in 1..n : first + j - 1 \in 0..(N - 1)
    BY <1>2, <1>7
  <2>3. \A j \in 1..n : Copied(S, first, n)[j] = x[first + j - 1]
    BY <2>1, <2>2, <1>4
  <2>4. Len(Copied(S, first, n)) = n
    BY <2>1
  <2> QED BY <2>3, <2>4
<1> QED BY <1>2, <1>5, <1>6, <1>7 DEF CopyOf, Slice

LEMMA PartFacts ==
    ASSUME NEW N, NEW n, NEW F, Fits(N, n, F), NEW x, InOrder(x, N), NEW k \in 1..n,
           NEW s, Slice(s, x, (k - 1) * F, Size(k, N, F)),
           NEW d, d = ChunkOf(s, EndOf(s))
    PROVE  /\ d \in ChunkRecord /\ d.refcount = 1
           /\ d.num_elements = Size(k, N, F)
           /\ d.last_code_end = End(x[(k - 1) * F + Size(k, N, F) - 1])
           /\ \A j \in Index : j < Size(k, N, F) => d.data[j] = x[(k - 1) * F + j]
<1>1. PICK f, m : f = (k - 1) * F /\ m = Size(k, N, F)
  OBVIOUS
<1>2. f \in Nat /\ m \in 1..F /\ f + m <= N /\ F \in Nat /\ F <= CHUNK_SIZE /\ N \in Nat
  <2>1. F \in Nat /\ F <= CHUNK_SIZE /\ N \in Nat
    BY DEF Fits
  <2> QED BY <2>1, <1>1, SizeOf
<1>3. Len(s) = m /\ \A j \in 1..m : s[j] = x[f + j - 1]
  BY <1>1 DEF Slice
<1>4. \A j \in 1..m : f + j - 1 \in 0..(N - 1)
  BY <1>2
<1>5. \A j \in 1..m : s[j] \in Obj
  BY <1>3, <1>4 DEF InOrder
<1>6. m \in 1..m /\ m \in 0..CHUNK_SIZE
  BY <1>2, SizeFacts
<1>7. EndOf(s) = End(x[f + m - 1]) /\ EndOf(s) \in Nat
  <2>1. EndOf(s) = End(s[m]) /\ s[m] \in Obj /\ s[m] = x[f + m - 1]
    BY <1>3, <1>5, <1>6 DEF EndOf
  <2> QED BY <2>1, ObjFacts
<1>8. /\ d \in ChunkRecord /\ d.refcount = 1 /\ d.num_elements = m /\ d.last_code_end = EndOf(s)
      /\ \A j \in Index : j < m => d.data[j] = s[j + 1]
  <2>1. AllObj(s, m)
    BY <1>3, <1>5 DEF AllObj
  <2> QED BY <2>1, <1>6, <1>7, ChunkOfFacts
<1>9. \A j \in Index : j < m => d.data[j] = x[f + j]
  <2> SUFFICES ASSUME NEW j \in Index, j < m PROVE d.data[j] = x[f + j]
    OBVIOUS
  <2>1. j + 1 \in 1..m /\ f + (j + 1) - 1 = f + j
    BY <1>2, SizeFacts
  <2>2. s[j + 1] = x[f + (j + 1) - 1]
    BY <2>1, <1>3
  <2>3. s[j + 1] = x[f + j]
    BY <2>1, <2>2
  <2> QED BY <2>3, <1>8
<1> QED BY <1>1, <1>7, <1>8, <1>9

LEMMA SlicesFacts ==
    ASSUME NEW N, NEW n, NEW F, Fits(N, n, F), NEW x, InOrder(x, N),
           NEW parts, NEW g, Len(parts) = n, DOMAIN parts = 1..n,
           \A k \in 1..n : parts[k] = ChunkOf(g[k], EndOf(g[k])),
           \A k \in 1..n : Slice(g[k], x, (k - 1) * F, Size(k, N, F)),
           NEW S, S = {x[a] : a \in 0..(N - 1)}
    PROVE  PartsOK(parts, S)
<1>1. ASSUME NEW k \in 1..n
      PROVE  /\ parts[k] \in ChunkRecord /\ parts[k].refcount = 1
             /\ parts[k].num_elements = Size(k, N, F)
             /\ parts[k].last_code_end = End(x[(k - 1) * F + Size(k, N, F) - 1])
             /\ \A j \in Index : j < Size(k, N, F) => parts[k].data[j] = x[(k - 1) * F + j]
  <2>1. PICK s, d : s = g[k] /\ d = parts[k]
    OBVIOUS
  <2>2. Slice(s, x, (k - 1) * F, Size(k, N, F)) /\ d = ChunkOf(s, EndOf(s))
    BY <2>1
  <2>3. /\ d \in ChunkRecord /\ d.refcount = 1
        /\ d.num_elements = Size(k, N, F)
        /\ d.last_code_end = End(x[(k - 1) * F + Size(k, N, F) - 1])
        /\ \A j \in Index : j < Size(k, N, F) => d.data[j] = x[(k - 1) * F + j]
    BY <2>2, PartFacts
  <2> QED BY <2>1, <2>3
<1>2. Filled(parts, x, N, n, F)
  BY <1>1 DEF Filled
<1> QED BY <1>2, FillFacts

LEMMA ReallocParts ==
    ASSUME HInv, cur # NULL, writer.chunk = NULL, writer.pc # "shift"
    PROVE  PartsOK(jit_info_table_realloc, Live) /\ ReallocAsserts(num_elements)
<1>1. PICK S, N : S = LivePlaces(cur) /\ N = Cardinality(S)
  OBVIOUS
<1>2. S \subseteq Places(cur) /\ Live = {At(cur, p) : p \in S} /\ num_elements = N
  BY <1>1 DEF LivePlaces, Live, num_elements
<1>3. PICK x : CopyOf(x, S, N)
  BY <1>1, <1>2, CopiedFacts
<1>a. N \in Nat /\ InOrder(x, N) /\ Live = {x[a] : a \in 0..(N - 1)}
  BY <1>2, <1>3 DEF CopyOf
<1>4. N >= 1
  <2>1. Live # {}
    BY DEF HInv, LiveInv
  <2>2. 0..(N - 1) # {}
    BY <2>1, <1>a
  <2> QED BY <2>2, <1>a
<1>5. PICK n, F : n = NumChunks(N) /\ F = FILLED_NUM_ELEMENTS
  OBVIOUS
<1>6. n \in Nat /\ Fits(N, n, F) /\ ReallocAsserts(N)
  BY <1>a, <1>4, <1>5, NumChunksFacts
<1>7. PICK parts : parts = jit_info_table_realloc
  OBVIOUS
<1> DEFINE group(k) == Copied(S, (k - 1) * F, Size(k, N, F))
<1>8. parts = [k \in 1..n |-> ChunkOf(group(k), EndOf(group(k)))]
  BY <1>1, <1>2, <1>5, <1>7 DEF jit_info_table_realloc, Size
<1>9. ASSUME NEW k \in 1..n PROVE Slice(group(k), x, (k - 1) * F, Size(k, N, F))
  <2>1. (k - 1) * F \in Nat /\ Size(k, N, F) \in 1..F /\ (k - 1) * F + Size(k, N, F) <= N
    BY <1>6, SizeOf
  <2>2. Size(k, N, F) \in Nat
    BY <2>1
  <2> QED BY <2>1, <2>2, <1>3 DEF CopyOf
<1>10. PICK g : g = [k \in 1..n |-> group(k)]
  OBVIOUS
<1>11. Len(parts) = n /\ DOMAIN parts = 1..n
  BY <1>6, <1>8
<1>12. \A k \in 1..n : parts[k] = ChunkOf(g[k], EndOf(g[k])) /\ Slice(g[k], x, (k - 1) * F, Size(k, N, F))
  BY <1>8, <1>9, <1>10
<1> HIDE DEF group
<1>13. PartsOK(parts, Live)
  BY <1>a, <1>6, <1>11, <1>12, SlicesFacts
<1> QED BY <1>2, <1>6, <1>7, <1>13

\* The live MonoJitInfos of one chunk of the current table.
LiveOf(i) == {x \in Live : InChunk(x, CurChunk(i))}
LEMMA LiveInFacts ==
    ASSUME HInv, cur # NULL, NEW i \in DOMAIN table[cur]
    PROVE  /\ LiveIn(i) \subseteq Places(cur) /\ LiveIn(i) \subseteq {i} \X Index
           /\ {At(cur, p) : p \in LiveIn(i)} = LiveOf(i)
           /\ \A j \in Index : <<i, j>> \in LiveIn(i) => j < Num(CurChunk(i))
<1>1. LiveIn(i) \subseteq Places(cur)
  BY DEF LiveIn, LivePlaces
<1>2. ASSUME NEW p \in LiveIn(i)
      PROVE  \E j \in Index : p = <<i, j>> /\ j < Num(CurChunk(i)) /\ At(cur, p) = Data(CurChunk(i), j)
                              /\ obj[At(cur, p)] # "tombstone"
  <2>1. p \in Places(cur) /\ p[1] = i /\ obj[At(cur, p)] # "tombstone"
    BY DEF LiveIn, LivePlaces, IsTombstone
  <2>2. PICK k \in DOMAIN table[cur], j \in Index : p = <<k, j>> /\ j < Num(CurChunk(k))
    BY <2>1, PlaceFacts DEF PlacesIs
  <2>3. k = i
    BY <2>1, <2>2
  <2> QED BY <2>1, <2>2, <2>3, PlaceFacts
<1>3. LiveIn(i) \subseteq {i} \X Index
  <2>1. ASSUME NEW p \in LiveIn(i) PROVE p \in {i} \X Index
    <3>1. PICK j \in Index : p = <<i, j>>
      BY <1>2
    <3> QED BY <3>1
  <2> QED BY <2>1
<1>4. ASSUME NEW p \in LiveIn(i) PROVE At(cur, p) \in LiveOf(i)
  <2>1. PICK j \in Index : j < Num(CurChunk(i)) /\ At(cur, p) = Data(CurChunk(i), j)
                           /\ obj[At(cur, p)] # "tombstone"
    BY <1>2
  <2>2. InChunk(At(cur, p), CurChunk(i)) /\ InTable(At(cur, p), cur)
    BY <2>1 DEF InChunk, InTable, CurChunk
  <2> QED BY <2>1, <2>2, LiveFacts DEF LiveOf, LiveIs
<1>5. ASSUME NEW x \in LiveOf(i) PROVE x \in {At(cur, p) : p \in LiveIn(i)}
  <2>1. obj[x] # "tombstone" /\ InChunk(x, CurChunk(i))
    BY LiveFacts DEF LiveOf, LiveIs
  <2>2. PICK j \in Index : j < Num(CurChunk(i)) /\ Data(CurChunk(i), j) = x
    BY <2>1 DEF InChunk
  <2>3. <<i, j>> \in Places(cur) /\ At(cur, <<i, j>>) = x
    BY <2>2, PlaceFacts DEF PlacesIs
  <2>4. <<i, j>> \in LiveIn(i)
    BY <2>1, <2>3 DEF LiveIn, LivePlaces, IsTombstone
  <2> QED BY <2>3, <2>4
<1>6. \A j \in Index : <<i, j>> \in LiveIn(i) => j < Num(CurChunk(i))
  <2> SUFFICES ASSUME NEW j \in Index, <<i, j>> \in LiveIn(i) PROVE j < Num(CurChunk(i))
    OBVIOUS
  <2>1. PICK l \in Index : <<i, j>> = <<i, l>> /\ l < Num(CurChunk(i))
    BY <1>2
  <2> QED BY <2>1
<1> QED BY <1>1, <1>3, <1>4, <1>5, <1>6

LEMMA RowFacts ==
    ASSUME NEW i, NEW S, S \subseteq {i} \X Index
    PROVE  IsFiniteSet(S) /\ Cardinality(S) \in 0..CHUNK_SIZE /\ (Cardinality(S) = CHUNK_SIZE => S = {i} \X Index)
<1>1. IsFiniteSet(Index) /\ Cardinality(Index) = CHUNK_SIZE
  <2>1. 0 \in Int /\ CHUNK_SIZE - 1 \in Int /\ ~(0 > CHUNK_SIZE - 1) /\ (CHUNK_SIZE - 1) - 0 + 1 = CHUNK_SIZE
    BY SizeFacts
  <2>2. IsFiniteSet(0..(CHUNK_SIZE - 1)) /\ Cardinality(0..(CHUNK_SIZE - 1)) = (CHUNK_SIZE - 1) - 0 + 1
    BY <2>1, FS_Interval
  <2> QED BY <2>1, <2>2, SizeFacts
<1>2. IsFiniteSet({i}) /\ Cardinality({i}) = 1
  BY FS_Singleton
<1>3. IsFiniteSet({i} \X Index) /\ Cardinality({i} \X Index) = Cardinality({i}) * Cardinality(Index)
  BY <1>1, <1>2, FS_Product
<1>4. Cardinality({i} \X Index) = CHUNK_SIZE
  <2>1. 1 * CHUNK_SIZE = CHUNK_SIZE
    BY SizeFacts
  <2> QED BY <2>1, <1>1, <1>2, <1>3
<1>5. S \in SUBSET ({i} \X Index)
  OBVIOUS
<1>6. IsFiniteSet(S) /\ Cardinality(S) <= CHUNK_SIZE /\ (Cardinality(S) = CHUNK_SIZE => S = {i} \X Index)
  BY <1>3, <1>4, <1>5, FS_Subset
<1>7. Cardinality(S) \in Nat
  BY <1>6, FS_CardinalityType
<1> QED BY <1>6, <1>7, SizeFacts

LEMMA SplitParts ==
    ASSUME HInv, cur # NULL, writer.chunk = NULL, writer.pc # "shift",
           NEW i \in DOMAIN table[cur], Cardinality(LiveIn(i)) = CHUNK_SIZE
    PROVE  PartsOK(jit_info_table_split_chunk(table[cur][i]), LiveOf(i))
<1>1. PICK c, h : c = CurChunk(i) /\ h = CHUNK_SIZE \div 2
  OBVIOUS
<1>2. h \in Nat /\ 2 * h = CHUNK_SIZE /\ h >= 1 /\ CHUNK_SIZE \in Nat
  BY <1>1, SizeFacts
<1>3. LiveIn(i) = {i} \X Index
  BY LiveInFacts, RowFacts
<1>4. \A j \in Index : <<i, j>> \in LiveIn(i) /\ j < Num(c)
  <2>1. \A j \in Index : <<i, j>> \in LiveIn(i)
    BY <1>3
  <2> QED BY <2>1, <1>1, LiveInFacts
<1>5. PICK x : x = [a \in 0..(CHUNK_SIZE - 1) |-> Data(c, a)]
  OBVIOUS
<1>6. \A a \in 0..(CHUNK_SIZE - 1) : /\ a \in Index /\ x[a] = Data(c, a) /\ At(cur, <<i, a>>) = x[a]
                                     /\ <<i, a>> \in Places(cur)
  <2>1. \A a \in 0..(CHUNK_SIZE - 1) : a \in Index /\ x[a] = Data(c, a)
    BY <1>5, SizeFacts
  <2> QED BY <2>1, <1>1, <1>4, PlaceFacts DEF PlacesIs
<1>7. InOrder(x, CHUNK_SIZE)
  <2>1. ASSUME NEW a \in 0..(CHUNK_SIZE - 1) PROVE x[a] \in Obj
    <3>1. PICK p : p = <<i, a>>
      OBVIOUS
    <3>2. p \in Places(cur) /\ At(cur, p) = x[a]
      BY <3>1, <1>6
    <3> QED BY <3>2, PlacesOrder
  <2>2. ASSUME NEW a \in 0..(CHUNK_SIZE - 1), NEW b \in 0..(CHUNK_SIZE - 1), a < b
        PROVE  End(x[a]) <= End(x[b]) /\ x[a] # x[b]
    <3>1. PICK p, q : p = <<i, a>> /\ q = <<i, b>>
      OBVIOUS
    <3>2. Before(p, q) /\ p # q
      BY <3>1, <2>2, <1>2 DEF Before
    <3>3. p \in Places(cur) /\ q \in Places(cur) /\ At(cur, p) = x[a] /\ At(cur, q) = x[b]
      BY <3>1, <1>6
    <3> QED BY <3>2, <3>3, PlacesOrder
  <2> QED BY <2>1, <2>2 DEF InOrder
<1>8. {x[a] : a \in 0..(CHUNK_SIZE - 1)} = LiveOf(i)
  <2>1. LiveOf(i) = {At(cur, p) : p \in LiveIn(i)}
    BY LiveInFacts
  <2>2. ASSUME NEW a \in 0..(CHUNK_SIZE - 1) PROVE x[a] \in LiveOf(i)
    BY <2>1, <1>4, <1>6
  <2>3. ASSUME NEW p \in LiveIn(i) PROVE At(cur, p) \in {x[a] : a \in 0..(CHUNK_SIZE - 1)}
    <3>1. PICK a \in Index : p = <<i, a>>
      BY <1>3
    <3>2. a \in 0..(CHUNK_SIZE - 1)
      BY SizeFacts
    <3> QED BY <3>1, <3>2, <1>6
  <2> QED BY <2>1, <2>2, <2>3
<1>9. Fits(CHUNK_SIZE, 2, h)
  BY <1>2 DEF Fits
<1>10. Size(1, CHUNK_SIZE, h) = h /\ Size(2, CHUNK_SIZE, h) = h /\ (1 - 1) * h = 0 /\ (2 - 1) * h = h
  BY <1>2 DEF Size
<1> DEFINE half(f) == [j \in 1..h |-> chunk[c].data[f + j - 1]]
<1>11. PICK g, parts : g = <<half(0), half(h)>> /\ parts = jit_info_table_split_chunk(c)
  OBVIOUS
<1>12. parts = <<ChunkOf(g[1], EndOf(g[1])), ChunkOf(g[2], EndOf(g[2]))>>
  BY <1>1, <1>11 DEF jit_info_table_split_chunk
<1>13. ASSUME NEW f \in {0, h} PROVE Slice(half(f), x, f, h)
  <2>1. Len(half(f)) = h /\ DOMAIN half(f) = 1..h
    BY <1>2
  <2>2. \A j \in 1..h : f + j - 1 \in 0..(CHUNK_SIZE - 1)
    BY <1>2
  <2>3. \A j \in 1..h : half(f)[j] = x[f + j - 1]
    BY <2>2, <1>6 DEF Data
  <2> HIDE DEF half
  <2> QED BY <2>1, <2>3 DEF Slice
<1> HIDE DEF half
<1>14. Len(parts) = 2 /\ DOMAIN parts = 1..2
  BY <1>12
<1>15. \A k \in 1..2 : parts[k] = ChunkOf(g[k], EndOf(g[k]))
  <2>1. parts[1] = ChunkOf(g[1], EndOf(g[1])) /\ parts[2] = ChunkOf(g[2], EndOf(g[2]))
    BY <1>12
  <2>2. \A k \in 1..2 : k = 1 \/ k = 2
    OBVIOUS
  <2> QED BY <2>1, <2>2
<1>16. \A k \in 1..2 : Slice(g[k], x, (k - 1) * h, Size(k, CHUNK_SIZE, h))
  <2>1. Slice(g[1], x, 0, h) /\ Slice(g[2], x, h, h)
    BY <1>11, <1>13
  <2>2. Slice(g[1], x, (1 - 1) * h, Size(1, CHUNK_SIZE, h)) /\ Slice(g[2], x, (2 - 1) * h, Size(2, CHUNK_SIZE, h))
    BY <2>1, <1>10
  <2>3. \A k \in 1..2 : k = 1 \/ k = 2
    OBVIOUS
  <2> QED BY <2>2, <2>3
<1>17. PICK N, n : N = CHUNK_SIZE /\ n = 2
  OBVIOUS
<1>18. /\ Fits(N, n, h) /\ InOrder(x, N) /\ Len(parts) = n /\ DOMAIN parts = 1..n
       /\ LiveOf(i) = {x[a] : a \in 0..(N - 1)}
  BY <1>7, <1>8, <1>9, <1>14, <1>17
<1>19. \A k \in 1..n : parts[k] = ChunkOf(g[k], EndOf(g[k]))
  BY <1>15, <1>17
<1>20. \A k \in 1..n : Slice(g[k], x, (k - 1) * h, Size(k, N, h))
  BY <1>16, <1>17
<1>21. PartsOK(parts, LiveOf(i))
  BY <1>18, <1>19, <1>20, SlicesFacts
<1> QED BY <1>1, <1>11, <1>21 DEF CurChunk

LEMMA PurifyParts ==
    ASSUME HInv, cur # NULL, writer.chunk = NULL, writer.pc # "shift",
           NEW i \in DOMAIN table[cur]
    PROVE  /\ PartsOK(jit_info_table_purify_chunk(i), LiveOf(i))
           /\ LiveOf(i) = {} => \A k \in DOMAIN jit_info_table_purify_chunk(i) :
                jit_info_table_purify_chunk(i)[k].last_code_end = Last(CurChunk(i))
<1>1. PICK S, N : S = LiveIn(i) /\ N = Cardinality(S)
  OBVIOUS
<1>2. S \subseteq Places(cur) /\ LiveOf(i) = {At(cur, p) : p \in S} /\ N \in 0..CHUNK_SIZE
  BY <1>1, LiveInFacts, RowFacts
<1>3. PICK x : CopyOf(x, S, N)
  BY <1>1, <1>2, CopiedFacts
<1>4. N \in Nat /\ InOrder(x, N) /\ LiveOf(i) = {x[a] : a \in 0..(N - 1)}
  BY <1>2, <1>3 DEF CopyOf
<1>5. PICK s, parts : s = Copied(S, 0, N) /\ parts = jit_info_table_purify_chunk(i)
  OBVIOUS
<1>6. parts = <<ChunkOf(s, IF s = <<>> THEN Last(CurChunk(i)) ELSE EndOf(s))>>
  BY <1>1, <1>5 DEF jit_info_table_purify_chunk, Last, CurChunk
<1>7. Slice(s, x, 0, N) /\ Len(s) = N /\ s = [j \in 1..N |-> At(cur, Nth(S, 0 + j - 1))]
  <2>1. 0 + N <= N /\ 0 \in Nat
    BY <1>4
  <2>2. Slice(s, x, 0, N)
    BY <2>1, <1>3, <1>4, <1>5 DEF CopyOf
  <2> QED BY <2>2, <1>5 DEF Slice, Copied
<1>8. s = <<>> <=> N = 0
  BY <1>4, <1>7
<1>9. CASE N = 0
  <2>1. LiveOf(i) = {}
    <3>1. 0..(N - 1) = {}
      BY <1>9
    <3> QED BY <3>1, <1>4
  <2>2. Last(CurChunk(i)) \in Nat
    BY CurFacts
  <2>3. PICK d : d = ChunkOf(s, Last(CurChunk(i)))
    OBVIOUS
  <2>4. parts = <<d>>
    BY <2>3, <1>6, <1>8, <1>9
  <2>5. 0 \in 0..CHUNK_SIZE /\ AllObj(s, 0)
    BY <1>7, <1>9, SizeFacts DEF AllObj
  <2>6. d \in ChunkRecord /\ d.refcount = 1 /\ d.num_elements = 0 /\ d.last_code_end = Last(CurChunk(i))
    BY <2>2, <2>3, <2>5, ChunkOfFacts
  <2>7. Len(parts) = 1 /\ DOMAIN parts = 1..1 /\ \A k \in DOMAIN parts : k = 1 /\ parts[k] = d
    BY <2>4
  <2>8. \A j \in Index : ~(j < 0)
    BY SizeFacts
  <2>9. PartsOK(parts, LiveOf(i))
    BY <2>1, <2>6, <2>7, <2>8 DEF PartsOK
  <2> QED BY <2>6, <2>7, <2>9, <1>5
<1>10. CASE N # 0
  <2>1. PICK n, F : n = 1 /\ F = CHUNK_SIZE
    OBVIOUS
  <2>2. Fits(N, n, F)
    BY <2>1, <1>2, <1>10, SizeFacts DEF Fits
  <2>3. (1 - 1) * F = 0 /\ Size(1, N, F) = N
    BY <2>1, <1>2, SizeFacts DEF Size
  <2>4. PICK g : g = <<s>>
    OBVIOUS
  <2>5. parts = <<ChunkOf(s, EndOf(s))>>
    BY <1>6, <1>8, <1>10
  <2>6. Len(parts) = n /\ DOMAIN parts = 1..n
    BY <2>1, <2>5
  <2>7. \A k \in 1..n : k = 1 /\ g[k] = s /\ parts[k] = ChunkOf(s, EndOf(s))
    BY <2>1, <2>4, <2>5
  <2>8. \A k \in 1..n : parts[k] = ChunkOf(g[k], EndOf(g[k]))
    BY <2>7
  <2>9. \A k \in 1..n : Slice(g[k], x, (k - 1) * F, Size(k, N, F))
    <3>1. Slice(s, x, (1 - 1) * F, Size(1, N, F))
      BY <2>3, <1>7
    <3> QED BY <3>1, <2>7
  <2>10. PartsOK(parts, LiveOf(i))
    BY <2>2, <2>6, <2>8, <2>9, <1>4, SlicesFacts
  <2>11. LiveOf(i) # {}
    <3>1. 0 \in 0..(N - 1)
      BY <1>4, <1>10
    <3> QED BY <3>1, <1>4
  <2> QED BY <2>10, <2>11, <1>5
<1> QED BY <1>9, <1>10

\* The chunks that replace the i-th one, or all of them, are new.
Layout(chunks, new, i, keep) ==
    /\ chunks \in Seq(Chunk) /\ Len(chunks) >= 1
    /\ \A a \in DOMAIN chunks :
         \/ \E k \in DOMAIN new : chunks[a] = new[k]
         \/ keep /\ \E p \in DOMAIN table[cur] : p # i /\ chunks[a] = CurChunk(p)
    /\ \A k \in DOMAIN new : \E a \in DOMAIN chunks : chunks[a] = new[k]
    /\ keep => \A p \in DOMAIN table[cur] : p # i => \E a \in DOMAIN chunks : chunks[a] = CurChunk(p)
    /\ \A a, b \in DOMAIN chunks : chunks[a] = chunks[b] => a = b
    /\ \A a, b \in DOMAIN chunks : a < b =>
         /\ \A k, m \in DOMAIN new : chunks[a] = new[k] /\ chunks[b] = new[m] => k < m
         /\ \A p, q \in DOMAIN table[cur] : chunks[a] = CurChunk(p) /\ chunks[b] = CurChunk(q) => p < q
         /\ \A k \in DOMAIN new, p \in DOMAIN table[cur] : chunks[a] = new[k] /\ chunks[b] = CurChunk(p) => i < p
         /\ \A k \in DOMAIN new, p \in DOMAIN table[cur] : chunks[a] = CurChunk(p) /\ chunks[b] = new[k] => p < i

\* n blocks for new chunks.
Blocks(new, n) ==
    /\ Len(new) = n /\ DOMAIN new = 1..n /\ new \in Seq(Chunk)
    /\ \A k \in DOMAIN new : new[k] \in Chunk /\ new[k] \notin Chunks
    /\ \A k, m \in DOMAIN new : new[k] = new[m] => k = m

LEMMA BlocksFacts ==
    ASSUME NEW n \in Nat, NEW new \in Allocations(n)
    PROVE  Blocks(new, n)
<1>1. new \in [1..n -> {c \in Chunk : chunk[c] = NULL}] /\ \A k, m \in 1..n : new[k] = new[m] => k = m
  BY DEF Allocations
<1>2. new \in [1..n -> Chunk] /\ DOMAIN new = 1..n /\ \A k \in 1..n : new[k] \in Chunk /\ chunk[new[k]] = NULL
  BY <1>1
<1>3. new \in Seq(Chunk) /\ Len(new) = n
  BY <1>2
<1>4. \A k \in 1..n : new[k] \notin Chunks
  BY <1>2 DEF Chunks
<1> QED BY <1>1, <1>2, <1>3, <1>4 DEF Blocks

LEMMA RebuildLayout ==
    ASSUME HInv, cur # NULL, NEW n \in Nat, n >= 1, NEW new, Blocks(new, n), NEW i
    PROVE  Layout(new, new, i, FALSE)
<1>1. \A p \in DOMAIN table[cur] : CurChunk(p) \in Chunks
  BY CurFacts
<1>2. \A k \in DOMAIN new, p \in DOMAIN table[cur] : new[k] # CurChunk(p)
  BY <1>1 DEF Blocks
<1>3. DOMAIN new = 1..n /\ Len(new) = n /\ new \in Seq(Chunk) /\ \A k, m \in DOMAIN new : new[k] = new[m] => k = m
  BY DEF Blocks
<1> QED BY <1>2, <1>3 DEF Layout

LEMMA CopyLayout ==
    ASSUME HInv, cur # NULL, NEW n \in Nat, n >= 1, NEW new, Blocks(new, n),
           NEW i \in DOMAIN table[cur]
    PROVE  Layout(CopyBut(i, new), new, i, TRUE)
<1>1. PICK L, chunks : L = Len(table[cur]) /\ chunks = CopyBut(i, new)
  OBVIOUS
<1>2. L \in Nat /\ DOMAIN table[cur] = 1..L /\ i \in 1..L
  BY <1>1, CurFacts
<1>3. /\ DOMAIN new = 1..n /\ Len(new) = n /\ \A k \in 1..n : new[k] \in Chunk /\ new[k] \notin Chunks
      /\ \A k, m \in 1..n : new[k] = new[m] => k = m
  BY DEF Blocks
<1>4. \A p \in 1..L : CurChunk(p) \in Chunks /\ CurChunk(p) \in Chunk
  BY <1>2, CurFacts
<1>a. \A p, q \in 1..L : CurChunk(p) = CurChunk(q) => p = q
  BY <1>2, CurFacts
<1>5. chunks = [k \in 1..(L + n - 1) |->
       IF k < i THEN CurChunk(k)
       ELSE IF k < i + n THEN new[k - i + 1]
       ELSE CurChunk(k - n + 1)]
  BY <1>1, <1>3 DEF CopyBut, CurChunk
<1>6. ASSUME NEW a \in 1..(L + n - 1)
      PROVE  \/ a < i /\ a \in 1..L /\ chunks[a] = CurChunk(a)
             \/ i <= a /\ a < i + n /\ a - i + 1 \in 1..n /\ chunks[a] = new[a - i + 1]
             \/ i + n <= a /\ a - n + 1 \in 1..L /\ a - n + 1 > i /\ chunks[a] = CurChunk(a - n + 1)
  <2>1. CASE a < i
    BY <2>1, <1>2, <1>5
  <2>2. CASE i <= a /\ a < i + n
    BY <2>2, <1>2, <1>5
  <2>3. CASE i + n <= a
    BY <2>3, <1>2, <1>5
  <2> QED BY <2>1, <2>2, <2>3, <1>2
<1>7. \A k \in 1..n, p \in 1..L : new[k] # CurChunk(p)
  BY <1>3, <1>4
<1>8. \A a \in 1..(L + n - 1), p \in 1..L : chunks[a] = CurChunk(p) =>
         (a < i /\ p = a) \/ (i + n <= a /\ p = a - n + 1 /\ p > i)
  BY <1>6, <1>7, <1>a
<1>9. \A a \in 1..(L + n - 1), k \in 1..n : chunks[a] = new[k] =>
         i <= a /\ a < i + n /\ k = a - i + 1
  BY <1>6, <1>7, <1>3
<1>10. DOMAIN chunks = 1..(L + n - 1) /\ \A a \in 1..(L + n - 1) : chunks[a] \in Chunk
  BY <1>5, <1>6, <1>3, <1>4
<1>11. chunks \in Seq(Chunk) /\ Len(chunks) = L + n - 1 /\ L + n - 1 >= 1
  <2>1. L + n - 1 \in Nat /\ L + n - 1 >= 1
    BY <1>2
  <2>2. chunks = [a \in 1..(L + n - 1) |-> chunks[a]]
    BY <1>5
  <2>3. chunks \in [1..(L + n - 1) -> Chunk]
    BY <2>2, <1>10
  <2> QED BY <2>1, <2>3
<1>12. \A a \in DOMAIN chunks :
         \/ \E k \in DOMAIN new : chunks[a] = new[k]
         \/ \E p \in DOMAIN table[cur] : p # i /\ chunks[a] = CurChunk(p)
  <2> SUFFICES ASSUME NEW a \in 1..(L + n - 1)
               PROVE  \/ \E k \in 1..n : chunks[a] = new[k]
                      \/ \E p \in 1..L : p # i /\ chunks[a] = CurChunk(p)
    BY <1>2, <1>3, <1>10
  <2> QED BY <1>2, <1>6
<1>13. \A k \in DOMAIN new : \E a \in DOMAIN chunks : chunks[a] = new[k]
  <2> SUFFICES ASSUME NEW k \in 1..n PROVE \E a \in 1..(L + n - 1) : chunks[a] = new[k]
    BY <1>3, <1>10
  <2>1. PICK a : a = k + i - 1
    OBVIOUS
  <2>2. a \in 1..(L + n - 1) /\ i <= a /\ a < i + n /\ a - i + 1 = k
    BY <2>1, <1>2
  <2>3. chunks[a] = new[a - i + 1]
    BY <2>2, <1>5, <1>2
  <2> QED BY <2>2, <2>3
<1>14. \A p \in DOMAIN table[cur] : p # i => \E a \in DOMAIN chunks : chunks[a] = CurChunk(p)
  <2> SUFFICES ASSUME NEW p \in 1..L, p # i PROVE \E a \in 1..(L + n - 1) : chunks[a] = CurChunk(p)
    BY <1>2, <1>10
  <2>1. CASE p < i
    <3>1. p \in 1..(L + n - 1)
      BY <2>1, <1>2
    <3> QED BY <2>1, <3>1, <1>5
  <2>2. CASE p > i
    <3>1. PICK a : a = p + n - 1
      OBVIOUS
    <3>2. a \in 1..(L + n - 1) /\ ~(a < i) /\ ~(a < i + n) /\ a - n + 1 = p
      BY <2>2, <3>1, <1>2
    <3>3. chunks[a] = CurChunk(a - n + 1)
      BY <3>2, <1>5
    <3> QED BY <3>2, <3>3
  <2> QED BY <2>1, <2>2, <1>2
<1>15. ASSUME NEW a \in 1..(L + n - 1), NEW b \in 1..(L + n - 1), chunks[a] = chunks[b]
       PROVE  a = b
  <2>1. CASE \E k \in 1..n : chunks[a] = new[k]
    <3>1. PICK k \in 1..n : chunks[a] = new[k] /\ chunks[b] = new[k]
      BY <2>1, <1>15
    <3>2. k = a - i + 1 /\ k = b - i + 1
      BY <3>1, <1>9
    <3> QED BY <3>2, <1>2
  <2>2. CASE \E p \in 1..L : chunks[a] = CurChunk(p)
    <3>1. PICK p \in 1..L : chunks[a] = CurChunk(p) /\ chunks[b] = CurChunk(p)
      BY <2>2, <1>15
    <3>2. /\ (a < i /\ p = a) \/ (i + n <= a /\ p = a - n + 1 /\ p > i)
          /\ (b < i /\ p = b) \/ (i + n <= b /\ p = b - n + 1 /\ p > i)
      BY <3>1, <1>8
    <3> QED BY <3>2, <1>2
  <2> QED BY <2>1, <2>2, <1>2, <1>3, <1>10, <1>12
<1>16. ASSUME NEW a \in 1..(L + n - 1), NEW b \in 1..(L + n - 1), a < b
       PROVE  /\ \A k, m \in 1..n : chunks[a] = new[k] /\ chunks[b] = new[m] => k < m
              /\ \A p, q \in 1..L : chunks[a] = CurChunk(p) /\ chunks[b] = CurChunk(q) => p < q
              /\ \A k \in 1..n, p \in 1..L : chunks[a] = new[k] /\ chunks[b] = CurChunk(p) => i < p
              /\ \A k \in 1..n, p \in 1..L : chunks[a] = CurChunk(p) /\ chunks[b] = new[k] => p < i
  <2>1. \A k, m \in 1..n : chunks[a] = new[k] /\ chunks[b] = new[m] => k < m
    <3> SUFFICES ASSUME NEW k \in 1..n, NEW m \in 1..n, chunks[a] = new[k], chunks[b] = new[m] PROVE k < m
      OBVIOUS
    <3>1. k = a - i + 1 /\ m = b - i + 1
      BY <1>9
    <3> QED BY <3>1, <1>16, <1>2
  <2>2. \A p, q \in 1..L : chunks[a] = CurChunk(p) /\ chunks[b] = CurChunk(q) => p < q
    <3> SUFFICES ASSUME NEW p \in 1..L, NEW q \in 1..L, chunks[a] = CurChunk(p), chunks[b] = CurChunk(q) PROVE p < q
      OBVIOUS
    <3>1. /\ (a < i /\ p = a) \/ (i + n <= a /\ p = a - n + 1 /\ p > i)
          /\ (b < i /\ q = b) \/ (i + n <= b /\ q = b - n + 1 /\ q > i)
      BY <1>8
    <3> QED BY <3>1, <1>16, <1>2
  <2>3. \A k \in 1..n, p \in 1..L : chunks[a] = new[k] /\ chunks[b] = CurChunk(p) => i < p
    <3> SUFFICES ASSUME NEW k \in 1..n, NEW p \in 1..L, chunks[a] = new[k], chunks[b] = CurChunk(p) PROVE i < p
      OBVIOUS
    <3>1. /\ i <= a
          /\ (b < i /\ p = b) \/ (i + n <= b /\ p = b - n + 1 /\ p > i)
      BY <1>8, <1>9
    <3> QED BY <3>1, <1>16, <1>2
  <2>4. \A k \in 1..n, p \in 1..L : chunks[a] = CurChunk(p) /\ chunks[b] = new[k] => p < i
    <3> SUFFICES ASSUME NEW k \in 1..n, NEW p \in 1..L, chunks[b] = new[k], chunks[a] = CurChunk(p) PROVE p < i
      OBVIOUS
    <3>1. /\ b < i + n
          /\ (a < i /\ p = a) \/ (i + n <= a /\ p = a - n + 1 /\ p > i)
      BY <1>8, <1>9
    <3> QED BY <3>1, <1>16, <1>2
  <2> QED BY <2>1, <2>2, <2>3, <2>4
<1> HIDE DEF CopyBut
<1>17. Layout(chunks, new, i, TRUE)
  <2>0. DOMAIN chunks = 1..(L + n - 1) /\ DOMAIN new = 1..n /\ DOMAIN table[cur] = 1..L
    BY <1>2, <1>3, <1>10
  <2>1. chunks \in Seq(Chunk) /\ Len(chunks) >= 1
    BY <1>11
  <2>2. \A a, b \in DOMAIN chunks : chunks[a] = chunks[b] => a = b
    BY <2>0, <1>15
  <2> DEFINE D == 1..(L + n - 1)
             N == 1..n
             C == 1..L
  <2>3. \A a, b \in D : a < b =>
           /\ \A k, m \in N : chunks[a] = new[k] /\ chunks[b] = new[m] => k < m
           /\ \A p, q \in C : chunks[a] = CurChunk(p) /\ chunks[b] = CurChunk(q) => p < q
           /\ \A k \in N, p \in C : chunks[a] = new[k] /\ chunks[b] = CurChunk(p) => i < p
           /\ \A k \in N, p \in C : chunks[a] = CurChunk(p) /\ chunks[b] = new[k] => p < i
    BY <1>16
  <2>4. DOMAIN chunks = D /\ DOMAIN new = N /\ DOMAIN table[cur] = C
    BY <2>0
  <2> HIDE DEF D, N, C
  <2> QED BY <2>1, <2>2, <2>3, <2>4, <1>12, <1>13, <1>14 DEF Layout
<1> QED BY <1>1, <1>17

\* The replacement of the i-th chunk keeps the distance to its neighbours.
Between(parts, i) ==
    \A k \in DOMAIN parts :
        /\ parts[k].last_code_end <= Last(CurChunk(i))
        /\ \A p \in DOMAIN table[cur] : p < i => Last(CurChunk(p)) <= parts[k].last_code_end

LEMMA BetweenFacts ==
    ASSUME HInv, cur # NULL, writer.chunk = NULL, NEW i \in DOMAIN table[cur],
           NEW parts, PartsOK(parts, LiveOf(i)),
           LiveOf(i) = {} => \A k \in DOMAIN parts : parts[k].last_code_end = Last(CurChunk(i))
    PROVE  Between(parts, i)
<1> SUFFICES ASSUME NEW k \in DOMAIN parts
             PROVE  /\ parts[k].last_code_end <= Last(CurChunk(i))
                    /\ \A p \in DOMAIN table[cur] : p < i => Last(CurChunk(p)) <= parts[k].last_code_end
  BY DEF Between
<1>0. \A p \in DOMAIN table[cur] : Last(CurChunk(p)) \in Nat /\ CurChunk(p) # NULL
  BY CurFacts
<1>1. CASE LiveOf(i) = {}
  <2>1. \A p \in DOMAIN table[cur] : p < i => Last(CurChunk(p)) <= Last(CurChunk(i))
    BY DEF HInv, OrderInv
  <2> QED BY <1>0, <1>1, <2>1
<1>2. CASE LiveOf(i) # {}
  <2>1. PICK x \in LiveOf(i) : parts[k].last_code_end = End(x)
    BY <1>2 DEF PartsOK
  <2>2. PICK j \in Index : j < Num(CurChunk(i)) /\ Data(CurChunk(i), j) = x
    BY DEF LiveOf, InChunk
  <2>3. End(x) <= Last(CurChunk(i))
    BY <2>2, <1>0 DEF HInv, OrderInv
  <2>4. \A p \in DOMAIN table[cur] : p < i => Last(CurChunk(p)) <= End(x)
    BY <2>2 DEF HInv, OrderInv
  <2> QED BY <2>1, <2>3, <2>4
<1> QED BY <1>1, <1>2

LEMMA OverflowParts ==
    ASSUME HInv, cur # NULL, writer.chunk = NULL, writer.pc # "shift", NEW i \in DOMAIN table[cur],
           NEW parts, parts = jit_info_table_chunk_overflow(i)
    PROVE  /\ Rebuild => PartsOK(parts, Live) /\ ReallocAsserts(num_elements)
           /\ ~Rebuild => PartsOK(parts, LiveOf(i)) /\ Between(parts, i)
<1>1. CASE Rebuild
  <2>1. parts = jit_info_table_realloc
    BY <1>1 DEF jit_info_table_chunk_overflow
  <2> QED BY <1>1, <2>1, ReallocParts
<1>2. CASE ~Rebuild /\ Cardinality(LiveIn(i)) = CHUNK_SIZE
  <2>1. parts = jit_info_table_split_chunk(table[cur][i])
    BY <1>2 DEF jit_info_table_chunk_overflow
  <2>2. PartsOK(parts, LiveOf(i))
    BY <1>2, <2>1, SplitParts
  <2>3. LiveOf(i) # {}
    <3>1. {At(cur, p) : p \in LiveIn(i)} = LiveOf(i)
      BY LiveInFacts
    <3>2. LiveIn(i) # {}
      <4>1. CHUNK_SIZE # 0
        BY SizeFacts
      <4> QED BY <4>1, <1>2, FS_EmptySet
    <3> QED BY <3>1, <3>2
  <2>4. Between(parts, i)
    BY <2>2, <2>3, BetweenFacts
  <2> QED BY <1>2, <2>2, <2>4
<1>3. CASE ~Rebuild /\ Cardinality(LiveIn(i)) # CHUNK_SIZE
  <2>1. parts = jit_info_table_purify_chunk(i)
    BY <1>3 DEF jit_info_table_chunk_overflow
  <2>2. /\ PartsOK(parts, LiveOf(i))
        /\ LiveOf(i) = {} => \A k \in DOMAIN parts : parts[k].last_code_end = Last(CurChunk(i))
    BY <2>1, PurifyParts
  <2>4. Between(parts, i)
    BY <2>2, BetweenFacts
  <2> QED BY <1>3, <2>2, <2>4
<1> QED BY <1>1, <1>2, <1>3

\* What the replacement of the table does to the blocks.
Published(t0, parts, new, chunks) ==
    /\ t0 \in Table /\ t0 \notin Tables /\ cur' = t0
    /\ Tables' = Tables \cup {t0}
    /\ table'[t0] = chunks /\ \A t \in Tables : table'[t] = table[t]
    /\ Chunks' = Chunks \cup {new[k] : k \in DOMAIN new}
    /\ \A c \in Chunks :
         /\ Num(c)' = Num(c) /\ Last(c)' = Last(c)
         /\ \A j : Data(c, j)' = Data(c, j)
    /\ \A k \in DOMAIN new :
         /\ Num(new[k])' = parts[k].num_elements /\ Last(new[k])' = parts[k].last_code_end
         /\ \A j : Data(new[k], j)' = parts[k].data[j]
    /\ CountsExact'
    /\ chunk' \in [Chunk -> ChunkRecord \cup {NULL}]
    /\ table' \in [Table -> Seq(Chunk) \cup {NULL}]
    /\ num_tables' \in Nat

LEMMA PublishFacts ==
    ASSUME HInv, cur # NULL, NEW t0 \in Table, t0 \notin Tables, NEW parts, NEW S, PartsOK(parts, S),
           NEW new, Blocks(new, Len(parts)), NEW i, NEW keep, NEW chunks, Layout(chunks, new, i, keep),
           Publish(t0, parts, new, chunks), UNCHANGED free_queue
    PROVE  Published(t0, parts, new, chunks)
<1>0. /\ table' = [table EXCEPT ![t0] = chunks]
      /\ chunk' = [c \in Chunk |->
           IF \E k \in DOMAIN new : new[k] = c
           THEN parts[CHOOSE k \in DOMAIN new : new[k] = c]
           ELSE IF \E k \in DOMAIN chunks : chunks[k] = c
           THEN [chunk[c] EXCEPT !.refcount = @ + 1]
           ELSE chunk[c]]
      /\ cur' = t0 /\ num_tables' = num_tables + 1
  BY DEF Publish
<1>1. /\ DOMAIN new = 1..Len(parts) /\ DOMAIN parts = 1..Len(parts)
      /\ \A k \in DOMAIN new : new[k] \in Chunk /\ new[k] \notin Chunks /\ chunk[new[k]] = NULL
      /\ \A k, m \in DOMAIN new : new[k] = new[m] => k = m
      /\ \A k \in DOMAIN new : parts[k] \in ChunkRecord /\ parts[k].refcount = 1
  BY DEF Blocks, PartsOK, Chunks
<1>2. /\ chunks \in Seq(Chunk)
      /\ \A a \in DOMAIN chunks : (\E k \in DOMAIN new : chunks[a] = new[k]) \/ chunks[a] \in Chunks
      /\ \A k \in DOMAIN new : \E a \in DOMAIN chunks : chunks[a] = new[k]
  <2>1. \A p \in DOMAIN table[cur] : CurChunk(p) \in Chunks
    BY CurFacts
  <2> QED BY <2>1 DEF Layout
<1>3. /\ Tables' = Tables \cup {t0} /\ table'[t0] = chunks
      /\ \A t \in Table \ {t0} : table'[t] = table[t]
      /\ table' \in [Table -> Seq(Chunk) \cup {NULL}]
  <2>1. table \in [Table -> Seq(Chunk) \cup {NULL}] /\ chunks # NULL
    BY <1>2, NullAssumption DEF HInv, TypeOK
  <2>2. /\ table'[t0] = chunks /\ \A t \in Table \ {t0} : table'[t] = table[t]
        /\ table' \in [Table -> Seq(Chunk) \cup {NULL}]
    BY <1>0, <1>2, <2>1
  <2> QED BY <2>1, <2>2 DEF Tables
<1>4. \A t \in Tables : t \in Table /\ t # t0 /\ table'[t] = table[t]
  BY <1>3 DEF Tables
<1>5. ASSUME NEW k \in DOMAIN new PROVE chunk'[new[k]] = parts[k]
  <2>1. PICK c : c = new[k]
    OBVIOUS
  <2>2. c \in Chunk /\ \E m \in DOMAIN new : new[m] = c
    BY <2>1, <1>1
  <2>3. chunk'[c] = parts[CHOOSE m \in DOMAIN new : new[m] = c]
    BY <2>2, <1>0
  <2>4. (CHOOSE m \in DOMAIN new : new[m] = c) = k
    BY <2>1, <2>2, <1>1
  <2> QED BY <2>1, <2>3, <2>4
<1> DEFINE fresh == {new[k] : k \in DOMAIN new}
           held == {c \in Chunk : \E a \in DOMAIN chunks : chunks[a] = c}
<1>6. ASSUME NEW c \in Chunk, c \notin fresh, c \in held
      PROVE  /\ c \in Chunks /\ chunk'[c] \in ChunkRecord /\ chunk'[c] # NULL
             /\ chunk'[c].refcount = chunk[c].refcount + 1 /\ chunk[c].refcount \in Nat
             /\ Num(c)' = Num(c) /\ Last(c)' = Last(c)
             /\ \A j : Data(c, j)' = Data(c, j)
  <2>1. chunk'[c] = [chunk[c] EXCEPT !.refcount = chunk[c].refcount + 1]
    BY <1>0, <1>6
  <2>2. c \in Chunks
    BY <1>2, <1>6
  <2>3. chunk[c] \in ChunkRecord
    BY <2>2 DEF HInv, TypeOK, Chunks
  <2>4. chunk'[c] \in ChunkRecord /\ chunk[c].refcount \in Nat
    BY <2>1, <2>3 DEF ChunkRecord
  <2>5. chunk'[c].refcount = chunk[c].refcount + 1 /\ Num(c)' = Num(c) /\ Last(c)' = Last(c)
        /\ \A j : Data(c, j)' = Data(c, j)
    BY <2>1, <2>3 DEF ChunkRecord, Num, Last, Data
  <2> QED BY <2>2, <2>4, <2>5, NullAssumption
<1>7. ASSUME NEW c \in Chunk, c \notin fresh, c \notin held
      PROVE  chunk'[c] = chunk[c]
  BY <1>0, <1>7
<1>8. fresh \subseteq held /\ fresh \subseteq Chunk
  BY <1>1, <1>2
<1>9. chunk' \in [Chunk -> ChunkRecord \cup {NULL}]
  <2>1. \A c \in Chunk : chunk'[c] \in ChunkRecord \cup {NULL}
    BY <1>1, <1>5, <1>6, <1>7 DEF HInv, TypeOK
  <2>2. DOMAIN chunk' = Chunk /\ chunk' = [c \in Chunk |-> chunk'[c]]
    BY <1>0
  <2> QED BY <2>1, <2>2
<1>10. \A c \in fresh : chunk'[c] # NULL /\ c \notin Chunks /\ c \in Chunk /\ chunk'[c].refcount = 1
  BY <1>1, <1>5, NullAssumption
<1> HIDE DEF held
<1>11. Chunks' = Chunks \cup fresh
  <2>1. ASSUME NEW c \in Chunk PROVE c \in Chunks' <=> c \in Chunks \cup fresh
    <3>1. CASE c \in fresh
      BY <3>1, <1>10 DEF Chunks
    <3>2. CASE c \notin fresh /\ c \in held
      BY <3>2, <1>6 DEF Chunks
    <3>3. CASE c \notin fresh /\ c \notin held
      BY <3>3, <1>7 DEF Chunks
    <3> QED BY <3>1, <3>2, <3>3
  <2>2. Chunks \subseteq Chunk /\ Chunks' \subseteq Chunk /\ fresh \subseteq Chunk
    BY <1>8 DEF Chunks
  <2> QED BY <2>1, <2>2
<1>12. \A c \in Chunks : /\ Num(c)' = Num(c) /\ Last(c)' = Last(c)
                         /\ \A j : Data(c, j)' = Data(c, j)
  <2> SUFFICES ASSUME NEW c \in Chunks
               PROVE  /\ Num(c)' = Num(c) /\ Last(c)' = Last(c)
                      /\ \A j : Data(c, j)' = Data(c, j)
    OBVIOUS
  <2>1. c \in Chunk /\ c \notin fresh
    BY <1>10 DEF Chunks
  <2>2. CASE c \in held
    BY <2>1, <2>2, <1>6
  <2>3. CASE c \notin held
    BY <2>1, <2>3, <1>7 DEF Num, Last, Data
  <2> QED BY <2>2, <2>3
<1>13. \A k \in DOMAIN new :
         /\ Num(new[k])' = parts[k].num_elements /\ Last(new[k])' = parts[k].last_code_end
         /\ \A j : Data(new[k], j)' = parts[k].data[j]
  BY <1>5 DEF Num, Last, Data
<1>14. \A c \in Chunk : /\ c \in held => Holders(c)' = Holders(c) \cup {t0}
                        /\ c \notin held => Holders(c)' = Holders(c)
  <2>1. \A t \in Tables : ChunksOf(t)' = ChunksOf(t)
    BY <1>4 DEF ChunksOf
  <2>2. \A c \in Chunk : c \in ChunksOf(t0)' <=> c \in held
    BY <1>3 DEF ChunksOf, held
  <2>3. ASSUME NEW c \in Chunk, NEW t PROVE t \in Holders(c)' <=> t \in Holders(c) \/ (t = t0 /\ c \in held)
    <3>1. CASE t = t0
      <4>1. t \in Tables' /\ t \notin Tables /\ (c \in ChunksOf(t)' <=> c \in held)
        BY <3>1, <2>2, <1>3
      <4> QED BY <3>1, <4>1 DEF Holders
    <3>2. CASE t # t0 /\ t \in Tables
      <4>1. t \in Tables' /\ ChunksOf(t)' = ChunksOf(t)
        BY <3>2, <2>1, <1>3
      <4> QED BY <3>2, <4>1 DEF Holders
    <3>3. CASE t # t0 /\ t \notin Tables
      <4>1. t \notin Tables'
        BY <3>3, <1>3
      <4> QED BY <3>3, <4>1 DEF Holders
    <3> QED BY <3>1, <3>2, <3>3
  <2> QED BY <2>3
<1>15. \A c \in Chunk : /\ Holders(c) # {} => chunk[c] # NULL /\ chunk[c].refcount = Cardinality(Holders(c))
                        /\ Holders(c) = {} => chunk[c] = NULL
  BY DEF HInv, CountsExact, Holders
<1>16. ASSUME NEW c \in Chunk
       PROVE  IF Holders(c)' = {} THEN chunk'[c] = NULL
              ELSE chunk'[c] # NULL /\ chunk'[c].refcount = Cardinality(Holders(c)')
  <2>0. IsFiniteSet(Holders(c)) /\ Cardinality(Holders(c)) \in Nat /\ t0 \notin Holders(c)
    BY HoldersFinite DEF Holders
  <2>1. CASE c \in fresh
    <3>1. Holders(c) = {} /\ c \in held
      BY <2>1, <1>8, <1>10, <1>15 DEF Chunks
    <3>2. Holders(c)' = {t0}
      BY <3>1, <1>14
    <3>3. Cardinality({t0}) = 1
      BY FS_Singleton
    <3> QED BY <3>2, <3>3, <2>1, <1>10
  <2>2. CASE c \notin fresh /\ c \in held
    <3>1. c \in Chunks /\ chunk'[c] # NULL /\ chunk'[c].refcount = chunk[c].refcount + 1
      BY <2>2, <1>6
    <3>2. Holders(c) # {}
      BY <3>1, <1>15 DEF Chunks
    <3>3. Holders(c)' = Holders(c) \cup {t0}
      BY <2>2, <1>14
    <3>4. Cardinality(Holders(c) \cup {t0}) = Cardinality(Holders(c)) + 1
      BY <2>0, FS_AddElement
    <3> QED BY <3>1, <3>2, <3>3, <3>4, <1>15
  <2>3. CASE c \notin fresh /\ c \notin held
    BY <2>3, <1>7, <1>14, <1>15
  <2> QED BY <2>1, <2>2, <2>3
<1>17. num_tables' = Cardinality(Tables') /\ num_tables' \in Nat /\ (free_queue' # {} => num_tables' > 1)
  <2>1. num_tables = Cardinality(Tables) /\ num_tables \in Nat /\ (free_queue # {} => num_tables > 1)
    BY DEF HInv, TypeOK, CountsExact
  <2>2. Cardinality(Tables \cup {t0}) = Cardinality(Tables) + 1
    BY TablesFinite, FS_AddElement
  <2>3. num_tables' = num_tables + 1 /\ free_queue' = free_queue
    BY <1>0
  <2> QED BY <2>1, <2>2, <2>3, <1>3
<1>18. CountsExact'
  BY <1>16, <1>17 DEF CountsExact, Holders
<1> QED BY <1>0, <1>3, <1>4, <1>9, <1>11, <1>12, <1>13, <1>17, <1>18 DEF Published

\* What a replacement by the parts needs, and what it is.
Replacing(t0, parts, new, chunks, i, keep) ==
    /\ i \in DOMAIN table[cur] /\ keep \in BOOLEAN
    /\ Blocks(new, Len(parts)) /\ Layout(chunks, new, i, keep)
    /\ PartsOK(parts, IF keep THEN LiveOf(i) ELSE Live)
    /\ keep => Between(parts, i)
    /\ Published(t0, parts, new, chunks)

LEMMA LiveObj ==
    ASSUME HInv, NEW x \in Live
    PROVE  x \in Obj /\ x \in Objs /\ obj[x] = "ji" /\ End(x) \in Nat /\ InTable(x, cur)
<1>1. cur # NULL /\ InTable(x, cur) /\ obj[x] # "tombstone"
  BY LiveFacts DEF LiveIs
<1>2. PICK i \in DOMAIN table[cur] : InChunk(x, CurChunk(i))
  BY <1>1 DEF InTable, CurChunk
<1>3. CurChunk(i) \in Chunks
  BY <1>1, CurFacts
<1>4. x \in Objs
  BY <1>2, <1>3 DEF InChunk, HInv, ElemInv
<1>5. x \in Obj /\ obj[x] # NULL
  BY <1>4 DEF Objs
<1>6. obj[x] = "ji"
  BY <1>1, <1>5 DEF HInv, TypeOK
<1> QED BY <1>1, <1>4, <1>5, <1>6, ObjFacts

LEMMA FreshFacts ==
    ASSUME HInv, cur # NULL, NEW t0, NEW parts, NEW new, NEW chunks, NEW i, NEW keep,
           Replacing(t0, parts, new, chunks, i, keep)
    PROVE  /\ \A k \in DOMAIN new, j \in Index : j < parts[k].num_elements =>
                /\ parts[k].data[j] \in Live
                /\ keep => InChunk(parts[k].data[j], CurChunk(i))
           /\ \A c \in Chunks : \A o : InChunk(o, c)' <=> InChunk(o, c)
           /\ \A k \in DOMAIN new : \A o : InChunk(o, new[k])' => o \in Live /\ (keep => InChunk(o, CurChunk(i)))
           /\ \A o \in Live : ~keep \/ InChunk(o, CurChunk(i)) => \E k \in DOMAIN new : InChunk(o, new[k])'
           /\ DOMAIN new = DOMAIN parts
<1>1. DOMAIN new = DOMAIN parts
  BY DEF Replacing, Blocks, PartsOK
<1>2. PICK S : S = IF keep THEN LiveOf(i) ELSE Live
  OBVIOUS
<1>3. S \subseteq Live /\ (keep => \A x \in S : InChunk(x, CurChunk(i)))
  BY <1>2 DEF LiveOf
<1>4. PartsOK(parts, S)
  BY <1>2 DEF Replacing
<1>5. \A k \in DOMAIN new, j \in Index : j < parts[k].num_elements => parts[k].data[j] \in S
  BY <1>1, <1>4 DEF PartsOK
<1>6. /\ \A c \in Chunks : Num(c)' = Num(c) /\ \A j : Data(c, j)' = Data(c, j)
      /\ \A k \in DOMAIN new : /\ Num(new[k])' = parts[k].num_elements
                               /\ \A j : Data(new[k], j)' = parts[k].data[j]
  BY DEF Replacing, Published
<1>7. \A c \in Chunks : \A o : InChunk(o, c)' <=> InChunk(o, c)
  BY <1>6 DEF InChunk
<1>8. \A k \in DOMAIN new : \A o : InChunk(o, new[k])' <=>
         \E j \in Index : j < parts[k].num_elements /\ parts[k].data[j] = o
  BY <1>6 DEF InChunk
<1>9. \A k \in DOMAIN new : \A o : InChunk(o, new[k])' => o \in S
  BY <1>5, <1>8
<1>10. \A o \in S : \E k \in DOMAIN new : InChunk(o, new[k])'
  <2> SUFFICES ASSUME NEW o \in S PROVE \E k \in DOMAIN new : InChunk(o, new[k])'
    OBVIOUS
  <2>1. PICK k \in DOMAIN parts, j \in Index : j < parts[k].num_elements /\ parts[k].data[j] = o
    BY <1>4 DEF PartsOK
  <2> QED BY <2>1, <1>1, <1>8
<1>11. \A o \in Live : ~keep \/ InChunk(o, CurChunk(i)) => o \in S
  BY <1>2 DEF LiveOf, Replacing
<1> QED BY <1>1, <1>3, <1>5, <1>7, <1>9, <1>10, <1>11

LEMMA ReplacedLive ==
    ASSUME HInv, cur # NULL, NEW t0, NEW parts, NEW new, NEW chunks, NEW i, NEW keep,
           Replacing(t0, parts, new, chunks, i, keep), obj' = obj
    PROVE  /\ Live' = Live
           /\ \A t \in Tables : \A o : InTable(o, t)' <=> InTable(o, t)
           /\ \A o : InTable(o, t0)' => InTable(o, cur)
           /\ \A o : InTable(o, cur)' => InTable(o, cur)
<1>0. /\ Tables' = Tables \cup {t0} /\ table'[t0] = chunks /\ \A t \in Tables : table'[t] = table[t]
      /\ cur' = t0
  BY DEF Replacing, Published
<1>1. \A t \in Tables : \A o : InTable(o, t)' <=> InTable(o, t)
  <2> SUFFICES ASSUME NEW t \in Tables, NEW o PROVE InTable(o, t)' <=> InTable(o, t)
    OBVIOUS
  <2>1. \A a \in DOMAIN table[t] : table[t][a] \in Chunks
    BY DEF HInv, StructInv
  <2>2. \A c \in Chunks : InChunk(o, c)' <=> InChunk(o, c)
    BY FreshFacts
  <2>3. InTable(o, t)' <=> \E a \in DOMAIN table[t] : InChunk(o, table[t][a])'
    BY <1>0 DEF InTable
  <2>4. \A a \in DOMAIN table[t] : InChunk(o, table[t][a])' <=> InChunk(o, table[t][a])
    <3> SUFFICES ASSUME NEW a \in DOMAIN table[t] PROVE InChunk(o, table[t][a])' <=> InChunk(o, table[t][a])
      OBVIOUS
    <3>1. PICK c : c = table[t][a]
      OBVIOUS
    <3>2. c \in Chunks /\ table'[t][a] = c
      BY <3>1, <2>1, <1>0
    <3> QED BY <3>1, <3>2, <2>2
  <2> QED BY <2>3, <2>4 DEF InTable
<1>2. \A o : InTable(o, t0)' <=> \E a \in DOMAIN chunks : InChunk(o, chunks[a])'
  BY <1>0 DEF InTable
<1>3. \A p \in DOMAIN table[cur] : CurChunk(p) \in Chunks
  BY CurFacts
<1>4. ASSUME NEW o, NEW p \in DOMAIN table[cur], NEW c, c = CurChunk(p)
      PROVE  /\ InChunk(o, c)' <=> InChunk(o, c)
             /\ InChunk(o, c) => InTable(o, cur)
  <2>1. c \in Chunks
    BY <1>3, <1>4
  <2>2. InChunk(o, c)' <=> InChunk(o, c)
    BY <2>1, FreshFacts
  <2> QED BY <2>2, <1>4 DEF InTable, CurChunk
<1>5. ASSUME NEW o, InTable(o, t0)' PROVE InTable(o, cur)
  <2>1. PICK a \in DOMAIN chunks : InChunk(o, chunks[a])'
    BY <1>2, <1>5
  <2>2. CASE \E k \in DOMAIN new : chunks[a] = new[k]
    <3>1. o \in Live
      BY <2>1, <2>2, FreshFacts
    <3> QED BY <3>1, LiveObj
  <2>3. CASE \E p \in DOMAIN table[cur] : p # i /\ chunks[a] = CurChunk(p)
    BY <2>1, <2>3, <1>4
  <2> QED BY <2>2, <2>3 DEF Replacing, Layout
<1>6. ASSUME NEW o \in Live PROVE InTable(o, t0)'
  <2>1. CASE \E k \in DOMAIN new : InChunk(o, new[k])'
    <3>1. PICK k \in DOMAIN new : InChunk(o, new[k])'
      BY <2>1
    <3>2. PICK a \in DOMAIN chunks : chunks[a] = new[k]
      BY DEF Replacing, Layout
    <3>3. InChunk(o, chunks[a])'
      BY <3>1, <3>2
    <3> QED BY <3>3, <1>2
  <2>2. CASE ~\E k \in DOMAIN new : InChunk(o, new[k])'
    <3>1. keep /\ ~InChunk(o, CurChunk(i))
      BY <2>2, FreshFacts DEF Replacing
    <3>2. PICK p \in DOMAIN table[cur] : InChunk(o, CurChunk(p))
      BY LiveObj DEF InTable, CurChunk
    <3>3. p # i
      BY <3>1, <3>2
    <3>4. PICK a \in DOMAIN chunks : chunks[a] = CurChunk(p)
      BY <3>1, <3>3 DEF Replacing, Layout
    <3>5. PICK c : c = CurChunk(p)
      OBVIOUS
    <3>6. InChunk(o, c)'
      BY <3>2, <3>5, <1>4
    <3>7. InChunk(o, chunks[a])'
      BY <3>4, <3>5, <3>6
    <3> QED BY <3>7, <1>2
  <2> QED BY <2>1, <2>2
<1>7. t0 # NULL
  BY NullFacts DEF Replacing, Published
<1>8. \A o : InTable(o, cur)' <=> InTable(o, t0)'
  BY <1>0
<1>9. \A o : o \in Live' <=> InTable(o, t0)' /\ obj[o] # "tombstone"
  BY <1>0, <1>7, <1>8, LiveFactsP DEF LiveIs
<1>10. \A o : o \in Live <=> InTable(o, cur) /\ obj[o] # "tombstone"
  BY LiveFacts DEF LiveIs
<1>11. Live' = Live
  BY <1>5, <1>6, <1>9, <1>10
<1> QED BY <1>1, <1>5, <1>8, <1>11

LEMMA ReplacedOrder ==
    ASSUME HInv, cur # NULL, NEW t0, NEW parts, NEW new, NEW chunks, NEW i, NEW keep,
           Replacing(t0, parts, new, chunks, i, keep), obj' = obj,
           writer.chunk = NULL, writer.pc # "shift"
    PROVE  StructInv' /\ ElemInv' /\ OrderInv' /\ UniqInv'
<1>0. /\ Tables' = Tables \cup {t0} /\ table'[t0] = chunks /\ \A t \in Tables : table'[t] = table[t]
      /\ cur' = t0 /\ t0 \in Table
      /\ Chunks' = Chunks \cup {new[k] : k \in DOMAIN new}
      /\ \A c \in Chunks : Num(c)' = Num(c) /\ Last(c)' = Last(c) /\ \A j : Data(c, j)' = Data(c, j)
      /\ \A k \in DOMAIN new : /\ Num(new[k])' = parts[k].num_elements
                               /\ Last(new[k])' = parts[k].last_code_end
                               /\ \A j : Data(new[k], j)' = parts[k].data[j]
  BY DEF Replacing, Published
<1>1. /\ chunks \in Seq(Chunk) /\ Len(chunks) >= 1 /\ keep \in BOOLEAN /\ i \in DOMAIN table[cur]
      /\ \A a \in DOMAIN chunks :
         \/ \E k \in DOMAIN new : chunks[a] = new[k]
         \/ keep /\ \E p \in DOMAIN table[cur] : p # i /\ chunks[a] = CurChunk(p)
      /\ \A a, b \in DOMAIN chunks : chunks[a] = chunks[b] => a = b
  BY DEF Replacing, Layout
<1>2. \A a, b \in DOMAIN chunks : a < b =>
         /\ \A k, m \in DOMAIN new : chunks[a] = new[k] /\ chunks[b] = new[m] => k < m
         /\ \A p, q \in DOMAIN table[cur] : chunks[a] = CurChunk(p) /\ chunks[b] = CurChunk(q) => p < q
         /\ \A k \in DOMAIN new, p \in DOMAIN table[cur] : chunks[a] = new[k] /\ chunks[b] = CurChunk(p) => i < p
         /\ \A k \in DOMAIN new, p \in DOMAIN table[cur] : chunks[a] = CurChunk(p) /\ chunks[b] = new[k] => p < i
  BY DEF Replacing, Layout
<1>3. /\ \A p \in DOMAIN table[cur] : CurChunk(p) \in Chunks /\ CurChunk(p) # NULL /\ Last(CurChunk(p)) \in Nat
      /\ \A p \in DOMAIN table[cur], j \in Index : j < Num(CurChunk(p)) => End(Data(CurChunk(p), j)) \in Nat
      /\ DOMAIN table[cur] = 1..Len(table[cur])
  BY CurFacts
<1>4. /\ \A k \in DOMAIN new, j \in Index : j < parts[k].num_elements =>
           parts[k].data[j] \in Live /\ (keep => InChunk(parts[k].data[j], CurChunk(i)))
      /\ DOMAIN new = DOMAIN parts
  BY FreshFacts
<1>5. PICK S : PartsOK(parts, S)
  BY DEF Replacing
<1>6. /\ \A k \in DOMAIN new : parts[k].last_code_end \in Nat
      /\ \A k \in DOMAIN new, j \in Index : j < parts[k].num_elements =>
           End(parts[k].data[j]) <= parts[k].last_code_end
      /\ \A k \in DOMAIN new : \A j, l \in Index : j <= l /\ l < parts[k].num_elements =>
           End(parts[k].data[j]) <= End(parts[k].data[l])
      /\ \A k, m \in DOMAIN new : k < m =>
           /\ parts[k].last_code_end <= parts[m].last_code_end
           /\ \A j \in Index : j < parts[m].num_elements =>
              parts[k].last_code_end <= End(parts[m].data[j])
      /\ \A k, m \in DOMAIN new : \A j, l \in Index :
           /\ j < parts[k].num_elements /\ l < parts[m].num_elements
           /\ parts[k].data[j] = parts[m].data[l]
           => k = m /\ j = l
  <2>1. \A k \in DOMAIN parts : parts[k] \in ChunkRecord
    BY <1>5 DEF PartsOK
  <2>2. \A k \in DOMAIN new : parts[k].last_code_end \in Nat
    BY <2>1, <1>4 DEF ChunkRecord
  <2> QED BY <2>2, <1>4, <1>5 DEF PartsOK
<1> DEFINE n(a) == Num(chunks[a])'
           l(a) == Last(chunks[a])'
           e(a, j) == Data(chunks[a], j)'
<1>7. \A a \in DOMAIN chunks, k \in DOMAIN new : chunks[a] = new[k] =>
         n(a) = parts[k].num_elements /\ l(a) = parts[k].last_code_end /\ \A j : e(a, j) = parts[k].data[j]
  BY <1>0
<1>8. \A a \in DOMAIN chunks, p \in DOMAIN table[cur] : chunks[a] = CurChunk(p) =>
         n(a) = Num(CurChunk(p)) /\ l(a) = Last(CurChunk(p)) /\ \A j : e(a, j) = Data(CurChunk(p), j)
  <2> SUFFICES ASSUME NEW a \in DOMAIN chunks, NEW p \in DOMAIN table[cur], chunks[a] = CurChunk(p)
               PROVE  n(a) = Num(CurChunk(p)) /\ l(a) = Last(CurChunk(p)) /\ \A j : e(a, j) = Data(CurChunk(p), j)
    OBVIOUS
  <2>1. PICK c : c = chunks[a]
    OBVIOUS
  <2>2. c \in Chunks /\ c = CurChunk(p)
    BY <2>1, <1>3
  <2>3. Num(c)' = Num(c) /\ Last(c)' = Last(c) /\ \A j : Data(c, j)' = Data(c, j)
    BY <2>2, <1>0
  <2> QED BY <2>1, <2>2, <2>3
<1>9. /\ DOMAIN table'[cur'] = DOMAIN chunks /\ \A a : CurChunk(a)' = chunks[a]
      /\ \A a : Num(CurChunk(a))' = n(a) /\ Last(CurChunk(a))' = l(a)
      /\ \A a, j : Data(CurChunk(a), j)' = e(a, j)
  <2>1. table'[cur'] = chunks
    BY <1>0
  <2>2. \A a : CurChunk(a)' = chunks[a]
    BY <2>1 DEF CurChunk
  <2> QED BY <2>1, <2>2
<1>10. \A a \in DOMAIN chunks : chunks[a] \in Chunks'
  BY <1>0, <1>1, <1>3
<1>11. StructInv'
  <2>1. \A t \in Tables' : /\ \A a \in DOMAIN table'[t] : table'[t][a] \in Chunks'
                           /\ \A a, b \in DOMAIN table'[t] : table'[t][a] = table'[t][b] => a = b
                           /\ Len(table'[t]) >= 1
    <3>1. \A t \in Tables : /\ \A a \in DOMAIN table[t] : table[t][a] \in Chunks
                            /\ \A a, b \in DOMAIN table[t] : table[t][a] = table[t][b] => a = b
                            /\ Len(table[t]) >= 1
      BY DEF HInv, StructInv
    <3> QED BY <3>1, <1>0, <1>1, <1>10
  <2>2. cur' # NULL /\ cur' \in Tables'
    BY <1>0, NullFacts
  <2> QED BY <2>1, <2>2 DEF StructInv
<1>12. ElemInv'
  <2>1. Objs' = Objs
    BY DEF Objs
  <2>2. \A c \in Chunks, j \in Index : j < Num(c)' => Data(c, j)' \in Objs
    BY <1>0 DEF HInv, ElemInv
  <2>3. \A k \in DOMAIN new, j \in Index : j < Num(new[k])' => Data(new[k], j)' \in Objs
    BY <1>0, <1>4, LiveObj
  <2> QED BY <2>1, <2>2, <2>3, <1>0 DEF ElemInv
<1>13. \A c \in Chunks' : \A j, m \in Index : j <= m /\ m < Num(c)' => End(Data(c, j)') <= End(Data(c, m)')
  <2>1. \A c \in Chunks : \A j, m \in Index : j <= m /\ m < Num(c)' => End(Data(c, j)') <= End(Data(c, m)')
    BY <1>0 DEF HInv, OrderInv
  <2>2. \A k \in DOMAIN new : \A j, m \in Index : j <= m /\ m < Num(new[k])' =>
          End(Data(new[k], j)') <= End(Data(new[k], m)')
    BY <1>0, <1>6
  <2> QED BY <2>1, <2>2, <1>0
<1> HIDE DEF n, l, e
<1>14. ASSUME NEW a \in DOMAIN chunks, NEW j \in Index, j < n(a) PROVE End(e(a, j)) <= l(a)
  <2>1. CASE \E k \in DOMAIN new : chunks[a] = new[k]
    BY <2>1, <1>6, <1>7, <1>14
  <2>2. CASE \E p \in DOMAIN table[cur] : chunks[a] = CurChunk(p)
    <3>1. PICK p \in DOMAIN table[cur] : chunks[a] = CurChunk(p)
      BY <2>2
    <3>2. j < Num(CurChunk(p)) => End(Data(CurChunk(p), j)) <= Last(CurChunk(p))
      BY <1>3 DEF HInv, OrderInv
    <3> QED BY <3>1, <3>2, <1>8, <1>14
  <2> QED BY <2>1, <2>2, <1>1
<1>15. ASSUME NEW a \in DOMAIN chunks, NEW b \in DOMAIN chunks, a < b
       PROVE  l(a) <= l(b) /\ \A j \in Index : j < n(b) => l(a) <= End(e(b, j))
  <2>1. ASSUME NEW k \in DOMAIN new, NEW m \in DOMAIN new, chunks[a] = new[k], chunks[b] = new[m]
        PROVE  l(a) <= l(b) /\ \A j \in Index : j < n(b) => l(a) <= End(e(b, j))
    <3>1. k < m
      BY <2>1, <1>2, <1>15
    <3> QED BY <2>1, <3>1, <1>6, <1>7
  <2>2. ASSUME NEW p \in DOMAIN table[cur], NEW q \in DOMAIN table[cur],
               chunks[a] = CurChunk(p), chunks[b] = CurChunk(q)
        PROVE  l(a) <= l(b) /\ \A j \in Index : j < n(b) => l(a) <= End(e(b, j))
    <3>1. p < q
      BY <2>2, <1>2, <1>15
    <3>2. Last(CurChunk(p)) <= Last(CurChunk(q))
          /\ \A j \in Index : j < Num(CurChunk(q)) => Last(CurChunk(p)) <= End(Data(CurChunk(q), j))
      BY <3>1 DEF HInv, OrderInv
    <3> QED BY <2>2, <3>2, <1>8
  <2>3. ASSUME NEW k \in DOMAIN new, NEW p \in DOMAIN table[cur], keep,
               chunks[a] = new[k], chunks[b] = CurChunk(p)
        PROVE  l(a) <= l(b) /\ \A j \in Index : j < n(b) => l(a) <= End(e(b, j))
    <3>1. i < p
      BY <2>3, <1>2, <1>15
    <3>2. Last(CurChunk(i)) <= Last(CurChunk(p))
          /\ \A j \in Index : j < Num(CurChunk(p)) => Last(CurChunk(i)) <= End(Data(CurChunk(p), j))
      BY <3>1, <1>1 DEF HInv, OrderInv
    <3>3. parts[k].last_code_end <= Last(CurChunk(i))
      BY <2>3, <1>4 DEF Replacing, Between
    <3>4. /\ parts[k].last_code_end \in Nat /\ Last(CurChunk(i)) \in Nat /\ Last(CurChunk(p)) \in Nat
          /\ \A j \in Index : j < Num(CurChunk(p)) => End(Data(CurChunk(p), j)) \in Nat
      BY <1>1, <1>3, <1>6
    <3>5. /\ parts[k].last_code_end <= Last(CurChunk(p))
          /\ \A j \in Index : j < Num(CurChunk(p)) => parts[k].last_code_end <= End(Data(CurChunk(p), j))
      BY <3>2, <3>3, <3>4
    <3> QED BY <2>3, <3>5, <1>7, <1>8
  <2>4. ASSUME NEW k \in DOMAIN new, NEW p \in DOMAIN table[cur], keep,
               chunks[b] = new[k], chunks[a] = CurChunk(p)
        PROVE  l(a) <= l(b) /\ \A j \in Index : j < n(b) => l(a) <= End(e(b, j))
    <3>1. p < i
      BY <2>4, <1>2, <1>15
    <3>2. \A j \in Index : j < Num(CurChunk(i)) => Last(CurChunk(p)) <= End(Data(CurChunk(i), j))
      BY <3>1, <1>1 DEF HInv, OrderInv
    <3>3. Last(CurChunk(p)) <= parts[k].last_code_end
      BY <2>4, <3>1, <1>4 DEF Replacing, Between
    <3>4. \A j \in Index : j < parts[k].num_elements => Last(CurChunk(p)) <= End(parts[k].data[j])
      BY <2>4, <3>2, <1>4 DEF InChunk
    <3> QED BY <2>4, <3>3, <3>4, <1>7, <1>8
  <2>5. /\ \/ \E k \in DOMAIN new : chunks[a] = new[k]
           \/ keep /\ \E p \in DOMAIN table[cur] : chunks[a] = CurChunk(p)
        /\ \/ \E k \in DOMAIN new : chunks[b] = new[k]
           \/ keep /\ \E p \in DOMAIN table[cur] : chunks[b] = CurChunk(p)
    BY <1>1
  <2> QED BY <2>1, <2>2, <2>3, <2>4, <2>5
<1>16. ASSUME NEW a \in DOMAIN chunks, NEW b \in DOMAIN chunks, NEW j \in Index, NEW m \in Index,
              j < n(a), m < n(b), e(a, j) = e(b, m)
       PROVE  a = b /\ j = m
  <2>0. \A p, q \in DOMAIN table[cur], u, v \in Index :
          /\ u < Num(CurChunk(p)) /\ v < Num(CurChunk(q))
          /\ Data(CurChunk(p), u) = Data(CurChunk(q), v)
          => p = q /\ u = v
    BY DEF HInv, UniqInv
  <2>1. ASSUME NEW k \in DOMAIN new, NEW q \in DOMAIN new, chunks[a] = new[k], chunks[b] = new[q]
        PROVE  a = b /\ j = m
    <3>1. k = q /\ j = m
      BY <2>1, <1>6, <1>7, <1>16
    <3> QED BY <2>1, <3>1, <1>1
  <2>2. ASSUME NEW p \in DOMAIN table[cur], NEW q \in DOMAIN table[cur],
               chunks[a] = CurChunk(p), chunks[b] = CurChunk(q)
        PROVE  a = b /\ j = m
    <3>1. p = q /\ j = m
      BY <2>0, <2>2, <1>8, <1>16
    <3> QED BY <2>2, <3>1, <1>1
  <2>3. ASSUME NEW k \in DOMAIN new, NEW p \in DOMAIN table[cur], keep, p # i, NEW u \in Index, NEW v \in Index,
               u < parts[k].num_elements, v < Num(CurChunk(p)), parts[k].data[u] = Data(CurChunk(p), v)
        PROVE  FALSE
    <3>1. InChunk(parts[k].data[u], CurChunk(i))
      BY <2>3, <1>4
    <3>2. PICK w \in Index : w < Num(CurChunk(i)) /\ Data(CurChunk(i), w) = parts[k].data[u]
      BY <3>1 DEF InChunk
    <3> QED BY <3>2, <2>0, <2>3, <1>1
  <2>4. ASSUME NEW k \in DOMAIN new, NEW p \in DOMAIN table[cur], keep, p # i,
               chunks[a] = new[k], chunks[b] = CurChunk(p)
        PROVE  a = b /\ j = m
    BY <2>3, <2>4, <1>7, <1>8, <1>16
  <2>5. ASSUME NEW k \in DOMAIN new, NEW p \in DOMAIN table[cur], keep, p # i,
               chunks[b] = new[k], chunks[a] = CurChunk(p)
        PROVE  a = b /\ j = m
    BY <2>3, <2>5, <1>7, <1>8, <1>16
  <2>6. /\ \/ \E k \in DOMAIN new : chunks[a] = new[k]
           \/ keep /\ \E p \in DOMAIN table[cur] : p # i /\ chunks[a] = CurChunk(p)
        /\ \/ \E k \in DOMAIN new : chunks[b] = new[k]
           \/ keep /\ \E p \in DOMAIN table[cur] : p # i /\ chunks[b] = CurChunk(p)
    BY <1>1
  <2> QED BY <2>1, <2>2, <2>4, <2>5, <2>6
<1>17. OrderInv'
  BY <1>9, <1>13, <1>14, <1>15 DEF OrderInv
<1>18. UniqInv'
  BY <1>9, <1>16 DEF UniqInv
<1> QED BY <1>11, <1>12, <1>17, <1>18

LEMMA OverflowFacts ==
    ASSUME HInv, Overflow
    PROVE  \E t0, parts, new, chunks, i, keep :
             Replacing(t0, parts, new, chunks, i, keep) /\ failure' = failure
<1>0. writer.pc = "search" /\ free_queue' = free_queue
  BY DEF Overflow, WriterAt
<1>1. /\ cur # NULL /\ writer.ji \in Obj /\ End(writer.ji) \in Nat
  BY <1>0, AddingFacts
<1>2. writer.chunk = NULL /\ writer.pc # "shift"
  BY <1>0 DEF HInv, PlaceInv, Storing
<1>3. PICK i, parts, new, t0, chunks, keep :
         /\ i = Target(writer.ji) /\ parts = jit_info_table_chunk_overflow(i)
         /\ Allocations(Len(parts)) # {}
         /\ new = CHOOSE f \in Allocations(Len(parts)) : TRUE
         /\ t0 = CHOOSE t \in Table : table[t] = NULL
         /\ chunks = IF Rebuild THEN new ELSE CopyBut(i, new)
         /\ keep = ~Rebuild
         /\ Publish(t0, parts, new, chunks)
         /\ \E t \in Table : table[t] = NULL
         /\ failure' = IF Rebuild /\ ~ReallocAsserts(num_elements)
                        THEN "jit_info_table_realloc"
                        ELSE IF parts = <<>> THEN "jit_info_table_index" ELSE failure
  BY DEF Overflow
<1>4. i \in DOMAIN table[cur]
  BY <1>1, <1>3, IndexFacts DEF Target, HInv
<1>5. t0 \in Table /\ t0 \notin Tables
  BY <1>3 DEF Tables
<1>6. /\ Rebuild => PartsOK(parts, Live) /\ ReallocAsserts(num_elements)
      /\ ~Rebuild => PartsOK(parts, LiveOf(i)) /\ Between(parts, i)
  BY <1>1, <1>2, <1>3, <1>4, OverflowParts
<1>7. keep \in BOOLEAN
  BY <1>3
<1>8. PartsOK(parts, IF keep THEN LiveOf(i) ELSE Live) /\ (keep => Between(parts, i))
  BY <1>3, <1>6
<1>9. PICK n : n = Len(parts)
  OBVIOUS
<1>10. n \in Nat /\ n >= 1 /\ parts # <<>>
  BY <1>8, <1>9 DEF PartsOK
<1>11. new \in Allocations(n)
  BY <1>3, <1>9
<1>12. Blocks(new, n)
  BY <1>10, <1>11, BlocksFacts
<1>13. Layout(chunks, new, i, keep)
  <2>1. CASE Rebuild
    <3>1. Layout(new, new, i, FALSE)
      BY <1>1, <1>10, <1>12, RebuildLayout
    <3> QED BY <2>1, <3>1, <1>3
  <2>2. CASE ~Rebuild
    <3>1. Layout(CopyBut(i, new), new, i, TRUE)
      BY <1>1, <1>4, <1>10, <1>12, CopyLayout
    <3> QED BY <2>2, <3>1, <1>3
  <2> QED BY <2>1, <2>2
<1>14. Published(t0, parts, new, chunks)
  <2>1. Publish(t0, parts, new, chunks) /\ Blocks(new, Len(parts))
    BY <1>3, <1>9, <1>12
  <2>2. PICK S : PartsOK(parts, S)
    BY <1>8
  <2> QED BY <2>1, <2>2, <1>0, <1>1, <1>5, <1>13, PublishFacts
<1>15. failure' = failure
  BY <1>3, <1>6, <1>10
<1>16. Replacing(t0, parts, new, chunks, i, keep)
  BY <1>4, <1>7, <1>8, <1>9, <1>12, <1>13, <1>14 DEF Replacing
<1> QED BY <1>15, <1>16

LEMMA OverflowStep ==
    ASSUME HInv, Overflow
    PROVE  HInv'
<1>0. /\ writer.pc = "search" /\ writer' = [writer EXCEPT !.pc = "try", !.item = <<"table", cur>>, !.idx = 2]
      /\ obj' = obj /\ free_queue' = free_queue /\ delayed' = delayed /\ foreign' = foreign
      /\ reader' = reader /\ expected' = expected /\ allowed' = allowed
  BY DEF Overflow, WriterAt
<1>1. PICK t0, parts, new, chunks, i, keep :
        Replacing(t0, parts, new, chunks, i, keep) /\ failure' = failure
  BY OverflowFacts
<1>2. /\ Adding /\ writer.ji \in Obj /\ obj[writer.ji] = "ji" /\ writer.item = NULL
      /\ cur # NULL /\ cur \in Tables /\ cur \in Table
  BY <1>0, AddingFacts DEF Tables
<1>3. writer.chunk = NULL /\ writer.pc # "shift"
  BY <1>0 DEF HInv, PlaceInv, Storing
<1>4. PICK old, ji : old = cur /\ ji = writer.ji
  OBVIOUS
<1>5. /\ <<"table", old>> \in Item /\ <<"table", old>> # NULL /\ <<"table", old>>[1] = "table"
      /\ <<"table", old>>[1] # "ji" /\ <<"table", old>>[2] = old
      /\ \A o \in Obj : <<"ji", o>> \in Item /\ <<"ji", o>> # <<"table", old>> /\ <<"ji", o>> # NULL
      /\ \A t \in Table : <<"table", t>> \in Item /\ (<<"table", t>> = <<"table", old>> <=> t = old)
  <2>1. /\ \A o \in Obj : <<"ji", o>> \in Item /\ <<"ji", o>> # <<"table", old>>
        /\ \A t \in Table : <<"table", t>> \in Item /\ (<<"table", t>> = <<"table", old>> <=> t = old)
    BY DEF Item
  <2> QED BY <2>1, <1>2, <1>4, NullFacts
<1>6. /\ writer'.pc = "try" /\ writer'.ji = ji /\ writer'.chunk = NULL
      /\ writer'.item = <<"table", old>> /\ writer'.idx = 2 /\ writer' \in WriterRecord
  <2>1. writer \in WriterRecord
    BY DEF HInv, TypeOK
  <2>2. PICK item : item = <<"table", old>>
    OBVIOUS
  <2>3. item \in Item /\ writer' = [writer EXCEPT !.pc = "try", !.item = item, !.idx = 2]
    BY <2>2, <1>0, <1>4, <1>5
  <2>a. 2 \in Int /\ "try" \in {"idle", "search", "try", "own", "count", "shift", "seal", "removed", "free_all"}
    OBVIOUS
  <2>4. writer' \in WriterRecord
    BY <2>1, <2>3, <2>a DEF WriterRecord
  <2>5. writer'.pc = "try" /\ writer'.ji = writer.ji
        /\ writer'.chunk = writer.chunk /\ writer'.item = item /\ writer'.idx = 2
    BY <2>1, <2>3 DEF WriterRecord
  <2> QED BY <2>2, <2>4, <2>5, <1>3, <1>4
<1>7. /\ Live' = Live
      /\ \A t \in Tables : \A o : InTable(o, t)' <=> InTable(o, t)
      /\ \A o : InTable(o, cur)' => InTable(o, cur)
  BY <1>0, <1>1, <1>2, ReplacedLive
<1>8. StructInv' /\ ElemInv' /\ OrderInv' /\ UniqInv'
  BY <1>0, <1>1, <1>2, <1>3, ReplacedOrder
<1>9. /\ t0 \in Table /\ t0 \notin Tables /\ cur' = t0 /\ Tables' = Tables \cup {t0}
      /\ Chunks' = Chunks \cup {new[k] : k \in DOMAIN new}
      /\ CountsExact'
      /\ chunk' \in [Chunk -> ChunkRecord \cup {NULL}]
      /\ table' \in [Table -> Seq(Chunk) \cup {NULL}]
      /\ num_tables' \in Nat
  BY <1>1 DEF Replacing, Published
<1>10. /\ \A c \in Chunks : \A o : InChunk(o, c)' <=> InChunk(o, c)
       /\ \A k \in DOMAIN new : \A o : InChunk(o, new[k])' => o \in Live
  BY <1>1, <1>2, FreshFacts
<1>11. \A c \in Chunks' : \A o : InChunk(o, c)' => o \in Live \/ (c \in Chunks /\ InChunk(o, c))
  BY <1>9, <1>10
<1>12. TypeOK'
  BY <1>0, <1>1, <1>6, <1>9 DEF HInv, TypeOK
<1>13. PlaceInv' /\ CountInv' /\ ShiftInv' /\ SealInv'
  BY <1>6 DEF PlaceInv, CountInv, ShiftInv, SealInv, Storing
<1>14. LiveInv'
  BY <1>7, <1>2 DEF HInv, LiveInv
<1>15. \A o \in Live : o \in Obj /\ obj[o] = "ji" /\ \E c \in Chunks : InChunk(o, c)
  <2> SUFFICES ASSUME NEW o \in Live PROVE o \in Obj /\ obj[o] = "ji" /\ \E c \in Chunks : InChunk(o, c)
    OBVIOUS
  <2>1. o \in Obj /\ obj[o] = "ji" /\ InTable(o, cur)
    BY LiveObj
  <2>2. PICK p \in DOMAIN table[cur] : InChunk(o, CurChunk(p))
    BY <2>1 DEF InTable, CurChunk
  <2>3. CurChunk(p) \in Chunks
    BY <1>2, CurFacts
  <2> QED BY <2>1, <2>2, <2>3
<1>16. \A o \in Obj : (\A c \in Chunks : ~InChunk(o, c)) => \A c \in Chunks' : ~InChunk(o, c)'
  BY <1>11, <1>15
<1>17. ji \in Obj /\ \A c \in Chunks' : ~InChunk(ji, c)'
  <2>1. \A c \in Chunks : ~InChunk(ji, c)
    BY <1>0, <1>2, <1>4 DEF HInv, WriterInv
  <2> QED BY <2>1, <1>2, <1>4, <1>16
<1>18. Adding'
  BY <1>5, <1>6 DEF Adding
<1>19. WriterInv'
  <2>1. \A o \in Live' : o = writer'.ji \/ Apart(o, writer'.ji)
    BY <1>2, <1>4, <1>6, <1>7 DEF HInv, WriterInv
  <2>2. \A c \in Chunks' : ~InChunk(writer.ji, c)'
    BY <1>6, <1>17
  <2>3. writer'.item # NULL /\ writer'.item[1] # "ji"
    BY <1>5, <1>6
  <2>4. writer'.ji \in Obj /\ obj'[writer'.ji] = "ji"
    BY <1>0, <1>2, <1>4, <1>6
  <2>5. cur' # NULL
    BY <1>9, NullFacts
  <2> QED BY <2>1, <2>2, <2>3, <2>4, <2>5, <1>6 DEF WriterInv
<1>20. \A x \in Item : Pending(x)' <=> Pending(x) \/ x = <<"table", old>>
  BY <1>0, <1>2, <1>6, NullFacts DEF Pending
<1>21. ~Pending(<<"table", old>>)
  BY <1>2, <1>4 DEF HInv, PendInv
<1>22. PendInv'
  <2>1. \A k, m \in DOMAIN delayed' : delayed'[k] = delayed'[m] => k = m
    BY <1>0 DEF HInv, PendInv
  <2>2. \A k \in DOMAIN delayed' : delayed'[k] # foreign' /\ delayed'[k] # writer'.item
    BY <1>0, <1>6, <1>21 DEF HInv, PendInv, Pending
  <2>3. foreign' # writer'.item
    BY <1>0, <1>6, <1>21 DEF Pending
  <2>4. \A t \in Table : Pending(<<"table", t>>)' <=> t \in Tables' /\ t # cur'
    <3> SUFFICES ASSUME NEW t \in Table PROVE Pending(<<"table", t>>)' <=> t \in Tables' /\ t # cur'
      OBVIOUS
    <3>1. Pending(<<"table", t>>) <=> t \in Tables /\ t # old
      BY <1>4 DEF HInv, PendInv
    <3>2. Pending(<<"table", t>>)' <=> Pending(<<"table", t>>) \/ t = old
      BY <1>5, <1>20
    <3> QED BY <3>1, <3>2, <1>2, <1>4, <1>9
  <2>5. \A o \in Obj : Pending(<<"ji", o>>)' =>
          /\ obj'[o] = "ji" /\ o \notin free_queue'
          /\ \A c \in Chunks' : ~InChunk(o, c)'
          /\ o # writer'.ji
    <3> SUFFICES ASSUME NEW o \in Obj, Pending(<<"ji", o>>)'
                 PROVE  /\ obj'[o] = "ji" /\ o \notin free_queue'
                        /\ \A c \in Chunks' : ~InChunk(o, c)'
                        /\ o # writer'.ji
      OBVIOUS
    <3>1. Pending(<<"ji", o>>)
      BY <1>5, <1>20
    <3>2. /\ obj[o] = "ji" /\ o \notin free_queue /\ \A c \in Chunks : ~InChunk(o, c)
          /\ o = writer.ji => writer.item = <<"ji", o>>
      BY <3>1 DEF HInv, PendInv
    <3> QED BY <3>2, <1>0, <1>2, <1>4, <1>5, <1>6, <1>16
  <2> QED BY <2>1, <2>2, <2>3, <2>4, <2>5 DEF PendInv
<1>23. QueueInv'
  <2> SUFFICES ASSUME NEW o \in free_queue
               PROVE  /\ obj'[o] = "ji" /\ o # writer'.ji /\ ~InTable(o, cur)' /\ ~InTable(o, writer.item[2])'
    BY <1>0 DEF QueueInv
  <2>1. obj[o] = "ji" /\ o # ji /\ ~InTable(o, old)
    BY <1>2, <1>4 DEF HInv, QueueInv
  <2>2. ~InTable(o, old)' /\ ~InTable(o, cur)'
    BY <2>1, <1>2, <1>4, <1>7
  <2>3. writer'.item[2] = old
    BY <1>5, <1>6
  <2> QED BY <2>1, <2>2, <2>3, <1>0, <1>6
<1>24. ObjInv'
  <2>1. ASSUME NEW o \in Obj, obj'[o] = "ji"
        PROVE  o \in Live' \/ (o = writer'.ji /\ Adding') \/ Pending(<<"ji", o>>)' \/ o \in free_queue'
    <3>1. \/ o \in Live \/ o = writer.ji \/ Pending(<<"ji", o>>) \/ o \in free_queue
      BY <2>1, <1>0, <1>2 DEF HInv, ObjInv
    <3> QED BY <3>1, <1>0, <1>4, <1>5, <1>6, <1>7, <1>18, <1>20
  <2>2. ASSUME NEW o \in Obj, obj'[o] = "tombstone"
        PROVE  /\ \E c \in Chunks' : InChunk(o, c)'
               /\ \A c, d \in Chunks' : InChunk(o, c)' /\ InChunk(o, d)' => c = d
    <3>1. o \notin Live
      BY <2>2, <1>0, <1>15
    <3>2. /\ \E c \in Chunks : InChunk(o, c)
          /\ \A c, d \in Chunks : InChunk(o, c) /\ InChunk(o, d) => c = d
      BY <2>2, <1>0 DEF HInv, ObjInv
    <3> QED BY <3>1, <3>2, <1>9, <1>10, <1>11
  <2> QED BY <2>1, <2>2 DEF ObjInv
<1>25. FailInv'
  BY <1>1 DEF HInv, FailInv
<1> QED BY <1>8, <1>9, <1>12, <1>13, <1>14, <1>19, <1>22, <1>23, <1>24, <1>25 DEF HInv

-----------------------------------------------------------------------------
(***************************************************************************)
(* The initial state.                                                      *)
(***************************************************************************)
LEMMA InitialFacts ==
    /\ Cardinality(Initial) \in 1..CHUNK_SIZE
    /\ \A o \in InitialObj : o \in Obj /\ <<Start(o), End(o)>> \in Initial
    /\ \A x, y \in InitialObj : x = y \/ Apart(x, y)
    /\ \E o \in InitialObj : <<Start(o), End(o)>> \notin Dynamic
<1>1. IsFiniteSet(Initial) /\ Cardinality(Initial) <= CHUNK_SIZE /\ Initial # {} /\ Initial \subseteq Region
  BY RegionAssumption
<1>2. Cardinality(Initial) \in Nat /\ Cardinality(Initial) # 0
  BY <1>1, FS_CardinalityType, FS_EmptySet
<1>3. 1 \in 1..Copies
  BY SizeAssumption
<1>4. \A o \in InitialObj : \E x \in Initial : o = <<x[1], x[2], 1>>
  BY DEF InitialObj
<1>5. \A x \in Initial : x = <<x[1], x[2]>>
  BY <1>1, RegionAssumption
<1>6. \A x \in Initial : /\ <<x[1], x[2], 1>> \in Obj
                         /\ <<Start(<<x[1], x[2], 1>>), End(<<x[1], x[2], 1>>)>> = x
  BY <1>1, <1>3, <1>5 DEF Obj, Start, End
<1>7. \A o \in InitialObj : o \in Obj /\ <<Start(o), End(o)>> \in Initial
  BY <1>4, <1>6
<1>8. ASSUME NEW x \in InitialObj, NEW y \in InitialObj PROVE x = y \/ Apart(x, y)
  <2>1. PICK a \in Initial : x = <<a[1], a[2], 1>>
    BY <1>4
  <2>2. PICK b \in Initial : y = <<b[1], b[2], 1>>
    BY <1>4
  <2>3. a = b \/ Apart(a, b)
    BY RegionAssumption
  <2> QED BY <2>1, <2>2, <2>3 DEF Apart
<1>9. PICK a \in Initial : a \notin Dynamic
  BY RegionAssumption
<1>10. <<a[1], a[2], 1>> \in InitialObj
  BY DEF InitialObj
<1>11. \E o \in InitialObj : <<Start(o), End(o)>> \notin Dynamic
  BY <1>6, <1>9, <1>10
<1>12. Cardinality(Initial) \in 1..CHUNK_SIZE
  BY <1>1, <1>2, SizeFacts
<1> QED BY <1>7, <1>8, <1>11, <1>12

LEMMA InitChunk ==
    ASSUME Init
    PROVE  \E s, n :
             /\ n \in 1..CHUNK_SIZE /\ Len(s) = n /\ DOMAIN s = 1..n
             /\ \A j \in 1..n : s[j] \in InitialObj
             /\ \A o \in InitialObj : \E j \in 1..n : s[j] = o
             /\ \A j, k \in 1..n : j < k => End(s[j]) < End(s[k])
             /\ chunk \in [Chunk -> ChunkRecord \cup {NULL}] /\ Chunks = {1} /\ 1 \in Chunk
             /\ Ref(1) = 1 /\ Num(1) = n /\ Last(1) = End(s[n])
             /\ \A j \in Index : j < n => Data(1, j) = s[j + 1]
<1>1. PICK s \in Ascending : chunk = [c \in Chunk |-> IF c = 1 THEN ChunkOf(s, EndOf(s)) ELSE NULL]
  BY DEF Init
<1>2. PICK n : n = Cardinality(Initial)
  OBVIOUS
<1>3. n \in 1..CHUNK_SIZE /\ n \in Nat /\ n \in 0..CHUNK_SIZE
  BY <1>2, InitialFacts, SizeFacts
<1>4. /\ s \in [1..n -> InitialObj]
      /\ \A o \in InitialObj : \E j \in DOMAIN s : s[j] = o
      /\ \A j, k \in DOMAIN s : j < k => End(s[j]) < End(s[k])
  BY <1>2 DEF Ascending
<1>5. Len(s) = n /\ DOMAIN s = 1..n /\ \A j \in 1..n : s[j] \in InitialObj /\ s[j] \in Obj
  <2>1. DOMAIN s = 1..n /\ \A j \in 1..n : s[j] \in InitialObj
    BY <1>4
  <2>2. Len(s) = n
    BY <1>3, <1>4
  <2> QED BY <2>1, <2>2, InitialFacts
<1>6. EndOf(s) = End(s[n]) /\ EndOf(s) \in Nat
  <2>1. n \in 1..n /\ EndOf(s) = End(s[n])
    BY <1>3, <1>5 DEF EndOf
  <2> QED BY <2>1, <1>5, ObjFacts
<1>7. PICK d : d = ChunkOf(s, EndOf(s))
  OBVIOUS
<1>8. /\ d \in ChunkRecord /\ d.refcount = 1 /\ d.num_elements = n /\ d.last_code_end = EndOf(s)
      /\ \A j \in Index : j < n => d.data[j] = s[j + 1]
  <2>1. AllObj(s, n)
    BY <1>5 DEF AllObj
  <2> QED BY <2>1, <1>3, <1>6, <1>7, ChunkOfFacts
<1>9. 1 \in Chunk
  BY SizeAssumption DEF Chunk
<1>10. chunk \in [Chunk -> ChunkRecord \cup {NULL}] /\ chunk[1] = d /\ \A c \in Chunk \ {1} : chunk[c] = NULL
  BY <1>1, <1>7, <1>8, <1>9
<1>11. Chunks = {1}
  BY <1>8, <1>9, <1>10, NullAssumption DEF Chunks
<1>12. Ref(1) = 1 /\ Num(1) = n /\ Last(1) = End(s[n]) /\ \A j \in Index : j < n => Data(1, j) = s[j + 1]
  BY <1>6, <1>8, <1>10 DEF Ref, Num, Last, Data
<1> QED BY <1>3, <1>4, <1>5, <1>9, <1>10, <1>11, <1>12

LEMMA InitInv == Init => HInv
<1> SUFFICES ASSUME Init PROVE HInv
  OBVIOUS
<1>0. /\ obj = [o \in Obj |-> IF o \in InitialObj THEN "ji" ELSE NULL]
      /\ table = [t \in Table |-> IF t = 1 THEN <<1>> ELSE NULL]
      /\ num_tables = 1 /\ free_queue = {} /\ cur = 1 /\ delayed = <<>>
      /\ writer = IdleWriter /\ foreign = NULL
      /\ reader = [r \in Reader |-> IdleReader] /\ expected = [r \in Reader |-> NULL]
      /\ allowed = [r \in Reader |-> {}] /\ failure = "none"
  BY DEF Init
<1>1. PICK s, n :
             /\ n \in 1..CHUNK_SIZE /\ Len(s) = n /\ DOMAIN s = 1..n
             /\ \A j \in 1..n : s[j] \in InitialObj
             /\ \A o \in InitialObj : \E j \in 1..n : s[j] = o
             /\ \A j, k \in 1..n : j < k => End(s[j]) < End(s[k])
             /\ chunk \in [Chunk -> ChunkRecord \cup {NULL}] /\ Chunks = {1} /\ 1 \in Chunk
             /\ Ref(1) = 1 /\ Num(1) = n /\ Last(1) = End(s[n])
             /\ \A j \in Index : j < n => Data(1, j) = s[j + 1]
  BY InitChunk
<1>2. 1 \in Table /\ table \in [Table -> Seq(Chunk) \cup {NULL}] /\ table[1] = <<1>> /\ Tables = {1}
  <2>1. 1 \in Table
    BY SizeAssumption DEF Table
  <2>2. <<1>> \in Seq(Chunk) /\ <<1>> # NULL
    <3>1. 1 \in Chunk
      BY <1>1
    <3>2. <<1>> \in Seq(Chunk)
      BY <3>1
    <3> QED BY <3>2, NullAssumption
  <2> QED BY <2>1, <2>2, <1>0 DEF Tables
<1>3. obj \in [Obj -> {NULL, "ji", "tombstone"}] /\ Objs = InitialObj /\ \A o \in Obj : obj[o] # "tombstone"
  BY <1>0, InitialFacts, NullFacts DEF Objs
<1>a. IdleWriter \in WriterRecord
  BY SizeFacts DEF IdleWriter, WriterRecord
<1>b. IdleReader \in ReaderRecord
  BY SizeFacts DEF IdleReader, ReaderRecord
<1>4. TypeOK
  BY <1>0, <1>1, <1>2, <1>3, <1>a, <1>b DEF TypeOK, Failure
<1>5. DOMAIN table[cur] = {1} /\ Len(table[cur]) = 1 /\ CurChunk(1) = 1 /\ cur # NULL /\ cur \in Tables
  BY <1>0, <1>2, NullFacts DEF CurChunk
<1>6. StructInv
  BY <1>0, <1>1, <1>2, <1>5 DEF StructInv
<1>7. CountsExact
  <2>1. Cardinality({1}) = 1
    BY FS_Singleton
  <2>2. ChunksOf(1) = {1}
    BY <1>2 DEF ChunksOf
  <2>3. \A c \in Chunk : {t \in Tables : c \in ChunksOf(t)} = IF c = 1 THEN {1} ELSE {}
    BY <2>2, <1>2
  <2>4. \A c \in Chunk : c # 1 => chunk[c] = NULL
    BY <1>1 DEF Chunks
  <2>5. chunk[1] # NULL /\ chunk[1].refcount = 1
    BY <1>1 DEF Chunks, Ref
  <2> QED BY <2>1, <2>3, <2>4, <2>5, <1>0, <1>2 DEF CountsExact
<1>8. \A j \in Index : j < Num(1) => j + 1 \in 1..n /\ Data(1, j) = s[j + 1]
  BY <1>1, SizeFacts
<1>9. ElemInv
  BY <1>1, <1>3, <1>8 DEF ElemInv
<1>10. \A j \in 1..n : End(s[j]) \in Nat
  BY <1>1, InitialFacts, ObjFacts
<1>11. \A j, k \in 1..n : j <= k => End(s[j]) <= End(s[k])
  <2>1. \A j, k \in 1..n : j < k => End(s[j]) < End(s[k])
    BY <1>1
  <2> QED BY <2>1, <1>10
<1>12. OrderInv
  <2>1. \A j, k \in Index : j <= k /\ k < Num(1) => End(Data(1, j)) <= End(Data(1, k))
    <3> SUFFICES ASSUME NEW j \in Index, NEW k \in Index, j <= k, k < Num(1)
                 PROVE  End(Data(1, j)) <= End(Data(1, k))
      OBVIOUS
    <3>1. j \in Nat /\ k \in Nat /\ Num(1) \in Nat
      BY <1>1, SizeFacts
    <3>2. j < Num(1) /\ j + 1 <= k + 1
      BY <3>1
    <3> QED BY <3>2, <1>8, <1>11
  <2>2. \A j \in Index : j < Num(1) => End(Data(1, j)) <= Last(1)
    <3> SUFFICES ASSUME NEW j \in Index, j < Num(1) PROVE End(Data(1, j)) <= Last(1)
      OBVIOUS
    <3>1. j + 1 \in 1..n /\ n \in 1..n /\ j + 1 <= n
      BY <1>1, <1>8
    <3> QED BY <3>1, <1>1, <1>8, <1>11
  <2> QED BY <2>1, <2>2, <1>1, <1>5 DEF OrderInv
<1>13. UniqInv
  <2>1. \A j, k \in Index : j < Num(1) /\ k < Num(1) /\ Data(1, j) = Data(1, k) => j = k
    <3> SUFFICES ASSUME NEW j \in Index, NEW k \in Index, j < Num(1), k < Num(1), Data(1, j) = Data(1, k)
                 PROVE  j = k
      OBVIOUS
    <3>1. j + 1 \in 1..n /\ k + 1 \in 1..n /\ s[j + 1] = s[k + 1]
      BY <1>8
    <3>2. ~(j + 1 < k + 1) /\ ~(k + 1 < j + 1)
      BY <3>1, <1>1, <1>10
    <3> QED BY <3>2, SizeFacts
  <2> QED BY <2>1, <1>5 DEF UniqInv
<1>14. \A o : InChunk(o, 1) <=> o \in InitialObj
  <2>1. ASSUME NEW o \in InitialObj PROVE InChunk(o, 1)
    <3>1. PICK k \in 1..n : s[k] = o
      BY <1>1
    <3>2. PICK j : j = k - 1
      OBVIOUS
    <3>3. j \in Index /\ j < Num(1) /\ j + 1 = k
      BY <3>2, <1>1, SizeFacts
    <3> QED BY <3>1, <3>3, <1>8 DEF InChunk
  <2> QED BY <2>1, <1>1, <1>8 DEF InChunk
<1>15. \A o : InTable(o, cur) <=> o \in InitialObj
  BY <1>5, <1>14 DEF InTable, CurChunk
<1>16. Live = InitialObj
  BY <1>3, <1>5, <1>15, LiveFacts, InitialFacts DEF LiveIs
<1>17. LiveInv
  BY <1>16, InitialFacts DEF LiveInv
<1>18. /\ writer.pc = "idle" /\ writer.chunk = NULL /\ writer.item = NULL /\ writer.ji = NULL /\ ~Adding
  BY <1>0 DEF IdleWriter, Adding
<1>19. PlaceInv /\ CountInv /\ ShiftInv /\ SealInv
  BY <1>18 DEF PlaceInv, CountInv, ShiftInv, SealInv, Storing
<1>20. WriterInv
  BY <1>0, <1>18 DEF WriterInv
<1>21. \A x \in Item : ~Pending(x)
  BY <1>0, <1>18, NullFacts DEF Pending
<1>22. PendInv
  <2>1. /\ \A t \in Table : <<"table", t>> \in Item
        /\ \A o \in Obj : <<"ji", o>> \in Item
    BY DEF Item
  <2>2. \A t \in Table : ~(t \in Tables /\ t # cur)
    BY <1>0, <1>2
  <2>3. DOMAIN delayed = {}
    BY <1>0
  <2> QED BY <2>1, <2>2, <2>3, <1>0, <1>21 DEF PendInv
<1>23. QueueInv
  BY <1>0 DEF QueueInv
<1>24. ObjInv
  BY <1>0, <1>3, <1>16, NullFacts DEF ObjInv
<1>25. FailInv
  BY <1>0 DEF FailInv
<1> QED BY <1>4, <1>6, <1>7, <1>9, <1>12, <1>13, <1>17, <1>19, <1>20, <1>22, <1>23, <1>24, <1>25 DEF HInv

-----------------------------------------------------------------------------
(***************************************************************************)
(* Lookups.                                                                *)
(***************************************************************************)
IInv == HInv /\ \A r \in Reader : SlotInv(r)

LEMMA LookupType ==
    ASSUME TypeOK, NEW r \in Reader, NEW rd, rd = reader[r]
    PROVE  /\ rd \in ReaderRecord
           /\ rd.pc \in {"idle", "index", "bisect", "compare", "scan", "match", "done"}
           /\ rd.addr \in Address \cup {-1} /\ rd.table \in Table \cup {NULL}
           /\ rd.chunk_pos \in Nat /\ rd.left \in Nat /\ rd.right \in Nat /\ rd.pos \in 0..CHUNK_SIZE
           /\ rd.ji \in Obj \cup {NULL} /\ rd.result \in Obj \cup {NULL}
<1>1. rd \in ReaderRecord
  BY DEF TypeOK
<1> QED BY <1>1 DEF ReaderRecord

\* The step of one lookup.
LEMMA MoveStep ==
    ASSUME IInv, NEW r \in Reader, NEW new \in ReaderRecord, MoveReader(r, new),
           expected' \in [Reader -> Obj \cup {NULL}], allowed' \in [Reader -> SUBSET Obj],
           \A q \in Reader \ {r} : expected'[q] = expected[q],
           failure' = failure, NEW e, e = expected'[r], SlotOK(new, e)
    PROVE  IInv' /\ reader'[r] = new /\ \A q \in Reader \ {r} : reader'[q] = reader[q]
<1>1. /\ reader' = [reader EXCEPT ![r] = new] /\ UNCHANGED <<heap, cur, delayed, writer, foreign>>
      /\ obj' = obj /\ chunk' = chunk /\ table' = table /\ num_tables' = num_tables
      /\ free_queue' = free_queue /\ cur' = cur /\ delayed' = delayed /\ writer' = writer /\ foreign' = foreign
  BY DEF MoveReader, heap
<1>2. /\ reader' \in [Reader -> ReaderRecord] /\ reader'[r] = new
      /\ \A q \in Reader \ {r} : reader'[q] = reader[q]
  BY <1>1 DEF IInv, HInv, TypeOK
<1>3. TypeOK'
  BY <1>1, <1>2 DEF IInv, HInv, TypeOK
<1>4. HInv'
  BY <1>1, <1>3, SameHeap DEF IInv
<1>5. ASSUME NEW rd, NEW x PROVE SlotOK(rd, x)' <=> SlotOK(rd, x)
  BY <1>1 DEF SlotOK, Tables, Num, ChunkOfLookup
<1>6. SlotInv(r)'
  <2>1. SlotOK(new, e)'
    BY <1>5
  <2> QED BY <2>1, <1>2 DEF SlotInv
<1>7. ASSUME NEW q \in Reader \ {r} PROVE SlotInv(q)'
  <2>1. PICK rd, x : rd = reader[q] /\ x = expected[q]
    OBVIOUS
  <2>2. SlotOK(rd, x)
    BY <2>1 DEF IInv, SlotInv
  <2>3. SlotOK(rd, x)' /\ reader'[q] = rd /\ expected'[q] = x
    BY <2>1, <2>2, <1>2, <1>5
  <2> QED BY <2>3 DEF SlotInv
<1> QED BY <1>2, <1>4, <1>6, <1>7 DEF IInv

\* The same for a step that leaves the ghosts alone.
LEMMA MoveOn ==
    ASSUME IInv, NEW r \in Reader, NEW new, new \in ReaderRecord, MoveReader(r, new), UNCHANGED ghosts,
           SlotOK(new, expected[r])
    PROVE  IInv'
<1>1. expected' = expected /\ allowed' = allowed /\ failure' = failure
  BY DEF ghosts
<1>2. expected' \in [Reader -> Obj \cup {NULL}] /\ allowed' \in [Reader -> SUBSET Obj]
  BY <1>1 DEF IInv, HInv, TypeOK
<1>3. PICK e : e = expected'[r]
  OBVIOUS
<1>4. SlotOK(new, e)
  BY <1>1, <1>3
<1> QED BY <1>1, <1>2, <1>3, <1>4, MoveStep

LEMMA HalfFacts ==
    ASSUME NEW a \in Nat, NEW b \in Nat, a < b, NEW m, m = (a + b) \div 2
    PROVE  m \in Nat /\ a <= m /\ m < b
OBVIOUS

\* What is known of a lookup that is under way.
LEMMA LookupFacts ==
    ASSUME IInv, NEW r \in Reader, NEW rd, rd = reader[r], Looking(rd)
    PROVE  /\ rd.table \in Tables /\ rd.addr \in Nat /\ foreign # <<"table", rd.table>>
           /\ cur # NULL /\ writer.pc # "free_all"
           /\ Len(table[rd.table]) \in Nat /\ Len(table[rd.table]) >= 1
           /\ DOMAIN table[rd.table] = 1..Len(table[rd.table])
           /\ \A k \in 1..Len(table[rd.table]) :
                table[rd.table][k] \in Chunks /\ Num(table[rd.table][k]) \in 0..CHUNK_SIZE
           /\ rd.pc # "index" => /\ rd.chunk_pos < Len(table[rd.table])
                                 /\ rd.chunk_pos + 1 \in 1..Len(table[rd.table])
                                 /\ ChunkOfLookup(rd) \in Chunks
                                 /\ Num(ChunkOfLookup(rd)) \in 0..CHUNK_SIZE
                                 /\ \A j \in Nat : j < Num(ChunkOfLookup(rd)) => Data(ChunkOfLookup(rd), j) \in Obj
                                                                      /\ j \in Index
<1>1. SlotOK(rd, expected[r]) /\ HInv
  BY DEF IInv, SlotInv
<1>2. /\ rd.table \in Tables /\ rd.addr \in Nat /\ foreign # <<"table", rd.table>>
      /\ cur # NULL /\ writer.pc # "free_all"
      /\ rd.pc # "index" => rd.chunk_pos < Len(table[rd.table])
  BY <1>1 DEF SlotOK, Looking
<1>3. PICK t : t = rd.table
  OBVIOUS
<1>4. Len(table[t]) \in Nat /\ DOMAIN table[t] = 1..Len(table[t]) /\ t \in Tables
  BY <1>1, <1>2, <1>3, TableFacts DEF HInv, TableType
<1>5. Len(table[t]) >= 1 /\ \A k \in DOMAIN table[t] : table[t][k] \in Chunks
  BY <1>1, <1>4 DEF HInv, StructInv
<1>6. \A k \in 1..Len(table[t]) : table[t][k] \in Chunks /\ Num(table[t][k]) \in 0..CHUNK_SIZE
  BY <1>1, <1>4, <1>5, ChunkFacts DEF HInv, ChunkType
<1>7. rd.chunk_pos \in Nat
  BY <1>1, LookupType DEF HInv
<1>8. ASSUME rd.pc # "index"
      PROVE  /\ rd.chunk_pos + 1 \in 1..Len(table[t])
             /\ ChunkOfLookup(rd) \in Chunks
             /\ Num(ChunkOfLookup(rd)) \in 0..CHUNK_SIZE
             /\ \A j \in Nat : j < Num(ChunkOfLookup(rd)) => Data(ChunkOfLookup(rd), j) \in Obj /\ j \in Index
  <2>1. rd.chunk_pos + 1 \in 1..Len(table[t])
    BY <1>2, <1>3, <1>4, <1>7, <1>8
  <2>2. PICK c : c = ChunkOfLookup(rd)
    OBVIOUS
  <2>3. c \in Chunks /\ Num(c) \in 0..CHUNK_SIZE
    BY <2>1, <2>2, <1>3, <1>6 DEF ChunkOfLookup
  <2>4. \A j \in Nat : j < Num(c) => j \in Index
    BY <2>3, SizeFacts
  <2>5. \A j \in Nat : j < Num(c) => Data(c, j) \in Obj
    BY <2>3, <2>4, <1>1 DEF HInv, ElemInv, Objs
  <2> QED BY <2>1, <2>2, <2>3, <2>4, <2>5
<1> QED BY <1>2, <1>3, <1>4, <1>5, <1>6, <1>8

LEMMA IndexStepOK ==
    ASSUME IInv, NEW r \in Reader, IndexStep(r)
    PROVE  IInv'
<1>1. PICK rd, pos, new :
         /\ rd = reader[r] /\ pos = (rd.left + rd.right) \div 2
         /\ rd.pc = "index" /\ rd.left < rd.right
         /\ new = [rd EXCEPT !.right = pos] \/ new = [rd EXCEPT !.left = pos + 1]
         /\ MoveReader(r, new) /\ UNCHANGED ghosts
  BY DEF IndexStep, ReaderAt
<1>2. rd \in ReaderRecord /\ rd.left \in Nat /\ rd.right \in Nat
  BY <1>1, LookupType DEF IInv, HInv
<1>3. pos \in Nat /\ rd.left <= pos /\ pos < rd.right /\ pos + 1 \in Nat
  BY <1>1, <1>2, HalfFacts
<1>4. new \in ReaderRecord
  BY <1>1, <1>2, <1>3 DEF ReaderRecord
<1>5. /\ new.pc = "index" /\ new.addr = rd.addr /\ new.table = rd.table
      /\ (new.left = rd.left /\ new.right = pos) \/ (new.left = pos + 1 /\ new.right = rd.right)
  BY <1>1, <1>2 DEF ReaderRecord
<1>6. Looking(rd) /\ Looking(new)
  BY <1>1, <1>5 DEF Looking
<1>7. SlotOK(rd, expected[r])
  BY <1>1 DEF IInv, SlotInv
<1>8. rd.right <= Len(table[rd.table]) /\ Len(table[rd.table]) \in Nat
  BY <1>1, <1>6, <1>7, LookupFacts DEF SlotOK
<1>9. new.left <= new.right /\ new.right <= Len(table[new.table])
  BY <1>2, <1>3, <1>5, <1>8
<1>10. SlotOK(new, expected[r])
  BY <1>1, <1>5, <1>6, <1>7, <1>9 DEF SlotOK
<1> QED BY <1>1, <1>4, <1>10, MoveOn

LEMMA ChunkStartOK ==
    ASSUME IInv, NEW r \in Reader, ChunkStart(r)
    PROVE  IInv'
<1>1. PICK rd, n, p, c, new :
         /\ rd = reader[r] /\ n = Len(table[rd.table]) /\ p = IF rd.left >= n THEN n - 1 ELSE rd.left
         /\ rd.pc = "index" /\ c = table[rd.table][p + 1]
         /\ new = [rd EXCEPT !.pc = "bisect", !.chunk_pos = p, !.left = 0, !.right = Num(c)]
         /\ MoveReader(r, new) /\ UNCHANGED ghosts
  BY DEF ChunkStart, ReaderAt, Num
<1>2. rd \in ReaderRecord /\ rd.left \in Nat
  BY <1>1, LookupType DEF IInv, HInv
<1>3. Looking(rd)
  BY <1>1 DEF Looking
<1>4. n \in Nat /\ n >= 1 /\ \A k \in 1..n : table[rd.table][k] \in Chunks /\ Num(table[rd.table][k]) \in 0..CHUNK_SIZE
  BY <1>1, <1>3, LookupFacts
<1>5. p \in Nat /\ p < n /\ p + 1 \in 1..n
  <2>1. n \in Nat /\ n >= 1 /\ rd.left \in Nat /\ p = IF rd.left >= n THEN n - 1 ELSE rd.left
    BY <1>1, <1>2, <1>4
  <2> QED BY <2>1
<1>a. c = table[rd.table][p + 1] /\ n = Len(table[rd.table])
      /\ new = [rd EXCEPT !.pc = "bisect", !.chunk_pos = p, !.left = 0, !.right = Num(c)]
  BY <1>1
<1>6. Num(c) \in Nat /\ Num(c) \in 0..CHUNK_SIZE /\ 0 <= Num(c) /\ Num(c) <= Num(c)
  <2>1. Num(c) \in 0..CHUNK_SIZE
    BY <1>a, <1>4, <1>5
  <2> QED BY <2>1, SizeFacts
<1>7. new \in ReaderRecord
  <2>1. "bisect" \in {"idle", "index", "bisect", "compare", "scan", "match", "done"} /\ 0 \in Nat
    OBVIOUS
  <2> QED BY <2>1, <1>a, <1>2, <1>5, <1>6 DEF ReaderRecord
<1>8. /\ new.pc = "bisect" /\ new.addr = rd.addr /\ new.table = rd.table /\ new.chunk_pos = p
      /\ new.left = 0 /\ new.right = Num(c)
  BY <1>1, <1>2 DEF ReaderRecord
<1>9. Looking(new) /\ ChunkOfLookup(new) = c
  BY <1>1, <1>8 DEF Looking, ChunkOfLookup
<1>10. SlotOK(rd, expected[r])
  BY <1>1 DEF IInv, SlotInv
<1>11. new.left <= new.right /\ new.right <= Num(c) /\ new.chunk_pos < Len(table[new.table])
  BY <1>a, <1>5, <1>6, <1>8
<1>12. SlotOK(new, expected[r])
  BY <1>1, <1>3, <1>8, <1>9, <1>10, <1>11 DEF SlotOK
<1> QED BY <1>1, <1>7, <1>12, MoveOn

LEMMA BisectLoadOK ==
    ASSUME IInv, NEW r \in Reader, BisectLoad(r)
    PROVE  IInv'
<1>1. PICK rd, pos, c, new :
         /\ rd = reader[r] /\ pos = (rd.left + rd.right) \div 2 /\ c = ChunkOfLookup(rd)
         /\ rd.pc = "bisect" /\ rd.left < rd.right
         /\ new = [rd EXCEPT !.pc = "compare", !.pos = pos, !.ji = Data(c, pos)]
         /\ MoveReader(r, new) /\ UNCHANGED ghosts
  BY DEF BisectLoad, ReaderAt, ChunkAt, Data, ChunkOfLookup
<1>2. rd \in ReaderRecord /\ rd.left \in Nat /\ rd.right \in Nat
  BY <1>1, LookupType DEF IInv, HInv
<1>3. pos \in Nat /\ rd.left <= pos /\ pos < rd.right
  BY <1>1, <1>2, HalfFacts
<1>4. Looking(rd)
  BY <1>1 DEF Looking
<1>5. SlotOK(rd, expected[r])
  BY <1>1 DEF IInv, SlotInv
<1>6. rd.right <= Num(c) /\ Num(c) \in 0..CHUNK_SIZE
      /\ \A j \in Nat : j < Num(c) => Data(c, j) \in Obj
  BY <1>1, <1>4, <1>5, LookupFacts DEF SlotOK
<1>7. pos < Num(c) /\ pos \in 0..CHUNK_SIZE /\ Data(c, pos) \in Obj
  <2>1. CHUNK_SIZE \in Nat
    BY SizeFacts
  <2>2. pos < Num(c) /\ pos \in 0..CHUNK_SIZE
    BY <2>1, <1>2, <1>3, <1>6
  <2> QED BY <2>2, <1>3, <1>6
<1>8. new \in ReaderRecord
  <2>1. PICK o : o = Data(c, pos)
    OBVIOUS
  <2>2. new = [rd EXCEPT !.pc = "compare", !.pos = pos, !.ji = o] /\ o \in Obj
    BY <2>1, <1>1, <1>7
  <2> QED BY <2>2, <1>2, <1>7 DEF ReaderRecord
<1>9. /\ new.pc = "compare" /\ new.addr = rd.addr /\ new.table = rd.table /\ new.chunk_pos = rd.chunk_pos
      /\ new.left = rd.left /\ new.right = rd.right /\ new.pos = pos /\ new.ji = Data(c, pos)
  BY <1>1, <1>2 DEF ReaderRecord
<1>10. Looking(new) /\ ChunkOfLookup(new) = c
  BY <1>1, <1>9 DEF Looking, ChunkOfLookup
<1>11. SlotOK(new, expected[r])
  BY <1>1, <1>3, <1>4, <1>5, <1>7, <1>9, <1>10 DEF SlotOK
<1> QED BY <1>1, <1>8, <1>11, MoveOn

LEMMA BisectCompareOK ==
    ASSUME IInv, NEW r \in Reader, BisectCompare(r)
    PROVE  IInv'
<1>1. PICK rd, new :
         /\ rd = reader[r] /\ rd.pc = "compare"
         /\ new = [rd EXCEPT !.pc = "bisect", !.right = rd.pos] \/ new = [rd EXCEPT !.pc = "bisect", !.left = rd.pos + 1]
         /\ MoveReader(r, new) /\ UNCHANGED ghosts
  BY DEF BisectCompare, ReaderAt
<1>2. rd \in ReaderRecord /\ rd.left \in Nat /\ rd.right \in Nat /\ rd.pos \in 0..CHUNK_SIZE
  BY <1>1, LookupType DEF IInv, HInv
<1>3. rd.pos \in Nat /\ rd.pos + 1 \in Nat
  BY <1>2, SizeFacts
<1>4. Looking(rd)
  BY <1>1 DEF Looking
<1>5. SlotOK(rd, expected[r])
  BY <1>1 DEF IInv, SlotInv
<1>6. rd.right <= Num(ChunkOfLookup(rd)) /\ Num(ChunkOfLookup(rd)) \in 0..CHUNK_SIZE
      /\ rd.left <= rd.pos /\ rd.pos < rd.right
  BY <1>1, <1>4, <1>5, LookupFacts DEF SlotOK
<1>8. new \in ReaderRecord
  BY <1>1, <1>2, <1>3 DEF ReaderRecord
<1>9. /\ new.pc = "bisect" /\ new.addr = rd.addr /\ new.table = rd.table /\ new.chunk_pos = rd.chunk_pos
      /\ (new.left = rd.left /\ new.right = rd.pos) \/ (new.left = rd.pos + 1 /\ new.right = rd.right)
  BY <1>1, <1>2 DEF ReaderRecord
<1>10. Looking(new) /\ ChunkOfLookup(new) = ChunkOfLookup(rd)
  BY <1>1, <1>9 DEF Looking, ChunkOfLookup
<1>a. new.left <= new.right /\ new.right <= Num(ChunkOfLookup(rd))
  <2>1. Num(ChunkOfLookup(rd)) \in Nat
    BY <1>6, SizeFacts
  <2> QED BY <2>1, <1>2, <1>3, <1>6, <1>9
<1>11. SlotOK(new, expected[r])
  BY <1>1, <1>4, <1>5, <1>9, <1>10, <1>a DEF SlotOK
<1> QED BY <1>1, <1>8, <1>11, MoveOn

LEMMA BisectEndOK ==
    ASSUME IInv, NEW r \in Reader, BisectEnd(r)
    PROVE  IInv'
<1>1. PICK rd, new :
         /\ rd = reader[r] /\ rd.pc = "bisect"
         /\ new = [rd EXCEPT !.pc = "scan", !.pos = rd.left]
         /\ MoveReader(r, new) /\ UNCHANGED ghosts
  BY DEF BisectEnd, ReaderAt
<1>2. rd \in ReaderRecord /\ rd.left \in Nat /\ rd.right \in Nat
  BY <1>1, LookupType DEF IInv, HInv
<1>4. Looking(rd)
  BY <1>1 DEF Looking
<1>5. SlotOK(rd, expected[r])
  BY <1>1 DEF IInv, SlotInv
<1>6. rd.left <= rd.right /\ rd.right <= Num(ChunkOfLookup(rd)) /\ Num(ChunkOfLookup(rd)) \in 0..CHUNK_SIZE
  BY <1>1, <1>4, <1>5, LookupFacts DEF SlotOK
<1>7. rd.left \in 0..CHUNK_SIZE
  BY <1>2, <1>6, SizeFacts
<1>8. new \in ReaderRecord
  BY <1>1, <1>2, <1>7 DEF ReaderRecord
<1>9. new.pc = "scan" /\ new.addr = rd.addr /\ new.table = rd.table /\ new.chunk_pos = rd.chunk_pos
  BY <1>1, <1>2 DEF ReaderRecord
<1>10. Looking(new)
  BY <1>9 DEF Looking
<1>11. SlotOK(new, expected[r])
  BY <1>1, <1>4, <1>5, <1>9, <1>10 DEF SlotOK
<1> QED BY <1>1, <1>8, <1>11, MoveOn

LEMMA ScanLoadOK ==
    ASSUME IInv, NEW r \in Reader, ScanLoad(r)
    PROVE  IInv'
<1>1. PICK rd, c, new :
         /\ rd = reader[r] /\ rd.pc = "scan" /\ c = ChunkOfLookup(rd) /\ rd.pos < Num(c)
         /\ new = [rd EXCEPT !.pc = "match", !.ji = Data(c, rd.pos), !.pos = rd.pos + 1]
         /\ MoveReader(r, new) /\ UNCHANGED ghosts
  BY DEF ScanLoad, ReaderAt, ChunkAt, Data, Num, ChunkOfLookup
<1>2. rd \in ReaderRecord /\ rd.pos \in Nat
  BY <1>1, LookupType, SizeFacts DEF IInv, HInv
<1>4. Looking(rd)
  BY <1>1 DEF Looking
<1>5. SlotOK(rd, expected[r])
  BY <1>1 DEF IInv, SlotInv
<1>6. Num(c) \in 0..CHUNK_SIZE /\ Data(c, rd.pos) \in Obj
  BY <1>1, <1>2, <1>4, LookupFacts
<1>7. rd.pos + 1 \in 0..CHUNK_SIZE
  BY <1>1, <1>2, <1>6, SizeFacts
<1>8. new \in ReaderRecord
  BY <1>1, <1>2, <1>6, <1>7 DEF ReaderRecord
<1>9. /\ new.pc = "match" /\ new.addr = rd.addr /\ new.table = rd.table /\ new.chunk_pos = rd.chunk_pos
      /\ new.ji = Data(c, rd.pos)
  BY <1>1, <1>2 DEF ReaderRecord
<1>10. Looking(new)
  BY <1>9 DEF Looking
<1>11. SlotOK(new, expected[r])
  BY <1>1, <1>4, <1>5, <1>6, <1>9, <1>10 DEF SlotOK
<1> QED BY <1>1, <1>8, <1>11, MoveOn

LEMMA NextChunkOK ==
    ASSUME IInv, NEW r \in Reader, NextChunk(r)
    PROVE  IInv'
<1>1. PICK rd, new :
         /\ rd = reader[r] /\ rd.pc = "scan" /\ rd.chunk_pos + 1 < Len(table[rd.table])
         /\ new = [rd EXCEPT !.chunk_pos = rd.chunk_pos + 1, !.pos = 0]
         /\ MoveReader(r, new) /\ UNCHANGED ghosts
  BY DEF NextChunk, ReaderAt
<1>2. rd \in ReaderRecord /\ rd.chunk_pos + 1 \in Nat /\ 0 \in 0..CHUNK_SIZE
  BY <1>1, LookupType, SizeFacts DEF IInv, HInv
<1>4. Looking(rd)
  BY <1>1 DEF Looking
<1>5. SlotOK(rd, expected[r])
  BY <1>1 DEF IInv, SlotInv
<1>8. new \in ReaderRecord
  BY <1>1, <1>2 DEF ReaderRecord
<1>9. new.pc = "scan" /\ new.addr = rd.addr /\ new.table = rd.table /\ new.chunk_pos = rd.chunk_pos + 1
  BY <1>1, <1>2 DEF ReaderRecord
<1>10. Looking(new)
  BY <1>9 DEF Looking
<1>11. SlotOK(new, expected[r])
  BY <1>1, <1>4, <1>5, <1>9, <1>10 DEF SlotOK
<1> QED BY <1>1, <1>8, <1>11, MoveOn

LEMMA FoundOK ==
    ASSUME IInv, NEW r \in Reader, NEW rd, rd = reader[r], Looking(rd), NEW ji \in Obj \cup {NULL},
           MoveReader(r, Found(rd, ji)), UNCHANGED ghosts
    PROVE  IInv'
<1>1. PICK new : new = [rd EXCEPT !.pc = "done", !.table = NULL, !.ji = NULL, !.result = ji] /\ new = Found(rd, ji)
  BY DEF Found
<1>2. rd \in ReaderRecord
  BY LookupType DEF IInv, HInv
<1>3. new \in ReaderRecord
  BY <1>1, <1>2 DEF ReaderRecord
<1>4. new.pc = "done" /\ new.table = NULL /\ new.ji = NULL
  BY <1>1, <1>2 DEF ReaderRecord
<1>5. SlotOK(new, expected[r])
  BY <1>4, LookupFacts DEF SlotOK, Looking
<1> QED BY <1>1, <1>3, <1>5, MoveOn

LEMMA ScanEndOK ==
    ASSUME IInv, NEW r \in Reader, ScanEnd(r)
    PROVE  IInv'
<1>1. PICK rd : rd = reader[r] /\ rd.pc = "scan" /\ MoveReader(r, Found(rd, NULL)) /\ UNCHANGED ghosts
  BY DEF ScanEnd, ReaderAt
<1> QED BY <1>1, FoundOK DEF Looking

LEMMA MatchOK ==
    ASSUME IInv, NEW r \in Reader, Match(r)
    PROVE  IInv'
<1>1. PICK rd : rd = reader[r] /\ rd.pc = "match" /\ UNCHANGED ghosts
         /\ \/ MoveReader(r, Found(rd, NULL)) \/ MoveReader(r, Found(rd, rd.ji))
            \/ MoveReader(r, [rd EXCEPT !.pc = "scan", !.ji = NULL])
            \/ MoveReader(r, [rd EXCEPT !.pc = "scan"])
  BY DEF Match, ReaderAt
<1>2. rd \in ReaderRecord /\ rd.ji \in Obj \cup {NULL}
  BY <1>1, LookupType DEF IInv, HInv
<1>3. Looking(rd)
  BY <1>1 DEF Looking
<1>4. CASE MoveReader(r, Found(rd, NULL)) \/ MoveReader(r, Found(rd, rd.ji))
  <2>1. PICK ji : ji \in Obj \cup {NULL} /\ MoveReader(r, Found(rd, ji))
    BY <1>2, <1>4
  <2> QED BY <2>1, <1>1, <1>3, FoundOK
<1>5. ASSUME NEW new, new = [rd EXCEPT !.pc = "scan", !.ji = NULL] \/ new = [rd EXCEPT !.pc = "scan"],
             MoveReader(r, new)
      PROVE  IInv'
  <2>1. new \in ReaderRecord
    BY <1>2, <1>5 DEF ReaderRecord
  <2>2. new.pc = "scan" /\ new.addr = rd.addr /\ new.table = rd.table /\ new.chunk_pos = rd.chunk_pos
    BY <1>2, <1>5 DEF ReaderRecord
  <2>3. Looking(new)
    BY <2>2 DEF Looking
  <2>4. SlotOK(rd, expected[r])
    BY <1>1 DEF IInv, SlotInv
  <2>5. SlotOK(new, expected[r])
    BY <2>2, <2>3, <2>4, <1>1, <1>3 DEF SlotOK
  <2> QED BY <2>1, <2>5, <1>1, <1>5, MoveOn
<1> QED BY <1>1, <1>4, <1>5

LEMMA FindReturnOK ==
    ASSUME IInv, NEW r \in Reader, FindReturn(r)
    PROVE  IInv'
<1>1. /\ MoveReader(r, IdleReader) /\ expected' = [expected EXCEPT ![r] = NULL]
      /\ allowed' = [allowed EXCEPT ![r] = {}] /\ failure' = failure
  BY DEF FindReturn
<1>2. /\ expected' \in [Reader -> Obj \cup {NULL}] /\ allowed' \in [Reader -> SUBSET Obj]
      /\ expected'[r] = NULL /\ \A q \in Reader \ {r} : expected'[q] = expected[q]
  BY <1>1 DEF IInv, HInv, TypeOK
<1>3. IdleReader \in ReaderRecord
  BY SizeFacts DEF IdleReader, ReaderRecord
<1>4. SlotOK(IdleReader, NULL)
  BY DEF SlotOK, IdleReader, Looking
<1>5. PICK e : e = NULL
  OBVIOUS
<1>6. e = expected'[r] /\ SlotOK(IdleReader, e)
  BY <1>2, <1>4, <1>5
<1> QED BY <1>1, <1>2, <1>3, <1>6, MoveStep

LEMMA FindStartOK ==
    ASSUME IInv, NEW r \in Reader, NEW addr \in Address, FindStart(r, addr)
    PROVE  IInv'
<1>1. PICK hit, added, new :
         /\ hit = {o \in Live : Covers(o, addr)}
         /\ added = hit \ (IF writer.pc = "idle" THEN {} ELSE {writer.ji})
         /\ new = [IdleReader EXCEPT !.pc = "index", !.addr = addr, !.table = cur, !.right = Len(table[cur])]
         /\ cur # NULL /\ writer.pc # "free_all" /\ MoveReader(r, new)
         /\ expected' = [expected EXCEPT ![r] = IF added = {} THEN NULL ELSE CHOOSE o \in added : TRUE]
         /\ allowed' = [allowed EXCEPT ![r] = hit \cup {o \in Obj : /\ Adding /\ o = writer.ji
                                                                  /\ Covers(o, addr)}]
         /\ failure' = failure
  BY DEF FindStart
<1>2. HInv /\ cur \in Tables /\ cur \in Table /\ Len(table[cur]) \in Nat
  BY <1>1, CurFacts DEF IInv, Tables
<1>3. hit \subseteq Obj /\ added \subseteq Obj
  BY <1>1, <1>2, LiveObj
<1>4. /\ expected' \in [Reader -> Obj \cup {NULL}] /\ allowed' \in [Reader -> SUBSET Obj]
      /\ \A q \in Reader \ {r} : expected'[q] = expected[q]
  <2>1. (IF added = {} THEN NULL ELSE CHOOSE o \in added : TRUE) \in Obj \cup {NULL}
    BY <1>3
  <2>2. hit \cup {o \in Obj : Adding /\ o = writer.ji /\ Covers(o, addr)} \in SUBSET Obj
    BY <1>3
  <2> QED BY <2>1, <2>2, <1>1 DEF IInv, HInv, TypeOK
<1>5. /\ new.pc = "index" /\ new.addr = addr /\ new.table = cur /\ new.left = 0 /\ new.right = Len(table[cur])
  BY <1>1 DEF IdleReader
<1>6. new \in ReaderRecord
  <2>1. IdleReader \in ReaderRecord
    BY SizeFacts DEF IdleReader, ReaderRecord
  <2> QED BY <2>1, <1>1, <1>2 DEF ReaderRecord
<1>7. foreign # <<"table", cur>>
  <2>1. ~Pending(<<"table", cur>>)
    BY <1>2 DEF HInv, PendInv
  <2> QED BY <2>1 DEF Pending
<1>8. addr \in Nat
  BY RegionAssumption
<1>9. PICK e : e = expected'[r]
  OBVIOUS
<1>10. SlotOK(new, e)
  BY <1>1, <1>2, <1>5, <1>7, <1>8 DEF SlotOK, Looking
<1> QED BY <1>1, <1>4, <1>6, <1>9, <1>10, MoveStep

\* What a step of the writer, or a release, leaves of the blocks a lookup uses.
Kept ==
    /\ reader' = reader
    /\ \A t \in Tables : t \in Tables' => table'[t] = table[t]
    /\ \A c \in Chunks : c \in Chunks' => Num(c) <= Num(c)'

LEMMA SlotKept ==
    ASSUME HInv, HInv', Kept, NEW r \in Reader, NEW rd, rd = reader[r], SlotInv(r),
           Looking(rd) => rd.table \in Tables' /\ foreign' # <<"table", rd.table>>,
           rd.pc # "idle" => cur' # NULL /\ writer'.pc # "free_all",
           rd.pc = "idle" => expected'[r] = NULL
    PROVE  SlotInv(r)'
<1>1. SlotOK(rd, expected[r]) /\ reader'[r] = rd
  BY DEF SlotInv, Kept
<1>2. PICK e, t, c : e = expected'[r] /\ t = rd.table /\ c = ChunkOfLookup(rd)
  OBVIOUS
<1>3. ASSUME Looking(rd) PROVE t \in Tables /\ t \in Tables' /\ table'[t] = table[t]
  BY <1>1, <1>2, <1>3 DEF SlotOK, Kept
<1>4. ASSUME rd.pc \in {"bisect", "compare"}
      PROVE  /\ ChunkOfLookup(rd)' = c /\ Num(c)' \in Nat /\ Num(c) \in Nat /\ Num(c) <= Num(c)'
  <2>1. Looking(rd)
    BY <1>4 DEF Looking
  <2>2. rd.chunk_pos + 1 \in DOMAIN table[t]
    <3>1. rd.chunk_pos \in Nat /\ Len(table[t]) \in Nat /\ DOMAIN table[t] = 1..Len(table[t])
      BY <2>1, <1>3, LookupType, TableFacts DEF HInv, TableType
    <3>2. rd.chunk_pos < Len(table[t])
      BY <2>1, <1>1, <1>2, <1>4 DEF SlotOK
    <3> QED BY <3>1, <3>2
  <2>3. ChunkOfLookup(rd)' = c /\ c = table[t][rd.chunk_pos + 1]
    BY <2>1, <1>2, <1>3 DEF ChunkOfLookup
  <2>4. c \in Chunks /\ c \in Chunks'
    BY <2>1, <2>2, <2>3, <1>3 DEF HInv, StructInv
  <2>5. Num(c) \in 0..CHUNK_SIZE /\ Num(c)' \in 0..CHUNK_SIZE
    BY <2>4, ChunkFacts, ChunkFactsP DEF HInv, ChunkType
  <2> QED BY <2>3, <2>4, <2>5, SizeFacts DEF Kept
<1>5. rd.right \in Nat
  BY LookupType DEF HInv
<1>6. rd.pc \in {"bisect", "compare"} => rd.right <= Num(ChunkOfLookup(rd))'
  <2>1. ASSUME rd.pc \in {"bisect", "compare"} PROVE rd.right <= Num(c)'
    <3>1. rd.right <= Num(c)
      BY <2>1, <1>1, <1>2 DEF SlotOK
    <3> QED BY <2>1, <3>1, <1>4, <1>5
  <2>2. rd.pc \in {"bisect", "compare"} => Num(ChunkOfLookup(rd))' = Num(c)'
    BY <1>4
  <2> QED BY <2>1, <2>2
<1>7. Looking(rd) => Len(table'[rd.table]) = Len(table[rd.table])
  BY <1>2, <1>3
<1>8. Looking(rd)' <=> Looking(rd)
  BY DEF Looking
<1>9. /\ rd.pc = "index" => Looking(rd)
      /\ rd.pc \in {"compare", "match"} => Looking(rd)
      /\ rd.pc # "idle" \/ ~Looking(rd)
  BY DEF Looking
<1>10. SlotOK(rd, e)'
  BY <1>1, <1>2, <1>6, <1>7, <1>8, <1>9 DEF SlotOK
<1> QED BY <1>1, <1>2, <1>10 DEF SlotInv

-----------------------------------------------------------------------------
(***************************************************************************)
(* The lookups during the steps of the others.                             *)
(***************************************************************************)

\* A step that frees no table.
LEMMA LookupsKept ==
    ASSUME IInv, HInv', Kept, Tables \subseteq Tables', foreign' = foreign,
           cur # NULL => cur' # NULL, writer'.pc # "free_all",
           \A r \in Reader : expected'[r] = expected[r] \/ expected'[r] = NULL
    PROVE  IInv'
<1>1. HInv /\ \A r \in Reader : SlotInv(r)
  BY DEF IInv
<1>2. ASSUME NEW r \in Reader PROVE SlotInv(r)'
  <2>1. PICK rd : rd = reader[r]
    OBVIOUS
  <2>2. SlotInv(r) /\ SlotOK(rd, expected[r])
    BY <1>1, <2>1 DEF SlotInv
  <2>3. /\ Looking(rd) => rd.table \in Tables /\ foreign # <<"table", rd.table>>
        /\ rd.pc # "idle" => cur # NULL
        /\ rd.pc = "idle" => expected[r] = NULL
    BY <2>2 DEF SlotOK
  <2>4. Looking(rd) => rd.table \in Tables' /\ foreign' # <<"table", rd.table>>
    BY <2>3
  <2> QED BY <1>1, <2>1, <2>2, <2>3, <2>4, SlotKept
<1> QED BY <1>1, <1>2 DEF IInv

\* A store into a chunk.
LEMMA LookupsAtStore ==
    ASSUME IInv, HInv', NEW c \in Chunks, \A d \in Chunk \ {c} : chunk'[d] = chunk[d],
           Num(c) <= Num(c)',
           table' = table, reader' = reader, foreign' = foreign, cur' = cur,
           writer'.pc # "free_all",
           \A r \in Reader : expected'[r] = expected[r] \/ expected'[r] = NULL
    PROVE  IInv'
<1>1. \A d \in Chunks : d \in Chunk /\ Num(d) \in Nat
  BY ChunkFacts, SizeFacts DEF IInv, HInv, ChunkType
<1>2. \A d \in Chunks \ {c} : Num(d)' = Num(d)
  BY <1>1 DEF Num
<1>3. \A d \in Chunks : Num(d) <= Num(d)'
  BY <1>1, <1>2
<1>4. Tables' = Tables
  BY DEF Tables
<1>5. Kept
  BY <1>3 DEF Kept
<1> QED BY <1>4, <1>5, LookupsKept

\* A step that changes no table and no chunk.
LEMMA LookupsAside ==
    ASSUME IInv, HInv', UNCHANGED <<table, chunk, reader, expected, foreign, cur>>,
           writer'.pc # "free_all"
    PROVE  IInv'
<1>1. \A d \in Chunks : Num(d) \in Nat
  BY ChunkFacts, SizeFacts DEF IInv, HInv, ChunkType
<1>2. \A d \in Chunks : Num(d) <= Num(d)'
  BY <1>1 DEF Num
<1>3. Tables' = Tables
  BY DEF Tables
<1>4. Kept
  BY <1>2 DEF Kept
<1> QED BY <1>3, <1>4, LookupsKept

\* The release of an item that is in no slot of a lookup.
LEMMA LookupsAtFree ==
    ASSUME IInv, HInv', NEW item, Freed(item), UNCHANGED <<cur, reader, expected>>,
           \A r \in Reader : Looking(reader[r]) => item # <<"table", reader[r].table>>,
           foreign' = foreign \/ foreign' = NULL,
           writer'.pc = "free_all" => writer.pc = "free_all"
    PROVE  IInv'
<1>1. HInv /\ \A r \in Reader : SlotInv(r)
  BY DEF IInv
<1>2. \A d \in Chunks' : Num(d)' = Num(d) /\ Num(d)' \in Nat
  BY ChunkFactsP, SizeFacts DEF HInv, ChunkType, Freed
<1>3. Kept
  BY <1>2 DEF Kept, Freed
<1>4. ASSUME NEW r \in Reader PROVE SlotInv(r)'
  <2>1. PICK rd : rd = reader[r]
    OBVIOUS
  <2>2. SlotInv(r) /\ SlotOK(rd, expected[r])
    BY <1>1, <2>1 DEF SlotInv
  <2>3. /\ Looking(rd) => rd.table \in Tables /\ foreign # <<"table", rd.table>>
        /\ rd.pc # "idle" => cur # NULL /\ writer.pc # "free_all"
        /\ rd.pc = "idle" => expected[r] = NULL
    BY <2>2 DEF SlotOK
  <2>4. ASSUME Looking(rd) PROVE rd.table \in Tables' /\ foreign' # <<"table", rd.table>>
    <3>1. item # <<"table", rd.table>> /\ rd.table \in Tables /\ rd.table \in Table
      BY <2>1, <2>3, <2>4 DEF Tables
    <3>2. \A t \in Table : item = <<"table", t>> /\ t = rd.table => FALSE
      BY <3>1
    <3>3. rd.table \in Tables'
      BY <3>1, <3>2 DEF Freed
    <3>4. <<"table", rd.table>> # NULL
      <4>1. <<"table", rd.table>> \in Item
        BY <3>1 DEF Item
      <4> QED BY <4>1, NullFacts
    <3> QED BY <2>3, <2>4, <3>3, <3>4
  <2> QED BY <1>1, <1>3, <2>1, <2>2, <2>3, <2>4, SlotKept
<1> QED BY <1>1, <1>4 DEF IInv

\* A block in no hazard slot is not the table of a lookup.
LEMMA NotHazardous ==
    ASSUME NEW item, ~Hazardous(item)
    PROVE  \A r \in Reader : item # <<"table", reader[r].table>>
BY DEF Hazardous

LEMMA LookupsAtTry ==
    ASSUME IInv, HInv', Running, NEW n \in Nat, TryFree(n),
           UNCHANGED <<cur, foreign, reader, expected>>,
           writer'.pc = "free_all" => writer.pc = "free_all"
    PROVE  IInv'
<1>1. HInv
  BY DEF IInv
<1>2. PICK item \in Item \cup {NULL} : Freed(item) /\ (item # NULL => ~Hazardous(item))
  BY <1>1, TryFreeFacts
<1>3. ASSUME NEW r \in Reader, Looking(reader[r]) PROVE item # <<"table", reader[r].table>>
  <2>1. CASE item = NULL
    <3>1. reader[r].table \in Table
      BY <1>3 DEF IInv, SlotInv, SlotOK, Tables
    <3>2. <<"table", reader[r].table>> \in Item
      BY <3>1 DEF Item
    <3> QED BY <2>1, <3>2, NullFacts
  <2>2. CASE item # NULL
    BY <2>2, <1>2, NotHazardous
  <2> QED BY <2>1, <2>2
<1> QED BY <1>2, <1>3, LookupsAtFree

-----------------------------------------------------------------------------
LEMMA AddStartOK ==
    ASSUME IInv, NEW x \in Region, AddStart(x)
    PROVE  IInv'
<1>1. HInv /\ writer.pc = "idle" /\ writer \in WriterRecord
  BY DEF IInv, HInv, TypeOK, AddStart, WriterAt
<1>2. HInv'
  BY <1>1, AddStartStep
<1>3. UNCHANGED <<table, chunk, reader, expected, foreign, cur>>
  BY DEF AddStart
<1>4. writer'.pc = "search"
  BY <1>1 DEF AddStart, WriterRecord
<1> QED BY <1>2, <1>3, <1>4, LookupsAside

LEMMA QueueOK ==
    ASSUME IInv, mono_jit_info_free_or_queue
    PROVE  IInv'
<1>1. HInv /\ writer \in WriterRecord
  BY DEF IInv, HInv, TypeOK
<1>2. HInv'
  BY <1>1, QueueStep
<1>3. UNCHANGED <<table, chunk, reader, expected, foreign, cur>>
  BY DEF mono_jit_info_free_or_queue, ghosts
<1>4. writer'.pc # "free_all"
  <2>1. CASE num_tables <= 1
    <3>1. writer' = [writer EXCEPT !.pc = "try", !.item = <<"ji", writer.ji>>, !.idx = 2]
      BY <2>1 DEF mono_jit_info_free_or_queue
    <3>2. writer'.pc = "try"
      BY <3>1, <1>1 DEF WriterRecord
    <3> QED BY <3>2
  <2>2. CASE ~(num_tables <= 1)
    <3>1. writer' = IdleWriter
      BY <2>2 DEF mono_jit_info_free_or_queue
    <3> QED BY <3>1 DEF IdleWriter
  <2> QED BY <2>1, <2>2
<1> QED BY <1>2, <1>3, <1>4, LookupsAside

LEMMA GrowOK ==
    ASSUME IInv, Grow
    PROVE  IInv'
<1>1. HInv /\ writer.pc = "search" /\ writer \in WriterRecord /\ TypeOK /\ StructInv /\ OrderInv
  BY DEF IInv, HInv, TypeOK, Grow, WriterAt
<1>2. HInv'
  BY <1>1, GrowStep
<1>3. PICK c, n, o : /\ c = table[cur][Target(writer.ji)] /\ n = Num(c) /\ n < CHUNK_SIZE
                     /\ o = (IF n > 0 THEN Data(c, n - 1) ELSE writer.ji)
                     /\ chunk' = [chunk EXCEPT ![c].data[n] = o]
  BY DEF Grow, Num, Data
<1>4. /\ cur # NULL /\ writer.ji \in Obj /\ End(writer.ji) \in Nat
  BY <1>1, AddingFacts
<1>5. Target(writer.ji) \in DOMAIN table[cur]
  BY <1>1, <1>4, IndexFacts DEF Target
<1>6. c \in Chunks /\ n \in 0..CHUNK_SIZE
  BY <1>1, <1>3, <1>4, <1>5, CurFacts DEF CurChunk
<1>7. n \in Index /\ (n > 0 => n - 1 \in Index)
  BY <1>3, <1>6, SizeFacts
<1>8. o \in Obj \cup {NULL}
  BY <1>1, <1>3, <1>4, <1>6, <1>7, ChunkFacts DEF ChunkType
<1>9. Num(c)' = Num(c) /\ \A d \in Chunk \ {c} : chunk'[d] = chunk[d]
  BY <1>1, <1>3, <1>6, <1>7, <1>8, DataStore
<1>10. Num(c) <= Num(c)'
  <2>1. n \in Nat
    BY <1>6, SizeFacts
  <2>2. Num(c) = n /\ Num(c)' = n
    BY <1>3, <1>9
  <2> QED BY <2>1, <2>2
<1>11. writer'.pc = "count"
  BY <1>1 DEF Grow, WriterRecord
<1>12. /\ table' = table /\ reader' = reader /\ foreign' = foreign /\ cur' = cur /\ expected' = expected
  BY DEF Grow, UnchangedByStore, ghosts
<1> QED BY <1>2, <1>6, <1>9, <1>10, <1>11, <1>12, LookupsAtStore

\* The other stores.
LEMMA StoreOK ==
    ASSUME IInv, Count \/ Shift \/ Insert \/ Seal
    PROVE  IInv'
<1>1. HInv /\ Storing /\ writer \in WriterRecord /\ TypeOK /\ UnchangedByStore
  BY DEF IInv, HInv, TypeOK, Count, Shift, Insert, Seal, WriterAt, Storing
<1>2. HInv'
  BY <1>1, CountStep, ShiftStep, InsertStep, SealStep
<1>3. PICK c, n : c = writer.chunk /\ n = Num(c) /\ c \in Chunks /\ n \in 0..CHUNK_SIZE
  BY <1>1, StoringFacts
<1>4. c \in Chunk /\ chunk[c] \in ChunkRecord /\ chunk \in [Chunk -> ChunkRecord \cup {NULL}]
  BY <1>1, <1>3 DEF TypeOK, Chunks
<1>5. Num(c) <= Num(c)' /\ \A d \in Chunk \ {c} : chunk'[d] = chunk[d]
  <2>a. n \in Nat
    BY <1>3, SizeFacts
  <2>b. \A d \in Chunk \ {c} : chunk'[d] = chunk[d]
    BY <1>3, <1>4 DEF Count, Shift, Insert, Seal
  <2>1. ASSUME Count PROVE Num(c)' = n + 1
    BY <1>3, <1>4, <2>1 DEF Count, ChunkRecord, Num
  <2>2. ASSUME Shift PROVE Num(c)' = n
    BY <1>3, <1>4, <2>2 DEF Shift, ChunkRecord, Num
  <2>3. ASSUME Insert PROVE Num(c)' = n
    BY <1>3, <1>4, <2>3 DEF Insert, ChunkRecord, Num
  <2>4. ASSUME Seal PROVE Num(c)' = n
    <3>1. PICK e : e = End(chunk[c].data[chunk[c].num_elements - 1])
      OBVIOUS
    <3>2. chunk' = [chunk EXCEPT ![c].last_code_end = e]
      BY <1>3, <2>4, <3>1 DEF Seal
    <3>3. chunk'[c] = [chunk[c] EXCEPT !.last_code_end = e]
      BY <3>2, <1>4
    <3> QED BY <3>3, <1>3, <1>4 DEF ChunkRecord, Num
  <2>5. Num(c)' = n \/ Num(c)' = n + 1
    BY <2>1, <2>2, <2>3, <2>4
  <2> QED BY <2>a, <2>b, <2>5, <1>3
<1>6. writer'.pc # "free_all"
  BY <1>1 DEF Count, Shift, Insert, Seal, WriterAt, WriterRecord, IdleWriter
<1>7. /\ table' = table /\ reader' = reader /\ foreign' = foreign /\ cur' = cur /\ expected' = expected
  BY <1>1 DEF UnchangedByStore, ghosts
<1> QED BY <1>2, <1>3, <1>5, <1>6, <1>7, LookupsAtStore

LEMMA RemoveOK ==
    ASSUME IInv, NEW o \in Obj, RemoveStart(o)
    PROVE  IInv'
<1>1. HInv /\ writer.pc = "idle" /\ writer \in WriterRecord /\ TypeOK /\ o \in Live
  BY DEF IInv, HInv, TypeOK, RemoveStart, WriterAt
<1>2. HInv'
  BY <1>1, RemoveStep
<1>3. Reached(o) # {}
  BY <1>1, ReachedFacts
<1>4. PICK p, y : /\ p \in Reached(o)
                  /\ chunk' = [chunk EXCEPT ![table[cur][p[1]]].data[p[2]] = y]
                  /\ writer' = [writer EXCEPT !.pc = "removed", !.ji = o]
                  /\ expected' = [r \in Reader |-> IF expected[r] = o THEN NULL ELSE expected[r]]
  BY <1>3 DEF RemoveStart
<1>5. cur # NULL
  BY <1>1, LiveFacts DEF LiveIs
<1>6. PICK c : c = table[cur][p[1]]
  OBVIOUS
<1>7. c \in Chunks
  BY <1>1, <1>4, <1>5, <1>6, CurFacts DEF Reached, Places, CurChunk
<1>8. c \in Chunk /\ chunk[c] \in ChunkRecord /\ chunk \in [Chunk -> ChunkRecord \cup {NULL}]
  BY <1>1, <1>7 DEF TypeOK, Chunks
<1>9. Num(c) <= Num(c)' /\ \A d \in Chunk \ {c} : chunk'[d] = chunk[d]
  <2>1. PICK n : n = p[2]
    OBVIOUS
  <2>2. chunk' = [chunk EXCEPT ![c].data[n] = y]
    BY <1>4, <1>6, <2>1
  <2>3. chunk'[c] = [chunk[c] EXCEPT !.data = [chunk[c].data EXCEPT ![n] = y]]
    BY <2>2, <1>8
  <2>4. Num(c)' = Num(c) /\ Num(c) \in 0..CHUNK_SIZE
    BY <2>3, <1>8 DEF ChunkRecord, Num
  <2>5. \A d \in Chunk \ {c} : chunk'[d] = chunk[d]
    BY <2>2, <1>8
  <2> QED BY <2>4, <2>5, SizeFacts
<1>10. writer'.pc = "removed"
  BY <1>1, <1>4 DEF WriterRecord
<1>11. \A r \in Reader : expected'[r] = expected[r] \/ expected'[r] = NULL
  BY <1>4
<1>12. table' = table /\ reader' = reader /\ foreign' = foreign /\ cur' = cur
  BY DEF RemoveStart
<1> QED BY <1>2, <1>7, <1>9, <1>10, <1>11, <1>12, LookupsAtStore

LEMMA OverflowOK ==
    ASSUME IInv, Overflow
    PROVE  IInv'
<1>1. HInv /\ writer \in WriterRecord
  BY DEF IInv, HInv, TypeOK
<1>2. HInv'
  BY <1>1, OverflowStep
<1>3. PICK t0, parts, new, chunks, i, keep : Replacing(t0, parts, new, chunks, i, keep)
  BY <1>1, OverflowFacts
<1>4. /\ cur' = t0 /\ t0 \in Table /\ Tables' = Tables \cup {t0} /\ t0 \notin Tables
      /\ \A t \in Tables : table'[t] = table[t]
      /\ \A c \in Chunks : Num(c)' = Num(c)
  BY <1>3 DEF Replacing, Published
<1>5. \A c \in Chunks : Num(c) \in Nat
  BY <1>1, ChunkFacts, SizeFacts DEF HInv, ChunkType
<1>6. reader' = reader /\ foreign' = foreign /\ expected' = expected
  BY DEF Overflow
<1>7. Kept
  BY <1>4, <1>5, <1>6 DEF Kept
<1>8. writer'.pc = "try"
  BY <1>1 DEF Overflow, WriterRecord
<1>9. cur' # NULL
  BY <1>4, NullFacts
<1> QED BY <1>2, <1>4, <1>6, <1>7, <1>8, <1>9, LookupsKept

LEMMA TryItemOK ==
    ASSUME IInv, TryItem
    PROVE  IInv'
<1>1. HInv /\ writer.pc = "try" /\ writer \in WriterRecord /\ writer.idx \in 0..2
  BY DEF IInv, HInv, TypeOK, WriterInv, TryItem, WriterAt
<1>2. HInv'
  BY <1>1, TryItemStep
<1>3. writer'.pc # "free_all"
  BY <1>1 DEF TryItem, WriterRecord
<1>4. PICK n : n = writer.idx
  OBVIOUS
<1>5. n \in Nat /\ TryFree(n) /\ Running /\ UNCHANGED <<cur, foreign, reader, expected>>
  BY <1>1, <1>4 DEF TryItem, WriterAt
<1> QED BY <1>2, <1>3, <1>5, LookupsAtTry

LEMMA FreeAllOK ==
    ASSUME IInv, mono_thread_hazardous_try_free_all
    PROVE  IInv'
<1>1. HInv /\ writer.pc = "free_all" /\ writer \in WriterRecord /\ writer.idx >= 0
  BY DEF IInv, HInv, TypeOK, mono_thread_hazardous_try_free_all, WriterAt
<1>2. HInv'
  BY <1>1, FreeAllStep
<1>3. PICK n : n = writer.idx
  OBVIOUS
<1>4. n \in Nat
  BY <1>1, <1>3 DEF WriterRecord
<1>5. TryFree(n) /\ Running /\ UNCHANGED <<cur, foreign, reader, expected>>
  BY <1>3 DEF mono_thread_hazardous_try_free_all, WriterAt
<1> QED BY <1>1, <1>2, <1>4, <1>5, LookupsAtTry

LEMMA OwnOK ==
    ASSUME IInv, Own
    PROVE  IInv'
<1>1. HInv /\ Running /\ writer.pc = "own" /\ writer.item \in Item
  BY NullFacts DEF IInv, HInv, TypeOK, WriterInv, WriterRecord, Own, WriterAt
<1>2. HInv'
  BY <1>1, OwnStep
<1>3. writer'.pc \in {"search", "idle"}
  BY DEF Own, IdleWriter
<1>4. UNCHANGED <<cur, foreign, reader, expected>>
  BY DEF Own
<1>5. CASE Hazardous(writer.item)
  <2>1. UNCHANGED <<table, chunk, reader, expected, foreign, cur>>
    BY <1>4, <1>5 DEF Own, heap
  <2> QED BY <2>1, <1>2, <1>3, LookupsAside
<1>6. CASE ~Hazardous(writer.item)
  <2>1. PICK item : item = writer.item
    OBVIOUS
  <2>2. item \in Item /\ Free(item) /\ Pending(item) /\ ~Hazardous(item)
    BY <2>1, <1>1, <1>6 DEF Own, Pending
  <2>3. Freed(item)
    BY <2>2, <1>1, ItemFree
  <2>4. \A r \in Reader : item # <<"table", reader[r].table>>
    BY <2>2, NotHazardous
  <2> QED BY <2>3, <2>4, <1>2, <1>3, <1>4, LookupsAtFree
<1> QED BY <1>5, <1>6

LEMMA ForeignFreeOK ==
    ASSUME IInv, ForeignFree
    PROVE  IInv'
<1>1. /\ HInv /\ Running /\ foreign \in Item /\ Free(foreign) /\ foreign' = NULL
      /\ UNCHANGED <<cur, delayed, writer, reader, expected>>
  BY DEF IInv, HInv, TypeOK, ForeignFree
<1>2. HInv'
  BY <1>1, ForeignFreeStep
<1>3. PICK item : item = foreign
  OBVIOUS
<1>4. item \in Item /\ Free(item) /\ Pending(item)
  BY <1>1, <1>3 DEF Pending
<1>5. Freed(item)
  BY <1>1, <1>4, ItemFree
<1>6. \A r \in Reader : Looking(reader[r]) => item # <<"table", reader[r].table>>
  BY <1>3 DEF IInv, SlotInv, SlotOK
<1>7. writer'.pc = writer.pc
  BY <1>1
<1> QED BY <1>1, <1>2, <1>5, <1>6, <1>7, LookupsAtFree

LEMMA ForeignTakeOK ==
    ASSUME IInv, NEW i \in 0..(Len(delayed) - 1), ForeignTake(i)
    PROVE  IInv'
<1>1. /\ HInv /\ UNCHANGED <<heap, cur, writer, reader, ghosts>>
      /\ foreign' = delayed[i + 1] /\ ~Hazardous(delayed[i + 1])
  BY DEF IInv, ForeignTake, Freeable
<1>2. HInv'
  BY <1>1, ForeignTakeStep
<1>3. table' = table /\ chunk' = chunk /\ cur' = cur /\ reader' = reader /\ writer' = writer
      /\ expected' = expected
  BY <1>1 DEF heap, ghosts
<1>4. Tables' = Tables /\ \A d \in Chunks : Num(d) \in Nat /\ Num(d)' = Num(d)
  BY <1>1, <1>3, ChunkFacts, SizeFacts DEF HInv, ChunkType, Tables, Num
<1>5. Kept
  BY <1>3, <1>4 DEF Kept
<1>6. PICK item : item = foreign'
  OBVIOUS
<1>7. \A r \in Reader : item # <<"table", reader[r].table>>
  <2>1. ~Hazardous(item)
    BY <1>1, <1>6
  <2> QED BY <2>1, NotHazardous
<1>8. ASSUME NEW r \in Reader PROVE SlotInv(r)'
  <2>1. PICK rd : rd = reader[r]
    OBVIOUS
  <2>2. SlotInv(r) /\ SlotOK(rd, expected[r])
    BY <2>1 DEF IInv, SlotInv
  <2>3. /\ Looking(rd) => rd.table \in Tables
        /\ rd.pc # "idle" => cur # NULL /\ writer.pc # "free_all"
        /\ rd.pc = "idle" => expected[r] = NULL
    BY <2>2 DEF SlotOK
  <2>4. foreign' # <<"table", rd.table>>
    BY <2>1, <1>6, <1>7
  <2>5. /\ rd.pc # "idle" => cur' # NULL /\ writer'.pc # "free_all"
        /\ rd.pc = "idle" => expected'[r] = NULL
    BY <2>3, <1>3
  <2> QED BY <1>1, <1>2, <1>4, <1>5, <2>1, <2>2, <2>3, <2>4, <2>5, SlotKept
<1> QED BY <1>2, <1>8 DEF IInv

\* Without lookups there is nothing to keep.
LEMMA NoLookups ==
    ASSUME IInv, HInv', \A r \in Reader : reader[r].pc = "idle", UNCHANGED <<reader, expected>>
    PROVE  IInv'
<1>1. ASSUME NEW r \in Reader PROVE SlotInv(r)'
  <2>1. PICK rd, e : rd = reader[r] /\ e = expected[r]
    OBVIOUS
  <2>2. SlotOK(rd, e) /\ rd.pc = "idle"
    BY <2>1 DEF IInv, SlotInv
  <2>3. e = NULL /\ rd.addr = -1 /\ rd.table = NULL /\ rd.ji = NULL
    BY <2>2 DEF SlotOK, Looking
  <2>4. SlotOK(rd, e)'
    BY <2>2, <2>3 DEF SlotOK, Looking
  <2>5. reader'[r] = rd /\ expected'[r] = e
    BY <2>1
  <2> QED BY <2>4, <2>5 DEF SlotInv
<1> QED BY <1>1 DEF IInv

LEMMA DomainFreeOK ==
    ASSUME IInv, mono_domain_free
    PROVE  IInv'
<1>1. HInv'
  BY DomainFreeStep DEF IInv
<1>2. (\A r \in Reader : reader[r].pc = "idle") /\ UNCHANGED <<reader, expected>>
  BY DEF mono_domain_free, ghosts
<1> QED BY <1>1, <1>2, NoLookups

LEMMA FreeCurrentOK ==
    ASSUME IInv, FreeCurrent
    PROVE  IInv'
<1>1. HInv'
  BY FreeCurrentStep DEF IInv
<1>2. writer.pc = "free_all" /\ UNCHANGED <<reader, expected>>
  BY DEF FreeCurrent, WriterAt
<1>3. \A r \in Reader : reader[r].pc = "idle"
  BY <1>2 DEF IInv, SlotInv, SlotOK
<1> QED BY <1>1, <1>2, <1>3, NoLookups
-----------------------------------------------------------------------------
(***************************************************************************)
(* Every step keeps the inductive invariant.                               *)
(***************************************************************************)
LEMMA StutterOK ==
    ASSUME IInv, UNCHANGED vars
    PROVE  IInv'
<1>1. /\ obj' = obj /\ chunk' = chunk /\ table' = table /\ num_tables' = num_tables
      /\ free_queue' = free_queue /\ cur' = cur /\ delayed' = delayed /\ writer' = writer
      /\ foreign' = foreign /\ reader' = reader /\ expected' = expected
      /\ allowed' = allowed /\ failure' = failure
  BY DEF vars, heap, ghosts
<1>2. HInv
  BY DEF IInv
<1>3. HInv'
  <2>1. TypeOK'
    BY <1>1, <1>2 DEF HInv, TypeOK
  <2> QED BY <1>1, <1>2, <2>1, SameHeap
<1>4. \A r \in Reader : SlotInv(r)'
  <2> SUFFICES ASSUME NEW r \in Reader PROVE SlotInv(r)'
    OBVIOUS
  <2>1. SlotInv(r)
    BY DEF IInv
  <2> QED BY <2>1, <1>1 DEF SlotInv, SlotOK, Looking, ChunkOfLookup, Num, Tables
<1> QED BY <1>3, <1>4 DEF IInv

LEMMA InitOK == Init => IInv
<1> SUFFICES ASSUME Init PROVE IInv
  OBVIOUS
<1>1. HInv
  BY InitInv
<1>2. ASSUME NEW r \in Reader PROVE SlotInv(r)
  <2>1. reader[r] = IdleReader /\ expected[r] = NULL
    BY DEF Init
  <2> QED BY <2>1 DEF SlotInv, SlotOK, Looking, IdleReader
<1> QED BY <1>1, <1>2 DEF IInv

LEMMA FindStepOK ==
    ASSUME IInv, NEW r \in Reader, FindStep(r)
    PROVE  IInv'
BY IndexStepOK, ChunkStartOK, BisectLoadOK, BisectCompareOK, BisectEndOK, ScanLoadOK,
   NextChunkOK, ScanEndOK, MatchOK, FindReturnOK DEF FindStep

LEMMA WriterStepOK ==
    ASSUME IInv, WriterStep
    PROVE  IInv'
BY OverflowOK, TryItemOK, OwnOK, GrowOK, StoreOK, QueueOK, FreeAllOK, FreeCurrentOK
   DEF WriterStep

LEMMA StepOK == IInv /\ [Next]_vars => IInv'
<1> SUFFICES ASSUME IInv, [Next]_vars PROVE IInv'
  OBVIOUS
<1>1. CASE UNCHANGED vars
  BY <1>1, StutterOK
<1>2. ASSUME NEW x \in Region, AddStart(x) PROVE IInv'
  BY <1>2, AddStartOK
<1>3. ASSUME NEW o \in Obj, RemoveStart(o) PROVE IInv'
  BY <1>3, RemoveOK
<1>4. CASE WriterStep
  BY <1>4, WriterStepOK
<1>5. ASSUME NEW i \in 0..(Len(delayed) - 1), ForeignTake(i) PROVE IInv'
  BY <1>5, ForeignTakeOK
<1>6. CASE ForeignFree
  BY <1>6, ForeignFreeOK
<1>7. CASE mono_domain_free
  BY <1>7, DomainFreeOK
<1>8. ASSUME NEW r \in Reader, FindStep(r) PROVE IInv'
  BY <1>8, FindStepOK
<1>9. ASSUME NEW r \in Reader, NEW addr \in Address, FindStart(r, addr) PROVE IInv'
  BY <1>9, FindStartOK
<1> QED BY <1>1, <1>2, <1>3, <1>4, <1>5, <1>6, <1>7, <1>8, <1>9 DEF Next

\* The inductive invariant holds throughout: what the writer, whoever frees
\* delayed items, mono_domain_free and the lookups do keeps it.
THEOREM Invariance == Spec => []IInv
<1>1. Init => IInv
  BY InitOK
<1>2. IInv /\ [Next]_vars => IInv'
  BY StepOK
<1> QED BY <1>1, <1>2, PTL DEF Spec

\* Every block, index and slot of the JIT info table and of its lookups has the
\* shape the code gives it, and no chunk holds more than CHUNK_SIZE elements.
THEOREM TypeCorrect == Spec => []TypeOK
<1>1. IInv => TypeOK
  BY DEF IInv, HInv
<1> QED BY <1>1, Invariance, PTL

-----------------------------------------------------------------------------
(***************************************************************************)
(* What follows from it.                                                   *)
(***************************************************************************)
LEMMA ElementFacts ==
    ASSUME TypeOK, NEW c \in Chunks, NEW o
    PROVE  o \in ElementsOf(c) <=> InChunk(o, c)
<1>1. Num(c) \in 0..CHUNK_SIZE
  BY ChunkFacts DEF ChunkType
<1>2. \A j : j \in 0..(Num(c) - 1) <=> j \in Index /\ j < Num(c)
  BY <1>1, SizeFacts
<1> QED BY <1>2 DEF ElementsOf, InChunk, Num, Data

\* No chunk of a table that is not freed yet points to a freed MonoJitInfo:
\* mono_jit_info_free_or_queue keeps every removed one until the tables that
\* may still hold it are gone.
THEOREM NoDanglingElements == Spec => []NoDanglingElement
<1>1. ASSUME IInv PROVE NoDanglingElement
  <2>1. TypeOK /\ ElemInv
    BY <1>1 DEF IInv, HInv
  <2>2. ASSUME NEW c \in Chunks, NEW o \in ElementsOf(c) PROVE o \in Objs
    BY <2>1, <2>2, ElementFacts DEF ElemInv, InChunk
  <2> QED BY <2>2 DEF NoDanglingElement
<1> QED BY <1>1, Invariance, PTL

LEMMA WaitingFacts ==
    ASSUME HInv, NEW item \in Item
    PROVE  Waiting(item) = IF Pending(item) THEN 1 ELSE 0
<1> DEFINE S == {i \in DOMAIN delayed : delayed[i] = item}
<1>1. /\ \A i, k \in DOMAIN delayed : delayed[i] = delayed[k] => i = k
      /\ \A i \in DOMAIN delayed : delayed[i] # foreign /\ delayed[i] # writer.item
      /\ foreign = writer.item => foreign = NULL
      /\ item # NULL
  BY NullFacts DEF HInv, PendInv
<1>2. CASE S = {}
  <2>1. Cardinality(S) = 0
    BY <1>2, FS_EmptySet
  <2>2. ~ \E i \in DOMAIN delayed : delayed[i] = item
    BY <1>2
  <2> QED BY <1>1, <2>1, <2>2 DEF Waiting, Pending
<1>3. CASE S # {}
  <2>1. PICK i \in DOMAIN delayed : delayed[i] = item
    BY <1>3
  <2>2. S = {i}
    BY <1>1, <2>1
  <2>3. Cardinality(S) = 1
    BY <2>2, FS_Singleton
  <2>4. foreign # item /\ writer.item # item /\ Pending(item)
    BY <1>1, <2>1 DEF Pending
  <2> QED BY <2>3, <2>4 DEF Waiting
<1> QED BY <1>2, <1>3

LEMMA OneOwner ==
    ASSUME HInv, cur # NULL
    PROVE  BlocksOwned
<1>0. TypeOK
  BY DEF HInv
<1>1. ASSUME NEW t \in Table
      PROVE  Waiting(<<"table", t>>) + (IF cur = t THEN 1 ELSE 0) = (IF t \in Tables THEN 1 ELSE 0)
  <2>1. PICK item : item = <<"table", t>>
    OBVIOUS
  <2>2. item \in Item
    BY <2>1 DEF Item
  <2>3. Waiting(item) = IF Pending(item) THEN 1 ELSE 0
    BY <2>2, WaitingFacts
  <2>4. Pending(item) <=> t \in Tables /\ t # cur
    BY <2>1 DEF HInv, PendInv
  <2>5. cur \in Tables
    BY DEF HInv, StructInv
  <2> QED BY <2>1, <2>3, <2>4, <2>5
<1>2. ASSUME NEW o \in Obj, obj[o] = "tombstone"
      PROVE  Cardinality({c \in Chunks : o \in ElementsOf(c)}) = 1
  <2>1. PICK c \in Chunks : InChunk(o, c)
    BY <1>2 DEF HInv, ObjInv
  <2>2. \A d \in Chunks : InChunk(o, d) => d = c
    BY <1>2, <2>1 DEF HInv, ObjInv
  <2>3. {d \in Chunks : o \in ElementsOf(d)} = {c}
    BY <2>1, <2>2, <1>0, ElementFacts
  <2> QED BY <2>3, FS_Singleton
<1>3. ASSUME NEW o \in Obj, obj[o] # "tombstone"
      PROVE  Waiting(<<"ji", o>>)
              + (IF o \in Live \/ (writer.ji = o /\ (Adding \/ writer.pc = "removed")) THEN 1 ELSE 0)
              + (IF o \in free_queue THEN 1 ELSE 0)
              = (IF o \in Objs THEN 1 ELSE 0)
  <2> DEFINE held == o \in Live \/ (writer.ji = o /\ (Adding \/ writer.pc = "removed"))
  <2>1. PICK item : item = <<"ji", o>>
    OBVIOUS
  <2>2. item \in Item
    BY <2>1 DEF Item
  <2>3. Waiting(item) = IF Pending(item) THEN 1 ELSE 0
    BY <2>2, WaitingFacts
  <2>4. o \in Live => obj[o] = "ji" /\ InTable(o, cur)
    BY LiveObj
  <2>5. held => obj[o] = "ji"
    BY <2>4 DEF HInv, WriterInv
  <2>6. o \in free_queue => obj[o] = "ji" /\ ~held
    BY <2>4 DEF HInv, QueueInv
  <2>7. ASSUME Pending(item) PROVE obj[o] = "ji" /\ o \notin free_queue /\ ~held
    <3>1. /\ obj[o] = "ji" /\ o \notin free_queue /\ \A c \in Chunks : ~InChunk(o, c)
          /\ o = writer.ji => writer.item = <<"ji", o>>
      BY <2>1, <2>7 DEF HInv, PendInv
    <3>2. o \notin Live
      <4>1. \A i \in DOMAIN table[cur] : table[cur][i] \in Chunks
        BY DEF HInv, StructInv
      <4> QED BY <3>1, <4>1, <2>4 DEF InTable
    <3>3. ASSUME writer.ji = o PROVE ~Adding /\ writer.pc # "removed"
      <4>1. writer.item = item /\ writer.item # NULL /\ writer.item[1] = "ji"
        BY <3>1, <3>3, <2>1, <2>2, NullFacts
      <4>2. writer.pc \in {"try", "own"}
        BY <4>1 DEF HInv, WriterInv
      <4> QED BY <4>1, <4>2 DEF Adding
    <3> QED BY <3>1, <3>2, <3>3
  <2>8. obj[o] = "ji" => held \/ Pending(item) \/ o \in free_queue
    BY <2>1 DEF HInv, ObjInv
  <2>9. o \in Objs <=> obj[o] = "ji"
    BY <1>0, <1>3, NullFacts DEF TypeOK, Objs
  <2> HIDE DEF held
  <2>10. CASE Pending(item)
    BY <2>10, <2>3, <2>7, <2>9, <2>1 DEF held
  <2>11. CASE ~Pending(item)
    BY <2>11, <2>3, <2>5, <2>6, <2>8, <2>9, <2>1 DEF held
  <2> QED BY <2>10, <2>11
<1> QED BY <1>1, <1>2, <1>3 DEF BlocksOwned, IsTombstone

\* Every MonoJitInfo, tombstone and table is freed from exactly one place, so
\* that none is leaked and none is freed twice; refcount and
\* num_jit_info_tables, by which jit_info_table_free and
\* mono_jit_info_free_or_queue decide what to free, are exact.
THEOREM OneReclaimerEach == Spec => []OneReclaimer
<1>1. ASSUME IInv PROVE OneReclaimer
  <2>1. HInv /\ CountsExact
    BY <1>1 DEF IInv, HInv
  <2> QED BY <2>1, OneOwner DEF OneReclaimer
<1> QED BY <1>1, Invariance, PTL

LEMMA SortedFacts ==
    ASSUME HInv
    PROVE  Sorted
<1> SUFFICES ASSUME cur # NULL PROVE Sorted
  BY DEF Sorted
<1>0. TypeOK /\ ElemInv /\ OrderInv
  BY DEF HInv
<1>1. /\ DOMAIN table[cur] = 1..Len(table[cur]) /\ Len(table[cur]) \in Nat
      /\ \A i \in DOMAIN table[cur] :
           /\ CurChunk(i) \in Chunks /\ Last(CurChunk(i)) \in Nat
           /\ \A j \in Index : j < Num(CurChunk(i)) => End(Data(CurChunk(i), j)) \in Nat
  BY CurFacts
<1>2. ASSUME NEW p \in Places(cur)
      PROVE  \E i \in DOMAIN table[cur], j \in Index :
               p = <<i, j>> /\ j < Num(CurChunk(i)) /\ At(cur, p) = Data(CurChunk(i), j)
  <2>1. PICK i \in DOMAIN table[cur], j \in Index : p = <<i, j>> /\ j < Num(CurChunk(i))
    BY PlaceFacts DEF PlacesIs
  <2>2. At(cur, p) = Data(CurChunk(i), j)
    BY <2>1, PlaceFacts
  <2> QED BY <2>1, <2>2
<1>3. \A p \in Places(cur) : At(cur, p) \in Objs
  BY <1>0, <1>1, <1>2 DEF ElemInv
<1>4. ASSUME NEW p \in Places(cur), NEW q \in Places(cur), Before(p, q)
      PROVE  End(At(cur, p)) <= End(At(cur, q))
  <2>1. PICK i \in DOMAIN table[cur], j \in Index :
           p = <<i, j>> /\ j < Num(CurChunk(i)) /\ At(cur, p) = Data(CurChunk(i), j)
    BY <1>2
  <2>2. PICK k \in DOMAIN table[cur], l \in Index :
           q = <<k, l>> /\ l < Num(CurChunk(k)) /\ At(cur, q) = Data(CurChunk(k), l)
    BY <1>2
  <2>3. i < k \/ (i = k /\ j < l)
    BY <2>1, <2>2, <1>4 DEF Before
  <2>4. End(Data(CurChunk(i), j)) \in Nat /\ End(Data(CurChunk(k), l)) \in Nat
        /\ Last(CurChunk(i)) \in Nat
    BY <1>1, <2>1, <2>2
  <2>5. CASE i < k
    <3>1. Last(CurChunk(i)) <= End(Data(CurChunk(k), l))
      BY <1>0, <2>2, <2>5 DEF OrderInv
    <3>2. End(Data(CurChunk(i), j)) <= Last(CurChunk(i))
      <4>1. i # Len(table[cur])
        BY <1>1, <2>5
      <4> QED BY <4>1, <1>0, <2>1 DEF OrderInv
    <3> QED BY <3>1, <3>2, <2>1, <2>2, <2>4
  <2>6. CASE i = k /\ j < l
    <3>1. j <= l
      BY <2>6, SizeFacts
    <3> QED BY <2>1, <2>2, <2>6, <3>1, <1>0, <1>1 DEF OrderInv
  <2> QED BY <2>3, <2>5, <2>6
<1>5. ASSUME NEW c \in ChunksOf(cur), writer.chunk # c, NEW o \in ElementsOf(c)
      PROVE  End(o) <= chunk[c].last_code_end
  <2>1. PICK i \in DOMAIN table[cur] : c = CurChunk(i)
    BY DEF ChunksOf, CurChunk
  <2>2. c \in Chunks
    BY <1>1, <2>1
  <2>3. PICK j \in Index : j < Num(c) /\ Data(c, j) = o
    BY <1>0, <2>2, ElementFacts DEF InChunk
  <2>4. End(o) <= Last(c)
    BY <1>0, <1>5, <2>1, <2>3 DEF OrderInv
  <2> QED BY <2>4 DEF Last
<1> QED BY <1>3, <1>4, <1>5 DEF Sorted

\* What jit_info_table_check asserts holds between any two stores of
\* mono_jit_info_table_add, not only when the domain lock is free: the elements
\* are set, sorted by end address across chunks and covered by last_code_end.
THEOREM AlwaysSorted == Spec => []Sorted
<1>1. IInv => Sorted
  BY SortedFacts DEF IInv
<1> QED BY <1>1, Invariance, PTL

\* The assertions of jit_info_table_index, jit_info_table_realloc and
\* mono_jit_info_table_remove never fail, in whatever way delayed items are
\* freed: no table is empty, every element has a place in the new table, and
\* remove finds the MonoJitInfo it walks to.
TableAssertions ==
    failure \notin {"jit_info_table_index", "jit_info_table_realloc", "mono_jit_info_table_remove"}
THEOREM TableAssertionsHold == Spec => []TableAssertions
<1>1. IInv => TableAssertions
  BY DEF IInv, HInv, FailInv, TableAssertions
<1> QED BY <1>1, Invariance, PTL
=============================================================================
