------------------------- MODULE JitInfoTableFind --------------------------
(***************************************************************************)
(* Proofs about the lookups of JitInfoTable: the inductive invariant that  *)
(* the entry a lookup has to find stays ahead of it, in its table, while   *)
(* the writer moves elements up, stores tombstones over them and replaces  *)
(* the table, from which FindCorrect follows.  And, as long as nobody else *)
(* frees what the domain has retired: the memory that a lookup reads is    *)
(* there (NoFreedRead), and no assertion fails (AssertionsHold).           *)
(***************************************************************************)
EXTENDS JitInfoTableProofs

(***************************************************************************)
(* What lookups find.                                                      *)
(***************************************************************************)
\* What lookups may find: a = allowed of a lookup rd covers every live MonoJitInfo
\* for its address that it can still get to.
AllowedOK(rd, a) ==
    /\ Looking(rd) => \A o \in Obj :
         obj[o] = "ji" /\ Covers(o, rd.addr) /\ InTable(o, rd.table) => o \in a
    /\ rd.ji # NULL /\ obj[rd.ji] = "ji" /\ Covers(rd.ji, rd.addr) => rd.ji \in a
    /\ Adding /\ Covers(writer.ji, rd.addr) => writer.ji \in a
    /\ rd.pc = "done" /\ rd.result # NULL => rd.result \in a
AllowedInv(r) == AllowedOK(reader[r], allowed[r])

\* In table t, which may be an old one, e is in the i-th chunk, the chunks before
\* hold nothing that ends after e and those from there on are not before e...
Splits(t, e, i) ==
    /\ i \in DOMAIN table[t] /\ InChunk(e, table[t][i])
    /\ \A p \in DOMAIN table[t] : p < i =>
         \A y \in Obj : InChunk(y, table[t][p]) => End(y) <= End(e)
    /\ \A p \in DOMAIN table[t] : i <= p => End(e) <= Last(table[t][p])
\* ... only tombstones overlap e...
Alone(t, e) ==
    \A p \in DOMAIN table[t] : \A y \in Obj :
       InChunk(y, table[t][p]) => IsTombstone(y) \/ y = e \/ Apart(y, e)
\* ... and the chunks it shares with the current table are on the same side of e.
SameSide(t, e, i) ==
    \A p \in DOMAIN table[t] : \A q, k \in DOMAIN table[cur] :
       table[t][p] = CurChunk(q) /\ InChunk(e, CurChunk(k)) =>
          (p < i => q < k) /\ (i < p => k < q)
Sees(t, e, i) == Splits(t, e, i) /\ Alone(t, e) /\ SameSide(t, e, i)

\* Chunk c does not have e below the index n.
From(e, c, n) == \A j \in Index : j < Num(c) /\ Data(c, j) = e => n <= j

\* At index n of its chunk a lookup has not passed e, in the i-th chunk.
Above(rd, e, i, n) ==
    /\ rd.chunk_pos + 1 <= i
    /\ rd.chunk_pos + 1 = i => From(e, table[rd.table][i], n)
Ahead(rd, e, i) ==
    /\ rd.pc = "index" => rd.left + 1 <= i
    /\ rd.pc \in {"bisect", "compare"} => Above(rd, e, i, rd.left)
    /\ rd.pc = "compare" /\ End(rd.ji) <= rd.addr => Above(rd, e, i, rd.pos + 1)
    /\ rd.pc \in {"scan", "match"} => Above(rd, e, i, rd.pos) \/ (rd.pc = "match" /\ rd.ji = e)
    /\ rd.pc = "match" => \/ rd.ji = e \/ End(rd.ji) <= Start(e)
                          \/ IsTombstone(rd.ji) /\ InTable(rd.ji, rd.table)

\* The entry e a lookup rd has to find is in the table and not behind it.
FindOK(rd, e) ==
    /\ Looking(rd) /\ e # NULL =>
         /\ e \in Live /\ Covers(e, rd.addr) /\ (Adding => e # writer.ji)
         /\ \E i \in DOMAIN table[rd.table] : Sees(rd.table, e, i) /\ Ahead(rd, e, i)
    /\ rd.pc = "done" /\ e # NULL => rd.result = e
FindInv(r) == FindOK(reader[r], expected[r])

\* Chunk c shows lookups the same elements as before.
SameChunk(c) ==
    /\ Num(c)' = Num(c) /\ Last(c)' = Last(c)
    /\ \A j \in Index : j < Num(c) => Data(c, j)' = Data(c, j)

LEMMA SameChunkFacts ==
    ASSUME NEW c, SameChunk(c)
    PROVE  /\ \A y : InChunk(y, c)' <=> InChunk(y, c)
           /\ \A e, n : From(e, c, n)' <=> From(e, c, n)
           /\ Last(c)' = Last(c)
<1>1. \A y : InChunk(y, c)' <=> InChunk(y, c)
  BY DEF SameChunk, InChunk
<1>2. \A e, n : From(e, c, n)' <=> From(e, c, n)
  BY DEF SameChunk, From
<1> QED BY <1>1, <1>2 DEF SameChunk

\* A lookup stays where it is, and what it sees of e only moves up.
LEMMA FindKept ==
    ASSUME NEW rd, NEW e, FindOK(rd, e), NEW t, t = rd.table, rd.left \in Nat, rd.pos \in Nat,
           Looking(rd) => table'[t] = table[t],
           Looking(rd) /\ e # NULL => e \in Live' /\ (Adding' => e # writer'.ji),
           \A i \in DOMAIN table[t] : Looking(rd) /\ e # NULL /\ Sees(t, e, i) =>
              /\ Sees(t, e, i)'
              /\ \A n \in Nat : From(e, table[t][i], n) => From(e, table[t][i], n)',
           Looking(rd) /\ e # NULL /\ IsTombstone(rd.ji) /\ InTable(rd.ji, t) =>
              (IsTombstone(rd.ji) /\ InTable(rd.ji, t))'
    PROVE  FindOK(rd, e)'
<1> SUFFICES ASSUME Looking(rd), e # NULL
             PROVE  /\ e \in Live' /\ Covers(e, rd.addr) /\ (Adding' => e # writer'.ji)
                    /\ \E i \in DOMAIN table'[t] : (Sees(rd.table, e, i) /\ Ahead(rd, e, i))'
  BY DEF FindOK, Looking, Covers, Start, End
<1>1. PICK i \in DOMAIN table[t] : Sees(t, e, i) /\ Ahead(rd, e, i) /\ Covers(e, rd.addr)
  BY DEF FindOK
<1>2. Sees(t, e, i)' /\ \A n \in Nat : From(e, table[t][i], n) => From(e, table[t][i], n)'
  BY <1>1
<1>3. PICK c : c = table[t][i] /\ c = table'[t][i]
  OBVIOUS
<1>4. ASSUME NEW n \in Nat, Above(rd, e, i, n) PROVE Above(rd, e, i, n)'
  <2>1. From(e, c, n) => From(e, c, n)'
    BY <1>2, <1>3
  <2>2. rd.chunk_pos + 1 <= i /\ (rd.chunk_pos + 1 = i => From(e, c, n))
    BY <1>3, <1>4 DEF Above
  <2>3. table'[rd.table][i] = c
    BY <1>3
  <2> QED BY <2>1, <2>2, <2>3 DEF Above
<1>5. /\ Above(rd, e, i, rd.left) => Above(rd, e, i, rd.left)'
      /\ Above(rd, e, i, rd.pos + 1) => Above(rd, e, i, rd.pos + 1)'
      /\ Above(rd, e, i, rd.pos) => Above(rd, e, i, rd.pos)'
  BY <1>4
<1>6. Ahead(rd, e, i)'
  BY <1>1, <1>5 DEF Ahead
<1> QED BY <1>1, <1>2, <1>6

LEMMA AllowedKept ==
    ASSUME NEW rd, NEW a, NEW b, AllowedOK(rd, a), a \subseteq b,
           Looking(rd) => \A o \in Obj : InTable(o, rd.table)' /\ obj'[o] = "ji" =>
              InTable(o, rd.table) \/ (Adding /\ o = writer.ji),
           \A o \in Obj : obj'[o] = "ji" /\ Covers(o, rd.addr) => obj[o] = "ji" \/ o \in b,
           rd.ji # NULL => rd.ji \in Obj,
           Adding' => (Adding /\ writer'.ji = writer.ji)
                      \/ (Covers(writer'.ji, rd.addr) => writer'.ji \in b)
    PROVE  AllowedOK(rd, b)'
<1>1. ASSUME Looking(rd), NEW o \in Obj, obj'[o] = "ji", Covers(o, rd.addr), InTable(o, rd.table)'
      PROVE  o \in b
  BY <1>1 DEF AllowedOK
<1>2. rd.ji # NULL /\ obj'[rd.ji] = "ji" /\ Covers(rd.ji, rd.addr) => rd.ji \in b
  BY DEF AllowedOK
<1>3. Adding' /\ Covers(writer'.ji, rd.addr) => writer'.ji \in b
  BY DEF AllowedOK
<1>4. rd.pc = "done" /\ rd.result # NULL => rd.result \in b
  BY DEF AllowedOK
<1>5. Looking(rd)' <=> Looking(rd)
  BY DEF Looking
<1>6. \A o : Covers(o, rd.addr)' <=> Covers(o, rd.addr)
  BY DEF Covers, Start, End
<1> QED BY <1>1, <1>2, <1>3, <1>4, <1>5, <1>6 DEF AllowedOK

\* What is seen of e is the same where no chunk of the table changes.
LEMMA SeesSame ==
    ASSUME NEW t, NEW e, NEW i, Sees(t, e, i), table'[t] = table[t],
           \A p \in DOMAIN table[t] : SameChunk(table[t][p]),
           \A p \in DOMAIN table[t] : \A y \in Obj : InChunk(y, table[t][p]) => obj'[y] = obj[y],
           SameSide(t, e, i)'
    PROVE  /\ Sees(t, e, i)'
           /\ \A n : From(e, table[t][i], n) => From(e, table[t][i], n)'
<1>1. /\ i \in DOMAIN table[t] /\ InChunk(e, table[t][i])
      /\ \A p \in DOMAIN table[t] : p < i =>
           \A y \in Obj : InChunk(y, table[t][p]) => End(y) <= End(e)
      /\ \A p \in DOMAIN table[t] : i <= p => End(e) <= Last(table[t][p])
  BY DEF Sees, Splits
<1>2. \A p \in DOMAIN table[t] : /\ \A y : InChunk(y, table[t][p])' <=> InChunk(y, table[t][p])
                                 /\ Last(table[t][p])' = Last(table[t][p])
                                 /\ \A n : From(e, table[t][p], n)' <=> From(e, table[t][p], n)
  <2> SUFFICES ASSUME NEW p \in DOMAIN table[t]
               PROVE  /\ \A y : InChunk(y, table[t][p])' <=> InChunk(y, table[t][p])
                      /\ Last(table[t][p])' = Last(table[t][p])
                      /\ \A n : From(e, table[t][p], n)' <=> From(e, table[t][p], n)
    OBVIOUS
  <2>1. PICK c : c = table[t][p] /\ c = table'[t][p]
    OBVIOUS
  <2>2. SameChunk(c)
    BY <2>1
  <2>3. /\ \A y : InChunk(y, c)' <=> InChunk(y, c)
        /\ Last(c)' = Last(c)
        /\ \A n : From(e, c, n)' <=> From(e, c, n)
    BY <2>2, SameChunkFacts
  <2> QED BY <2>1, <2>3
<1>3. Splits(t, e, i)'
  BY <1>1, <1>2 DEF Splits
<1>4. Alone(t, e)'
  BY <1>2 DEF Sees, Alone, IsTombstone
<1> QED BY <1>1, <1>2, <1>3, <1>4 DEF Sees
-----------------------------------------------------------------------------
(***************************************************************************)
(* The steps of a lookup.                                                  *)
(***************************************************************************)
LookInv == \A r \in Reader : AllowedInv(r) /\ FindInv(r)

LEMMA SameFind ==
    ASSUME UNCHANGED <<obj, chunk, table, cur, writer>>, NEW rd, NEW e, NEW a
    PROVE  /\ FindOK(rd, e)' <=> FindOK(rd, e)
           /\ AllowedOK(rd, a)' <=> AllowedOK(rd, a)
<1>1. Live' = Live /\ (Adding' <=> Adding)
  BY DEF Live, LivePlaces, Places, At, IsTombstone, Adding
<1>2. /\ \A y, c : InChunk(y, c)' <=> InChunk(y, c)
      /\ \A y, t : InTable(y, t)' <=> InTable(y, t)
      /\ \A y : IsTombstone(y)' <=> IsTombstone(y)
  BY DEF InChunk, InTable, Num, Data, IsTombstone
<1>3. \A o, n : Covers(o, n)' <=> Covers(o, n)
  BY DEF Covers, Start, End
<1>4. \A t, i : Sees(t, e, i)' <=> Sees(t, e, i)
  <2>1. \A t, i : Splits(t, e, i)' <=> Splits(t, e, i)
    BY <1>2 DEF Splits, Last, End
  <2>2. \A t : Alone(t, e)' <=> Alone(t, e)
    BY <1>2 DEF Alone, Apart
  <2>3. \A t, i : SameSide(t, e, i)' <=> SameSide(t, e, i)
    BY <1>2 DEF SameSide, CurChunk
  <2> QED BY <2>1, <2>2, <2>3 DEF Sees
<1>5. \A i : Ahead(rd, e, i)' <=> Ahead(rd, e, i)
  <2>1. \A c, n : From(e, c, n)' <=> From(e, c, n)
    BY DEF From, Num, Data
  <2>2. \A i, n : Above(rd, e, i, n)' <=> Above(rd, e, i, n)
    BY <2>1 DEF Above
  <2> QED BY <2>2, <1>2 DEF Ahead, End, Start
<1>6. FindOK(rd, e)' <=> FindOK(rd, e)
  BY <1>1, <1>3, <1>4, <1>5 DEF FindOK, Looking
<1>7. AllowedOK(rd, a)' <=> AllowedOK(rd, a)
  BY <1>1, <1>2, <1>3 DEF AllowedOK, Looking
<1> QED BY <1>6, <1>7

LEMMA MoveFind ==
    ASSUME IInv, LookInv, NEW r \in Reader, NEW new, MoveReader(r, new), NEW e, NEW a,
           e = expected'[r], a = allowed'[r],
           \A q \in Reader \ {r} : expected'[q] = expected[q] /\ allowed'[q] = allowed[q],
           FindOK(new, e), AllowedOK(new, a)
    PROVE  LookInv'
<1>1. reader'[r] = new /\ \A q \in Reader \ {r} : reader'[q] = reader[q]
  BY DEF IInv, HInv, TypeOK, MoveReader
<1>2. UNCHANGED <<obj, chunk, table, cur, writer>>
  BY DEF MoveReader, heap
<1>3. ASSUME NEW q \in Reader PROVE AllowedInv(q)' /\ FindInv(q)'
  <2>1. PICK rd, f, b : rd = reader'[q] /\ f = expected'[q] /\ b = allowed'[q]
    OBVIOUS
  <2>2. FindOK(rd, f) /\ AllowedOK(rd, b)
    <3>1. CASE q = r
      BY <3>1, <2>1, <1>1
    <3>2. CASE q # r
      <4>1. rd = reader[q] /\ f = expected[q] /\ b = allowed[q]
        BY <3>2, <2>1, <1>1
      <4>2. FindInv(q) /\ AllowedInv(q)
        BY DEF LookInv
      <4> QED BY <4>1, <4>2 DEF FindInv, AllowedInv
    <3> QED BY <3>1, <3>2
  <2>3. FindOK(rd, f)' /\ AllowedOK(rd, b)'
    BY <2>2, <1>2, SameFind
  <2> QED BY <2>1, <2>3 DEF FindInv, AllowedInv
<1> QED BY <1>3 DEF LookInv

\* The same table and address: only the way to e is left to be shown.
LEMMA StillFound ==
    ASSUME NEW rd, NEW new, NEW e, FindOK(rd, e), Looking(rd), Looking(new),
           new.table = rd.table, new.addr = rd.addr,
           \A i \in DOMAIN table[rd.table] :
              /\ e # NULL /\ e \in Live /\ Covers(e, rd.addr)
              /\ Sees(rd.table, e, i) /\ Ahead(rd, e, i)
              => Ahead(new, e, i)
    PROVE  FindOK(new, e)
<1>1. new.pc # "done"
  BY DEF Looking
<1> QED BY <1>1 DEF FindOK

LEMMA StillAllowed ==
    ASSUME NEW rd, NEW new, NEW a, AllowedOK(rd, a), Looking(rd), Looking(new),
           new.table = rd.table, new.addr = rd.addr,
           new.ji = rd.ji \/ new.ji = NULL \/ (new.ji \in Obj /\ InTable(new.ji, rd.table))
    PROVE  AllowedOK(new, a)
<1>1. new.pc # "done"
  BY DEF Looking
<1> QED BY <1>1 DEF AllowedOK

LEMMA LookOn ==
    ASSUME IInv, LookInv, NEW r \in Reader, NEW rd, rd = reader[r], Looking(rd),
           NEW new, MoveReader(r, new), UNCHANGED ghosts, Looking(new),
           new.table = rd.table, new.addr = rd.addr,
           new.ji = rd.ji \/ new.ji = NULL \/ (new.ji \in Obj /\ InTable(new.ji, rd.table)),
           \A e : \A i \in DOMAIN table[rd.table] :
              /\ e # NULL /\ e \in Live /\ Covers(e, rd.addr)
              /\ Sees(rd.table, e, i) /\ Ahead(rd, e, i)
              => Ahead(new, e, i)
    PROVE  LookInv'
<1>1. PICK e, a : e = expected[r] /\ a = allowed[r]
  OBVIOUS
<1>2. FindOK(rd, e) /\ AllowedOK(rd, a)
  BY <1>1 DEF LookInv, FindInv, AllowedInv
<1>3. FindOK(new, e)
  BY <1>2, StillFound
<1>4. AllowedOK(new, a)
  BY <1>2, StillAllowed
<1>5. expected' = expected /\ allowed' = allowed
  BY DEF ghosts
<1> QED BY <1>1, <1>3, <1>4, <1>5, MoveFind

LEMMA EntryFacts ==
    ASSUME IInv, NEW r \in Reader, NEW rd, rd = reader[r], Looking(rd),
           NEW e \in Live, Covers(e, rd.addr)
    PROVE  /\ e \in Obj /\ obj[e] = "ji" /\ ~IsTombstone(e) /\ rd.addr \in Nat
           /\ Start(e) \in Nat /\ End(e) \in Nat /\ Start(e) <= rd.addr /\ rd.addr < End(e)
<1>1. e \in Obj /\ obj[e] = "ji"
  BY LiveObj DEF IInv
<1>2. rd.addr \in Nat
  BY LookupFacts
<1> QED BY <1>1, <1>2, ObjFacts DEF Covers, IsTombstone

LEMMA IndexStepLooks ==
    ASSUME IInv, LookInv, NEW r \in Reader, IndexStep(r)
    PROVE  LookInv'
<1>1. PICK rd, pos, new :
         /\ rd = reader[r] /\ pos = (rd.left + rd.right) \div 2
         /\ rd.pc = "index" /\ rd.left < rd.right
         /\ \/ new = [rd EXCEPT !.right = pos]
            \/ new = [rd EXCEPT !.left = pos + 1] /\ ~(rd.addr < Last(table[rd.table][pos + 1]))
         /\ MoveReader(r, new) /\ UNCHANGED ghosts
  BY DEF IndexStep, ReaderAt, Last
<1>2. rd \in ReaderRecord /\ rd.left \in Nat /\ rd.right \in Nat
  BY <1>1, LookupType DEF IInv, HInv
<1>3. pos \in Nat /\ rd.left <= pos /\ pos < rd.right
  BY <1>1, <1>2, HalfFacts
<1>4. /\ new.pc = "index" /\ new.addr = rd.addr /\ new.table = rd.table /\ new.ji = rd.ji
      /\ \/ new.left = rd.left
         \/ new.left = pos + 1 /\ ~(rd.addr < Last(table[rd.table][pos + 1]))
  BY <1>1, <1>2 DEF ReaderRecord
<1>5. Looking(rd) /\ Looking(new)
  BY <1>1, <1>4 DEF Looking
<1>6. PICK t, n : /\ t = rd.table /\ n = Len(table[t]) /\ n \in Nat /\ DOMAIN table[t] = 1..n
                  /\ \A k \in 1..n : table[t][k] \in Chunks
  BY <1>1, <1>5, LookupFacts
<1>7. rd.right <= n
  BY <1>1, <1>6 DEF IInv, SlotInv, SlotOK
<1>8. ASSUME NEW e, NEW i \in DOMAIN table[t], e # NULL, e \in Live, Covers(e, rd.addr),
             Sees(t, e, i), Ahead(rd, e, i)
      PROVE  Ahead(new, e, i)
  <2>1. e \in Obj /\ rd.addr \in Nat /\ End(e) \in Nat /\ rd.addr < End(e)
    BY <1>1, <1>5, <1>8, EntryFacts
  <2>2. rd.left + 1 <= i /\ i \in 1..n
    BY <1>1, <1>6, <1>8 DEF Ahead
  <2>3. CASE new.left = rd.left
    BY <1>4, <2>2, <2>3 DEF Ahead
  <2>4. CASE new.left = pos + 1 /\ ~(rd.addr < Last(table[t][pos + 1]))
    <3>1. pos + 1 \in 1..n
      BY <1>3, <1>6, <1>7, <1>2
    <3>2. PICK l : l = Last(table[t][pos + 1]) /\ l \in Nat
      BY <1>6, <3>1, ChunkFacts DEF ChunkType, IInv, HInv
    <3>3. i <= pos + 1 => End(e) <= l
      BY <1>6, <1>8, <3>1, <3>2 DEF Sees, Splits
    <3>4. ~(rd.addr < l)
      BY <2>4, <3>2
    <3>5. pos + 1 + 1 <= i
      BY <1>3, <2>1, <2>2, <3>2, <3>3, <3>4
    <3> QED BY <1>4, <2>4, <3>5 DEF Ahead
  <2> QED BY <1>4, <1>6, <2>3, <2>4
<1> QED BY <1>1, <1>4, <1>5, <1>6, <1>8, LookOn

LEMMA ChunkStartLooks ==
    ASSUME IInv, LookInv, NEW r \in Reader, ChunkStart(r)
    PROVE  LookInv'
<1>1. PICK rd, n, p, c, new :
         /\ rd = reader[r] /\ n = Len(table[rd.table]) /\ p = IF rd.left >= n THEN n - 1 ELSE rd.left
         /\ rd.pc = "index" /\ c = table[rd.table][p + 1]
         /\ new = [rd EXCEPT !.pc = "bisect", !.chunk_pos = p, !.left = 0, !.right = Num(c)]
         /\ MoveReader(r, new) /\ UNCHANGED ghosts
  BY DEF ChunkStart, ReaderAt, Num
<1>2. rd \in ReaderRecord /\ rd.left \in Nat
  BY <1>1, LookupType DEF IInv, HInv
<1>3. /\ new.pc = "bisect" /\ new.addr = rd.addr /\ new.table = rd.table /\ new.ji = rd.ji
      /\ new.left = 0 /\ new.chunk_pos = p
  BY <1>1, <1>2 DEF ReaderRecord
<1>4. Looking(rd) /\ Looking(new)
  BY <1>1, <1>3 DEF Looking
<1>5. n \in Nat /\ DOMAIN table[rd.table] = 1..n
  BY <1>1, <1>4, LookupFacts
<1>6. ASSUME NEW e, NEW i \in DOMAIN table[rd.table], Ahead(rd, e, i)
      PROVE  Ahead(new, e, i)
  <2>1. rd.left + 1 <= i /\ i \in 1..n
    BY <1>1, <1>5, <1>6 DEF Ahead
  <2>2. p + 1 <= i
    BY <1>1, <1>2, <1>5, <2>1
  <2>3. From(e, table[new.table][i], 0)
    BY SizeFacts DEF From
  <2>4. Above(new, e, i, 0)
    BY <1>3, <2>2, <2>3 DEF Above
  <2> QED BY <1>3, <2>4 DEF Ahead
<1> QED BY <1>1, <1>3, <1>4, <1>6, LookOn

\* What a lookup loads from its chunk.
LEMMA LoadFacts ==
    ASSUME IInv, NEW r \in Reader, NEW rd, rd = reader[r], Looking(rd), rd.pc # "index",
           NEW j \in Nat, NEW c, c = ChunkOfLookup(rd), j < Num(c), NEW o, o = Data(c, j)
    PROVE  /\ j \in Index /\ o \in Obj /\ obj[o] # NULL /\ InChunk(o, c) /\ InTable(o, rd.table)
           /\ c \in Chunks /\ Num(c) \in Nat /\ rd.chunk_pos + 1 \in DOMAIN table[rd.table]
           /\ c = table[rd.table][rd.chunk_pos + 1]
<1>1. /\ c \in Chunks /\ o \in Obj /\ j \in Index /\ Num(c) \in 0..CHUNK_SIZE
      /\ rd.chunk_pos + 1 \in DOMAIN table[rd.table]
  BY LookupFacts
<1>2. InChunk(o, c)
  BY <1>1 DEF InChunk
<1>3. InTable(o, rd.table)
  BY <1>1, <1>2 DEF InTable, ChunkOfLookup
<1>4. o \in Objs
  BY <1>1 DEF IInv, HInv, ElemInv
<1>5. Num(c) \in Nat
  BY <1>1, SizeFacts
<1> QED BY <1>1, <1>2, <1>3, <1>4, <1>5 DEF ChunkOfLookup, Objs

LEMMA BisectLoadLooks ==
    ASSUME IInv, LookInv, NEW r \in Reader, BisectLoad(r)
    PROVE  LookInv'
<1>1. PICK rd, pos, c, o, new :
         /\ rd = reader[r] /\ pos = (rd.left + rd.right) \div 2
         /\ rd.pc = "bisect" /\ rd.left < rd.right
         /\ c = ChunkOfLookup(rd) /\ o = Data(c, pos)
         /\ new = [rd EXCEPT !.pc = "compare", !.pos = pos, !.ji = o]
         /\ MoveReader(r, new) /\ UNCHANGED ghosts
  BY DEF BisectLoad, ReaderAt, ChunkAt, ChunkOfLookup, Data
<1>2. rd \in ReaderRecord /\ rd.left \in Nat /\ rd.right \in Nat
  BY <1>1, LookupType DEF IInv, HInv
<1>3. pos \in Nat /\ rd.left <= pos /\ pos < rd.right
  BY <1>1, <1>2, HalfFacts
<1>4. /\ new.pc = "compare" /\ new.addr = rd.addr /\ new.table = rd.table /\ new.ji = o
      /\ new.left = rd.left /\ new.pos = pos /\ new.chunk_pos = rd.chunk_pos
  BY <1>1, <1>2 DEF ReaderRecord
<1>5. Looking(rd) /\ Looking(new) /\ rd.pc # "index"
  BY <1>1, <1>4 DEF Looking
<1>6. rd.right <= Num(c)
  BY <1>1 DEF IInv, SlotInv, SlotOK
<1>7. Num(c) \in Nat
  BY <1>1, <1>5, LookupFacts, SizeFacts
<1>8. pos < Num(c)
  BY <1>2, <1>3, <1>6, <1>7
<1>9. /\ pos \in Index /\ o \in Obj /\ InTable(o, rd.table)
      /\ c \in Chunks /\ c = table[rd.table][rd.chunk_pos + 1]
  BY <1>1, <1>3, <1>5, <1>8, LoadFacts
<1>10. ASSUME NEW e, NEW i \in DOMAIN table[rd.table], e # NULL, e \in Live, Covers(e, rd.addr),
             Sees(rd.table, e, i), Ahead(rd, e, i)
      PROVE  Ahead(new, e, i)
  <2>1. e \in Obj /\ rd.addr \in Nat /\ End(e) \in Nat /\ rd.addr < End(e)
    BY <1>1, <1>5, <1>10, EntryFacts
  <2>2. Above(rd, e, i, rd.left)
    BY <1>1, <1>10 DEF Ahead
  <2>3. Above(new, e, i, new.left)
    BY <1>4, <2>2 DEF Above
  <2>4. ASSUME End(o) <= rd.addr PROVE Above(new, e, i, pos + 1)
    <3>1. rd.chunk_pos + 1 <= i
      BY <2>2 DEF Above
    <3>2. ASSUME rd.chunk_pos + 1 = i, NEW j \in Index, j < Num(c), Data(c, j) = e PROVE pos + 1 <= j
      <4>1. j <= pos => End(Data(c, j)) <= End(Data(c, pos))
        BY <1>8, <1>9, <3>2 DEF IInv, HInv, OrderInv
      <4>0. j \in Nat
        BY SizeFacts
      <4>2. j \in Nat /\ End(o) \in Nat
        BY <1>9, <4>0, ObjFacts
      <4>3. j <= pos => End(e) <= End(o)
        BY <1>1, <3>2, <4>1
      <4>4. ~(End(e) <= End(o))
        BY <2>1, <2>4, <4>2
      <4> QED BY <1>3, <4>2, <4>3, <4>4
    <3>3. rd.chunk_pos + 1 = i => From(e, table[rd.table][i], pos + 1)
      BY <1>9, <3>2 DEF From
    <3> QED BY <1>4, <3>1, <3>3 DEF Above
  <2> QED BY <1>4, <2>3, <2>4 DEF Ahead
<1>11. new.ji \in Obj /\ InTable(new.ji, rd.table)
  BY <1>4, <1>9
<1>12. \A e : \A i \in DOMAIN table[rd.table] :
         /\ e # NULL /\ e \in Live /\ Covers(e, rd.addr)
         /\ Sees(rd.table, e, i) /\ Ahead(rd, e, i)
         => Ahead(new, e, i)
  BY <1>10
<1>13. Looking(rd) /\ Looking(new) /\ new.table = rd.table /\ new.addr = rd.addr
  BY <1>4, <1>5
<1>14. rd = reader[r] /\ MoveReader(r, new) /\ UNCHANGED ghosts
  BY <1>1
<1> QED BY <1>11, <1>12, <1>13, <1>14, LookOn

LEMMA BisectCompareLooks ==
    ASSUME IInv, LookInv, NEW r \in Reader, BisectCompare(r)
    PROVE  LookInv'
<1>1. PICK rd, new :
         /\ rd = reader[r] /\ rd.pc = "compare"
         /\ \/ new = [rd EXCEPT !.pc = "bisect", !.right = rd.pos]
            \/ new = [rd EXCEPT !.pc = "bisect", !.left = rd.pos + 1] /\ ~(rd.addr < End(rd.ji))
         /\ MoveReader(r, new) /\ UNCHANGED ghosts
  BY DEF BisectCompare, ReaderAt
<1>2. rd \in ReaderRecord
  BY <1>1, LookupType DEF IInv, HInv
<1>3. /\ new.pc = "bisect" /\ new.addr = rd.addr /\ new.table = rd.table /\ new.ji = rd.ji
      /\ new.chunk_pos = rd.chunk_pos
      /\ \/ new.left = rd.left
         \/ new.left = rd.pos + 1 /\ ~(rd.addr < End(rd.ji))
  BY <1>1, <1>2 DEF ReaderRecord
<1>4. Looking(rd) /\ Looking(new)
  BY <1>1, <1>3 DEF Looking
<1>5. rd.ji \in Obj
  BY <1>1 DEF IInv, SlotInv, SlotOK
<1>6. rd.addr \in Nat /\ End(rd.ji) \in Nat
  BY <1>1, <1>4, <1>5, LookupFacts, ObjFacts
<1>7. ASSUME NEW e, NEW i \in DOMAIN table[rd.table], Ahead(rd, e, i)
      PROVE  Ahead(new, e, i)
  <2>1. /\ Above(rd, e, i, rd.left)
        /\ End(rd.ji) <= rd.addr => Above(rd, e, i, rd.pos + 1)
    BY <1>1, <1>7 DEF Ahead
  <2>2. ~(rd.addr < End(rd.ji)) => End(rd.ji) <= rd.addr
    BY <1>6
  <2>3. Above(rd, e, i, new.left)
    BY <1>3, <2>1, <2>2
  <2>4. Above(new, e, i, new.left)
    BY <1>3, <2>3 DEF Above
  <2> QED BY <1>3, <2>4 DEF Ahead
<1> QED BY <1>1, <1>3, <1>4, <1>7, LookOn

LEMMA BisectEndLooks ==
    ASSUME IInv, LookInv, NEW r \in Reader, BisectEnd(r)
    PROVE  LookInv'
<1>1. PICK rd, new :
         /\ rd = reader[r] /\ rd.pc = "bisect"
         /\ new = [rd EXCEPT !.pc = "scan", !.pos = rd.left]
         /\ MoveReader(r, new) /\ UNCHANGED ghosts
  BY DEF BisectEnd, ReaderAt
<1>2. rd \in ReaderRecord
  BY <1>1, LookupType DEF IInv, HInv
<1>3. /\ new.pc = "scan" /\ new.addr = rd.addr /\ new.table = rd.table /\ new.ji = rd.ji
      /\ new.chunk_pos = rd.chunk_pos /\ new.pos = rd.left
  BY <1>1, <1>2 DEF ReaderRecord
<1>4. Looking(rd) /\ Looking(new)
  BY <1>1, <1>3 DEF Looking
<1>5. ASSUME NEW e, NEW i \in DOMAIN table[rd.table], Ahead(rd, e, i)
      PROVE  Ahead(new, e, i)
  <2>1. Above(rd, e, i, rd.left)
    BY <1>1, <1>5 DEF Ahead
  <2>2. Above(new, e, i, new.pos)
    BY <1>3, <2>1 DEF Above
  <2> QED BY <1>3, <2>2 DEF Ahead
<1> QED BY <1>1, <1>3, <1>4, <1>5, LookOn

LEMMA ScanLoadLooks ==
    ASSUME IInv, LookInv, NEW r \in Reader, ScanLoad(r)
    PROVE  LookInv'
<1>1. PICK rd, c, o, new :
         /\ rd = reader[r] /\ rd.pc = "scan"
         /\ c = ChunkOfLookup(rd) /\ o = Data(c, rd.pos) /\ rd.pos < Num(c)
         /\ new = [rd EXCEPT !.pc = "match", !.ji = o, !.pos = rd.pos + 1]
         /\ MoveReader(r, new) /\ UNCHANGED ghosts
  BY DEF ScanLoad, ReaderAt, ChunkAt, ChunkOfLookup, Data, Num
<1>2. rd \in ReaderRecord /\ rd.pos \in Nat
  BY <1>1, LookupType, SizeFacts DEF IInv, HInv
<1>3. /\ new.pc = "match" /\ new.addr = rd.addr /\ new.table = rd.table /\ new.ji = o
      /\ new.pos = rd.pos + 1 /\ new.chunk_pos = rd.chunk_pos
  BY <1>1, <1>2 DEF ReaderRecord
<1>4. Looking(rd) /\ Looking(new) /\ rd.pc # "index"
  BY <1>1, <1>3 DEF Looking
<1>5. /\ rd.pos \in Index /\ o \in Obj /\ InTable(o, rd.table) /\ InChunk(o, c)
      /\ c \in Chunks /\ c = table[rd.table][rd.chunk_pos + 1]
      /\ rd.chunk_pos + 1 \in DOMAIN table[rd.table]
  BY <1>1, <1>2, <1>4, LoadFacts
<1>6. ASSUME NEW e, NEW i \in DOMAIN table[rd.table], e # NULL, e \in Live, Covers(e, rd.addr),
             Sees(rd.table, e, i), Ahead(rd, e, i)
      PROVE  Ahead(new, e, i)
  <2>1. e \in Obj /\ End(e) \in Nat /\ Start(e) \in Nat /\ Start(e) < End(e)
    BY <1>1, <1>4, <1>6, EntryFacts, ObjFacts
  <2>2. Above(rd, e, i, rd.pos)
    BY <1>1, <1>6 DEF Ahead
  <2>3. rd.chunk_pos + 1 <= i
    BY <2>2 DEF Above
  <2>4. ASSUME o # e PROVE Above(new, e, i, new.pos)
    <3>1. ASSUME rd.chunk_pos + 1 = i, NEW j \in Index, j < Num(c), Data(c, j) = e
          PROVE rd.pos + 1 <= j
      <4>1. From(e, c, rd.pos)
        BY <1>5, <2>2, <3>1 DEF Above
      <4>2. rd.pos <= j
        BY <4>1, <3>1 DEF From
      <4>3. j # rd.pos /\ j \in Nat
        BY <1>1, <2>4, <3>1, SizeFacts
      <4> QED BY <1>2, <4>2, <4>3
    <3>2. rd.chunk_pos + 1 = i => From(e, table[rd.table][i], rd.pos + 1)
      BY <1>5, <3>1 DEF From
    <3> QED BY <1>3, <2>3, <3>2 DEF Above
  <2>5. ASSUME o # e, ~IsTombstone(o) PROVE End(o) <= Start(e)
    <3>1. Apart(o, e)
      BY <1>5, <1>6, <2>5 DEF Sees, Alone
    <3>2. End(o) <= Start(e) \/ End(e) <= Start(o)
      BY <3>1, ApartObj
    <3>3. End(o) <= End(e)
      <4>1. CASE rd.chunk_pos + 1 = i
        <5>1. InChunk(e, c) /\ From(e, c, rd.pos)
          BY <1>5, <1>6, <2>2, <4>1 DEF Above, Sees, Splits
        <5>2. PICK j \in Index : j < Num(c) /\ Data(c, j) = e
          BY <5>1 DEF InChunk
        <5>3. rd.pos <= j
          BY <5>1, <5>2 DEF From
        <5>4. End(Data(c, rd.pos)) <= End(Data(c, j))
          BY <1>5, <5>2, <5>3 DEF IInv, HInv, OrderInv
        <5> QED BY <1>1, <5>2, <5>4
      <4>2. CASE rd.chunk_pos + 1 < i
        BY <1>5, <1>6, <4>2 DEF Sees, Splits
      <4>3. i \in Nat /\ rd.chunk_pos + 1 \in Nat
        <5>1. DOMAIN table[rd.table] = 1..Len(table[rd.table]) /\ Len(table[rd.table]) \in Nat
          BY <1>1, <1>4, LookupFacts
        <5> QED BY <1>5, <1>6, <5>1
      <4> QED BY <2>3, <4>1, <4>2, <4>3
    <3>4. Start(o) \in Nat /\ End(o) \in Nat /\ Start(o) < End(o)
      BY <1>5, ObjFacts
    <3> QED BY <2>1, <3>2, <3>3, <3>4
  <2>6. Above(new, e, i, new.pos) \/ new.ji = e
    BY <1>3, <2>4
  <2>7. new.ji = e \/ End(new.ji) <= Start(e) \/ (IsTombstone(new.ji) /\ InTable(new.ji, new.table))
    BY <1>3, <1>5, <2>5
  <2> QED BY <1>3, <2>6, <2>7 DEF Ahead
<1>7. \A e : \A i \in DOMAIN table[rd.table] :
         /\ e # NULL /\ e \in Live /\ Covers(e, rd.addr)
         /\ Sees(rd.table, e, i) /\ Ahead(rd, e, i)
         => Ahead(new, e, i)
  BY <1>6
<1>8. new.ji \in Obj /\ InTable(new.ji, rd.table)
  BY <1>3, <1>5
<1>9. Looking(rd) /\ Looking(new) /\ new.table = rd.table /\ new.addr = rd.addr
  BY <1>3, <1>4
<1>10. rd = reader[r] /\ MoveReader(r, new) /\ UNCHANGED ghosts
  BY <1>1
<1> QED BY <1>7, <1>8, <1>9, <1>10, LookOn

\* At the end of a chunk the entry is not in it.
LEMMA ChunkPassed ==
    ASSUME IInv, NEW r \in Reader, NEW rd, rd = reader[r], rd.pc = "scan",
           ~(rd.pos < Num(ChunkOfLookup(rd))),
           NEW e \in Live, Covers(e, rd.addr), NEW i \in DOMAIN table[rd.table],
           Sees(rd.table, e, i), Ahead(rd, e, i)
    PROVE  rd.chunk_pos + 1 < i
<1>1. PICK c : c = ChunkOfLookup(rd)
  OBVIOUS
<1>2. Looking(rd) /\ rd.pc # "index"
  BY DEF Looking
<1>3. Above(rd, e, i, rd.pos) /\ rd.chunk_pos + 1 <= i
  BY DEF Ahead, Above
<1>4. rd.chunk_pos + 1 # i
  <2> SUFFICES ASSUME rd.chunk_pos + 1 = i PROVE FALSE
    OBVIOUS
  <2>1. c = table[rd.table][i]
    BY <1>1 DEF ChunkOfLookup
  <2>2. InChunk(e, c) /\ From(e, c, rd.pos)
    BY <1>3, <2>1 DEF Above, Sees, Splits
  <2>3. PICK j \in Index : j < Num(c) /\ Data(c, j) = e
    BY <2>2 DEF InChunk
  <2>4. rd.pos <= j
    BY <2>2, <2>3 DEF From
  <2>5. j \in Nat /\ rd.pos \in Nat
    BY LookupType, SizeFacts DEF IInv, HInv
  <2>6. Num(c) \in Nat
    BY <1>1, <1>2, LookupFacts, SizeFacts
  <2>7. ~(rd.pos < Num(c))
    BY <1>1
  <2> QED BY <2>3, <2>4, <2>5, <2>6, <2>7
<1>5. i \in Nat /\ rd.chunk_pos + 1 \in Nat
  BY <1>2, LookupFacts
<1> QED BY <1>3, <1>4, <1>5

LEMMA NextChunkLooks ==
    ASSUME IInv, LookInv, NEW r \in Reader, NextChunk(r)
    PROVE  LookInv'
<1>1. PICK rd, new :
         /\ rd = reader[r] /\ rd.pc = "scan" /\ rd.pos >= Num(ChunkOfLookup(rd))
         /\ new = [rd EXCEPT !.chunk_pos = @ + 1, !.pos = 0]
         /\ MoveReader(r, new) /\ UNCHANGED ghosts
  BY DEF NextChunk, ReaderAt, ChunkAt, ChunkOfLookup, Num
<1>2. rd \in ReaderRecord /\ rd.pos \in Nat
  BY <1>1, LookupType, SizeFacts DEF IInv, HInv
<1>3. /\ new.pc = "scan" /\ new.addr = rd.addr /\ new.table = rd.table /\ new.ji = rd.ji
      /\ new.pos = 0 /\ new.chunk_pos = rd.chunk_pos + 1
  BY <1>1, <1>2 DEF ReaderRecord
<1>4. Looking(rd) /\ Looking(new) /\ rd.pc # "index"
  BY <1>1, <1>3 DEF Looking
<1>5. /\ Num(ChunkOfLookup(rd)) \in Nat /\ rd.chunk_pos + 1 \in Nat
      /\ \A i \in DOMAIN table[rd.table] : i \in Nat
  <2>1. DOMAIN table[rd.table] = 1..Len(table[rd.table]) /\ Len(table[rd.table]) \in Nat
    BY <1>1, <1>4, LookupFacts
  <2>2. rd.chunk_pos + 1 \in 1..Len(table[rd.table])
    BY <1>1, <1>4, LookupFacts
  <2>3. Num(ChunkOfLookup(rd)) \in 0..CHUNK_SIZE
    BY <1>1, <1>4, LookupFacts
  <2> QED BY <2>1, <2>2, <2>3, SizeFacts
<1>6. ~(rd.pos < Num(ChunkOfLookup(rd)))
  BY <1>1, <1>2, <1>5
<1>7. ASSUME NEW e, NEW i \in DOMAIN table[rd.table], e # NULL, e \in Live, Covers(e, rd.addr),
             Sees(rd.table, e, i), Ahead(rd, e, i)
      PROVE  Ahead(new, e, i)
  <2>1. rd.chunk_pos + 1 < i
    BY <1>1, <1>6, <1>7, ChunkPassed
  <2>2. rd.chunk_pos + 1 + 1 <= i
    BY <1>5, <2>1
  <2>3. From(e, table[new.table][i], 0)
    BY SizeFacts DEF From
  <2>4. Above(new, e, i, 0)
    BY <1>3, <2>2, <2>3 DEF Above
  <2> QED BY <1>3, <2>4 DEF Ahead
<1> QED BY <1>1, <1>3, <1>4, <1>7, LookOn

LEMMA FoundLooks ==
    ASSUME IInv, LookInv, NEW r \in Reader, NEW rd, rd = reader[r], Looking(rd), NEW ji,
           MoveReader(r, Found(rd, ji)), UNCHANGED ghosts,
           expected[r] # NULL => ji = expected[r],
           ji # NULL => ji \in allowed[r]
    PROVE  LookInv'
<1>1. PICK new, e, a : new = Found(rd, ji) /\ e = expected[r] /\ a = allowed[r]
  OBVIOUS
<1>2. rd \in ReaderRecord
  BY LookupType DEF IInv, HInv
<1>3. new.pc = "done" /\ new.addr = rd.addr /\ new.ji = NULL /\ new.result = ji
  BY <1>1, <1>2 DEF Found, ReaderRecord
<1>4. AllowedOK(rd, a)
  BY <1>1 DEF LookInv, AllowedInv
<1>5. AllowedOK(new, a)
  BY <1>1, <1>3, <1>4 DEF AllowedOK, Looking
<1>6. FindOK(new, e)
  BY <1>1, <1>3 DEF FindOK, Looking
<1>7. expected' = expected /\ allowed' = allowed
  BY DEF ghosts
<1> QED BY <1>1, <1>5, <1>6, <1>7, MoveFind

LEMMA ScanEndLooks ==
    ASSUME IInv, LookInv, NEW r \in Reader, ScanEnd(r)
    PROVE  LookInv'
<1>1. PICK rd :
         /\ rd = reader[r] /\ rd.pc = "scan" /\ rd.pos >= Num(ChunkOfLookup(rd))
         /\ rd.chunk_pos + 1 >= Len(table[rd.table])
         /\ MoveReader(r, Found(rd, NULL)) /\ UNCHANGED ghosts
  BY DEF ScanEnd, ReaderAt, ChunkAt, ChunkOfLookup, Num
<1>2. rd.pos \in Nat
  BY <1>1, LookupType, SizeFacts DEF IInv, HInv
<1>3. Looking(rd) /\ rd.pc # "index"
  BY <1>1 DEF Looking
<1>4. /\ Num(ChunkOfLookup(rd)) \in Nat /\ rd.chunk_pos + 1 \in Nat
      /\ Len(table[rd.table]) \in Nat /\ DOMAIN table[rd.table] = 1..Len(table[rd.table])
  BY <1>1, <1>3, LookupFacts, SizeFacts
<1>5. ~(rd.pos < Num(ChunkOfLookup(rd)))
  BY <1>1, <1>2, <1>4
<1>6. expected[r] = NULL
  <2> SUFFICES ASSUME expected[r] # NULL PROVE FALSE
    OBVIOUS
  <2>1. PICK e : e = expected[r] /\ FindOK(rd, e) /\ e # NULL
    BY <1>1 DEF LookInv, FindInv
  <2>2. PICK i \in DOMAIN table[rd.table] :
          e \in Live /\ Covers(e, rd.addr) /\ Sees(rd.table, e, i) /\ Ahead(rd, e, i)
    BY <1>3, <2>1 DEF FindOK
  <2>3. rd.chunk_pos + 1 < i
    BY <1>1, <1>5, <2>2, ChunkPassed
  <2> QED BY <1>1, <1>4, <2>3
<1> QED BY <1>1, <1>3, <1>6, FoundLooks

LEMMA MatchLooks ==
    ASSUME IInv, LookInv, NEW r \in Reader, Match(r)
    PROVE  LookInv'
<1>1. PICK rd : rd = reader[r] /\ rd.pc = "match" /\ rd.ji # NULL /\ obj[rd.ji] # NULL
         /\ MoveReader(r, IF IsTombstone(rd.ji) THEN [rd EXCEPT !.pc = "scan", !.ji = NULL]
                          ELSE IF Covers(rd.ji, rd.addr) THEN Found(rd, rd.ji)
                          ELSE IF rd.addr < Start(rd.ji) THEN Found(rd, NULL)
                          ELSE [rd EXCEPT !.pc = "scan"])
         /\ UNCHANGED ghosts
  BY DEF Match, ReaderAt, Readable
<1>2. rd \in ReaderRecord /\ rd.ji \in Obj
  BY <1>1, LookupType DEF IInv, HInv
<1>3. Looking(rd)
  BY <1>1 DEF Looking
<1>4. obj[rd.ji] \in {"ji", "tombstone"} /\ rd.addr \in Nat /\ Start(rd.ji) \in Nat
      /\ End(rd.ji) \in Nat /\ Start(rd.ji) < End(rd.ji)
  BY <1>1, <1>2, <1>3, LookupFacts, ObjFacts DEF IInv, HInv, TypeOK
<1>5. PICK e, a : e = expected[r] /\ a = allowed[r] /\ FindOK(rd, e) /\ AllowedOK(rd, a)
  BY <1>1 DEF LookInv, FindInv, AllowedInv
<1>6. ASSUME NEW f \in Live, Covers(f, rd.addr), NEW i, Ahead(rd, f, i)
      PROVE  /\ f \in Obj /\ ~IsTombstone(f) /\ Start(f) \in Nat /\ Start(f) <= rd.addr
             /\ Above(rd, f, i, rd.pos) \/ rd.ji = f
             /\ rd.ji = f \/ End(rd.ji) <= Start(f) \/ IsTombstone(rd.ji)
  <2>1. f \in Obj /\ ~IsTombstone(f) /\ Start(f) \in Nat /\ Start(f) <= rd.addr
    BY <1>1, <1>3, <1>6, EntryFacts
  <2> QED BY <1>1, <1>6, <2>1 DEF Ahead
<1>7. ASSUME NEW new, MoveReader(r, new), rd.ji \notin Live \/ ~Covers(rd.ji, rd.addr),
             new = [rd EXCEPT !.pc = "scan", !.ji = NULL] \/ new = [rd EXCEPT !.pc = "scan"]
      PROVE  LookInv'
  <2>1. /\ new.pc = "scan" /\ new.addr = rd.addr /\ new.table = rd.table
        /\ new.chunk_pos = rd.chunk_pos /\ new.pos = rd.pos /\ new.ji \in {rd.ji, NULL}
    BY <1>2, <1>7 DEF ReaderRecord
  <2>2. Looking(new)
    BY <2>1 DEF Looking
  <2>3. ASSUME NEW f, NEW i \in DOMAIN table[rd.table], f # NULL, f \in Live, Covers(f, rd.addr),
               Sees(rd.table, f, i), Ahead(rd, f, i)
        PROVE  Ahead(new, f, i)
    <3>1. Above(rd, f, i, rd.pos)
      BY <1>6, <1>7, <2>3
    <3>2. Above(new, f, i, new.pos)
      BY <2>1, <3>1 DEF Above
    <3> QED BY <2>1, <3>2 DEF Ahead
  <2>4. \A f : \A i \in DOMAIN table[rd.table] :
           /\ f # NULL /\ f \in Live /\ Covers(f, rd.addr)
           /\ Sees(rd.table, f, i) /\ Ahead(rd, f, i)
           => Ahead(new, f, i)
    BY <2>3
  <2>5. new.ji = rd.ji \/ new.ji = NULL
    BY <2>1
  <2>6. rd = reader[r] /\ UNCHANGED ghosts /\ new.table = rd.table /\ new.addr = rd.addr
    BY <1>1, <2>1
  <2> QED BY <1>3, <1>7, <2>2, <2>4, <2>5, <2>6, LookOn
<1>8. CASE IsTombstone(rd.ji)
  <2>1. rd.ji \notin Live
    BY <1>8, LiveObj DEF IInv, IsTombstone
  <2> QED BY <1>1, <1>7, <1>8, <2>1
<1>9. CASE ~IsTombstone(rd.ji) /\ Covers(rd.ji, rd.addr)
  <2>1. obj[rd.ji] = "ji"
    BY <1>4, <1>9 DEF IsTombstone
  <2>2. rd.ji \in a
    BY <1>1, <1>5, <1>9, <2>1 DEF AllowedOK
  <2>3. e # NULL => rd.ji = e
    <3> SUFFICES ASSUME e # NULL, rd.ji # e PROVE FALSE
      OBVIOUS
    <3>1. PICK i \in DOMAIN table[rd.table] : e \in Live /\ Covers(e, rd.addr) /\ Ahead(rd, e, i)
      BY <1>3, <1>5 DEF FindOK
    <3>2. End(rd.ji) <= Start(e) /\ Start(e) <= rd.addr /\ Start(e) \in Nat
      BY <1>6, <1>9, <3>1
    <3>3. rd.addr < End(rd.ji)
      BY <1>9 DEF Covers
    <3> QED BY <1>4, <3>2, <3>3
  <2>4. MoveReader(r, Found(rd, rd.ji))
    BY <1>1, <1>9
  <2> QED BY <1>1, <1>3, <1>5, <2>2, <2>3, <2>4, FoundLooks
<1>10. CASE ~IsTombstone(rd.ji) /\ ~Covers(rd.ji, rd.addr) /\ rd.addr < Start(rd.ji)
  <2>1. e = NULL
    <3> SUFFICES ASSUME e # NULL PROVE FALSE
      OBVIOUS
    <3>1. PICK i \in DOMAIN table[rd.table] : e \in Live /\ Covers(e, rd.addr) /\ Ahead(rd, e, i)
      BY <1>3, <1>5 DEF FindOK
    <3>2. End(rd.ji) <= Start(e) /\ Start(e) <= rd.addr /\ Start(e) \in Nat
      BY <1>6, <1>10, <3>1
    <3> QED BY <1>4, <1>10, <3>2
  <2>2. MoveReader(r, Found(rd, NULL))
    BY <1>1, <1>10
  <2> QED BY <1>1, <1>3, <1>5, <2>1, <2>2, FoundLooks
<1>11. CASE ~IsTombstone(rd.ji) /\ ~Covers(rd.ji, rd.addr) /\ ~(rd.addr < Start(rd.ji))
  BY <1>1, <1>7, <1>11
<1> QED BY <1>8, <1>9, <1>10, <1>11

LEMMA FindReturnLooks ==
    ASSUME IInv, LookInv, NEW r \in Reader, FindReturn(r)
    PROVE  LookInv'
<1>1. /\ MoveReader(r, IdleReader) /\ expected' = [expected EXCEPT ![r] = NULL]
      /\ allowed' = [allowed EXCEPT ![r] = {}]
  BY DEF FindReturn
<1>2. /\ expected'[r] = NULL /\ allowed'[r] = {}
      /\ \A q \in Reader \ {r} : expected'[q] = expected[q] /\ allowed'[q] = allowed[q]
  BY <1>1 DEF IInv, HInv, TypeOK
<1>3. IdleReader.pc = "idle" /\ IdleReader.ji = NULL /\ IdleReader.addr = -1
  BY DEF IdleReader
<1>4. FindOK(IdleReader, NULL)
  BY <1>3 DEF FindOK
<1>5. AllowedOK(IdleReader, {})
  <2>1. ~(Adding /\ Covers(writer.ji, -1))
    <3>1. Adding => writer.ji \in Obj
      BY DEF IInv, HInv, WriterInv
    <3>2. writer.ji \in Obj => Start(writer.ji) \in Nat
      BY ObjFacts
    <3> QED BY <3>1, <3>2 DEF Covers
  <2> QED BY <1>3, <2>1 DEF AllowedOK, Looking
<1> QED BY <1>1, <1>2, <1>4, <1>5, MoveFind

\* A lookup in the current table sees every entry but the one that add works on.
LEMMA CurSees ==
    ASSUME HInv, cur # NULL, NEW e \in Live, Adding => e # writer.ji
    PROVE  \E i \in DOMAIN table[cur] : Sees(cur, e, i)
<1>1. e \in Obj /\ InTable(e, cur)
  BY LiveObj
<1>2. PICK i \in DOMAIN table[cur], j \in Index :
         InChunk(e, CurChunk(i)) /\ j < Num(CurChunk(i)) /\ Data(CurChunk(i), j) = e
  BY <1>1 DEF InTable, InChunk, CurChunk
<1>3. /\ DOMAIN table[cur] = 1..Len(table[cur]) /\ Len(table[cur]) \in Nat
      /\ \A p \in DOMAIN table[cur] : CurChunk(p) \in Chunks /\ CurChunk(p) # NULL
                                      /\ Last(CurChunk(p)) \in Nat
      /\ \A p, q \in DOMAIN table[cur] : CurChunk(p) = CurChunk(q) => p = q
  BY CurFacts
<1>4. ASSUME NEW p \in DOMAIN table[cur], writer.chunk = CurChunk(p)
      PROVE  Adding
  BY <1>3, <1>4 DEF HInv, PlaceInv, Storing, Adding
<1>5. ASSUME NEW p \in DOMAIN table[cur], NEW y \in Obj, InChunk(y, CurChunk(p)),
             p # Len(table[cur]) \/ y = e
      PROVE  End(y) <= Last(CurChunk(p))
  <2>1. PICK k \in Index : k < Num(CurChunk(p)) /\ Data(CurChunk(p), k) = y
    BY <1>5 DEF InChunk
  <2>2. \/ End(Data(CurChunk(p), k)) <= Last(CurChunk(p))
        \/ /\ Data(CurChunk(p), k) = writer.ji
           /\ writer.chunk = CurChunk(p) /\ p = Len(table[cur])
    BY <2>1 DEF HInv, OrderInv
  <2>3. ~(y = e /\ y = writer.ji /\ writer.chunk = CurChunk(p))
    BY <1>4
  <2> QED BY <1>5, <2>1, <2>2, <2>3
<1>6. End(e) \in Nat
  BY <1>1, ObjFacts
<1>7. \A p, q \in DOMAIN table[cur] : p < q =>
        /\ Last(CurChunk(p)) <= Last(CurChunk(q))
        /\ \A k \in Index : k < Num(CurChunk(q)) => Last(CurChunk(p)) <= End(Data(CurChunk(q), k))
  BY DEF HInv, OrderInv
<1>8. Splits(cur, e, i)
  <2>1. ASSUME NEW p \in DOMAIN table[cur], p < i, NEW y \in Obj, InChunk(y, CurChunk(p))
        PROVE  End(y) <= End(e)
    <3>1. p # Len(table[cur])
      BY <1>2, <1>3, <2>1
    <3>2. End(y) <= Last(CurChunk(p))
      BY <1>5, <2>1, <3>1
    <3>3. Last(CurChunk(p)) <= End(e)
      BY <1>2, <1>7, <2>1
    <3>4. End(y) \in Nat /\ Last(CurChunk(p)) \in Nat
      BY <1>3, <2>1, ObjFacts
    <3> QED BY <1>6, <3>2, <3>3, <3>4
  <2>2. ASSUME NEW p \in DOMAIN table[cur], i <= p PROVE End(e) <= Last(CurChunk(p))
    <3>1. End(e) <= Last(CurChunk(i))
      BY <1>1, <1>2, <1>5
    <3>2. p = i \/ i < p
      BY <1>2, <1>3, <2>2
    <3>3. i < p => Last(CurChunk(i)) <= Last(CurChunk(p))
      BY <1>2, <1>7
    <3>4. Last(CurChunk(i)) \in Nat /\ Last(CurChunk(p)) \in Nat
      BY <1>2, <1>3
    <3> QED BY <1>6, <3>1, <3>2, <3>3, <3>4
  <2> QED BY <1>2, <2>1, <2>2 DEF Splits, CurChunk
<1>9. Alone(cur, e)
  <2> SUFFICES ASSUME NEW p \in DOMAIN table[cur], NEW y \in Obj, InChunk(y, table[cur][p])
               PROVE  IsTombstone(y) \/ y = e \/ Apart(y, e)
    BY DEF Alone
  <2>1. InTable(y, cur)
    BY DEF InTable
  <2>2. IsTombstone(y) \/ y \in Live
    BY <2>1, LiveFacts DEF LiveIs, IsTombstone
  <2> QED BY <2>2 DEF HInv, LiveInv
<1>10. SameSide(cur, e, i)
  <2> SUFFICES ASSUME NEW p \in DOMAIN table[cur], NEW q \in DOMAIN table[cur], NEW k \in DOMAIN table[cur],
                      CurChunk(p) = CurChunk(q), InChunk(e, CurChunk(k))
               PROVE  p = q /\ k = i
    BY DEF SameSide, CurChunk
  <2>1. p = q
    BY <1>3
  <2>2. PICK l \in Index : l < Num(CurChunk(k)) /\ Data(CurChunk(k), l) = e
    BY DEF InChunk
  <2>3. k = i
    BY <1>2, <2>2 DEF HInv, UniqInv
  <2> QED BY <2>1, <2>3
<1> QED BY <1>2, <1>8, <1>9, <1>10 DEF Sees

LEMMA FindStartLooks ==
    ASSUME IInv, LookInv, NEW r \in Reader, NEW addr \in Address, FindStart(r, addr)
    PROVE  LookInv'
<1>0. PICK hit, added :
         /\ hit = {o \in Live : Covers(o, addr)}
         /\ added = hit \ (IF writer.pc = "idle" THEN {} ELSE {writer.ji})
  OBVIOUS
<1>1. PICK new, e, a :
         /\ cur # NULL
         /\ new = [IdleReader EXCEPT !.pc = "index", !.addr = addr, !.table = cur,
                                     !.right = Len(table[cur])]
         /\ MoveReader(r, new)
         /\ e = IF added = {} THEN NULL ELSE CHOOSE o \in added : TRUE
         /\ a = hit \cup {o \in Obj : Adding /\ o = writer.ji /\ Covers(o, addr)}
         /\ expected' = [expected EXCEPT ![r] = e]
         /\ allowed' = [allowed EXCEPT ![r] = a]
  BY <1>0 DEF FindStart
<1>2. /\ expected'[r] = e /\ allowed'[r] = a
      /\ \A q \in Reader \ {r} : expected'[q] = expected[q] /\ allowed'[q] = allowed[q]
  BY <1>1 DEF IInv, HInv, TypeOK
<1>3. new.pc = "index" /\ new.addr = addr /\ new.table = cur /\ new.left = 0 /\ new.ji = NULL
  BY <1>1 DEF IdleReader
<1>4. HInv
  BY DEF IInv
<1>5. AllowedOK(new, a)
  <2>1. ASSUME NEW o \in Obj, obj[o] = "ji", Covers(o, addr), InTable(o, cur) PROVE o \in a
    <3>1. o \in Live
      BY <1>1, <2>1, LiveFacts DEF LiveIs
    <3> QED BY <1>0, <1>1, <2>1, <3>1
  <2>2. ASSUME Adding, Covers(writer.ji, addr) PROVE writer.ji \in a
    <3>1. writer.ji \in Obj
      BY <1>4, <2>2 DEF HInv, WriterInv
    <3> QED BY <1>1, <2>2, <3>1
  <2> QED BY <1>3, <2>1, <2>2 DEF AllowedOK
<1>6. FindOK(new, e)
  <2> SUFFICES ASSUME e # NULL
               PROVE  /\ e \in Live /\ Covers(e, addr) /\ (Adding => e # writer.ji)
                      /\ \E i \in DOMAIN table[cur] : Sees(cur, e, i) /\ Ahead(new, e, i)
    BY <1>3 DEF FindOK
  <2>1. e \in added
    BY <1>1
  <2>2. e \in Live /\ Covers(e, addr)
    BY <1>0, <2>1
  <2>3. Adding => e # writer.ji
    BY <1>0, <2>1 DEF Adding
  <2>4. PICK i \in DOMAIN table[cur] : Sees(cur, e, i)
    BY <1>1, <1>4, <2>2, <2>3, CurSees
  <2>5. 0 + 1 <= i
    BY <1>1, <1>4, CurFacts
  <2>6. Ahead(new, e, i)
    BY <1>3, <2>5 DEF Ahead
  <2> QED BY <2>2, <2>3, <2>4, <2>6
<1>7. MoveReader(r, new)
  BY <1>1
<1> QED BY <1>2, <1>5, <1>6, <1>7, MoveFind
-----------------------------------------------------------------------------
(***************************************************************************)
(* What lookups see during the steps of the others.                        *)
(***************************************************************************)

\* No lookup is under way.
LEMMA IdleLooks ==
    ASSUME IInv, \A r \in Reader : reader[r].pc = "idle", ~Adding',
           UNCHANGED <<reader, expected, allowed>>
    PROVE  LookInv'
<1> SUFFICES ASSUME NEW r \in Reader PROVE AllowedInv(r)' /\ FindInv(r)'
  BY DEF LookInv
<1>1. PICK rd, e, a : rd = reader[r] /\ e = expected[r] /\ a = allowed[r]
  OBVIOUS
<1>2. rd.pc = "idle" /\ rd.ji = NULL /\ e = NULL
  BY <1>1 DEF IInv, SlotInv, SlotOK, Looking
<1>3. AllowedOK(rd, a)'
  BY <1>2 DEF AllowedOK, Looking
<1>4. FindOK(rd, e)'
  BY <1>2 DEF FindOK, Looking
<1> QED BY <1>1, <1>3, <1>4 DEF AllowedInv, FindInv

\* A step that shows lookups nothing new.
Quiet ==
    /\ cur' = cur /\ Live' = Live
    /\ \A t \in Tables' : t \in Tables /\ table'[t] = table[t]
    /\ \A c \in Chunks' : /\ SameChunk(c)
                          /\ \A y \in Obj : InChunk(y, c) => obj'[y] = obj[y]
LEMMA QuietLooks ==
    ASSUME IInv, IInv', LookInv, Quiet, UNCHANGED <<reader, expected>>,
           \A r \in Reader : allowed[r] \subseteq allowed'[r],
           \A r \in Reader : \A o \in Obj : obj'[o] = "ji" /\ Covers(o, reader[r].addr) =>
              obj[o] = "ji" \/ o \in allowed'[r],
           Adding' => \/ Adding /\ writer'.ji = writer.ji
                      \/ /\ obj[writer'.ji] = NULL
                         /\ \A r \in Reader :
                              Covers(writer'.ji, reader[r].addr) => writer'.ji \in allowed'[r]
    PROVE  LookInv'
<1> SUFFICES ASSUME NEW r \in Reader PROVE AllowedInv(r)' /\ FindInv(r)'
  BY DEF LookInv
<1>1. PICK rd, e, a, b, t : /\ rd = reader[r] /\ e = expected[r] /\ a = allowed[r] /\ b = allowed'[r]
                            /\ t = rd.table
  OBVIOUS
<1>2. FindOK(rd, e) /\ AllowedOK(rd, a) /\ a \subseteq b
  BY <1>1 DEF LookInv, FindInv, AllowedInv
<1>3. rd.ji \in Obj \cup {NULL} /\ rd.left \in Nat /\ rd.pos \in Nat
  BY <1>1, LookupType, SizeFacts DEF IInv, HInv
<1>4. ASSUME Looking(rd)
      PROVE  /\ table'[t] = table[t] /\ DOMAIN table[t] = DOMAIN table'[t]
             /\ \A p \in DOMAIN table[t] : table[t][p] \in Chunks'
             /\ \A y : InTable(y, t)' <=> InTable(y, t)
  <2>1. rd.table \in Tables'
    <3>1. SlotInv(r)' /\ reader'[r] = rd
      BY <1>1 DEF IInv
    <3> QED BY <1>4, <3>1 DEF SlotInv, SlotOK, Looking
  <2>2. table'[t] = table[t]
    BY <1>1, <2>1 DEF Quiet
  <2>3. \A p \in DOMAIN table[t] : table[t][p] \in Chunks'
    BY <1>1, <2>1, <2>2 DEF IInv, HInv, StructInv
  <2>4. \A p \in DOMAIN table[t] : \A y : InChunk(y, table[t][p])' <=> InChunk(y, table[t][p])
    <3> SUFFICES ASSUME NEW p \in DOMAIN table[t], NEW y
                 PROVE  InChunk(y, table[t][p])' <=> InChunk(y, table[t][p])
      OBVIOUS
    <3>1. PICK c : c = table[t][p] /\ c = table'[t][p]
      BY <2>2
    <3>2. SameChunk(c)
      BY <2>3, <3>1 DEF Quiet
    <3>3. InChunk(y, c)' <=> InChunk(y, c)
      BY <3>2, SameChunkFacts
    <3> QED BY <3>1, <3>3
  <2> QED BY <2>2, <2>3, <2>4 DEF InTable
<1>5. AllowedOK(rd, b)'
  <2>1. Looking(rd) => \A o \in Obj : InTable(o, rd.table)' /\ obj'[o] = "ji" =>
          InTable(o, rd.table) \/ (Adding /\ o = writer.ji)
    BY <1>1, <1>4
  <2>2. \A o \in Obj : obj'[o] = "ji" /\ Covers(o, rd.addr) => obj[o] = "ji" \/ o \in b
    BY <1>1
  <2>3. Adding' => (Adding /\ writer'.ji = writer.ji)
                   \/ (Covers(writer'.ji, rd.addr) => writer'.ji \in b)
    BY <1>1
  <2> QED BY <1>2, <1>3, <2>1, <2>2, <2>3, AllowedKept
<1>6. FindOK(rd, e)'
  <2>1. ASSUME Looking(rd), e # NULL PROVE e \in Live' /\ (Adding' => e # writer'.ji)
    <3>1. e \in Live /\ (Adding => e # writer.ji)
      BY <1>2, <2>1 DEF FindOK
    <3>2. obj[e] = "ji"
      BY <3>1, LiveObj DEF IInv
    <3> QED BY <3>1, <3>2, NullFacts DEF Quiet
  <2>2. ASSUME Looking(rd), e # NULL, NEW i \in DOMAIN table[t], Sees(t, e, i)
        PROVE  /\ Sees(t, e, i)'
               /\ \A n : From(e, table[t][i], n) => From(e, table[t][i], n)'
    <3>1. \A p \in DOMAIN table[t] : /\ SameChunk(table[t][p])
                                     /\ \A y \in Obj : InChunk(y, table[t][p]) => obj'[y] = obj[y]
      BY <1>4, <2>2 DEF Quiet
    <3>2. SameSide(t, e, i)'
      <4>1. cur' = cur /\ cur # NULL /\ cur \in Tables'
        <5>1. cur # NULL
          BY <1>1, <2>2, LookupFacts
        <5> QED BY <5>1 DEF Quiet, IInv, HInv, StructInv
      <4>2. /\ table'[cur] = table[cur]
            /\ \A k \in DOMAIN table[cur] : CurChunk(k)' = CurChunk(k) /\ CurChunk(k) \in Chunks'
        BY <4>1 DEF Quiet, IInv, HInv, StructInv, CurChunk
      <4>3. \A k \in DOMAIN table[cur] : InChunk(e, CurChunk(k))' <=> InChunk(e, CurChunk(k))
        <5> SUFFICES ASSUME NEW k \in DOMAIN table[cur]
                     PROVE  InChunk(e, CurChunk(k))' <=> InChunk(e, CurChunk(k))
          OBVIOUS
        <5>1. PICK c : c = CurChunk(k) /\ c = CurChunk(k)'
          BY <4>2
        <5>2. SameChunk(c)
          BY <4>2, <5>1 DEF Quiet
        <5>3. InChunk(e, c)' <=> InChunk(e, c)
          BY <5>2, SameChunkFacts
        <5> QED BY <5>1, <5>3
      <4>4. SameSide(t, e, i)
        BY <2>2 DEF Sees
      <4>5. table'[t] = table[t]
        BY <1>4, <2>2
      <4> QED BY <4>1, <4>2, <4>3, <4>4, <4>5 DEF SameSide
    <3>3. table'[t] = table[t]
      BY <1>4, <2>2
    <3> QED BY <2>2, <3>1, <3>2, <3>3, SeesSame
  <2>3. ASSUME Looking(rd), IsTombstone(rd.ji), InTable(rd.ji, t)
        PROVE  (IsTombstone(rd.ji) /\ InTable(rd.ji, t))'
    <3>1. PICK p \in DOMAIN table[t] : InChunk(rd.ji, table[t][p])
      BY <2>3 DEF InTable
    <3>2. rd.ji \in Obj
      <4>1. table[t][p] \in Chunks
        BY <1>1, <2>3, <3>1, LookupFacts
      <4>2. rd.ji \in Objs
        BY <3>1, <4>1 DEF InChunk, IInv, HInv, ElemInv
      <4> QED BY <4>2 DEF Objs
    <3>3. obj'[rd.ji] = obj[rd.ji]
      BY <1>4, <2>3, <3>1, <3>2 DEF Quiet
    <3> QED BY <1>4, <2>3, <3>3 DEF IsTombstone
  <2>4. Looking(rd) => table'[t] = table[t]
    BY <1>4
  <2> QED BY <1>1, <1>2, <1>3, <2>1, <2>2, <2>3, <2>4, FindKept
<1> QED BY <1>1, <1>5, <1>6 DEF AllowedInv, FindInv

\* The release of a block, or of none.
LEMMA FreedLooks ==
    ASSUME IInv, IInv', LookInv, NEW item \in Item \cup {NULL}, Freed(item),
           item # NULL => Pending(item),
           UNCHANGED <<cur, reader, expected, allowed>>,
           writer' = writer \/ (~Storing /\ ~Storing' /\ writer'.chunk = NULL),
           Adding' => Adding /\ writer'.ji = writer.ji
    PROVE  LookInv'
<1>1. HInv
  BY DEF IInv
<1>2. cur # NULL => item # <<"table", cur>>
  <2> SUFFICES ASSUME cur # NULL, item = <<"table", cur>> PROVE FALSE
    OBVIOUS
  <2>1. cur \in Table
    BY <1>1 DEF HInv, TypeOK
  <2>2. item \in Item
    BY <2>1 DEF Item
  <2>3. Pending(<<"table", cur>>)
    BY <2>2, NullFacts
  <2> QED BY <1>1, <2>1, <2>3 DEF HInv, PendInv
<1>3. Live' = Live
  BY <1>1, <1>2, FreedView
<1>4. Quiet
  <2>1. \A t \in Tables' : t \in Tables /\ table'[t] = table[t]
    BY DEF Freed
  <2>2. \A c \in Chunks' : SameChunk(c)
    BY DEF Freed, SameChunk
  <2>3. \A c \in Chunks' : \A y \in Obj : InChunk(y, c) => obj'[y] = obj[y]
    BY DEF Freed
  <2> QED BY <1>3, <2>1, <2>2, <2>3 DEF Quiet
<1>5. \A o \in Obj : obj'[o] = "ji" => obj[o] = "ji"
  BY NullFacts DEF Freed
<1> QED BY <1>4, <1>5, QuietLooks

LEMMA TryItemLooks ==
    ASSUME IInv, LookInv, TryItem
    PROVE  LookInv'
<1>1. /\ writer.pc = "try" /\ Running /\ writer \in WriterRecord /\ writer.idx \in 0..2
      /\ writer.chunk = NULL
      /\ TryFree(writer.idx)
      /\ writer' = IF writer.idx = 0 THEN [writer EXCEPT !.pc = "own"]
                   ELSE [writer EXCEPT !.idx = @ - 1]
      /\ UNCHANGED <<cur, foreign, reader, expected, allowed>>
  BY DEF TryItem, WriterAt, IInv, HInv, WriterInv, TypeOK, PlaceInv, Storing
<1>2. /\ writer'.item = writer.item /\ writer'.ji = writer.ji
      /\ writer'.chunk = NULL /\ writer'.pc \in {"try", "own"}
  <2>1. CASE writer.idx = 0
    BY <2>1, <1>1 DEF WriterRecord
  <2>2. CASE writer.idx # 0
    BY <2>2, <1>1 DEF WriterRecord
  <2> QED BY <2>1, <2>2
<1>3. IInv'
  BY TryItemOK
<1>4. PICK n : n = writer.idx
  OBVIOUS
<1>5. n \in Nat /\ TryFree(n)
  BY <1>1, <1>4
<1>6. PICK item \in Item \cup {NULL} : Freed(item) /\ (item # NULL => Holds(delayed, item))
  BY <1>1, <1>5, TryFreeFacts DEF IInv
<1>7. item # NULL => Pending(item)
  BY <1>6 DEF Pending, Holds
<1>8. ~Storing /\ ~Storing'
  BY <1>1, <1>2 DEF Storing
<1>9. Adding' => Adding /\ writer'.ji = writer.ji
  BY <1>1, <1>2 DEF Adding
<1> QED BY <1>1, <1>2, <1>3, <1>6, <1>7, <1>8, <1>9, FreedLooks

LEMMA FreeAllLooks ==
    ASSUME IInv, LookInv, mono_thread_hazardous_try_free_all
    PROVE  LookInv'
<1>1. /\ writer.pc = "free_all" /\ writer \in WriterRecord
      /\ writer' = [writer EXCEPT !.idx = @ - 1]
      /\ UNCHANGED <<reader, expected, allowed>>
  BY DEF mono_thread_hazardous_try_free_all, WriterAt, IInv, HInv, TypeOK
<1>2. \A r \in Reader : reader[r].pc = "idle"
  BY <1>1 DEF IInv, SlotInv, SlotOK
<1>3. ~Adding'
  BY <1>1 DEF Adding, WriterRecord
<1> QED BY <1>1, <1>2, <1>3, IdleLooks

LEMMA FreeCurrentLooks ==
    ASSUME IInv, LookInv, FreeCurrent
    PROVE  LookInv'
<1>1. /\ writer.pc = "free_all" /\ writer' = IdleWriter
      /\ UNCHANGED <<reader, expected, allowed>>
  BY DEF FreeCurrent, WriterAt
<1>2. \A r \in Reader : reader[r].pc = "idle"
  BY <1>1 DEF IInv, SlotInv, SlotOK
<1>3. ~Adding'
  BY <1>1 DEF Adding, IdleWriter
<1> QED BY <1>1, <1>2, <1>3, IdleLooks

LEMMA DomainFreeLooks ==
    ASSUME IInv, LookInv, mono_domain_free
    PROVE  LookInv'
<1>1. /\ \A r \in Reader : reader[r].pc = "idle"
      /\ writer' = [writer EXCEPT !.pc = "free_all", !.idx = Len(delayed) - 1]
      /\ writer \in WriterRecord
      /\ UNCHANGED <<reader, expected, allowed>>
  BY DEF mono_domain_free, ghosts, IInv, HInv, TypeOK
<1>2. ~Adding'
  BY <1>1 DEF Adding, WriterRecord
<1> QED BY <1>1, <1>2, IdleLooks

LEMMA ForeignFreeLooks ==
    ASSUME IInv, LookInv, ForeignFree
    PROVE  LookInv'
<1>1. /\ Running /\ foreign \in Item /\ Free(foreign)
      /\ UNCHANGED <<cur, delayed, writer, reader, expected, allowed>>
  BY DEF ForeignFree, IInv, HInv, TypeOK
<1>2. Pending(foreign)
  BY DEF Pending
<1>3. PICK item : item = foreign /\ item \in Item /\ Pending(item) /\ Free(item)
  BY <1>1, <1>2
<1>4. Freed(item)
  BY <1>1, <1>3, ItemFree DEF IInv
<1>5. IInv'
  BY ForeignFreeOK
<1>6. Adding' => Adding
  BY <1>1 DEF Adding
<1> QED BY <1>1, <1>3, <1>4, <1>5, <1>6, FreedLooks

LEMMA OwnLooks ==
    ASSUME IInv, LookInv, Own
    PROVE  LookInv'
<1>1. /\ Running /\ writer.pc = "own" /\ writer.item \in Item /\ writer.chunk = NULL
      /\ writer' = IF writer.item[1] = "table"
                   THEN [IdleWriter EXCEPT !.pc = "search", !.ji = writer.ji]
                   ELSE IdleWriter
      /\ UNCHANGED <<cur, foreign, reader, expected, allowed>>
  BY DEF Own, WriterAt, IInv, HInv, TypeOK, WriterInv, PlaceInv, Storing, WriterRecord
<1>2. PICK item : item = writer.item
  OBVIOUS
<1>3. /\ writer'.chunk = NULL
      /\ item[1] = "table" => writer'.pc = "search" /\ writer'.ji = writer.ji
      /\ item[1] # "table" => writer'.pc = "idle"
  BY <1>1, <1>2 DEF IdleWriter
<1>4. ~Storing /\ ~Storing'
  BY <1>1, <1>3 DEF Storing
<1>5. Adding' => Adding /\ writer'.ji = writer.ji
  BY <1>1, <1>2, <1>3 DEF Adding
<1>6. IInv'
  BY OwnOK
<1>7. item \in Item /\ Pending(item)
  BY <1>1, <1>2 DEF Pending
<1>8. PICK freed \in {item, NULL} : Freed(freed)
  <2>1. CASE Hazardous(writer.item)
    <3>1. UNCHANGED <<heap, failure>>
      BY <2>1 DEF Own
    <3>2. Freed(NULL)
      BY <3>1, KeepFacts DEF IInv
    <3> QED BY <3>2
  <2>2. CASE ~Hazardous(writer.item)
    <3>1. Free(item)
      BY <1>2, <2>2 DEF Own
    <3>2. Freed(item)
      BY <1>1, <1>7, <3>1, ItemFree DEF IInv
    <3> QED BY <3>2
  <2> QED BY <2>1, <2>2
<1> QED BY <1>1, <1>3, <1>4, <1>5, <1>6, <1>7, <1>8, FreedLooks

\* A step that changes no block.
LEMMA AsideLooks ==
    ASSUME IInv, IInv', LookInv, UNCHANGED <<obj, chunk, table, cur, reader, expected, allowed>>,
           Adding' => Adding /\ writer'.ji = writer.ji
    PROVE  LookInv'
<1>1. Live' = Live /\ Tables' = Tables /\ Chunks' = Chunks
  BY DEF Live, LivePlaces, Places, At, IsTombstone, Tables, Chunks
<1>2. \A c \in Chunks' : SameChunk(c)
  BY DEF SameChunk, Num, Last, Data
<1>3. Quiet
  BY <1>1, <1>2 DEF Quiet
<1> QED BY <1>3, QuietLooks

LEMMA QueueLooks ==
    ASSUME IInv, LookInv, mono_jit_info_free_or_queue
    PROVE  LookInv'
<1>1. /\ UNCHANGED <<obj, chunk, table, cur, reader, expected, allowed>> /\ writer \in WriterRecord
      /\ writer' = [writer EXCEPT !.pc = "try", !.item = <<"ji", writer.ji>>, !.idx = 2]
         \/ writer' = IdleWriter
  BY DEF mono_jit_info_free_or_queue, ghosts, IInv, HInv, TypeOK
<1>2. IInv'
  BY QueueOK
<1>3. ~Adding'
  <2>1. CASE writer' = [writer EXCEPT !.pc = "try", !.item = <<"ji", writer.ji>>, !.idx = 2]
    <3>1. writer'.pc = "try" /\ writer'.item = <<"ji", writer.ji>>
      BY <1>1, <2>1 DEF WriterRecord
    <3>2. writer'.item[1] = "ji"
      BY <3>1
    <3> QED BY <3>1, <3>2 DEF Adding
  <2>2. CASE writer' = IdleWriter
    BY <2>2 DEF Adding, IdleWriter
  <2> QED BY <1>1, <2>1, <2>2
<1> QED BY <1>1, <1>2, <1>3, AsideLooks

LEMMA ForeignTakeLooks ==
    ASSUME IInv, LookInv, NEW i \in 0..(Len(delayed) - 1), ForeignTake(i)
    PROVE  LookInv'
<1>1. UNCHANGED <<obj, chunk, table, cur, reader, expected, allowed, writer>>
  BY DEF ForeignTake, heap, ghosts
<1>2. IInv'
  BY ForeignTakeOK
<1>3. Adding' => Adding
  BY <1>1 DEF Adding
<1> QED BY <1>1, <1>2, <1>3, AsideLooks

LEMMA StutterLooks ==
    ASSUME IInv, LookInv, UNCHANGED vars
    PROVE  LookInv'
<1>1. UNCHANGED <<obj, chunk, table, cur, reader, expected, allowed, writer>>
  BY DEF vars, heap, ghosts
<1>2. IInv'
  BY StutterOK
<1>3. Adding' => Adding
  BY <1>1 DEF Adding
<1> QED BY <1>1, <1>2, <1>3, AsideLooks

LEMMA AddStartLooks ==
    ASSUME IInv, LookInv, NEW x \in Region, AddStart(x)
    PROVE  LookInv'
<1>1. PICK o : o \in FreeCopies(x) /\ obj' = [obj EXCEPT ![o] = "ji"]
                /\ writer' = [writer EXCEPT !.pc = "search", !.ji = o]
                /\ allowed' = [r \in Reader |-> IF Covers(o, reader[r].addr) THEN allowed[r] \cup {o}
                                                ELSE allowed[r]]
  BY DEF AddStart
<1>2. o \in Obj /\ obj[o] = NULL
  BY <1>1 DEF FreeCopies
<1>3. HInv /\ HInv' /\ IInv'
  <2>1. IInv'
    BY AddStartOK
  <2> QED BY <2>1 DEF IInv
<1>4. cur # NULL /\ UNCHANGED <<chunk, table, cur, reader, expected>>
  BY DEF AddStart
<1>5. obj'[o] = "ji" /\ \A y \in Obj \ {o} : obj'[y] = obj[y]
  BY <1>1, <1>2, <1>3 DEF HInv, TypeOK
<1>6. Tables' = Tables /\ Chunks' = Chunks
  BY <1>4 DEF Tables, Chunks
<1>7. \A c, y : InChunk(y, c)' <=> InChunk(y, c)
  BY <1>4 DEF InChunk, Num, Data
<1>8. \A c \in Chunks : \A y : InChunk(y, c) => y \in Obj /\ y # o
  BY <1>2, <1>3 DEF HInv, ElemInv, InChunk, Objs
<1>9. \A y : InTable(y, cur)' <=> InTable(y, cur)
  BY <1>4, <1>7 DEF InTable
<1>10. \A y : InTable(y, cur) => y \in Obj /\ y # o
  <2>1. \A i \in DOMAIN table[cur] : table[cur][i] \in Chunks
    BY <1>3, <1>4 DEF HInv, StructInv
  <2> QED BY <2>1, <1>8 DEF InTable
<1>11. Live' = Live
  <2>1. \A y : y \in Live' <=> y \in Live
    BY <1>4, <1>5, <1>9, <1>10, LiveFacts, LiveFactsP DEF LiveIs
  <2> QED BY <2>1
<1>12. Quiet
  <2>1. \A c \in Chunks' : SameChunk(c)
    BY <1>4 DEF SameChunk, Num, Last, Data
  <2>2. \A c \in Chunks' : \A y \in Obj : InChunk(y, c) => obj'[y] = obj[y]
    BY <1>5, <1>6, <1>8
  <2> QED BY <1>4, <1>6, <1>11, <2>1, <2>2 DEF Quiet
<1>13. writer'.ji = o
  BY <1>1, <1>2, <1>3 DEF HInv, TypeOK, WriterRecord
<1>14. \A r \in Reader : /\ allowed[r] \subseteq allowed'[r]
                         /\ Covers(o, reader[r].addr) => o \in allowed'[r]
  BY <1>1
<1>15. \A r \in Reader : \A y \in Obj : obj'[y] = "ji" /\ Covers(y, reader[r].addr) =>
          obj[y] = "ji" \/ y \in allowed'[r]
  BY <1>5, <1>14
<1> QED BY <1>2, <1>3, <1>4, <1>12, <1>13, <1>14, <1>15, QuietLooks

\* The first store of add changes nothing a lookup can see.
LEMMA GrowSame ==
    ASSUME HInv, Grow
    PROVE  \A d \in Chunk : SameChunk(d)
<1>1. PICK k, c, n, ji : /\ k = Target(writer.ji) /\ c = CurChunk(k) /\ n = Num(c) /\ ji = writer.ji
  OBVIOUS
<1>2. writer.pc = "search" /\ writer \in WriterRecord
  BY DEF HInv, Grow, WriterAt, TypeOK
<1>3. Adding /\ ji \in Obj /\ cur # NULL /\ End(ji) \in Nat
  BY <1>1, <1>2, AddingFacts
<1>4. k \in DOMAIN table[cur]
  BY <1>1, <1>3, IndexFacts DEF Target, HInv
<1>5. c \in Chunks /\ c \in Chunk /\ n \in 0..CHUNK_SIZE
  BY <1>1, <1>3, <1>4, CurFacts
<1>6. PICK v : v = IF n > 0 THEN Data(c, n - 1) ELSE ji
  OBVIOUS
<1>7. /\ n < CHUNK_SIZE
      /\ chunk' = [chunk EXCEPT ![c].data[n] = v]
  BY <1>1, <1>2, <1>6 DEF Grow, Num, Data, CurChunk, WriterRecord
<1>8. n \in Index
  BY <1>5, <1>7, SizeFacts
<1>9. v \in Obj \cup {NULL}
  <2>1. n > 0 => n - 1 \in Index
    BY <1>5, <1>7, SizeFacts
  <2> QED BY <2>1, <1>3, <1>5, <1>6, ChunkFacts DEF ChunkType, HInv
<1>10. /\ Num(c)' = Num(c) /\ Last(c)' = Last(c)
       /\ \A j \in Index : Data(c, j)' = IF j = n THEN v ELSE Data(c, j)
       /\ \A d \in Chunk \ {c} : chunk'[d] = chunk[d]
  BY <1>5, <1>7, <1>8, <1>9, DataStore DEF HInv
<1>11. \A j \in Index : j < n => j # n
  BY <1>5, SizeFacts
<1> TAKE d \in Chunk
<1>12. CASE d = c
  BY <1>1, <1>10, <1>11, <1>12 DEF SameChunk
<1>13. CASE d # c
  BY <1>10, <1>13 DEF SameChunk, Num, Last, Data
<1> QED BY <1>12, <1>13

LEMMA GrowLooks ==
    ASSUME IInv, LookInv, Grow
    PROVE  LookInv'
<1>1. HInv /\ HInv' /\ IInv'
  <2>1. IInv'
    BY GrowOK
  <2> QED BY <2>1 DEF IInv
<1>2. writer.pc = "search" /\ writer \in WriterRecord
  BY <1>1 DEF HInv, Grow, WriterAt, TypeOK
<1>3. Adding /\ cur # NULL
  BY <1>1, <1>2, AddingFacts
<1>4. UnchangedByStore /\ writer'.ji = writer.ji
  BY <1>2 DEF Grow, WriterRecord
<1>5. \A d \in Chunk : SameChunk(d)
  BY <1>1, GrowSame
<1>6. UNCHANGED <<obj, table, cur, reader, expected, allowed>>
  BY <1>4 DEF UnchangedByStore, ghosts
<1>7. \A d \in Chunk : \A y : InChunk(y, d)' <=> InChunk(y, d)
  BY <1>5, SameChunkFacts
<1>8. Live' = Live
  <2>1. \A p \in DOMAIN table[cur] : table[cur][p] \in Chunk
    BY <1>1, <1>3 DEF HInv, StructInv, Chunks
  <2>2. \A y : InTable(y, cur)' <=> InTable(y, cur)
    BY <2>1, <1>6, <1>7 DEF InTable
  <2>3. \A y : y \in Live' <=> y \in Live
    BY <2>2, <1>6, LiveFacts, LiveFactsP DEF LiveIs
  <2> QED BY <2>3
<1>9. Quiet
  BY <1>5, <1>6, <1>8 DEF Quiet, Tables, Chunks
<1> QED BY <1>1, <1>3, <1>6, <1>9, <1>4, QuietLooks

\* The chunks that an old table shares with the new one.
LEMMA ReplacedSides ==
    ASSUME HInv, cur # NULL, NEW t0, NEW parts, NEW new, NEW chunks, NEW m, NEW keep,
           Replacing(t0, parts, new, chunks, m, keep), obj' = obj,
           NEW t \in Tables, NEW e, NEW i \in DOMAIN table[t], SameSide(t, e, i)
    PROVE  SameSide(t, e, i)'
<1>1. /\ table'[t] = table[t] /\ cur' = t0 /\ table'[t0] = chunks /\ m \in DOMAIN table[cur]
      /\ Layout(chunks, new, m, keep) /\ Blocks(new, Len(parts))
  BY DEF Replacing, Published
<1>2. /\ \A c \in Chunks : \A o : InChunk(o, c)' <=> InChunk(o, c)
      /\ \A k \in DOMAIN new : \A o : InChunk(o, new[k])' => (keep => InChunk(o, CurChunk(m)))
  BY FreshFacts
<1>3. /\ \A p \in DOMAIN table[t] : table[t][p] \in Chunks /\ p \in Nat
      /\ \A p \in DOMAIN table[cur] : CurChunk(p) \in Chunks /\ p \in Nat
      /\ \A p, q \in DOMAIN table[cur] : CurChunk(p) = CurChunk(q) => p = q
  <2>1. DOMAIN table[t] = 1..Len(table[t]) /\ Len(table[t]) \in Nat
    BY TableFacts DEF TableType, HInv
  <2>2. \A p \in DOMAIN table[t] : table[t][p] \in Chunks
    BY DEF HInv, StructInv
  <2> QED BY <2>1, <2>2, CurFacts
<1>4. \A q \in DOMAIN chunks : q \in Nat
  BY <1>1 DEF Layout
<1> SUFFICES ASSUME NEW p \in DOMAIN table[t], NEW q \in DOMAIN chunks, NEW k \in DOMAIN chunks,
                    table[t][p] = chunks[q], InChunk(e, chunks[k])'
             PROVE  (p < i => q < k) /\ (i < p => k < q)
  BY <1>1 DEF SameSide, CurChunk
<1>5. keep /\ \E a \in DOMAIN table[cur] : a # m /\ chunks[q] = CurChunk(a)
  BY <1>1, <1>3 DEF Layout, Blocks
<1>6. PICK a \in DOMAIN table[cur] : a # m /\ chunks[q] = CurChunk(a)
  BY <1>5
<1>7. CASE \E b \in DOMAIN table[cur] : chunks[k] = CurChunk(b)
  <2>1. PICK b \in DOMAIN table[cur] : chunks[k] = CurChunk(b)
    BY <1>7
  <2>2. InChunk(e, CurChunk(b))
    <3>1. PICK c : c = chunks[k] /\ c = CurChunk(b) /\ InChunk(e, c)'
      BY <2>1
    <3> QED BY <3>1, <1>2, <1>3
  <2>3. (p < i => a < b) /\ (i < p => b < a)
    BY <1>6, <2>2 DEF SameSide
  <2>4. (q < k => a < b) /\ (k < q => b < a)
    BY <1>1, <1>6, <2>1 DEF Layout
  <2>5. q = k => a = b
    BY <1>3, <1>6, <2>1
  <2>6. a \in Nat /\ b \in Nat /\ q \in Nat /\ k \in Nat
    BY <1>3, <1>4
  <2> QED BY <2>3, <2>4, <2>5, <2>6
<1>8. CASE \E b \in DOMAIN new : chunks[k] = new[b]
  <2>1. PICK b \in DOMAIN new : chunks[k] = new[b]
    BY <1>8
  <2>2. InChunk(e, CurChunk(m))
    <3>1. PICK c : c = chunks[k] /\ c = new[b] /\ InChunk(e, c)'
      BY <2>1
    <3> QED BY <3>1, <1>2, <1>5, <2>1
  <2>3. (p < i => a < m) /\ (i < p => m < a)
    BY <1>1, <1>6, <2>2 DEF SameSide
  <2>4. (q < k => a < m) /\ (k < q => m < a)
    BY <1>1, <1>6, <2>1 DEF Layout
  <2>5. q # k
    BY <1>1, <1>3, <1>6, <2>1 DEF Blocks
  <2>6. a \in Nat /\ m \in Nat /\ q \in Nat /\ k \in Nat
    BY <1>1, <1>3, <1>4
  <2> QED BY <2>3, <2>4, <2>5, <2>6
<1> QED BY <1>1, <1>7, <1>8 DEF Layout

LEMMA OverflowLooks ==
    ASSUME IInv, LookInv, Overflow
    PROVE  LookInv'
<1>1. HInv /\ writer \in WriterRecord /\ writer.pc = "search"
  BY DEF IInv, HInv, TypeOK, Overflow, WriterAt
<1>2. cur # NULL /\ Adding
  BY <1>1, AddingFacts
<1>3. PICK t0, parts, new, chunks, m, keep : Replacing(t0, parts, new, chunks, m, keep)
  BY <1>1, OverflowFacts
<1>4. /\ \A t \in Tables : table'[t] = table[t]
      /\ \A c \in Chunks : SameChunk(c)
  BY <1>3 DEF Replacing, Published, SameChunk
<1>5. UNCHANGED <<obj, reader, expected, allowed>> /\ writer'.ji = writer.ji
  BY <1>1 DEF Overflow, WriterRecord
<1>6. /\ Live' = Live
      /\ \A t \in Tables : \A o : InTable(o, t)' <=> InTable(o, t)
  BY <1>1, <1>2, <1>3, <1>5, ReplacedLive
<1> SUFFICES ASSUME NEW r \in Reader PROVE AllowedInv(r)' /\ FindInv(r)'
  BY DEF LookInv
<1>7. PICK rd, e, a, t : rd = reader[r] /\ e = expected[r] /\ a = allowed[r] /\ t = rd.table
  OBVIOUS
<1>8. FindOK(rd, e) /\ AllowedOK(rd, a)
  BY <1>7 DEF LookInv, FindInv, AllowedInv
<1>t. rd.ji \in Obj \cup {NULL} /\ rd.left \in Nat /\ rd.pos \in Nat
  BY <1>1, <1>7, LookupType, SizeFacts DEF HInv
<1>9. Looking(rd) => t \in Tables
  BY <1>7, LookupFacts
<1>10. AllowedOK(rd, a)'
  <2>1. Looking(rd) => \A o \in Obj : InTable(o, rd.table)' /\ obj'[o] = "ji" =>
          InTable(o, rd.table) \/ (Adding /\ o = writer.ji)
    BY <1>6, <1>7, <1>9
  <2>2. \A o \in Obj : obj'[o] = "ji" /\ Covers(o, rd.addr) => obj[o] = "ji" \/ o \in a
    BY <1>5
  <2>3. Adding' => (Adding /\ writer'.ji = writer.ji)
                   \/ (Covers(writer'.ji, rd.addr) => writer'.ji \in a)
    BY <1>2, <1>5
  <2>4. rd.ji # NULL => rd.ji \in Obj
    BY <1>t
  <2>5. a \subseteq a
    OBVIOUS
  <2> QED BY <1>8, <2>1, <2>2, <2>3, <2>4, <2>5, AllowedKept
<1>11. FindOK(rd, e)'
  <2>1. Looking(rd) => table'[t] = table[t]
    BY <1>4, <1>9
  <2>2. Looking(rd) /\ e # NULL => e \in Live' /\ (Adding' => e # writer'.ji)
    BY <1>2, <1>5, <1>6, <1>8 DEF FindOK
  <2>3. ASSUME Looking(rd), e # NULL, NEW i \in DOMAIN table[t], Sees(t, e, i)
        PROVE  /\ Sees(t, e, i)'
               /\ \A n : From(e, table[t][i], n) => From(e, table[t][i], n)'
    <3>1. SameSide(t, e, i)
      BY <2>3 DEF Sees
    <3>2. SameSide(t, e, i)'
      BY <1>1, <1>2, <1>3, <1>5, <1>9, <2>3, <3>1, ReplacedSides
    <3>3. \A p \in DOMAIN table[t] : /\ SameChunk(table[t][p])
                                     /\ \A y \in Obj : InChunk(y, table[t][p]) => obj'[y] = obj[y]
      BY <1>1, <1>4, <1>5, <1>9, <2>3 DEF HInv, StructInv
    <3> QED BY <2>1, <2>3, <3>2, <3>3, SeesSame
  <2>4. ASSUME Looking(rd), IsTombstone(rd.ji), InTable(rd.ji, t)
        PROVE  (IsTombstone(rd.ji) /\ InTable(rd.ji, t))'
    <3>1. IsTombstone(rd.ji)'
      BY <1>5, <2>4 DEF IsTombstone
    <3>2. PICK y : y = rd.ji
      OBVIOUS
    <3>3. InTable(y, t)'
      BY <1>6, <1>9, <2>4, <3>2
    <3> QED BY <3>1, <3>2, <3>3
  <2> QED BY <1>7, <1>8, <1>t, <2>1, <2>2, <2>3, <2>4, FindKept
<1> QED BY <1>5, <1>7, <1>10, <1>11 DEF AllowedInv, FindInv

\* A store to the chunk that add works on: every element stays visible, at no lower
\* index, and only the new MonoJitInfo may come into view.
Stored(c, ji) ==
    /\ \A d \in Chunk \ {c} : chunk'[d] = chunk[d]
    /\ \A y : InChunk(y, c) => InChunk(y, c)'
    /\ \A y : InChunk(y, c)' => InChunk(y, c) \/ y = ji
    /\ \A e : \A n \in Nat : e # ji /\ From(e, c, n) => From(e, c, n)'

LastType == cur # NULL => \A p \in DOMAIN table[cur] : Last(CurChunk(p)) \in Nat
LEMMA LastFacts == HInv => LastType
BY CurFacts DEF LastType
LEMMA LastFactsP == HInv' => LastType'
BY LastFacts, PTL

LEMMA StoredSees ==
    ASSUME HInv, HInv', UnchangedByStore, Storing, NEW c, c = writer.chunk,
           NEW ji, ji = writer.ji, Stored(c, ji),
           writer'.chunk = NULL \/ writer'.ji = ji,
           NEW t \in Tables, NEW e \in Live, e # ji, NEW i \in DOMAIN table[t], Sees(t, e, i)
    PROVE  /\ Sees(t, e, i)'
           /\ \A n \in Nat : From(e, table[t][i], n) => From(e, table[t][i], n)'
<1>1. /\ UNCHANGED <<obj, table, cur>>
      /\ Adding /\ ji \in Obj /\ cur # NULL /\ End(ji) \in Nat
  <2>1. writer.pc \in {"search", "count", "shift", "seal"}
    BY DEF Storing
  <2> QED BY <2>1, AddingFacts DEF UnchangedByStore
<1>2. PICK q \in DOMAIN table[cur] :
             /\ c = CurChunk(q) /\ c \in Chunks /\ c \in Chunk
             /\ \A p \in DOMAIN table[cur] : c = CurChunk(p) => p = q
             /\ q < Len(table[cur]) => End(ji) < Last(c)
  <2>1. PICK p \in DOMAIN table[cur] :
             /\ c = CurChunk(p) /\ c \in Chunks /\ c \in Chunk
             /\ \A b \in DOMAIN table[cur] : CurChunk(p) = CurChunk(b) => b = p
             /\ p < Len(table[cur]) => End(ji) < Last(CurChunk(p))
    BY StoringFacts
  <2> QED BY <2>1
<1>3. /\ \A p \in DOMAIN table[t] : table[t][p] \in Chunks /\ table[t][p] \in Chunk /\ p \in Nat
      /\ DOMAIN table[cur] = 1..Len(table[cur]) /\ Len(table[cur]) \in Nat
      /\ \A p \in DOMAIN table[cur] : CurChunk(p) \in Chunk /\ CurChunk(p) # NULL /\ Last(CurChunk(p)) \in Nat
                                      /\ p \in Nat
  <2>1. DOMAIN table[t] = 1..Len(table[t]) /\ Len(table[t]) \in Nat
    BY TableFacts DEF TableType, HInv
  <2>2. \A p \in DOMAIN table[t] : table[t][p] \in Chunks
    BY DEF HInv, StructInv
  <2> QED BY <1>1, <2>1, <2>2, CurFacts DEF Chunks
<1>4. \A d \in Chunk : /\ \A y : InChunk(y, d) => InChunk(y, d)'
                       /\ \A y : InChunk(y, d)' => InChunk(y, d) \/ (y = ji /\ d = c)
                       /\ \A n \in Nat : From(e, d, n) => From(e, d, n)'
                       /\ d # c => Last(d)' = Last(d)
  <2> TAKE d \in Chunk
  <2>1. CASE d = c
    BY <2>1 DEF Stored
  <2>2. CASE d # c
    <3>1. chunk'[d] = chunk[d]
      BY <2>2 DEF Stored
    <3> QED BY <2>2, <3>1 DEF InChunk, From, Num, Data, Last
  <2> QED BY <2>1, <2>2
<1>5. e \in Obj /\ End(e) \in Nat /\ InTable(e, cur)
  BY LiveObj
<1>6. PICK k \in DOMAIN table[cur] : InChunk(e, CurChunk(k))
  BY <1>5 DEF InTable, CurChunk
<1>7. SameSide(t, e, i) /\ Splits(t, e, i) /\ Alone(t, e)
  BY DEF Sees
<1>8. Splits(t, e, i)'
  <2>1. InChunk(e, table[t][i])'
    <3>1. PICK d : d = table[t][i] /\ d = table'[t][i]
      BY <1>1
    <3>2. InChunk(e, d)'
      BY <1>3, <1>4, <1>7, <3>1 DEF Splits
    <3> QED BY <3>1, <3>2
  <2>2. ASSUME NEW p \in DOMAIN table[t], p < i, NEW d, d = table[t][p], NEW y \in Obj, InChunk(y, d)'
        PROVE  End(y) <= End(e)
    <3>1. CASE InChunk(y, d)
      BY <1>7, <2>2, <3>1 DEF Splits
    <3>2. CASE y = ji /\ d = c
      <4>1. q < k
        BY <1>2, <1>6, <1>7, <2>2, <3>2 DEF SameSide
      <4>2. End(ji) < Last(CurChunk(q))
        BY <1>2, <1>3, <4>1
      <4>3. PICK j \in Index : j < Num(CurChunk(k)) /\ Data(CurChunk(k), j) = e
        BY <1>6 DEF InChunk
      <4>4. Last(CurChunk(q)) <= End(Data(CurChunk(k), j))
        BY <1>1, <4>1, <4>3 DEF HInv, OrderInv
      <4>5. Last(CurChunk(q)) <= End(e) /\ Last(CurChunk(q)) \in Nat
        BY <1>3, <4>3, <4>4
      <4> QED BY <1>1, <1>5, <3>2, <4>2, <4>5
    <3> QED BY <1>3, <1>4, <2>2, <3>1, <3>2
  <2>3. ASSUME NEW p \in DOMAIN table[t], i <= p, NEW d, d = table[t][p] PROVE End(e) <= Last(d)'
    <3>1. CASE d # c
      BY <1>3, <1>4, <1>7, <2>3, <3>1 DEF Splits
    <3>2. CASE d = c
      <4>1. k <= q
        <5>1. CASE i = p
          <6>1. InChunk(e, CurChunk(q))
            BY <1>2, <1>7, <2>3, <3>2, <5>1 DEF Splits
          <6>2. k = q
            BY <1>1, <1>6, <6>1 DEF HInv, UniqInv, InChunk
          <6> QED BY <1>3, <6>2
        <5>2. CASE i < p
          <6>1. k < q
            BY <1>2, <1>6, <1>7, <2>3, <3>2, <5>2 DEF SameSide
          <6> QED BY <1>3, <6>1
        <5>3. i \in Nat /\ p \in Nat
          BY <1>3
        <5> QED BY <2>3, <5>1, <5>2, <5>3
      <4>2. PICK b : b = CurChunk(k) /\ b = CurChunk(k)' /\ b \in Chunk /\ b # NULL
        BY <1>1, <1>3 DEF CurChunk
      <4>3. InChunk(e, b)'
        BY <1>4, <1>6, <4>2
      <4>4. PICK j \in Index : j < Num(b)' /\ Data(b, j)' = e
        BY <4>3 DEF InChunk
      <4>5. OrderInv' /\ cur' = cur /\ cur # NULL /\ table' = table
        BY <1>1 DEF HInv
      <4>6. \/ End(Data(CurChunk(k), j)') <= Last(CurChunk(k))'
            \/ Data(CurChunk(k), j)' = writer'.ji /\ writer'.chunk = CurChunk(k)'
        <5>1. j < Num(CurChunk(k))'
          BY <4>2, <4>4
        <5> QED BY <4>5, <5>1 DEF OrderInv
      <4>7. End(e) <= Last(b)'
        BY <4>2, <4>4, <4>6
      <4>8. PICK g : g = CurChunk(q) /\ g = CurChunk(q)' /\ g = c
        BY <1>1, <1>2 DEF CurChunk
      <4>9. k < q => Last(b)' <= Last(c)'
        <5>1. k < q => Last(CurChunk(k))' <= Last(CurChunk(q))'
          BY <4>5 DEF OrderInv
        <5> QED BY <4>2, <4>8, <5>1
      <4>10. k = q => b = c
        BY <4>2, <4>8
      <4>11. Last(b)' \in Nat /\ Last(c)' \in Nat
        <5>1. HInv' /\ cur' # NULL /\ k \in DOMAIN table'[cur'] /\ q \in DOMAIN table'[cur']
          BY <1>1
        <5>2. LastType'
          BY LastFactsP
        <5>3. Last(CurChunk(k))' \in Nat /\ Last(CurChunk(q))' \in Nat
          BY <5>1, <5>2 DEF LastType
        <5> QED BY <4>2, <4>8, <5>3
      <4> QED BY <1>3, <1>5, <3>2, <4>1, <4>7, <4>9, <4>10, <4>11
    <3> QED BY <3>1, <3>2
  <2>4. table'[t] = table[t]
    BY <1>1
  <2> QED BY <2>1, <2>2, <2>3, <2>4 DEF Splits
<1>9. Alone(t, e)'
  <2>1. ASSUME NEW p \in DOMAIN table[t], NEW d, d = table[t][p], NEW y \in Obj, InChunk(y, d)'
        PROVE  IsTombstone(y)' \/ y = e \/ Apart(y, e)
    <3>1. CASE InChunk(y, d)
      BY <1>1, <1>7, <2>1, <3>1 DEF Alone, IsTombstone
    <3>2. CASE y = ji
      <4>1. Apart(e, ji)
        BY <1>1 DEF HInv, WriterInv
      <4> QED BY <3>2, <4>1 DEF Apart
    <3> QED BY <1>3, <1>4, <2>1, <3>1, <3>2
  <2>2. table'[t] = table[t]
    BY <1>1
  <2> QED BY <2>1, <2>2 DEF Alone
<1>10. SameSide(t, e, i)'
  <2>1. \A p \in DOMAIN table[cur] : CurChunk(p)' = CurChunk(p)
    BY <1>1 DEF CurChunk
  <2>2. \A p \in DOMAIN table[cur] : InChunk(e, CurChunk(p))' => InChunk(e, CurChunk(p))
    <3> SUFFICES ASSUME NEW p \in DOMAIN table[cur], InChunk(e, CurChunk(p))'
                 PROVE  InChunk(e, CurChunk(p))
      OBVIOUS
    <3>1. PICK d : d = CurChunk(p) /\ d = CurChunk(p)' /\ d \in Chunk
      BY <1>3, <2>1
    <3> QED BY <1>4, <3>1
  <2> QED BY <1>1, <1>7, <2>1, <2>2 DEF SameSide
<1>11. \A n \in Nat : From(e, table[t][i], n) => From(e, table[t][i], n)'
  <2>1. PICK d : d = table[t][i] /\ d = table'[t][i] /\ d \in Chunk
    BY <1>1, <1>3
  <2>2. \A n \in Nat : From(e, d, n) => From(e, d, n)'
    BY <1>4, <2>1
  <2> QED BY <2>1, <2>2
<1> QED BY <1>8, <1>9, <1>10, <1>11 DEF Sees

LEMMA CountStored ==
    ASSUME HInv, Count, NEW c, c = writer.chunk, NEW ji, ji = writer.ji
    PROVE  Stored(c, ji) /\ UnchangedByStore /\ writer'.ji = ji
<1>1. /\ writer.pc = "count" /\ writer \in WriterRecord /\ Storing
      /\ chunk' = [chunk EXCEPT ![c].num_elements = @ + 1]
      /\ writer'.ji = ji /\ UnchangedByStore
  BY DEF HInv, Count, WriterAt, Storing, TypeOK, WriterRecord
<1>2. c \in Chunks /\ c \in Chunk
  BY <1>1, StoringFacts
<1>3. PICK n : n = Num(c) /\ n \in 0..CHUNK_SIZE /\ n < CHUNK_SIZE
              /\ Data(c, n) = (IF n > 0 THEN Data(c, n - 1) ELSE ji)
  BY <1>1, <1>2, ChunkFacts DEF ChunkType, HInv, CountInv
<1>4. /\ Num(c)' = n + 1
      /\ \A j \in Index : Data(c, j)' = Data(c, j)
      /\ \A d \in Chunk \ {c} : chunk'[d] = chunk[d]
  BY <1>1, <1>2, <1>3, NumStore DEF HInv
<1>5. /\ n \in Index /\ (n > 0 => n - 1 \in Index /\ n - 1 < n /\ n - 1 <= n)
      /\ \A j \in Index : (j < n + 1 <=> j < n \/ j = n) /\ j \in Nat
  BY <1>3, SizeFacts
<1>6. \A y : InChunk(y, c) => InChunk(y, c)'
  BY <1>3, <1>4, <1>5 DEF InChunk
<1>7. ASSUME NEW y, InChunk(y, c)' PROVE InChunk(y, c) \/ y = ji
  <2>1. PICK j \in Index : j < n + 1 /\ Data(c, j) = y
    BY <1>4, <1>7 DEF InChunk
  <2>2. CASE j < n
    BY <1>3, <2>1, <2>2 DEF InChunk
  <2>3. CASE j = n /\ n > 0
    BY <1>3, <1>5, <2>1, <2>3 DEF InChunk
  <2>4. CASE j = n /\ ~(n > 0)
    BY <1>3, <2>1, <2>4
  <2> QED BY <1>5, <2>1, <2>2, <2>3, <2>4
<1>8. ASSUME NEW e, NEW m \in Nat, e # ji, From(e, c, m) PROVE From(e, c, m)'
  <2> SUFFICES ASSUME NEW j \in Index, j < n + 1, Data(c, j) = e PROVE m <= j
    BY <1>4 DEF From
  <2>1. CASE j < n
    BY <1>3, <1>8, <2>1 DEF From
  <2>2. CASE j = n
    <3>1. n > 0 /\ Data(c, n - 1) = e
      BY <1>3, <1>8, <2>2
    <3>2. PICK h : h = n - 1 /\ h \in Index /\ h < n /\ Data(c, h) = e
      BY <1>5, <3>1
    <3>3. m <= h
      BY <1>3, <1>8, <3>2 DEF From
    <3>4. h \in Int /\ j = h + 1
      BY <1>5, <2>2, <3>2
    <3> QED BY <3>3, <3>4
  <2> QED BY <1>5, <2>1, <2>2
<1> QED BY <1>1, <1>4, <1>6, <1>7, <1>8 DEF Stored

\* The chunk and the MonoJitInfo that add works on.
Works(c, ji) == c = writer.chunk /\ ji = writer.ji

LEMMA ShiftStored ==
    ASSUME HInv, Shift, NEW c, NEW ji, Works(c, ji)
    PROVE  Stored(c, ji) /\ UnchangedByStore /\ writer'.ji = ji
<1>0. c = writer.chunk /\ ji = writer.ji
  BY DEF Works
<1>1. /\ writer.pc = "shift" /\ writer \in WriterRecord /\ Storing /\ TypeOK
      /\ chunk' = [chunk EXCEPT ![c].data[writer.i + 1] = Data(c, writer.i)]
      /\ writer.i >= writer.pos
      /\ writer'.ji = ji /\ UnchangedByStore
  BY <1>0 DEF HInv, Shift, WriterAt, Storing, TypeOK, WriterRecord, Data
<1>2. PICK n, i : n = Num(c) - 1 /\ i = writer.i /\ c \in Chunks /\ c \in Chunk /\ Num(c) \in 0..CHUNK_SIZE
  BY <1>0, <1>1, StoringFacts
<1>3. /\ n >= 0 /\ i + 1 <= n /\ writer.pos <= i
      /\ i + 1 < n => Data(c, i + 1) = Data(c, i + 2)
      /\ i + 1 = n => Data(c, n) = (IF n > 0 THEN Data(c, n - 1) ELSE ji)
      /\ writer.pos \in Nat /\ i \in -1..CHUNK_SIZE
  BY <1>0, <1>1, <1>2 DEF HInv, ShiftInv, WriterRecord
<1>4. /\ n \in Nat /\ i \in Nat /\ i \in Index /\ i + 1 \in Index /\ Num(c) = n + 1 /\ n > 0
      /\ i + 1 < n => i + 2 \in Index /\ i + 2 <= n /\ i + 2 # i + 1
      /\ i + 1 = n => n - 1 = i
      /\ i < i + 1 /\ i <= n /\ i # i + 1
      /\ \A j \in Index : j \in Nat /\ (j < Num(c) <=> j <= n)
  <2>1. i \in Int /\ n \in Int /\ Num(c) = n + 1
    BY <1>2, <1>3, SizeFacts
  <2>2. Num(c) \in 0..CHUNK_SIZE
    BY <1>2
  <2> QED BY <2>1, <2>2, <1>3, SizeFacts
<1>5. /\ i + 1 = n => Data(c, i + 1) = Data(c, i)
      /\ i + 1 < n \/ i + 1 = n
  BY <1>3, <1>4
<1>6. PICK v \in Obj \cup {NULL}, h \in Index : v = Data(c, i) /\ h = i + 1
  <2>1. Data(c, i) \in Obj /\ i + 1 \in Index
    BY <1>2, <1>4 DEF HInv, ElemInv, Objs
  <2> QED BY <2>1
<1>7. TypeOK /\ c \in Chunks /\ h \in Index /\ v \in Obj \cup {NULL}
  BY <1>1, <1>2, <1>6
<1>8. chunk' = [chunk EXCEPT ![c].data[h] = v]
  BY <1>1, <1>2, <1>6
<1>9. /\ chunk' \in [Chunk -> ChunkRecord \cup {NULL}] /\ chunk'[c] # NULL
      /\ Ref(c)' = Ref(c) /\ Num(c)' = Num(c) /\ Last(c)' = Last(c)
      /\ \A j \in Index : Data(c, j)' = IF j = h THEN v ELSE Data(c, j)
      /\ \A d \in Chunk \ {c} : chunk'[d] = chunk[d]
  BY <1>7, <1>8, DataStore
<1>10. ASSUME NEW y, InChunk(y, c) PROVE InChunk(y, c)'
  <2>1. PICK j \in Index : j < Num(c) /\ Data(c, j) = y
    BY <1>10 DEF InChunk
  <2>2. CASE j # h
    BY <2>1, <2>2, <1>9 DEF InChunk
  <2>3. CASE j = h /\ i + 1 < n
    <3>1. PICK k \in Index : k = i + 2 /\ k < Num(c) /\ k # h
      BY <2>3, <1>4, <1>6
    <3>2. Data(c, k) = y
      BY <2>1, <2>3, <3>1, <1>3, <1>6
    <3> QED BY <3>1, <3>2, <1>9 DEF InChunk
  <2>4. CASE j = h /\ i + 1 = n
    <3>1. v = y
      BY <2>1, <2>4, <1>5, <1>6
    <3> QED BY <2>1, <2>4, <3>1, <1>9 DEF InChunk
  <2> QED BY <2>2, <2>3, <2>4, <1>5
<1>11. ASSUME NEW y, InChunk(y, c)' PROVE InChunk(y, c)
  <2>1. PICK j \in Index : j < Num(c) /\ (IF j = h THEN v ELSE Data(c, j)) = y
    BY <1>9, <1>11 DEF InChunk
  <2>2. CASE j # h
    BY <2>1, <2>2 DEF InChunk
  <2>3. CASE j = h
    <3>1. i \in Index /\ i < Num(c) /\ Data(c, i) = y
      BY <2>1, <2>3, <1>4, <1>6
    <3> QED BY <3>1 DEF InChunk
  <2> QED BY <2>2, <2>3
<1>12. ASSUME NEW e, NEW m \in Nat, e # ji, From(e, c, m) PROVE From(e, c, m)'
  <2> SUFFICES ASSUME NEW j \in Index, j < Num(c), (IF j = h THEN v ELSE Data(c, j)) = e PROVE m <= j
    BY <1>9 DEF From
  <2>1. CASE j # h
    BY <1>12, <2>1 DEF From
  <2>2. CASE j = h
    <3>1. i \in Index /\ i < Num(c) /\ Data(c, i) = e
      BY <2>2, <1>4, <1>6
    <3>2. m <= i
      BY <3>1, <1>12 DEF From
    <3> QED BY <3>2, <2>2, <1>4, <1>6
  <2> QED BY <2>1, <2>2
<1> QED BY <1>1, <1>9, <1>10, <1>11, <1>12 DEF Stored

LEMMA InsertStored ==
    ASSUME HInv, Insert, NEW c, NEW ji, Works(c, ji)
    PROVE  Stored(c, ji) /\ UnchangedByStore /\ writer'.ji = ji
<1>0. c = writer.chunk /\ ji = writer.ji
  BY DEF Works
<1>1. /\ writer.pc = "shift" /\ writer \in WriterRecord /\ Storing /\ TypeOK
      /\ chunk' = [chunk EXCEPT ![c].data[writer.pos] = ji]
      /\ writer.i < writer.pos
      /\ writer'.ji = ji /\ UnchangedByStore
  BY <1>0 DEF HInv, Insert, WriterAt, Storing, TypeOK, WriterRecord
<1>2. PICK n, i, p : n = Num(c) - 1 /\ i = writer.i /\ p = writer.pos
                     /\ c \in Chunks /\ c \in Chunk /\ Num(c) \in 0..CHUNK_SIZE
  BY <1>0, <1>1, StoringFacts
<1>3. /\ n >= 0 /\ i + 1 <= n /\ p <= i + 1 /\ i < p
      /\ i + 1 < n => Data(c, i + 1) = Data(c, i + 2)
      /\ i + 1 = n => Data(c, n) = (IF n > 0 THEN Data(c, n - 1) ELSE ji)
      /\ p \in Nat /\ i \in -1..CHUNK_SIZE
  BY <1>0, <1>1, <1>2 DEF HInv, ShiftInv, WriterRecord
<1>4. /\ n \in Nat /\ p \in Nat /\ p \in Index /\ p = i + 1 /\ p < Num(c)
      /\ p < n => p + 1 \in Index /\ p + 1 = i + 2 /\ p + 1 < Num(c) /\ p + 1 # p
      /\ p = n /\ n > 0 => n - 1 \in Index /\ n - 1 < Num(c) /\ n - 1 # p
      /\ p < n \/ (p = n /\ n > 0) \/ (p = n /\ ~(n > 0))
  <2>1. i \in Int /\ n \in Int /\ Num(c) = n + 1
    BY <1>2, <1>3, SizeFacts
  <2>2. Num(c) \in 0..CHUNK_SIZE
    BY <1>2
  <2> QED BY <2>1, <2>2, <1>3, SizeFacts
<1>h. PICK h \in Index, x \in Obj \cup {NULL} : h = p /\ x = ji
  <2>1. ji \in Obj
    BY <1>0, <1>1, AddingFacts DEF Storing
  <2> QED BY <2>1, <1>4
<1>5. chunk' = [chunk EXCEPT ![c].data[h] = x] /\ TypeOK /\ c \in Chunks
  BY <1>1, <1>2, <1>h
<1>6. /\ chunk' \in [Chunk -> ChunkRecord \cup {NULL}] /\ chunk'[c] # NULL
      /\ Ref(c)' = Ref(c) /\ Num(c)' = Num(c) /\ Last(c)' = Last(c)
      /\ \A j \in Index : Data(c, j)' = IF j = h THEN x ELSE Data(c, j)
      /\ \A d \in Chunk \ {c} : chunk'[d] = chunk[d]
  BY <1>h, <1>5, DataStore
<1>7. ASSUME NEW y, InChunk(y, c) PROVE InChunk(y, c)'
  <2>1. PICK j \in Index : j < Num(c) /\ Data(c, j) = y
    BY <1>7 DEF InChunk
  <2>2. CASE j # h
    BY <2>1, <2>2, <1>6, <1>h DEF InChunk
  <2>3. CASE j = h /\ h < n
    <3>1. PICK k \in Index : k = h + 1 /\ k < Num(c) /\ k # h /\ k = i + 2
      BY <2>3, <1>4, <1>h
    <3>2. Data(c, k) = y
      BY <2>1, <2>3, <3>1, <1>3, <1>4, <1>h
    <3> QED BY <3>1, <3>2, <1>6, <1>h DEF InChunk
  <2>4. CASE j = h /\ h = n /\ n > 0
    <3>1. PICK k \in Index : k = n - 1 /\ k < Num(c) /\ k # h
      BY <2>4, <1>4, <1>h
    <3>2. Data(c, k) = y
      BY <2>1, <2>4, <3>1, <1>3, <1>4, <1>h
    <3> QED BY <3>1, <3>2, <1>6, <1>h DEF InChunk
  <2>5. CASE j = h /\ h = n /\ ~(n > 0)
    <3>1. ji = y
      BY <2>1, <2>5, <1>3, <1>4, <1>h
    <3> QED BY <2>1, <2>5, <3>1, <1>6, <1>h DEF InChunk
  <2> QED BY <2>2, <2>3, <2>4, <2>5, <1>4, <1>h
<1>8. ASSUME NEW y, InChunk(y, c)' PROVE InChunk(y, c) \/ y = ji
  BY <1>h, <1>6, <1>8 DEF InChunk
<1>9. ASSUME NEW e, NEW m \in Nat, e # ji, From(e, c, m) PROVE From(e, c, m)'
  BY <1>h, <1>6, <1>9 DEF From
<1> QED BY <1>1, <1>6, <1>7, <1>8, <1>9 DEF Stored

LEMMA SealStored ==
    ASSUME HInv, Seal, NEW c, NEW ji, Works(c, ji)
    PROVE  Stored(c, ji) /\ UnchangedByStore /\ writer'.chunk = NULL
<1>0. c = writer.chunk /\ ji = writer.ji
  BY DEF Works
<1>1. /\ writer.pc = "seal" /\ writer \in WriterRecord /\ Storing /\ TypeOK
      /\ chunk' = [chunk EXCEPT ![c].last_code_end = End(Data(c, Num(c) - 1))]
      /\ writer'.chunk = NULL /\ UnchangedByStore
  BY <1>0 DEF HInv, Seal, WriterAt, Storing, TypeOK, Data, Num, IdleWriter
<1>2. PICK n, q : n = Num(c) - 1 /\ q \in DOMAIN table[cur] /\ c = CurChunk(q)
                  /\ c \in Chunks /\ c \in Chunk /\ Num(c) \in 0..CHUNK_SIZE
  BY <1>0, <1>1, StoringFacts
<1>3. n \in Index /\ n < Num(c)
  <2>1. writer.pos < Num(c) /\ writer.pos \in Nat
    BY <1>0, <1>1 DEF HInv, SealInv, WriterRecord
  <2>2. n = Num(c) - 1 /\ Num(c) \in 0..CHUNK_SIZE
    BY <1>2
  <2> QED BY <2>1, <2>2, SizeFacts
<1>4. PICK v : v = End(Data(c, n))
  OBVIOUS
<1>5. v \in Nat
  <2>1. cur # NULL
    BY <1>1, AddingFacts DEF Storing
  <2> QED BY <2>1, <1>2, <1>3, <1>4, CurFacts
<1>6. /\ Num(c)' = Num(c)
      /\ \A j \in Index : Data(c, j)' = Data(c, j)
      /\ \A d \in Chunk \ {c} : chunk'[d] = chunk[d]
  <2>1. chunk' = [chunk EXCEPT ![c].last_code_end = v] /\ c \in Chunks
    BY <1>1, <1>2, <1>4
  <2> QED BY <2>1, <1>1, <1>5, LastStore
<1>7. \A y : InChunk(y, c)' <=> InChunk(y, c)
  BY <1>6 DEF InChunk
<1>8. \A e : \A m \in Nat : From(e, c, m) => From(e, c, m)'
  BY <1>6 DEF From
<1> QED BY <1>1, <1>6, <1>7, <1>8 DEF Stored

LEMMA StoredTable ==
    ASSUME HInv, NEW c, NEW ji, Stored(c, ji), table' = table
    PROVE  /\ \A t \in Tables : \A y : InTable(y, t) => InTable(y, t)'
           /\ \A t \in Tables : \A y : InTable(y, t)' => InTable(y, t) \/ y = ji
<1>1. \A d \in Chunk : \A y : /\ InChunk(y, d) => InChunk(y, d)'
                              /\ InChunk(y, d)' => InChunk(y, d) \/ y = ji
  <2> TAKE d \in Chunk
  <2>1. CASE d = c
    BY <2>1 DEF Stored
  <2>2. CASE d # c
    <3>1. chunk'[d] = chunk[d]
      BY <2>2 DEF Stored
    <3> QED BY <3>1 DEF InChunk, Num, Data
  <2> QED BY <2>1, <2>2
<1>2. \A t \in Tables : \A y : /\ InTable(y, t) => InTable(y, t)'
                               /\ InTable(y, t)' => InTable(y, t) \/ y = ji
  <2> TAKE t \in Tables
  <2>1. \A p \in DOMAIN table[t] : table[t][p] \in Chunk
    BY DEF HInv, StructInv, Chunks
  <2>2. \A p \in DOMAIN table[t] : \A y : /\ InChunk(y, table[t][p]) => InChunk(y, table[t][p])'
                                          /\ InChunk(y, table[t][p])' => InChunk(y, table[t][p]) \/ y = ji
    <3> SUFFICES ASSUME NEW p \in DOMAIN table[t], NEW y
                 PROVE  /\ InChunk(y, table[t][p]) => InChunk(y, table[t][p])'
                        /\ InChunk(y, table[t][p])' => InChunk(y, table[t][p]) \/ y = ji
      OBVIOUS
    <3>1. PICK d : d = table[t][p] /\ d = table'[t][p] /\ d \in Chunk
      BY <2>1
    <3>2. (InChunk(y, d) => InChunk(y, d)') /\ (InChunk(y, d)' => InChunk(y, d) \/ y = ji)
      BY <1>1, <3>1
    <3> QED BY <3>1, <3>2
  <2> QED BY <2>2 DEF InTable
<1> QED BY <1>2

LEMMA StoreLooks ==
    ASSUME IInv, LookInv, Count \/ Shift \/ Insert \/ Seal
    PROVE  LookInv'
<1>1. PICK c, ji : c = writer.chunk /\ ji = writer.ji
  OBVIOUS
<1>2. HInv /\ HInv' /\ IInv'
  <2>1. IInv'
    BY StoreOK
  <2> QED BY <2>1 DEF IInv
<1>3. Stored(c, ji) /\ UnchangedByStore /\ (writer'.chunk = NULL \/ writer'.ji = ji)
  <2>1. Works(c, ji)
    BY <1>1 DEF Works
  <2>2. CASE Count
    BY <1>1, <1>2, <2>2, CountStored
  <2>3. CASE Shift
    BY <1>2, <2>1, <2>3, ShiftStored
  <2>4. CASE Insert
    BY <1>2, <2>1, <2>4, InsertStored
  <2>5. CASE Seal
    BY <1>2, <2>1, <2>5, SealStored
  <2> QED BY <2>2, <2>3, <2>4, <2>5
<1>4. Storing /\ (writer' = IdleWriter \/ writer'.ji = ji)
  <2>1. writer \in WriterRecord
    BY <1>2 DEF HInv, TypeOK
  <2> QED BY <1>1, <2>1 DEF Count, Shift, Insert, Seal, WriterAt, Storing, WriterRecord
<1>5. Adding' => writer'.ji = ji
  <2>1. writer' = IdleWriter => ~Adding'
    BY DEF Adding, IdleWriter
  <2> QED BY <1>4, <2>1
<1>6. Adding /\ ji \in Obj /\ cur # NULL /\ cur \in Tables
  <2>1. writer.pc \in {"search", "count", "shift", "seal"}
    BY <1>4 DEF Storing
  <2> QED BY <1>1, <1>2, <2>1, AddingFacts
<1>7. UNCHANGED <<obj, table, cur, reader, expected, allowed>>
  BY <1>3 DEF UnchangedByStore, ghosts
<1>8. \A t \in Tables : \A y : /\ InTable(y, t) => InTable(y, t)'
                               /\ InTable(y, t)' => InTable(y, t) \/ y = ji
  BY <1>2, <1>3, <1>7, StoredTable
<1>9. \A y : y \in Live => y \in Live'
  <2>1. \A y : InTable(y, cur) => InTable(y, cur)'
    <3>1. PICK t : t = cur /\ t = cur' /\ t \in Tables
      BY <1>6, <1>7
    <3>2. \A y : InTable(y, t) => InTable(y, t)'
      BY <1>8, <3>1
    <3> QED BY <3>1, <3>2
  <2> QED BY <1>7, <2>1, LiveFacts, LiveFactsP DEF LiveIs
<1> SUFFICES ASSUME NEW r \in Reader PROVE AllowedInv(r)' /\ FindInv(r)'
  BY DEF LookInv
<1>10. PICK rd, e, a, t : rd = reader[r] /\ e = expected[r] /\ a = allowed[r] /\ t = rd.table
  OBVIOUS
<1>11. FindOK(rd, e) /\ AllowedOK(rd, a)
  BY <1>10 DEF LookInv, FindInv, AllowedInv
<1>12. rd.ji \in Obj \cup {NULL} /\ rd.left \in Nat /\ rd.pos \in Nat
  BY <1>2, <1>10, LookupType, SizeFacts DEF HInv
<1>13. Looking(rd) => t \in Tables
  BY <1>10, LookupFacts
<1>14. AllowedOK(rd, a)'
  <2>1. Looking(rd) => \A o \in Obj : InTable(o, rd.table)' /\ obj'[o] = "ji" =>
          InTable(o, rd.table) \/ (Adding /\ o = writer.ji)
    BY <1>1, <1>6, <1>8, <1>10, <1>13
  <2>2. \A o \in Obj : obj'[o] = "ji" /\ Covers(o, rd.addr) => obj[o] = "ji" \/ o \in a
    BY <1>7
  <2>3. Adding' => (Adding /\ writer'.ji = writer.ji)
                   \/ (Covers(writer'.ji, rd.addr) => writer'.ji \in a)
    BY <1>1, <1>5, <1>6
  <2> QED BY <1>11, <1>12, <2>1, <2>2, <2>3, AllowedKept
<1>15. FindOK(rd, e)'
  <2>1. Looking(rd) /\ e # NULL => e \in Live /\ e # ji
    BY <1>1, <1>6, <1>11 DEF FindOK
  <2>2. Looking(rd) /\ e # NULL => e \in Live' /\ (Adding' => e # writer'.ji)
    BY <1>5, <1>9, <2>1
  <2>3. ASSUME Looking(rd), e # NULL, NEW i \in DOMAIN table[t], Sees(t, e, i)
        PROVE  /\ Sees(t, e, i)'
               /\ \A n \in Nat : From(e, table[t][i], n) => From(e, table[t][i], n)'
    BY <1>1, <1>2, <1>3, <1>4, <1>13, <2>1, <2>3, StoredSees
  <2>4. ASSUME Looking(rd), IsTombstone(rd.ji), InTable(rd.ji, t)
        PROVE  (IsTombstone(rd.ji) /\ InTable(rd.ji, t))'
    BY <1>7, <1>8, <1>13, <2>4 DEF IsTombstone
  <2>5. Looking(rd) => table'[t] = table[t]
    BY <1>7
  <2> QED BY <1>10, <1>11, <1>12, <2>2, <2>3, <2>4, <2>5, FindKept
<1> QED BY <1>7, <1>10, <1>14, <1>15 DEF AllowedInv, FindInv

\* The tombstone y is stored over o, at the index j of chunk c.
Replaced(o, y, c, j) ==
    /\ o \in Live /\ o \in Obj /\ obj[o] = "ji"
    /\ y \in Obj /\ obj[y] = NULL /\ Start(y) = Start(o) /\ End(y) = End(o)
    /\ c \in Chunks /\ j \in Index /\ j < Num(c) /\ Data(c, j) = o
    /\ \A d \in Chunks : Num(d)' = Num(d) /\ Last(d)' = Last(d)
    /\ \A d \in Chunks : \A l \in Index : Data(d, l)' = IF d = c /\ l = j THEN y ELSE Data(d, l)
    /\ obj'[y] = "tombstone" /\ \A z \in Obj \ {y} : obj'[z] = obj[z]
    /\ UNCHANGED <<table, cur, reader, allowed>> /\ cur # NULL
    /\ expected' = [r \in Reader |-> IF expected[r] = o THEN NULL ELSE expected[r]]
    /\ ~Adding /\ ~Adding'

LEMMA RemoveFacts ==
    ASSUME HInv, NEW o \in Obj, RemoveStart(o)
    PROVE  \E y, c, j : Replaced(o, y, c, j)
<1>1. /\ writer.pc = "idle" /\ writer \in WriterRecord /\ o \in Live /\ cur # NULL
      /\ UNCHANGED <<table, cur, reader, allowed>>
  <2>1. o \in Live /\ writer.pc = "idle"
    BY DEF RemoveStart, WriterAt
  <2>2. cur # NULL
    BY <2>1, LiveFacts DEF LiveIs
  <2> QED BY <2>1, <2>2 DEF RemoveStart, HInv, TypeOK
<1>2. Reached(o) # {}
  BY <1>1, ReachedFacts
<1>3. PICK p, y : /\ p \in Reached(o) /\ y \in FreeCopies(o)
                  /\ obj' = [obj EXCEPT ![y] = "tombstone"]
                  /\ chunk' = [chunk EXCEPT ![table[cur][p[1]]].data[p[2]] = y]
                  /\ writer' = [writer EXCEPT !.pc = "removed", !.ji = o]
                  /\ expected' = [r \in Reader |-> IF expected[r] = o THEN NULL ELSE expected[r]]
  <2>1. FreeCopies(o) # {}
    BY DEF RemoveStart
  <2>2. (CHOOSE q \in Reached(o) : TRUE) \in Reached(o) /\ (CHOOSE z \in FreeCopies(o) : TRUE) \in FreeCopies(o)
    BY <2>1, <1>2
  <2> QED BY <2>2, <1>2 DEF RemoveStart
<1>4. y \in Obj /\ obj[y] = NULL /\ Start(y) = Start(o) /\ End(y) = End(o)
  BY <1>3 DEF FreeCopies, Start, End
<1>5. PICK i \in DOMAIN table[cur], j \in Index :
         p = <<i, j>> /\ j < Num(CurChunk(i)) /\ Data(CurChunk(i), j) = o
  <2>1. p \in Places(cur) /\ At(cur, p) = o
    BY <1>3 DEF Reached
  <2> QED BY <2>1, PlaceFacts DEF PlacesIs
<1>6. PICK c : c = CurChunk(i)
  OBVIOUS
<1>7. c \in Chunks /\ c \in Chunk
  BY <1>1, <1>5, <1>6, CurFacts
<1>8. chunk' = [chunk EXCEPT ![c].data[j] = y]
  BY <1>3, <1>5, <1>6 DEF CurChunk
<1>9. /\ chunk' \in [Chunk -> ChunkRecord \cup {NULL}] /\ chunk'[c] # NULL
      /\ Ref(c)' = Ref(c) /\ Num(c)' = Num(c) /\ Last(c)' = Last(c)
      /\ \A l \in Index : Data(c, l)' = IF l = j THEN y ELSE Data(c, l)
      /\ \A d \in Chunk \ {c} : chunk'[d] = chunk[d]
  <2>1. TypeOK
    BY DEF HInv
  <2> QED BY <2>1, <1>4, <1>5, <1>7, <1>8, DataStore
<1>10. /\ \A d \in Chunks : Num(d)' = Num(d) /\ Last(d)' = Last(d)
       /\ \A d \in Chunks : \A l \in Index : Data(d, l)' = IF d = c /\ l = j THEN y ELSE Data(d, l)
  <2>1. \A d \in Chunks \ {c} : chunk'[d] = chunk[d]
    BY <1>9 DEF Chunks
  <2>2. \A d \in Chunks \ {c} : Num(d)' = Num(d) /\ Last(d)' = Last(d)
                                /\ \A l : Data(d, l)' = Data(d, l)
    BY <2>1 DEF Num, Last, Data
  <2> QED BY <2>2, <1>9
<1>11. obj'[y] = "tombstone" /\ \A z \in Obj \ {y} : obj'[z] = obj[z]
  BY <1>3, <1>4 DEF HInv, TypeOK
<1>12. obj[o] = "ji"
  BY <1>1, LiveObj
<1>13. ~Adding /\ ~Adding'
  <2>1. writer'.pc = "removed"
    BY <1>1, <1>3 DEF WriterRecord
  <2> QED BY <1>1, <2>1 DEF Adding
<1>14. j < Num(c) /\ Data(c, j) = o
  BY <1>5, <1>6
<1> QED BY <1>1, <1>3, <1>4, <1>5, <1>7, <1>10, <1>11, <1>12, <1>13, <1>14 DEF Replaced

\* What a chunk shows of the others stays.
LEMMA ReplacedChunk ==
    ASSUME NEW o, NEW y, NEW c, NEW j, Replaced(o, y, c, j), NEW d \in Chunks
    PROVE  /\ Last(d)' = Last(d)
           /\ \A z : z # o /\ InChunk(z, d) => InChunk(z, d)'
           /\ \A z : InChunk(z, d)' => InChunk(z, d) \/ (z = y /\ InChunk(o, d))
           /\ \A z, n : z # y /\ From(z, d, n) => From(z, d, n)'
<1>1. /\ Num(d)' = Num(d) /\ Last(d)' = Last(d)
      /\ \A l \in Index : Data(d, l)' = IF d = c /\ l = j THEN y ELSE Data(d, l)
  BY DEF Replaced
<1>2. j \in Index /\ j < Num(c) /\ Data(c, j) = o
  BY DEF Replaced
<1>3. \A z : z # o /\ InChunk(z, d) => InChunk(z, d)'
  BY <1>1, <1>2 DEF InChunk
<1>4. \A z : InChunk(z, d)' => InChunk(z, d) \/ (z = y /\ InChunk(o, d))
  BY <1>1, <1>2 DEF InChunk
<1>5. \A z, n : z # y /\ From(z, d, n) => From(z, d, n)'
  BY <1>1 DEF From
<1> QED BY <1>1, <1>3, <1>4, <1>5

LEMMA ReplacedSees ==
    ASSUME HInv, NEW o, NEW y, NEW c, NEW j, Replaced(o, y, c, j),
           NEW t \in Tables, NEW e \in Live, e # o, NEW i \in DOMAIN table[t], Sees(t, e, i)
    PROVE  /\ Sees(t, e, i)'
           /\ \A n \in Nat : From(e, table[t][i], n) => From(e, table[t][i], n)'
<1>1. /\ UNCHANGED <<table, cur>> /\ cur # NULL /\ End(y) = End(o) /\ o \in Obj /\ obj[y] = NULL
      /\ obj'[y] = "tombstone" /\ \A z \in Obj \ {y} : obj'[z] = obj[z]
  BY DEF Replaced
<1>2. e # y /\ e \in Obj
  BY <1>1, LiveObj, NullFacts
<1>3. /\ \A p \in DOMAIN table[t] : table[t][p] \in Chunks
      /\ \A p \in DOMAIN table[cur] : CurChunk(p) \in Chunks
  BY <1>1, CurFacts DEF HInv, StructInv
<1>4. SameSide(t, e, i) /\ Splits(t, e, i) /\ Alone(t, e) /\ table'[t] = table[t]
  BY <1>1 DEF Sees
<1>5. Splits(t, e, i)'
  <2>1. InChunk(e, table[t][i])'
    <3>1. PICK d \in Chunks : d = table[t][i] /\ d = table'[t][i]
      BY <1>1, <1>3
    <3>2. InChunk(e, d)'
      BY <1>4, <3>1, ReplacedChunk DEF Splits
    <3> QED BY <3>1, <3>2
  <2>2. ASSUME NEW p \in DOMAIN table[t], p < i, NEW d \in Chunks, d = table[t][p],
               NEW z \in Obj, InChunk(z, d)'
        PROVE  End(z) <= End(e)
    <3>1. InChunk(z, d) \/ (z = y /\ InChunk(o, d))
      BY <2>2, ReplacedChunk
    <3> QED BY <1>1, <1>4, <2>2, <3>1 DEF Splits
  <2>3. ASSUME NEW p \in DOMAIN table[t], i <= p, NEW d \in Chunks, d = table[t][p]
        PROVE  End(e) <= Last(d)'
    <3>1. Last(d)' = Last(d)
      BY ReplacedChunk
    <3> QED BY <1>4, <2>3, <3>1 DEF Splits
  <2>4. \A p \in DOMAIN table[t] : p < i =>
          \A z \in Obj : InChunk(z, table[t][p])' => End(z) <= End(e)
    <3> SUFFICES ASSUME NEW p \in DOMAIN table[t], p < i, NEW z \in Obj, InChunk(z, table[t][p])'
                 PROVE  End(z) <= End(e)
      OBVIOUS
    <3>1. PICK d \in Chunks : d = table[t][p] /\ d = table'[t][p]
      BY <1>1, <1>3
    <3> QED BY <2>2, <3>1
  <2>5. \A p \in DOMAIN table[t] : i <= p => End(e) <= Last(table[t][p])'
    <3> SUFFICES ASSUME NEW p \in DOMAIN table[t], i <= p
                 PROVE  End(e) <= Last(table[t][p])'
      OBVIOUS
    <3>1. PICK d \in Chunks : d = table[t][p] /\ d = table'[t][p]
      BY <1>1, <1>3
    <3> QED BY <2>3, <3>1
  <2> QED BY <1>4, <2>1, <2>4, <2>5 DEF Splits
<1>6. Alone(t, e)'
  <2>1. ASSUME NEW p \in DOMAIN table[t], NEW z \in Obj, InChunk(z, table[t][p])'
        PROVE  IsTombstone(z)' \/ z = e \/ Apart(z, e)
    <3>1. PICK d \in Chunks : d = table[t][p] /\ d = table'[t][p]
      BY <1>1, <1>3
    <3>2. InChunk(z, d) \/ z = y
      BY <2>1, <3>1, ReplacedChunk
    <3>3. CASE z = y
      BY <1>1, <3>3 DEF IsTombstone
    <3>4. CASE InChunk(z, d) /\ z # y
      <4>1. IsTombstone(z) \/ z = e \/ Apart(z, e)
        BY <1>4, <3>1, <3>4 DEF Alone
      <4> QED BY <1>1, <3>4, <4>1 DEF IsTombstone
    <3> QED BY <3>2, <3>3, <3>4
  <2> QED BY <1>4, <2>1 DEF Alone
<1>7. SameSide(t, e, i)'
  <2>1. \A p \in DOMAIN table[cur] : CurChunk(p)' = CurChunk(p)
    BY <1>1 DEF CurChunk
  <2>2. \A p \in DOMAIN table[cur] : InChunk(e, CurChunk(p))' => InChunk(e, CurChunk(p))
    <3> SUFFICES ASSUME NEW p \in DOMAIN table[cur], InChunk(e, CurChunk(p))'
                 PROVE  InChunk(e, CurChunk(p))
      OBVIOUS
    <3>1. PICK d \in Chunks : d = CurChunk(p) /\ d = CurChunk(p)'
      BY <1>3, <2>1
    <3>2. InChunk(e, d)'
      BY <3>1
    <3> QED BY <1>2, <3>1, <3>2, ReplacedChunk
  <2> QED BY <1>1, <1>4, <2>1, <2>2 DEF SameSide
<1>8. \A n \in Nat : From(e, table[t][i], n) => From(e, table[t][i], n)'
  <2>1. PICK d \in Chunks : d = table[t][i] /\ d = table'[t][i]
    BY <1>1, <1>3
  <2>2. \A n \in Nat : From(e, d, n) => From(e, d, n)'
    BY <1>2, ReplacedChunk
  <2> QED BY <2>1, <2>2
<1> QED BY <1>5, <1>6, <1>7, <1>8 DEF Sees

LEMMA RemoveLooks ==
    ASSUME IInv, LookInv, NEW o \in Obj, RemoveStart(o)
    PROVE  LookInv'
<1>1. HInv
  BY DEF IInv
<1>2. PICK y, c, j : Replaced(o, y, c, j)
  BY <1>1, RemoveFacts
<1>3. /\ UNCHANGED <<table, cur, reader, allowed>> /\ cur # NULL /\ obj[y] = NULL /\ y \in Obj
      /\ obj'[y] = "tombstone" /\ \A z \in Obj \ {y} : obj'[z] = obj[z]
      /\ expected' = [r \in Reader |-> IF expected[r] = o THEN NULL ELSE expected[r]]
      /\ ~Adding /\ ~Adding' /\ obj[o] = "ji"
  BY <1>2 DEF Replaced
<1>4. \A t \in Tables : \A z : /\ z # o /\ InTable(z, t) => InTable(z, t)'
                               /\ InTable(z, t)' => InTable(z, t) \/ z = y
  <2> TAKE t \in Tables
  <2>1. \A p \in DOMAIN table[t] : table[t][p] \in Chunks
    BY <1>1 DEF HInv, StructInv
  <2>2. \A p \in DOMAIN table[t] : \A z :
          /\ z # o /\ InChunk(z, table[t][p]) => InChunk(z, table[t][p])'
          /\ InChunk(z, table[t][p])' => InChunk(z, table[t][p]) \/ z = y
    <3> SUFFICES ASSUME NEW p \in DOMAIN table[t], NEW z
                 PROVE  /\ z # o /\ InChunk(z, table[t][p]) => InChunk(z, table[t][p])'
                        /\ InChunk(z, table[t][p])' => InChunk(z, table[t][p]) \/ z = y
      OBVIOUS
    <3>1. PICK d \in Chunks : d = table[t][p] /\ d = table'[t][p]
      BY <1>3, <2>1
    <3>2. (z # o /\ InChunk(z, d) => InChunk(z, d)') /\ (InChunk(z, d)' => InChunk(z, d) \/ z = y)
      BY <1>2, ReplacedChunk
    <3> QED BY <3>1, <3>2
  <2> QED BY <1>3, <2>2 DEF InTable
<1>5. \A z : z \in Live /\ z # o => z \in Live'
  <2> SUFFICES ASSUME NEW z \in Live, z # o PROVE z \in Live'
    OBVIOUS
  <2>1. PICK t : t = cur /\ t = cur' /\ t \in Tables
    BY <1>1, <1>3, CurFacts
  <2>2. z \in Obj /\ obj[z] = "ji" /\ InTable(z, t)
    BY <1>1, <2>1, LiveObj
  <2>3. InTable(z, t)' /\ obj'[z] = "ji"
    BY <1>3, <1>4, <2>1, <2>2, NullFacts
  <2>4. InTable(z, cur)'
    BY <2>1, <2>3
  <2> QED BY <1>3, <2>3, <2>4, LiveFactsP, NullFacts DEF LiveIs
<1> SUFFICES ASSUME NEW r \in Reader PROVE AllowedInv(r)' /\ FindInv(r)'
  BY DEF LookInv
<1>6. PICK rd, e, f, a, t : /\ rd = reader[r] /\ e = expected[r] /\ f = expected'[r]
                            /\ a = allowed[r] /\ t = rd.table
  OBVIOUS
<1>7. FindOK(rd, e) /\ AllowedOK(rd, a) /\ f = (IF e = o THEN NULL ELSE e)
  BY <1>3, <1>6 DEF LookInv, FindInv, AllowedInv
<1>8. rd.ji \in Obj \cup {NULL} /\ rd.left \in Nat /\ rd.pos \in Nat
  BY <1>1, <1>6, LookupType, SizeFacts DEF HInv
<1>9. Looking(rd) => t \in Tables
  BY <1>6, LookupFacts
<1>10. AllowedOK(rd, a)'
  <2>1. Looking(rd) => \A x \in Obj : InTable(x, rd.table)' /\ obj'[x] = "ji" =>
          InTable(x, rd.table) \/ (Adding /\ x = writer.ji)
    BY <1>3, <1>4, <1>6, <1>9
  <2>2. \A x \in Obj : obj'[x] = "ji" /\ Covers(x, rd.addr) => obj[x] = "ji" \/ x \in a
    BY <1>3
  <2>3. Adding' => (Adding /\ writer'.ji = writer.ji)
                   \/ (Covers(writer'.ji, rd.addr) => writer'.ji \in a)
    BY <1>3
  <2> QED BY <1>7, <1>8, <2>1, <2>2, <2>3, AllowedKept
<1>11. FindOK(rd, f)'
  <2>0. FindOK(rd, f)
    BY <1>7 DEF FindOK
  <2>1. Looking(rd) /\ f # NULL => f \in Live /\ f # o
    BY <1>7 DEF FindOK
  <2>2. Looking(rd) /\ f # NULL => f \in Live' /\ (Adding' => f # writer'.ji)
    BY <1>3, <1>5, <2>1
  <2>3. ASSUME Looking(rd), f # NULL, NEW i \in DOMAIN table[t], Sees(t, f, i)
        PROVE  /\ Sees(t, f, i)'
               /\ \A n \in Nat : From(f, table[t][i], n) => From(f, table[t][i], n)'
    BY <1>1, <1>2, <1>9, <2>1, <2>3, ReplacedSees
  <2>4. ASSUME Looking(rd), IsTombstone(rd.ji), InTable(rd.ji, t)
        PROVE  (IsTombstone(rd.ji) /\ InTable(rd.ji, t))'
    <3>1. rd.ji # o /\ rd.ji # y
      BY <1>3, <2>4, NullFacts DEF IsTombstone
    <3>2. PICK p \in DOMAIN table[t] : InChunk(rd.ji, table[t][p])
      BY <2>4 DEF InTable
    <3>3. table[t][p] \in Chunks
      BY <1>1, <1>9, <2>4 DEF HInv, StructInv
    <3>4. rd.ji \in Obj
      BY <1>1, <3>2, <3>3 DEF InChunk, HInv, ElemInv, Objs
    <3>5. obj'[rd.ji] = obj[rd.ji]
      BY <1>3, <3>1, <3>4
    <3>6. InTable(rd.ji, t)'
      BY <1>4, <1>9, <2>4, <3>1
    <3> QED BY <2>4, <3>5, <3>6 DEF IsTombstone
  <2>5. Looking(rd) => table'[t] = table[t]
    BY <1>3
  <2> QED BY <1>6, <1>8, <2>0, <2>2, <2>3, <2>4, <2>5, FindKept
<1> QED BY <1>3, <1>6, <1>10, <1>11 DEF AllowedInv, FindInv
-----------------------------------------------------------------------------
(***************************************************************************)
(* The invariant of the lookups.                                           *)
(***************************************************************************)
JInv == IInv /\ LookInv

LEMMA InitLooks == Init => JInv
<1> SUFFICES ASSUME Init PROVE JInv
  OBVIOUS
<1>1. IInv
  BY InitOK
<1>2. /\ \A r \in Reader : reader[r] = IdleReader /\ expected[r] = NULL
      /\ writer = IdleWriter
  BY DEF Init
<1>3. ~Adding
  BY <1>2 DEF Adding, IdleWriter
<1>4. ASSUME NEW r \in Reader PROVE AllowedInv(r) /\ FindInv(r)
  <2>1. PICK rd, e, a : rd = reader[r] /\ e = expected[r] /\ a = allowed[r]
    OBVIOUS
  <2>2. rd.pc = "idle" /\ rd.ji = NULL /\ e = NULL
    BY <1>2, <2>1 DEF IdleReader
  <2>3. AllowedOK(rd, a) /\ FindOK(rd, e)
    BY <1>3, <2>2 DEF AllowedOK, FindOK, Looking
  <2> QED BY <2>1, <2>3 DEF AllowedInv, FindInv
<1> QED BY <1>1, <1>4 DEF JInv, LookInv

LEMMA FindStepLooks ==
    ASSUME IInv, LookInv, NEW r \in Reader, FindStep(r)
    PROVE  LookInv'
BY IndexStepLooks, ChunkStartLooks, BisectLoadLooks, BisectCompareLooks, BisectEndLooks,
   ScanLoadLooks, NextChunkLooks, ScanEndLooks, MatchLooks, FindReturnLooks DEF FindStep

LEMMA WriterStepLooks ==
    ASSUME IInv, LookInv, WriterStep
    PROVE  LookInv'
BY OverflowLooks, TryItemLooks, OwnLooks, GrowLooks, StoreLooks, QueueLooks, FreeAllLooks,
   FreeCurrentLooks DEF WriterStep

LEMMA NextLooks == JInv /\ [Next]_vars => JInv'
<1> SUFFICES ASSUME IInv, LookInv, [Next]_vars PROVE IInv' /\ LookInv'
  BY DEF JInv
<1>0. IInv'
  BY StepOK
<1>1. CASE UNCHANGED vars
  BY <1>0, <1>1, StutterLooks
<1>2. ASSUME NEW x \in Region, AddStart(x) PROVE LookInv'
  BY <1>2, AddStartLooks
<1>3. ASSUME NEW o \in Obj, RemoveStart(o) PROVE LookInv'
  BY <1>3, RemoveLooks
<1>4. CASE WriterStep
  BY <1>0, <1>4, WriterStepLooks
<1>5. ASSUME NEW i \in 0..(Len(delayed) - 1), ForeignTake(i) PROVE LookInv'
  BY <1>5, ForeignTakeLooks
<1>6. CASE ForeignFree
  BY <1>0, <1>6, ForeignFreeLooks
<1>7. CASE mono_domain_free
  BY <1>0, <1>7, DomainFreeLooks
<1>8. ASSUME NEW r \in Reader, FindStep(r) PROVE LookInv'
  BY <1>8, FindStepLooks
<1>9. ASSUME NEW r \in Reader, NEW addr \in Address, FindStart(r, addr) PROVE LookInv'
  BY <1>9, FindStartLooks
<1> QED BY <1>0, <1>1, <1>2, <1>3, <1>4, <1>5, <1>6, <1>7, <1>8, <1>9 DEF Next

\* What every lookup has to find stays ahead of it in its table, whatever add,
\* remove and the rebuilding of the table do while it runs.
THEOREM LookupInvariance == Spec => []JInv
<1> QED BY InitLooks, NextLooks, PTL DEF Spec

\* mono_jit_info_table_find returns the entry that was there when the lookup
\* started and has not been removed, and nothing that was not there for the
\* address; the elements that add moves up and the tables that it replaces in
\* the meantime make no difference.
THEOREM LookupsFind == Spec => []FindCorrect
<1>1. ASSUME JInv PROVE FindCorrect
  <2> SUFFICES ASSUME NEW r \in Reader, reader[r].pc = "done"
               PROVE  /\ expected[r] # NULL => reader[r].result = expected[r]
                      /\ reader[r].result # NULL => reader[r].result \in allowed[r]
    BY DEF FindCorrect
  <2>1. FindOK(reader[r], expected[r]) /\ AllowedOK(reader[r], allowed[r])
    BY <1>1 DEF JInv, LookInv, FindInv, AllowedInv
  <2> QED BY <2>1 DEF FindOK, AllowedOK
<1> QED BY <1>1, LookupInvariance, PTL
-----------------------------------------------------------------------------
(***************************************************************************)
(* No lookup reads a freed MonoJitInfo.                                    *)
(***************************************************************************)
\* When no other thread frees delayed items, the MonoJitInfo in slot 1 is there, also
\* while the release of the last old table flushes the queue.
ReadOK(rd) ==
    /\ rd.pc \in {"compare", "match"} =>
         obj[rd.ji] # NULL /\ (IsTombstone(rd.ji) => InTable(rd.ji, rd.table))
    /\ writer.pc \in {"try", "own"} /\ writer.item[1] = "table" /\ rd.table = cur =>
         rd.ji \notin free_queue
ReadInv(r) == ReadOK(reader[r])
ReadAll == \A r \in Reader : ReadInv(r)

\* A step that does not take from a lookup what it is about to read.
Steady(rd) ==
    /\ rd.pc \in {"compare", "match"} =>
         /\ obj'[rd.ji] = obj[rd.ji]
         /\ IsTombstone(rd.ji) /\ InTable(rd.ji, rd.table) => InTable(rd.ji, rd.table)'
    /\ writer'.pc \in {"try", "own"} /\ writer'.item[1] = "table" /\ rd.table = cur' =>
         rd.ji \notin free_queue'

LEMMA SteadyReads ==
    ASSUME ReadAll, reader' = reader, \A r \in Reader : Steady(reader[r])
    PROVE  ReadAll'
<1> SUFFICES ASSUME NEW r \in Reader PROVE ReadInv(r)'
  BY DEF ReadAll
<1>1. PICK rd : rd = reader[r]
  OBVIOUS
<1>2. ReadOK(rd) /\ Steady(rd)
  BY <1>1 DEF ReadAll, ReadInv
<1>3. ReadOK(rd)'
  BY <1>2 DEF ReadOK, Steady, IsTombstone
<1> QED BY <1>1, <1>3 DEF ReadInv

LEMMA MoveReads ==
    ASSUME IInv, ReadAll, NEW r \in Reader, NEW new, MoveReader(r, new), ReadOK(new)
    PROVE  ReadAll'
<1>1. reader'[r] = new /\ \A q \in Reader \ {r} : reader'[q] = reader[q]
  BY DEF IInv, HInv, TypeOK, MoveReader
<1>2. ASSUME NEW rd, ReadOK(rd) PROVE ReadOK(rd)'
  <2>1. UNCHANGED <<obj, chunk, table, free_queue, cur, writer>>
    BY DEF MoveReader, heap
  <2>2. \A y, t : InTable(y, t)' <=> InTable(y, t)
    BY <2>1 DEF InTable, InChunk, Num, Data
  <2> QED BY <1>2, <2>1, <2>2 DEF ReadOK, IsTombstone
<1> SUFFICES ASSUME NEW q \in Reader PROVE ReadInv(q)'
  BY DEF ReadAll
<1>3. PICK rd : rd = reader'[q] /\ ReadOK(rd)
  <2>1. CASE q = r
    BY <1>1, <2>1
  <2>2. CASE q # r
    BY <1>1, <2>2 DEF ReadAll, ReadInv
  <2> QED BY <2>1, <2>2
<1>4. ReadOK(rd)'
  BY <1>2, <1>3
<1> QED BY <1>3, <1>4 DEF ReadInv

\* Every step of a lookup that loads no element.
LEMMA ReadOnward ==
    ASSUME IInv, ReadAll, NEW r \in Reader, NEW rd, rd = reader[r], NEW new, MoveReader(r, new),
           new.pc \notin {"compare", "match"},
           new.ji = NULL \/ (new.ji = rd.ji /\ new.table = rd.table)
    PROVE  ReadAll'
<1>1. ReadOK(rd)
  BY DEF ReadAll, ReadInv
<1>2. NULL \notin free_queue
  BY NullFacts DEF IInv, HInv, TypeOK
<1>3. ReadOK(new)
  BY <1>1, <1>2 DEF ReadOK
<1> QED BY <1>3, MoveReads

\* A loaded element is in the table, so its memory is there; and if the table is the
\* current one it is not in the queue.
LEMMA LoadReads ==
    ASSUME IInv, ReadAll, NEW r \in Reader, NEW rd, rd = reader[r], Looking(rd), rd.pc # "index",
           NEW j \in Nat, j < Num(ChunkOfLookup(rd)),
           NEW new, MoveReader(r, new), new.table = rd.table,
           new.ji = Data(ChunkOfLookup(rd), j)
    PROVE  ReadAll'
<1>1. PICK c, o : c = ChunkOfLookup(rd) /\ o = Data(c, j) /\ new.ji = o
  OBVIOUS
<1>2. obj[o] # NULL /\ InTable(o, rd.table) /\ cur # NULL
  BY <1>1, LoadFacts, LookupFacts
<1>3. rd.table = cur => o \notin free_queue
  BY <1>2 DEF IInv, HInv, QueueInv
<1>4. ReadOK(new)
  BY <1>1, <1>2, <1>3 DEF ReadOK
<1> QED BY <1>4, MoveReads

LEMMA FindStepReads ==
    ASSUME IInv, ReadAll, NEW r \in Reader, FindStep(r)
    PROVE  ReadAll'
<1>1. PICK rd : rd = reader[r]
  OBVIOUS
<1>2. /\ rd \in ReaderRecord /\ rd.left \in Nat /\ rd.right \in Nat /\ rd.pos \in Nat
      /\ rd.pos + 1 \in Nat
  BY <1>1, LookupType, SizeFacts DEF IInv, HInv
<1>3. ASSUME NEW new, MoveReader(r, new), new.pc \notin {"compare", "match"},
             new.ji = NULL \/ (new.ji = rd.ji /\ new.table = rd.table)
      PROVE  ReadAll'
  BY <1>1, <1>3, ReadOnward
<1>4. CASE IndexStep(r)
  <2>1. PICK new : /\ MoveReader(r, new)
                   /\ \/ new = [rd EXCEPT !.right = (rd.left + rd.right) \div 2]
                      \/ new = [rd EXCEPT !.left = (rd.left + rd.right) \div 2 + 1]
                   /\ rd.pc = "index"
    BY <1>1, <1>4 DEF IndexStep, ReaderAt
  <2>2. new.pc = "index" /\ new.ji = rd.ji /\ new.table = rd.table
    BY <1>2, <2>1 DEF ReaderRecord
  <2> QED BY <1>3, <2>1, <2>2
<1>5. CASE ChunkStart(r)
  <2>1. PICK n, p, c, new :
         /\ n = Len(table[rd.table]) /\ p = IF rd.left >= n THEN n - 1 ELSE rd.left
         /\ c = table[rd.table][p + 1]
         /\ new = [rd EXCEPT !.pc = "bisect", !.chunk_pos = p, !.left = 0, !.right = Num(c)]
         /\ MoveReader(r, new)
    BY <1>1, <1>5 DEF ChunkStart, Num
  <2>2. new.pc = "bisect" /\ new.ji = rd.ji /\ new.table = rd.table
    BY <1>2, <2>1 DEF ReaderRecord
  <2> QED BY <1>3, <2>1, <2>2
<1>6. CASE BisectLoad(r)
  <2>1. PICK pos, new :
         /\ pos = (rd.left + rd.right) \div 2 /\ rd.pc = "bisect" /\ rd.left < rd.right
         /\ new = [rd EXCEPT !.pc = "compare", !.pos = pos, !.ji = Data(ChunkOfLookup(rd), pos)]
         /\ MoveReader(r, new)
    BY <1>1, <1>6 DEF BisectLoad, ReaderAt, ChunkAt, ChunkOfLookup, Data
  <2>2. pos \in Nat /\ pos < rd.right
    BY <1>2, <2>1, HalfFacts
  <2>3. new.table = rd.table /\ new.ji = Data(ChunkOfLookup(rd), pos)
    BY <1>2, <2>1 DEF ReaderRecord
  <2>4. Looking(rd) /\ rd.pc # "index" /\ rd.right <= Num(ChunkOfLookup(rd))
    BY <1>1, <2>1 DEF Looking, IInv, SlotInv, SlotOK
  <2>5. Num(ChunkOfLookup(rd)) \in Nat
    BY <1>1, <2>4, LookupFacts, SizeFacts
  <2>6. pos < Num(ChunkOfLookup(rd))
    BY <1>2, <2>2, <2>4, <2>5
  <2> QED BY <1>1, <2>1, <2>2, <2>3, <2>4, <2>6, LoadReads
<1>7. CASE BisectCompare(r)
  <2>1. PICK new : /\ MoveReader(r, new)
                   /\ \/ new = [rd EXCEPT !.pc = "bisect", !.right = rd.pos]
                      \/ new = [rd EXCEPT !.pc = "bisect", !.left = rd.pos + 1]
    BY <1>1, <1>7 DEF BisectCompare
  <2>2. new.pc = "bisect" /\ new.ji = rd.ji /\ new.table = rd.table
    BY <1>2, <2>1 DEF ReaderRecord
  <2> QED BY <1>3, <2>1, <2>2
<1>8. CASE BisectEnd(r)
  <2>1. PICK new : MoveReader(r, new) /\ new = [rd EXCEPT !.pc = "scan", !.pos = rd.left]
    BY <1>1, <1>8 DEF BisectEnd
  <2>2. new.pc = "scan" /\ new.ji = rd.ji /\ new.table = rd.table
    BY <1>2, <2>1 DEF ReaderRecord
  <2> QED BY <1>3, <2>1, <2>2
<1>9. CASE ScanLoad(r)
  <2>1. PICK new :
         /\ rd.pc = "scan" /\ rd.pos < Num(ChunkOfLookup(rd))
         /\ new = [rd EXCEPT !.pc = "match", !.ji = Data(ChunkOfLookup(rd), rd.pos), !.pos = rd.pos + 1]
         /\ MoveReader(r, new)
    BY <1>1, <1>9 DEF ScanLoad, ReaderAt, ChunkAt, ChunkOfLookup, Data, Num
  <2>2. new.table = rd.table /\ new.ji = Data(ChunkOfLookup(rd), rd.pos)
    BY <1>2, <2>1 DEF ReaderRecord
  <2>3. Looking(rd) /\ rd.pc # "index"
    BY <2>1 DEF Looking
  <2> QED BY <1>1, <1>2, <2>1, <2>2, <2>3, LoadReads
<1>10. CASE NextChunk(r)
  <2>1. PICK new : /\ MoveReader(r, new) /\ rd.pc = "scan"
                   /\ new = [rd EXCEPT !.chunk_pos = rd.chunk_pos + 1, !.pos = 0]
    BY <1>1, <1>10 DEF NextChunk, ReaderAt
  <2>2. new.pc = "scan" /\ new.ji = rd.ji /\ new.table = rd.table
    BY <1>2, <2>1 DEF ReaderRecord
  <2> QED BY <1>3, <2>1, <2>2
<1>11. ASSUME NEW ji, MoveReader(r, Found(rd, ji)) PROVE ReadAll'
  <2>1. PICK new : new = Found(rd, ji)
    OBVIOUS
  <2>2. new.pc = "done" /\ new.ji = NULL
    BY <1>2, <2>1 DEF ReaderRecord, Found
  <2> QED BY <1>3, <1>11, <2>1, <2>2
<1>12. CASE ScanEnd(r)
  BY <1>1, <1>11, <1>12 DEF ScanEnd
<1>13. CASE Match(r)
  <2>1. PICK new : /\ MoveReader(r, new)
                   /\ \/ new = [rd EXCEPT !.pc = "scan", !.ji = NULL]
                      \/ new = Found(rd, rd.ji)
                      \/ new = Found(rd, NULL)
                      \/ new = [rd EXCEPT !.pc = "scan"]
    BY <1>1, <1>13 DEF Match
  <2>2. ASSUME new = [rd EXCEPT !.pc = "scan", !.ji = NULL] \/ new = [rd EXCEPT !.pc = "scan"]
        PROVE  ReadAll'
    <3>1. new.pc = "scan" /\ (new.ji = NULL \/ (new.ji = rd.ji /\ new.table = rd.table))
      BY <1>2, <2>2 DEF ReaderRecord
    <3> QED BY <1>3, <2>1, <3>1
  <2> QED BY <1>11, <2>1, <2>2
<1>14. CASE FindReturn(r)
  <2>1. MoveReader(r, IdleReader) /\ IdleReader.pc = "idle" /\ IdleReader.ji = NULL
    BY <1>14 DEF FindReturn, IdleReader
  <2> QED BY <1>3, <2>1
<1> QED BY <1>4, <1>5, <1>6, <1>7, <1>8, <1>9, <1>10, <1>12, <1>13, <1>14 DEF FindStep

LEMMA FindStartReads ==
    ASSUME IInv, ReadAll, NEW r \in Reader, NEW addr \in Address, FindStart(r, addr)
    PROVE  ReadAll'
<1>1. PICK new : /\ MoveReader(r, new)
                 /\ new = [IdleReader EXCEPT !.pc = "index", !.addr = addr, !.table = cur,
                                             !.right = Len(table[cur])]
  BY DEF FindStart
<1>2. new.pc = "index" /\ new.ji = NULL
  BY <1>1 DEF IdleReader
<1>3. PICK rd : rd = reader[r]
  OBVIOUS
<1> QED BY <1>1, <1>2, <1>3, ReadOnward

\* A lookup that looks at an element has a table in slot 0.
LEMMA LooksAt ==
    ASSUME IInv, ReadAll, NEW r \in Reader, NEW rd, rd = reader[r], rd.pc \in {"compare", "match"}
    PROVE  Looking(rd) /\ rd.ji \in Obj /\ rd.table \in Tables /\ cur # NULL /\ obj[rd.ji] # NULL
<1>1. Looking(rd)
  BY DEF Looking
<1>2. rd.ji \in Obj /\ obj[rd.ji] # NULL
  BY DEF IInv, SlotInv, SlotOK, ReadAll, ReadInv, ReadOK
<1> QED BY <1>1, <1>2, LookupFacts

\* A step of add or remove that takes nothing out of any table but what is live.
LEMMA StoreReads ==
    ASSUME IInv, ReadAll, reader' = reader, writer'.pc \notin {"try", "own"},
           \A o \in Objs : obj'[o] = obj[o],
           \A t \in Tables : \A y : IsTombstone(y) /\ InTable(y, t) => InTable(y, t)'
    PROVE  ReadAll'
<1> SUFFICES ASSUME NEW r \in Reader PROVE Steady(reader[r])
  BY SteadyReads
<1>1. PICK rd : rd = reader[r]
  OBVIOUS
<1>2. ASSUME rd.pc \in {"compare", "match"}
      PROVE  /\ obj'[rd.ji] = obj[rd.ji]
             /\ IsTombstone(rd.ji) /\ InTable(rd.ji, rd.table) => InTable(rd.ji, rd.table)'
  <2>1. rd.ji \in Obj /\ rd.table \in Tables /\ obj[rd.ji] # NULL
    BY <1>1, <1>2, LooksAt
  <2> QED BY <2>1 DEF Objs
<1>3. Steady(rd)
  BY <1>2 DEF Steady
<1> QED BY <1>1, <1>3

LEMMA SameTables ==
    ASSUME UNCHANGED <<chunk, table>>
    PROVE  \A t, y : InTable(y, t)' <=> InTable(y, t)
BY DEF InTable, InChunk, Num, Data

LEMMA AddStartReads ==
    ASSUME IInv, ReadAll, NEW x \in Region, AddStart(x)
    PROVE  ReadAll'
<1>1. PICK o : o \in FreeCopies(x) /\ obj' = [obj EXCEPT ![o] = "ji"]
                /\ writer' = [writer EXCEPT !.pc = "search", !.ji = o]
  BY DEF AddStart
<1>2. obj[o] = NULL /\ reader' = reader /\ UNCHANGED <<chunk, table>>
  BY <1>1 DEF FreeCopies, AddStart
<1>3. writer'.pc = "search"
  BY <1>1 DEF IInv, HInv, TypeOK, WriterRecord
<1>4. \A y \in Objs : obj'[y] = obj[y]
  BY <1>1, <1>2 DEF IInv, HInv, TypeOK, Objs
<1> QED BY <1>2, <1>3, <1>4, SameTables, StoreReads

LEMMA GrowReads ==
    ASSUME IInv, ReadAll, Grow
    PROVE  ReadAll'
<1>1. UNCHANGED <<obj, table, reader>> /\ writer'.pc = "count"
  BY DEF Grow, UnchangedByStore, IInv, HInv, TypeOK, WriterRecord
<1>2. \A d \in Chunk : \A y : InChunk(y, d)' <=> InChunk(y, d)
  BY GrowSame, SameChunkFacts DEF IInv
<1>3. \A t \in Tables : \A y : InTable(y, t) => InTable(y, t)'
  <2>1. \A t \in Tables : \A p \in DOMAIN table[t] : table[t][p] \in Chunk
    BY DEF IInv, HInv, StructInv, Chunks
  <2> QED BY <1>1, <1>2, <2>1 DEF InTable
<1> QED BY <1>1, <1>3, StoreReads

LEMMA StoredReads ==
    ASSUME IInv, ReadAll, Count \/ Shift \/ Insert \/ Seal
    PROVE  ReadAll'
<1>1. PICK c, ji : c = writer.chunk /\ ji = writer.ji
  OBVIOUS
<1>2. Stored(c, ji) /\ UnchangedByStore
  <2>1. Works(c, ji) /\ HInv
    BY <1>1 DEF Works, IInv
  <2>2. CASE Count
    BY <1>1, <2>1, <2>2, CountStored
  <2>3. CASE Shift
    BY <2>1, <2>3, ShiftStored
  <2>4. CASE Insert
    BY <2>1, <2>4, InsertStored
  <2>5. CASE Seal
    BY <2>1, <2>5, SealStored
  <2> QED BY <2>2, <2>3, <2>4, <2>5
<1>3. writer'.pc \notin {"try", "own"}
  <2>1. writer \in WriterRecord
    BY DEF IInv, HInv, TypeOK
  <2> QED BY <2>1 DEF Count, Shift, Insert, Seal, WriterAt, IdleWriter, WriterRecord
<1>4. UNCHANGED <<obj, table, reader>>
  BY <1>2 DEF UnchangedByStore
<1>5. \A t \in Tables : \A y : InTable(y, t) => InTable(y, t)'
  BY <1>2, <1>4, StoredTable DEF IInv
<1> QED BY <1>3, <1>4, <1>5, StoreReads

LEMMA RemoveReads ==
    ASSUME IInv, ReadAll, NEW o \in Obj, RemoveStart(o)
    PROVE  ReadAll'
<1>1. PICK y, c, j : Replaced(o, y, c, j)
  BY RemoveFacts DEF IInv
<1>2. /\ obj[o] = "ji" /\ y \in Obj /\ obj[y] = NULL /\ reader' = reader
      /\ \A z \in Obj \ {y} : obj'[z] = obj[z]
      /\ table' = table
  BY <1>1 DEF Replaced
<1>3. \A z \in Objs : obj'[z] = obj[z]
  BY <1>2 DEF Objs
<1>4. ASSUME NEW t \in Tables, NEW z, IsTombstone(z), InTable(z, t) PROVE InTable(z, t)'
  <2>1. PICK p \in DOMAIN table[t] : InChunk(z, table[t][p])
    BY <1>4 DEF InTable
  <2>2. PICK d : d = table[t][p] /\ d = table'[t][p] /\ d \in Chunks
    BY <1>2 DEF IInv, HInv, StructInv
  <2>3. z # o
    BY <1>2, <1>4 DEF IsTombstone
  <2>4. InChunk(z, d)'
    BY <1>1, <2>1, <2>2, <2>3, ReplacedChunk
  <2> QED BY <1>2, <2>2, <2>4 DEF InTable
<1>5. writer'.pc \notin {"try", "own"}
  <2>1. writer \in WriterRecord /\ writer.pc = "idle"
    BY DEF IInv, HInv, TypeOK, RemoveStart, WriterAt
  <2> QED BY <2>1 DEF RemoveStart, WriterRecord
<1> QED BY <1>2, <1>3, <1>4, <1>5, StoreReads

LEMMA QueueReads ==
    ASSUME IInv, ReadAll, mono_jit_info_free_or_queue
    PROVE  ReadAll'
<1>1. UNCHANGED <<obj, chunk, table, reader>>
  BY DEF mono_jit_info_free_or_queue
<1>2. writer'.pc \in {"try", "own"} => writer'.item[1] = "ji"
  <2>1. writer \in WriterRecord
    BY DEF IInv, HInv, TypeOK
  <2>0. PICK item : item = <<"ji", writer.ji>>
    OBVIOUS
  <2>2. item = <<"ji", writer.ji>> /\ item[1] = "ji"
    BY <2>0
  <2>3. \/ writer' = [writer EXCEPT !.pc = "try", !.item = item, !.idx = 2]
        \/ writer' = IdleWriter
    BY <2>2 DEF mono_jit_info_free_or_queue
  <2>4. CASE writer' = [writer EXCEPT !.pc = "try", !.item = item, !.idx = 2]
    <3>1. writer'.item = item
      BY <2>1, <2>4 DEF WriterRecord
    <3> QED BY <2>2, <3>1
  <2>5. CASE writer' = IdleWriter
    BY <2>5 DEF IdleWriter
  <2> QED BY <2>3, <2>4, <2>5
<1> SUFFICES ASSUME NEW r \in Reader PROVE Steady(reader[r])
  BY <1>1, SteadyReads
<1> QED BY <1>1, <1>2, SameTables DEF Steady

LEMMA OverflowReads ==
    ASSUME IInv, ReadAll, Overflow
    PROVE  ReadAll'
<1>1. HInv /\ writer.pc = "search"
  BY DEF IInv, Overflow, WriterAt
<1>2. cur # NULL
  BY <1>1, AddingFacts
<1>3. PICK t0, parts, new, chunks, m, keep : Replacing(t0, parts, new, chunks, m, keep)
  BY <1>1, OverflowFacts
<1>4. t0 \notin Tables /\ t0 \in Table /\ cur' = t0 /\ UNCHANGED <<obj, reader>>
  BY <1>3 DEF Replacing, Published, Overflow
<1>5. \A t \in Tables : \A o : InTable(o, t)' <=> InTable(o, t)
  BY <1>1, <1>2, <1>3, <1>4, ReplacedLive
<1> SUFFICES ASSUME NEW r \in Reader PROVE Steady(reader[r])
  BY <1>4, SteadyReads
<1>6. PICK rd : rd = reader[r]
  OBVIOUS
<1>7. rd.table # cur'
  <2>1. rd.table \in Tables \/ rd.table = NULL
    BY <1>6 DEF IInv, SlotInv, SlotOK
  <2> QED BY <1>4, <2>1, NullFacts
<1>8. rd.pc \in {"compare", "match"} => rd.table \in Tables
  BY <1>6, LooksAt
<1>9. Steady(rd)
  BY <1>4, <1>5, <1>7, <1>8 DEF Steady
<1> QED BY <1>6, <1>9

OneTableIs == HInv /\ cur # NULL /\ num_tables <= 1 => Tables = {cur}
LEMMA OneTableFact == OneTableIs
BY OneTable DEF OneTableIs
LEMMA OneTableFactP == OneTableIs'
BY OneTableFact, PTL

\* A table that waits to be freed is an old one, so another one is left.
LEMMA OldTable ==
    ASSUME HInv, cur # NULL, NEW t \in Table, Pending(<<"table", t>>)
    PROVE  t \in Tables /\ t # cur /\ ~(num_tables <= 1)
<1>1. t \in Tables /\ t # cur
  BY DEF HInv, PendInv
<1> QED BY <1>1, OneTable

\* The queue is flushed by the release of the last table but one.
LEMMA FlushFacts ==
    ASSUME HInv, NEW item \in Item, Free(item), free_queue' # free_queue
    PROVE  \E t \in Table : item = <<"table", t>> /\ num_tables <= 2 /\ num_tables' <= 1
<1>1. num_tables \in Nat
  BY DEF HInv, TypeOK
<1>2. CASE item[1] # "table"
  BY <1>2 DEF Free
<1>3. CASE item[1] = "table"
  <2>1. PICK t \in Table : item = <<"table", t>>
    BY <1>3 DEF Item
  <2>2. jit_info_table_free(t)
    BY <2>1 DEF Free
  <2>3. num_tables - 1 <= 1 /\ num_tables' = num_tables - 1
    BY <2>2 DEF jit_info_table_free, Flushed
  <2> QED BY <1>1, <2>1, <2>3
<1> QED BY <1>2, <1>3

LEMMA FreedReads ==
    ASSUME IInv, IInv', ReadAll, NEW item \in Item \cup {NULL}, Freed(item),
           item # NULL => Pending(item) /\ ~Hazardous(item),
           free_queue' # free_queue => \E t \in Table : item = <<"table", t>> /\ num_tables' <= 1,
           UNCHANGED <<cur, reader>>,
           writer.pc \in {"try", "own"}, ~Storing', writer'.chunk = NULL,
           writer'.pc \in {"try", "own"} => writer'.item = writer.item
    PROVE  ReadAll'
<1>1. HInv /\ HInv' /\ cur # NULL /\ ~Storing
  BY DEF IInv, HInv, WriterInv, Storing
<1>2. item # <<"table", cur>>
  <2> SUFFICES ASSUME item = <<"table", cur>> PROVE FALSE
    OBVIOUS
  <2>1. cur \in Table
    BY <1>1 DEF HInv, TypeOK
  <2>2. item \in Item
    BY <2>1 DEF Item
  <2>3. Pending(<<"table", cur>>)
    BY <2>2, NullFacts
  <2> QED BY <1>1, <2>1, <2>3, OldTable
<1>3. \A t \in Tables' : \A o : InTable(o, t)' <=> InTable(o, t)
  BY <1>1, <1>2, FreedView
<1> SUFFICES ASSUME NEW r \in Reader PROVE ReadInv(r)'
  BY DEF ReadAll
<1>4. PICK rd, e : rd = reader[r] /\ rd = reader'[r] /\ e = expected'[r]
  OBVIOUS
<1>5. ReadOK(rd)
  BY <1>4 DEF ReadAll, ReadInv
<1>6. ASSUME rd.pc \in {"compare", "match"}, free_queue' # free_queue PROVE rd.ji \notin free_queue
  <2>1. PICK t \in Table : item = <<"table", t>> /\ num_tables' <= 1
    BY <1>6
  <2>2. item # NULL /\ Pending(<<"table", t>>)
    <3>1. <<"table", t>> \in Item
      BY DEF Item
    <3> QED BY <2>1, <3>1, NullFacts
  <2>3. ~(num_tables <= 1)
    BY <1>1, <2>2, OldTable
  <2>4. writer.item \in Item /\ writer.item[1] # "ji"
    BY <1>1, <2>3 DEF HInv, WriterInv, TypeOK, WriterRecord
  <2>5. writer.item[1] = "table"
    BY <2>4 DEF Item
  <2>6. rd.table = cur
    <3>1. Tables' = {cur'} /\ cur' = cur
      BY <1>1, <2>1, OneTableFactP DEF OneTableIs
    <3>2. SlotOK(rd, e)'
      BY <1>4 DEF IInv, SlotInv
    <3>3. rd.table \in Tables'
      BY <1>6, <3>2 DEF SlotOK, Looking
    <3> QED BY <3>1, <3>3
  <2> QED BY <1>5, <2>5, <2>6 DEF ReadOK
<1>7. ASSUME rd.pc \in {"compare", "match"}
      PROVE  /\ obj'[rd.ji] = obj[rd.ji] /\ obj[rd.ji] # NULL
             /\ IsTombstone(rd.ji) => InTable(rd.ji, rd.table)'
  <2>1. PICK o \in Obj : o = rd.ji /\ obj[o] # NULL
    BY <1>4, <1>7, LooksAt
  <2>2. rd.table \in Tables'
    <3>1. SlotOK(rd, e)'
      BY <1>4 DEF IInv, SlotInv
    <3> QED BY <1>7, <3>1 DEF SlotOK, Looking
  <2>3. IsTombstone(o) => InTable(o, rd.table)
    BY <1>5, <1>7, <2>1 DEF ReadOK
  <2>4. obj'[o] = obj[o]
    <3> SUFFICES ASSUME obj'[o] # obj[o] PROVE FALSE
      OBVIOUS
    <3>1. \A c \in Chunks' : ~InChunk(o, c)
      BY DEF Freed
    <3>2. \A i \in DOMAIN table[rd.table] : table[rd.table][i] \in Chunks'
      BY <2>2 DEF Freed
    <3>3. ~IsTombstone(o)
      BY <2>3, <3>1, <3>2 DEF InTable
    <3>4. obj[o] = "ji"
      BY <1>1, <2>1, <3>3 DEF IsTombstone, HInv, TypeOK
    <3>5. item = <<"ji", o>> \/ o \in free_queue \ free_queue'
      BY <3>4 DEF Freed
    <3>6. item # <<"ji", o>>
      <4> SUFFICES ASSUME item = <<"ji", o>> PROVE FALSE
        OBVIOUS
      <4>1. item \in Item
        BY DEF Item
      <4>2. Hazardous(item)
        BY <1>4, <2>1 DEF Hazardous
      <4> QED BY <4>1, <4>2, NullFacts
    <3> QED BY <1>6, <1>7, <2>1, <3>5, <3>6
  <2> QED BY <1>3, <2>1, <2>2, <2>3, <2>4
<1>8. free_queue' \subseteq free_queue
  BY DEF Freed
<1>9. ReadOK(rd)'
  <2>1. IsTombstone(rd.ji)' /\ rd.pc \in {"compare", "match"} => IsTombstone(rd.ji)
    BY <1>7 DEF IsTombstone
  <2> QED BY <1>5, <1>7, <1>8, <2>1 DEF ReadOK
<1> QED BY <1>4, <1>9 DEF ReadInv

\* What a step that tries to free an item does: it frees it, or it changes no block.
MayFree(item) ==
    /\ Freed(item)
    /\ item # NULL => item \in Item /\ Pending(item) /\ ~Hazardous(item) /\ Free(item)
    /\ item = NULL => UNCHANGED <<heap, failure>>

LEMMA TryMayFree ==
    ASSUME HInv, Running, NEW n \in Nat, TryFree(n)
    PROVE  \E item \in Item \cup {NULL} : MayFree(item)
<1>1. CASE Freeable(n)
  <2>1. PICK item : item = delayed[n + 1]
    OBVIOUS
  <2>2. item \in Item /\ n + 1 \in DOMAIN delayed
    BY <1>1, <2>1 DEF Freeable, HInv, TypeOK
  <2>3. Pending(item) /\ ~Hazardous(item) /\ Free(item)
    BY <1>1, <2>1, <2>2 DEF Pending, Freeable, TryFree
  <2>4. Freed(item)
    BY <2>2, <2>3, ItemFree
  <2> QED BY <2>2, <2>3, <2>4, NullFacts DEF MayFree
<1>2. CASE ~Freeable(n)
  <2>1. UNCHANGED <<heap, failure>>
    BY <1>2 DEF TryFree
  <2>2. Freed(NULL)
    BY <2>1, KeepFacts
  <2> QED BY <2>1, <2>2 DEF MayFree
<1> QED BY <1>1, <1>2

LEMMA OwnMayFree ==
    ASSUME HInv, Own
    PROVE  \E item \in Item \cup {NULL} : MayFree(item)
<1>1. Running /\ writer.pc = "own" /\ writer.item \in Item
  BY DEF Own, WriterAt, HInv, TypeOK, WriterInv, WriterRecord
<1>2. PICK item : item = writer.item
  OBVIOUS
<1>3. item \in Item /\ Pending(item)
  BY <1>1, <1>2 DEF Pending
<1>4. CASE Hazardous(item)
  <2>1. UNCHANGED <<heap, failure>>
    BY <1>2, <1>4 DEF Own
  <2>2. Freed(NULL)
    BY <2>1, KeepFacts
  <2> QED BY <2>1, <2>2 DEF MayFree
<1>5. CASE ~Hazardous(item)
  <2>1. Free(item)
    BY <1>2, <1>5 DEF Own
  <2>2. Freed(item)
    BY <1>1, <1>3, <2>1, ItemFree
  <2> QED BY <1>3, <1>5, <2>1, <2>2, NullFacts DEF MayFree
<1> QED BY <1>4, <1>5

LEMMA MayFreeReads ==
    ASSUME IInv, IInv', ReadAll, NEW item \in Item \cup {NULL}, MayFree(item),
           UNCHANGED <<cur, reader>>,
           writer.pc \in {"try", "own"}, ~Storing', writer'.chunk = NULL,
           writer'.pc \in {"try", "own"} => writer'.item = writer.item
    PROVE  ReadAll'
<1>1. free_queue' # free_queue => \E t \in Table : item = <<"table", t>> /\ num_tables' <= 1
  <2> SUFFICES ASSUME free_queue' # free_queue
               PROVE  \E t \in Table : item = <<"table", t>> /\ num_tables' <= 1
    OBVIOUS
  <2>1. item # NULL
    BY DEF MayFree, heap
  <2>2. item \in Item /\ Free(item)
    BY <2>1 DEF MayFree
  <2> QED BY <2>2, FlushFacts DEF IInv
<1>2. Freed(item) /\ (item # NULL => Pending(item) /\ ~Hazardous(item))
  BY DEF MayFree
<1> QED BY <1>1, <1>2, FreedReads

LEMMA TryItemReads ==
    ASSUME IInv, ReadAll, TryItem
    PROVE  ReadAll'
<1>1. /\ writer.pc = "try" /\ Running /\ writer \in WriterRecord /\ writer.idx \in 0..2
      /\ writer.chunk = NULL
      /\ TryFree(writer.idx)
      /\ writer' = IF writer.idx = 0 THEN [writer EXCEPT !.pc = "own"]
                   ELSE [writer EXCEPT !.idx = @ - 1]
      /\ UNCHANGED <<cur, reader>>
  BY DEF TryItem, WriterAt, IInv, HInv, WriterInv, TypeOK, PlaceInv, Storing
<1>2. writer'.item = writer.item /\ writer'.chunk = NULL /\ writer'.pc \in {"try", "own"}
  <2>1. CASE writer.idx = 0
    BY <2>1, <1>1 DEF WriterRecord
  <2>2. CASE writer.idx # 0
    BY <2>2, <1>1 DEF WriterRecord
  <2> QED BY <2>1, <2>2
<1>3. PICK n : n = writer.idx
  OBVIOUS
<1>4. n \in Nat /\ TryFree(n)
  BY <1>1, <1>3
<1>5. PICK item \in Item \cup {NULL} : MayFree(item)
  BY <1>1, <1>4, TryMayFree DEF IInv
<1>6. IInv' /\ ~Storing'
  BY <1>2, TryItemOK DEF Storing
<1> QED BY <1>1, <1>2, <1>5, <1>6, MayFreeReads

LEMMA OwnReads ==
    ASSUME IInv, ReadAll, Own
    PROVE  ReadAll'
<1>1. /\ writer.pc = "own"
      /\ writer' = IF writer.item[1] = "table"
                   THEN [IdleWriter EXCEPT !.pc = "search", !.ji = writer.ji]
                   ELSE IdleWriter
      /\ UNCHANGED <<cur, reader>>
  BY DEF Own, WriterAt
<1>2. writer'.chunk = NULL /\ writer'.pc \in {"search", "idle"}
  BY <1>1 DEF IdleWriter
<1>3. PICK item \in Item \cup {NULL} : MayFree(item)
  BY OwnMayFree DEF IInv
<1>4. IInv' /\ ~Storing'
  BY <1>2, OwnOK DEF Storing
<1> QED BY <1>1, <1>2, <1>3, <1>4, MayFreeReads

\* The domain is freed when no lookup is under way.
LEMMA UnloadReads ==
    ASSUME IInv, ReadAll, mono_domain_free \/ mono_thread_hazardous_try_free_all \/ FreeCurrent
    PROVE  ReadAll'
<1>1. writer \in WriterRecord
  BY DEF IInv, HInv, TypeOK
<1>2. \A r \in Reader : reader[r].pc = "idle"
  BY DEF mono_domain_free, mono_thread_hazardous_try_free_all, FreeCurrent, WriterAt,
         IInv, SlotInv, SlotOK
<1>3. writer'.pc \notin {"try", "own"} /\ reader' = reader
  <2>1. CASE mono_domain_free
    BY <1>1, <2>1 DEF mono_domain_free, WriterRecord
  <2>2. CASE mono_thread_hazardous_try_free_all
    BY <1>1, <2>2 DEF mono_thread_hazardous_try_free_all, WriterAt, WriterRecord
  <2>3. CASE FreeCurrent
    BY <2>3 DEF FreeCurrent, IdleWriter
  <2> QED BY <2>1, <2>2, <2>3
<1>4. \A r \in Reader : Steady(reader[r])
  BY <1>2, <1>3 DEF Steady
<1> QED BY <1>3, <1>4, SteadyReads

LEMMA WriterStepReads ==
    ASSUME IInv, ReadAll, WriterStep
    PROVE  ReadAll'
BY OverflowReads, TryItemReads, OwnReads, GrowReads, StoredReads, QueueReads, UnloadReads
   DEF WriterStep

\* Without another thread that frees delayed items nothing is ever on its way there.
LEMMA NoForeign ==
    ASSUME foreign = NULL, ~ForeignReclaim, [Next]_vars
    PROVE  foreign' = NULL /\ ~ForeignFree /\ \A i : ~ForeignTake(i)
<1>1. ~ForeignFree /\ \A i : ~ForeignTake(i)
  BY DEF ForeignFree, ForeignTake
<1>2. CASE UNCHANGED vars
  BY <1>1, <1>2 DEF vars
<1>3. CASE \E x \in Region : AddStart(x)
  BY <1>1, <1>3 DEF AddStart
<1>4. CASE \E o \in Obj : RemoveStart(o)
  BY <1>1, <1>4 DEF RemoveStart
<1>5. CASE WriterStep
  BY <1>1, <1>5 DEF WriterStep, Overflow, TryItem, Own, Grow, Count, Shift, Insert, Seal,
     UnchangedByStore, mono_jit_info_free_or_queue, mono_thread_hazardous_try_free_all, FreeCurrent
<1>6. CASE mono_domain_free
  BY <1>1, <1>6 DEF mono_domain_free
<1>7. CASE \E r \in Reader : FindStep(r) \/ \E addr \in Address : FindStart(r, addr)
  BY <1>1, <1>7 DEF FindStep, IndexStep, ChunkStart, BisectLoad, BisectCompare, BisectEnd, ScanLoad,
     NextChunk, ScanEnd, Match, FindReturn, FindStart, MoveReader
<1> QED BY <1>1, <1>2, <1>3, <1>4, <1>5, <1>6, <1>7 DEF Next

RInv == IInv /\ ~ForeignReclaim /\ foreign = NULL /\ ReadAll

LEMMA InitReads == Init /\ ~ForeignReclaim => RInv
<1> SUFFICES ASSUME Init, ~ForeignReclaim PROVE RInv
  OBVIOUS
<1>1. IInv
  BY InitOK
<1>2. ASSUME NEW r \in Reader PROVE ReadInv(r)
  <2>1. reader[r] = IdleReader /\ writer = IdleWriter
    BY DEF Init
  <2> QED BY <2>1 DEF ReadInv, ReadOK, IdleReader, IdleWriter
<1>3. foreign = NULL
  BY DEF Init
<1> QED BY <1>1, <1>2, <1>3 DEF RInv, ReadAll

LEMMA NextReads == RInv /\ [Next]_vars => RInv'
<1> SUFFICES ASSUME ~ForeignReclaim, IInv, foreign = NULL, ReadAll, [Next]_vars
             PROVE  IInv' /\ foreign' = NULL /\ ReadAll'
  BY DEF RInv
<1>0. IInv'
  BY StepOK
<1>1. foreign' = NULL /\ ~ForeignFree /\ \A i : ~ForeignTake(i)
  BY NoForeign
<1>2. CASE UNCHANGED vars
  <2>1. UNCHANGED <<obj, chunk, table, free_queue, cur, writer, reader>>
    BY <1>2 DEF vars, heap
  <2> SUFFICES ASSUME NEW r \in Reader PROVE ReadInv(r)'
    BY <1>0, <1>1 DEF ReadAll
  <2>2. PICK rd : rd = reader[r] /\ ReadOK(rd)
    BY DEF ReadAll, ReadInv
  <2>3. \A t, y : InTable(y, t)' <=> InTable(y, t)
    BY <2>1, SameTables
  <2>4. ReadOK(rd)'
    BY <2>1, <2>2, <2>3 DEF ReadOK, IsTombstone
  <2> QED BY <2>1, <2>2, <2>4 DEF ReadInv
<1>3. ASSUME NEW x \in Region, AddStart(x) PROVE ReadAll'
  BY <1>3, AddStartReads
<1>4. ASSUME NEW o \in Obj, RemoveStart(o) PROVE ReadAll'
  BY <1>4, RemoveReads
<1>5. CASE WriterStep
  BY <1>0, <1>1, <1>5, WriterStepReads
<1>6. CASE mono_domain_free
  BY <1>0, <1>1, <1>6, UnloadReads
<1>7. ASSUME NEW r \in Reader, FindStep(r) PROVE ReadAll'
  BY <1>7, FindStepReads
<1>8. ASSUME NEW r \in Reader, NEW addr \in Address, FindStart(r, addr) PROVE ReadAll'
  BY <1>8, FindStartReads
<1> QED BY <1>0, <1>1, <1>2, <1>3, <1>4, <1>5, <1>6, <1>7, <1>8 DEF Next

\* What a lookup holds in slot 1 stays allocated as long as only the threads of the
\* domain free delayed items: a queue that is flushed has nothing of the current table.
THEOREM ReadInvariance == Spec /\ ~ForeignReclaim => []RInv
BY InitReads, NextReads, PTL DEF Spec

\* If only the threads of the domain free delayed items (a release of a table, which
\* flushes jit_info_free_queue, then happens under the domain lock and after a look
\* at the hazard slots), mono_jit_info_table_find never follows a pointer to a freed
\* table, chunk or MonoJitInfo.
THEOREM LookupsReadSafely == Spec /\ ~ForeignReclaim => []NoFreedRead
<1>1. ASSUME RInv PROVE NoFreedRead
  <2> SUFFICES ASSUME NEW r \in Reader
               PROVE  /\ reader[r].table # NULL =>
                           /\ table[reader[r].table] # NULL
                           /\ \A c \in ChunksOf(reader[r].table) : chunk[c] # NULL
                      /\ reader[r].pc \in {"compare", "match"} => Readable(r)
    BY DEF NoFreedRead
  <2>1. PICK rd : rd = reader[r] /\ SlotOK(rd, expected[r]) /\ ReadOK(rd)
    BY <1>1 DEF RInv, IInv, SlotInv, ReadAll, ReadInv
  <2>2. rd.table # NULL => rd.table \in Tables
    BY <2>1 DEF SlotOK
  <2>3. rd.table # NULL => \A c \in ChunksOf(rd.table) : c \in Chunks
    BY <1>1, <2>2 DEF RInv, IInv, HInv, StructInv, ChunksOf
  <2>4. rd.pc \in {"compare", "match"} => rd.ji \in Obj /\ obj[rd.ji] # NULL
    BY <2>1 DEF SlotOK, ReadOK
  <2> QED BY <2>1, <2>2, <2>3, <2>4, NullFacts DEF Tables, Chunks, Readable
<1> QED BY <1>1, ReadInvariance, PTL

-----------------------------------------------------------------------------
(***************************************************************************)
(* The release of the last old table does not read what it has flushed.    *)
(***************************************************************************)
LEMMA TwoTables ==
    ASSUME HInv, cur # NULL, num_tables <= 2,
           NEW t \in Tables, t # cur, NEW u \in Tables, u # cur
    PROVE  t = u
<1> SUFFICES ASSUME t # u PROVE FALSE
  OBVIOUS
<1>1. cur \in Tables /\ num_tables = Cardinality(Tables)
  BY DEF HInv, StructInv, CountsExact
<1>2. PICK S : S = Tables \ {cur}
  OBVIOUS
<1>3. Cardinality(S) = Cardinality(Tables) - 1 /\ IsFiniteSet(S)
  BY <1>1, <1>2, TablesFinite, FS_RemoveElement
<1>4. t \in S /\ u \in S \ {t}
  BY <1>2
<1>5. Cardinality(S \ {t}) = Cardinality(S) - 1 /\ IsFiniteSet(S \ {t})
  BY <1>3, <1>4, FS_RemoveElement
<1>6. Cardinality(S \ {t}) # 0 /\ Cardinality(S \ {t}) \in Nat
  BY <1>4, <1>5, FS_EmptySet, FS_CardinalityType
<1> QED BY <1>1, <1>3, <1>5, <1>6, TablesFinite

LEMMA SafeFree ==
    ASSUME HInv, writer.pc \in {"try", "own"}, NEW item \in Item, Pending(item), Free(item)
    PROVE  failure' = failure
<1>1. cur # NULL /\ writer.item \in Item
  BY DEF HInv, TypeOK, WriterInv, WriterRecord
<1>2. CASE item[1] # "table"
  BY <1>2 DEF Free
<1>3. CASE item[1] = "table"
  <2>1. PICK t \in Table : item = <<"table", t>>
    BY <1>3 DEF Item
  <2>2. jit_info_table_free(t)
    BY <2>1 DEF Free
  <2>3. t \in Tables /\ t # cur /\ ~(num_tables <= 1)
    BY <1>1, <2>1, OldTable
  <2>4. PICK u \in Table : writer.item = <<"table", u>>
    <3>1. writer.item[1] # "ji"
      BY <2>3 DEF HInv, WriterInv
    <3> QED BY <1>1, <3>1 DEF Item
  <2>5. u \in Tables /\ u # cur
    BY <1>1, <2>4, OldTable DEF Pending
  <2>6. ASSUME NEW o \in Walked(t) PROVE obj[o] # NULL /\ o \notin Flushed
    <3>1. PICK i \in DOMAIN table[t] : o \in ElementsOf(table[t][i])
      BY <2>6 DEF Walked, LastChunks, ChunksOf
    <3>2. table[t][i] \in Chunks
      BY <2>3 DEF HInv, StructInv
    <3>3. InChunk(o, table[t][i])
      BY <3>1, <3>2, ElementFacts DEF HInv
    <3>4. obj[o] # NULL
      BY <3>2, <3>3 DEF HInv, ElemInv, InChunk, Objs
    <3>5. InTable(o, t)
      BY <3>3 DEF InTable
    <3>6. ASSUME o \in Flushed PROVE FALSE
      <4>1. o \in free_queue /\ num_tables - 1 <= 1
        BY <3>6 DEF Flushed
      <4>2. num_tables <= 2
        BY <4>1 DEF HInv, TypeOK
      <4>3. t = u
        BY <1>1, <2>3, <2>5, <4>2, TwoTables
      <4>4. writer.item[1] = "table" /\ writer.item[2] = t
        BY <2>4, <4>3
      <4>5. ~InTable(o, t)
        BY <4>1, <4>4 DEF HInv, QueueInv
      <4> QED BY <3>5, <4>5
    <3> QED BY <3>4, <3>6
  <2> QED BY <2>2, <2>6 DEF jit_info_table_free
<1> QED BY <1>2, <1>3

LEMMA MayFreeSafe ==
    ASSUME HInv, writer.pc \in {"try", "own"}, NEW item, MayFree(item)
    PROVE  failure' = failure
BY SafeFree DEF MayFree

\* Nobody but the writer frees, and the domain is not freed.
AInv == /\ IInv /\ ~ForeignReclaim /\ ~Unload
        /\ foreign = NULL /\ writer.pc # "free_all" /\ failure = "none"

LEMMA InitAsserts == Init /\ ~ForeignReclaim /\ ~Unload => AInv
<1> SUFFICES ASSUME Init, ~ForeignReclaim, ~Unload PROVE AInv
  OBVIOUS
<1>1. IInv
  BY InitOK
<1>2. foreign = NULL /\ writer.pc = "idle" /\ failure = "none"
  BY DEF Init, IdleWriter
<1> QED BY <1>1, <1>2 DEF AInv

LEMMA WriterStepAsserts ==
    ASSUME HInv, WriterStep, writer.pc # "free_all"
    PROVE  failure' = failure /\ writer'.pc # "free_all"
<1>1. writer \in WriterRecord
  BY DEF HInv, TypeOK
<1>2. CASE Overflow
  <2>1. failure' = failure
    BY <1>2, OverflowFacts
  <2>2. writer'.pc = "try"
    BY <1>1, <1>2 DEF Overflow, WriterRecord
  <2> QED BY <2>1, <2>2
<1>3. CASE TryItem
  <2>1. /\ writer.pc = "try" /\ Running /\ writer.idx \in 0..2
        /\ TryFree(writer.idx)
        /\ writer' = IF writer.idx = 0 THEN [writer EXCEPT !.pc = "own"]
                     ELSE [writer EXCEPT !.idx = @ - 1]
    BY <1>3 DEF TryItem, WriterAt, HInv, WriterInv
  <2>2. writer'.pc # "free_all"
    <3>1. CASE writer.idx = 0
      BY <1>1, <2>1, <3>1 DEF WriterRecord
    <3>2. CASE writer.idx # 0
      BY <1>1, <2>1, <3>2 DEF WriterRecord
    <3> QED BY <3>1, <3>2
  <2>3. PICK n : n = writer.idx
    OBVIOUS
  <2>4. n \in Nat /\ TryFree(n)
    BY <2>1, <2>3
  <2>5. PICK item : MayFree(item)
    BY <2>1, <2>4, TryMayFree
  <2> QED BY <2>1, <2>2, <2>5, MayFreeSafe
<1>4. CASE Own
  <2>1. writer.pc = "own" /\ writer'.pc \in {"search", "idle"}
    BY <1>4 DEF Own, WriterAt, IdleWriter
  <2>2. PICK item : MayFree(item)
    BY <1>4, OwnMayFree
  <2> QED BY <2>1, <2>2, MayFreeSafe
<1>5. CASE Grow \/ Count \/ Shift \/ Insert \/ Seal
  <2>1. failure' = failure
    BY <1>5 DEF Grow, Count, Shift, Insert, Seal, UnchangedByStore, ghosts
  <2>2. CASE Grow
    BY <1>1, <2>1, <2>2 DEF Grow, WriterRecord
  <2>3. CASE Count
    BY <1>1, <2>1, <2>3 DEF Count, WriterRecord
  <2>4. CASE Shift
    BY <1>1, <2>1, <2>4 DEF Shift, WriterAt, WriterRecord
  <2>5. CASE Insert
    BY <1>1, <2>1, <2>5 DEF Insert, WriterRecord
  <2>6. CASE Seal
    BY <2>1, <2>6 DEF Seal, IdleWriter
  <2> QED BY <1>5, <2>1, <2>2, <2>3, <2>4, <2>5, <2>6
<1>6. CASE mono_jit_info_free_or_queue
  <2>1. failure' = failure
    BY <1>6 DEF mono_jit_info_free_or_queue, ghosts
  <2>2. PICK item :
          \/ writer' = [writer EXCEPT !.pc = "try", !.item = item, !.idx = 2]
          \/ writer' = IdleWriter
    BY <1>6 DEF mono_jit_info_free_or_queue
  <2>3. CASE writer' = [writer EXCEPT !.pc = "try", !.item = item, !.idx = 2]
    BY <1>1, <2>1, <2>3 DEF WriterRecord
  <2>4. CASE writer' = IdleWriter
    BY <2>1, <2>4 DEF IdleWriter
  <2> QED BY <2>2, <2>3, <2>4
<1>7. CASE mono_thread_hazardous_try_free_all \/ FreeCurrent
  BY <1>7 DEF mono_thread_hazardous_try_free_all, FreeCurrent, WriterAt
<1> QED BY <1>2, <1>3, <1>4, <1>5, <1>6, <1>7 DEF WriterStep

LEMMA NextAsserts == AInv /\ [Next]_vars => AInv'
<1> SUFFICES ASSUME AInv, [Next]_vars PROVE AInv'
  OBVIOUS
<1>0. /\ IInv /\ ~ForeignReclaim /\ ~Unload
      /\ foreign = NULL /\ writer.pc # "free_all" /\ failure = "none"
  BY DEF AInv
<1>1. IInv' /\ foreign' = NULL /\ ~ForeignFree /\ \A i : ~ForeignTake(i)
  BY <1>0, StepOK, NoForeign
<1> SUFFICES failure' = failure /\ writer'.pc # "free_all"
  BY <1>0, <1>1 DEF AInv
<1>2. CASE UNCHANGED vars
  BY <1>0, <1>2 DEF vars, ghosts
<1>3. ASSUME NEW x \in Region, AddStart(x) PROVE failure' = failure /\ writer'.pc # "free_all"
  <2>1. writer \in WriterRecord
    BY <1>0 DEF IInv, HInv, TypeOK
  <2> QED BY <1>3, <2>1 DEF AddStart, WriterRecord
<1>4. ASSUME NEW o \in Obj, RemoveStart(o) PROVE failure' = failure /\ writer'.pc # "free_all"
  <2>1. writer \in WriterRecord
    BY <1>0 DEF IInv, HInv, TypeOK
  <2>2. writer.pc = "idle" /\ o \in Live
    BY <1>4 DEF RemoveStart, WriterAt
  <2>3. Reached(o) # {}
    BY <1>0, <2>2, ReachedFacts DEF IInv
  <2>4. failure' = failure /\ writer' = [writer EXCEPT !.pc = "removed", !.ji = o]
    BY <1>4, <2>3 DEF RemoveStart
  <2> QED BY <2>1, <2>4 DEF WriterRecord
<1>5. CASE WriterStep
  BY <1>0, <1>5, WriterStepAsserts DEF IInv
<1>6. ~mono_domain_free
  BY <1>0 DEF mono_domain_free
<1>7. ASSUME NEW r \in Reader, FindStep(r) PROVE failure' = failure /\ writer'.pc # "free_all"
  <2>1. \/ \E new : MoveReader(r, new) /\ UNCHANGED ghosts
        \/ \E new : MoveReader(r, new) /\ UNCHANGED failure
    BY <1>7 DEF FindStep, IndexStep, ChunkStart, BisectLoad, BisectCompare, BisectEnd, ScanLoad,
       NextChunk, ScanEnd, Match, FindReturn
  <2> QED BY <1>0, <2>1 DEF MoveReader, ghosts
<1>8. ASSUME NEW r \in Reader, NEW addr \in Address, FindStart(r, addr)
      PROVE  failure' = failure /\ writer'.pc # "free_all"
  BY <1>0, <1>8 DEF FindStart, MoveReader
<1> QED BY <1>1, <1>2, <1>3, <1>4, <1>5, <1>6, <1>7, <1>8 DEF Next

\* Neither a read of flushed memory nor a failed assertion has stopped the domain, as
\* long as only its own threads free delayed items and it is not freed.
THEOREM AssertionInvariance == Spec /\ ~ForeignReclaim /\ ~Unload => []AInv
BY InitAsserts, NextAsserts, PTL DEF Spec

\* If only the threads of the domain free delayed items and the domain is not freed,
\* no g_assert of domain.c fails, the table is sorted at every step, and
\* jit_info_table_free does not look at a MonoJitInfo that it has just flushed: the
\* last old table is then the one the writer has just replaced, and what is queued
\* was removed from it before.
THEOREM NoAssertionFails == Spec /\ ~ForeignReclaim /\ ~Unload => []AssertionsHold
<1>1. AInv => AssertionsHold
  BY SortedFacts DEF AInv, IInv, AssertionsHold
<1> QED BY <1>1, AssertionInvariance, PTL
=============================================================================
