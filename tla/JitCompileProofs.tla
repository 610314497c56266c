-------------------------- MODULE JitCompileProofs --------------------------
(***************************************************************************)
(* Proofs about JitCompile for every number of threads, methods, blocks    *)
(* and assemblies: all threads agree on the code of a method, code that    *)
(* runs is known to the table, freeing finds what it frees, and the trace  *)
(* gets no event twice.                                                    *)
(***************************************************************************)
EXTENDS JitCompile, TLAPS

\* A thread that has a block of its own: from mono_codegen to end_jit.
Owning(t) == thread[t].pc \in {"publish", "hash", "vtable", "event"}

\* What a thread works on, and that nobody frees it meanwhile.
WorkInv ==
    \A t \in Thread :
        /\ thread[t].pc \in CompilePc => thread[t].what \in Method \ gone
        /\ thread[t].pc \in LoadPc => thread[t].what \in Assembly

\* A thread's block holds the code of its method, has no symbol yet, is in
\* the table once it is published, and is no other thread's.
OwnInv ==
    \A t \in Thread : Owning(t) =>
        /\ thread[t].block \in Block
        /\ code[thread[t].block] = thread[t].what
        /\ written[thread[t].block] = 0
        /\ thread[t].pc # "publish" => <<thread[t].what, thread[t].block>> \in jit_info_table
        /\ \A u \in Thread : Owning(u) /\ thread[u].block = thread[t].block => u = t

\* The entries of jit_code_hash.
HashInv ==
    \A m \in Method : jit_code_hash[m] # NULL =>
        /\ m \notin gone
        /\ code[jit_code_hash[m]] = m
        /\ <<m, jit_code_hash[m]>> \in jit_info_table

\* The code a thread got is in jit_code_hash.
AgreeInv ==
    \A t \in Thread : thread[t].pc \in {"vtable", "event", "init", "run"} =>
        thread[t].code = jit_code_hash[thread[t].what] /\ thread[t].code # NULL

\* The entries of dynamic_code_hash.  What is missing for a method to be
\* freed, a thread that compiles it has yet to do.
DynamicInv ==
    /\ \A m \in Method : dynamic_code_hash[m] # NULL =>
         /\ m \in Dynamic \ gone
         /\ code[dynamic_code_hash[m]] = m
         /\ \/ jit_code_hash[m] # NULL
            \/ \E t \in Thread : thread[t].what = m /\ thread[t].pc \in {"publish", "hash"}
         /\ \/ <<m, dynamic_ji[dynamic_code_hash[m]]>> \in jit_info_table
            \/ \E t \in Thread : thread[t].what = m /\ thread[t].pc = "publish"
    /\ \A t \in Thread : thread[t].pc = "publish" /\ thread[t].what \in Dynamic =>
         dynamic_code_hash[thread[t].what] # NULL

\* The method that is being freed.
FinalizerInv ==
    IF finalizer.pc = "idle" THEN finalizer.method = NULL
    ELSE /\ finalizer.method \in Dynamic \cap gone
         /\ finalizer.info \in Block
         /\ code[finalizer.info] = finalizer.method

\* The symbols in the trace.
TraceInv ==
    \A b \in Block : /\ written[b] <= 1
                     /\ written[b] = 1 /\ code[b] # NULL => symbol[b] = code[b]

\* One thread announces an assembly, once.
LoadInv ==
    /\ \A a \in Assembly : source[a] <= 1 /\ (a \notin image_assembly => source[a] = 0)
    /\ \A t \in Thread : thread[t].pc \in {"hook", "loaded"} =>
         /\ thread[t].what \in image_assembly
         /\ source[thread[t].what] = 0
         /\ \A u \in Thread : thread[u].pc \in {"hook", "loaded"}
                              /\ thread[u].what = thread[t].what => u = t

IInv == TypeOK /\ WorkInv /\ OwnInv /\ HashInv /\ AgreeInv /\ DynamicInv
        /\ FinalizerInv /\ TraceInv /\ LoadInv
-----------------------------------------------------------------------------
\* A step of thread t that takes it to pc.
Moves(t, pc) ==
    /\ thread' \in [Thread -> ThreadState]
    /\ thread'[t].pc = pc
    /\ \A u \in Thread : u # t => thread'[u] = thread[u]

\* The thread keeps its method and its block.
Keeps(t) ==
    /\ thread'[t].what = thread[t].what
    /\ thread'[t].block = thread[t].block

\* Go changes the pc of one thread.
LEMMA GoFacts ==
    ASSUME thread \in [Thread -> ThreadState], NEW t \in Thread,
           NEW pc \in CompilePc \cup LoadPc, Go(t, pc)
    PROVE  Moves(t, pc) /\ Keeps(t) /\ thread'[t].code = thread[t].code
BY DEF Go, Moves, Keeps, ThreadState

\* Return makes one thread idle.
LEMMA ReturnFacts ==
    ASSUME thread \in [Thread -> ThreadState], NEW t \in Thread, Return(t)
    PROVE  Moves(t, "idle") /\ thread'[t].what = NULL
BY DEF Return, Moves, ThreadState, IdleThread

\* What LookupHit does to the thread, unless the process ends.
LEMMA LookupHitFacts ==
    ASSUME TypeOK, NEW t \in Thread, LookupHit(t), thread[t].what \in Method
    PROVE  \/ UNCHANGED thread
           \/ /\ Moves(t, "init") /\ Keeps(t)
              /\ thread'[t].code = jit_code_hash[thread[t].what]
<1> DEFINE hit == [thread EXCEPT ![t].pc = "init", ![t].code = jit_code_hash[thread[t].what]]
<1>0. thread \in [Thread -> ThreadState] /\ jit_code_hash[thread[t].what] \in Block \cup {NULL}
  BY DEF TypeOK
<1>1. CASE UNCHANGED thread
  BY <1>1
<1>2. CASE thread' = hit
  BY <1>0, <1>2 DEF Moves, Keeps, ThreadState, CompilePc
<1> QED BY <1>1, <1>2 DEF LookupHit, Crash

\* What LookupMiss does to the thread.
LEMMA LookupMissFacts ==
    ASSUME TypeOK, NEW t \in Thread, LookupMiss(t)
    PROVE  /\ Moves(t, IF thread[t].what \in BadIL THEN "failed" ELSE "reserve")
           /\ Keeps(t)
<1> DEFINE pc == IF thread[t].what \in BadIL THEN "failed" ELSE "reserve"
           prof == "jit" \in mono_profiler_events
<1>0. pc \in {"failed", "reserve"} /\ prof \in BOOLEAN /\ thread \in [Thread -> ThreadState]
  BY DEF TypeOK
<1>1. thread' = [thread EXCEPT ![t].pc = pc, ![t].prof = prof]
  BY DEF LookupMiss
<1> HIDE DEF pc, prof
<1>2. Moves(t, pc) /\ Keeps(t)
  BY <1>0, <1>1 DEF Moves, Keeps, ThreadState, CompilePc
<1> QED BY <1>2 DEF pc

\* What Reserve does to the thread.
LEMMA ReserveFacts ==
    ASSUME TypeOK, NEW t \in Thread, NEW b \in Block, Reserve(t, b)
    PROVE  /\ Moves(t, "publish") /\ thread'[t].what = thread[t].what
           /\ thread'[t].block = b
<1>1. thread' = [thread EXCEPT ![t].pc = "publish", ![t].block = b]
  BY DEF Reserve
<1>2. thread \in [Thread -> ThreadState]
  BY DEF TypeOK
<1> QED BY <1>1, <1>2 DEF Moves, ThreadState, CompilePc

\* What HashInsert does to the thread.
LEMMA HashInsertFacts ==
    ASSUME TypeOK, NEW t \in Thread, HashInsert(t), thread[t].what \in Method
    PROVE  /\ Moves(t, "vtable") /\ Keeps(t)
           /\ thread'[t].code = IF jit_code_hash[thread[t].what] # NULL
                                THEN jit_code_hash[thread[t].what] ELSE thread[t].block
<1> DEFINE c == IF jit_code_hash[thread[t].what] # NULL
                THEN jit_code_hash[thread[t].what] ELSE thread[t].block
<1>0. thread \in [Thread -> ThreadState] /\ c \in Block \cup {NULL}
  BY DEF TypeOK, ThreadState
<1>1. thread' = [thread EXCEPT ![t].pc = "vtable", ![t].code = c]
  BY DEF HashInsert
<1> HIDE DEF c
<1>2. Moves(t, "vtable") /\ Keeps(t) /\ thread'[t].code = c
  BY <1>0, <1>1 DEF Moves, Keeps, ThreadState, CompilePc
<1> QED BY <1>2 DEF c

\* What the start of a compilation or of a load does to the thread.
LEMMA StartFacts ==
    ASSUME thread \in [Thread -> ThreadState], NEW t \in Thread, NEW w \in Method \cup Assembly,
           NEW pc \in CompilePc \cup LoadPc,
           thread' = [thread EXCEPT ![t] = [IdleThread EXCEPT !.pc = pc, !.what = w]]
    PROVE  Moves(t, pc) /\ thread'[t].what = w
BY DEF Moves, ThreadState, IdleThread

\* The MonoJitDynamicMethodInfo of a method holds its code.
LEMMA DynamicCode ==
    ASSUME TypeOK, DynamicInv, NEW m \in Method, dynamic_code_hash[m] # NULL
    PROVE  /\ dynamic_code_hash[m] \in Block
           /\ code[dynamic_code_hash[m]] = m
           /\ m \in Dynamic \ gone
<1>1. code[dynamic_code_hash[m]] = m /\ m \in Dynamic \ gone
  BY Zenon DEF DynamicInv
<1>2. dynamic_code_hash[m] \in Block
  BY DEF TypeOK
<1> QED BY <1>1, <1>2

\* lookup_method finds code: the thread takes what is in jit_code_hash.
LEMMA LookupHitStep ==
    ASSUME IInv, NEW t \in Thread, LookupHit(t)
    PROVE  IInv'
<1>0. TypeOK /\ WorkInv /\ OwnInv /\ HashInv /\ AgreeInv /\ DynamicInv /\
      FinalizerInv /\ TraceInv /\ LoadInv
  BY DEF IInv
<1>1. thread[t].pc = "lookup" /\ thread[t].what \in Method /\ jit_code_hash[thread[t].what] # NULL
  BY <1>0 DEF LookupHit, At, WorkInv, CompilePc, LoadPc
<1>2. UNCHANGED <<code, jit_info_table, jit_code_hash, dynamic_code_hash, dynamic_ji, finalizer,
                  gone, image_assembly, hooked, symbol, written, source>>
  BY DEF LookupHit, compileVars, freeVars, loadVars, traceVars
<1>3. \/ UNCHANGED thread
      \/ /\ Moves(t, "init") /\ Keeps(t)
         /\ thread'[t].code = jit_code_hash[thread[t].what]
  BY <1>0, <1>1, LookupHitFacts
<1>4. HashInv' /\ FinalizerInv' /\ TraceInv'
  BY <1>0, <1>2 DEF HashInv, FinalizerInv, TraceInv
<1>5. TypeOK'
  BY <1>0, <1>1, <1>2, <1>3 DEF TypeOK, Moves, Keeps
<1>6. WorkInv'
  BY <1>0, <1>1, <1>2, <1>3 DEF WorkInv, CompilePc, LoadPc, Moves, Keeps
<1>7. OwnInv'
  BY <1>0, <1>1, <1>2, <1>3 DEF OwnInv, Owning, Moves, Keeps
<1>8. AgreeInv'
  BY <1>0, <1>1, <1>2, <1>3 DEF AgreeInv, Moves, Keeps
<1>9. DynamicInv'
  BY <1>0, <1>1, <1>2, <1>3 DEF DynamicInv, Moves, Keeps
<1>10. LoadInv'
  BY <1>0, <1>1, <1>2, <1>3 DEF LoadInv, Moves, Keeps
<1> QED BY <1>4, <1>5, <1>6, <1>7, <1>8, <1>9, <1>10 DEF IInv

\* lookup_method finds nothing.
LEMMA LookupMissStep ==
    ASSUME IInv, NEW t \in Thread, LookupMiss(t)
    PROVE  IInv'
<1>0. TypeOK /\ WorkInv /\ OwnInv /\ HashInv /\ AgreeInv /\ DynamicInv /\
      FinalizerInv /\ TraceInv /\ LoadInv
  BY DEF IInv
<1>1. thread[t].pc = "lookup" /\ thread[t].what \in Method
  BY <1>0 DEF LookupMiss, At, WorkInv, CompilePc, LoadPc
<1>2. UNCHANGED <<code, jit_info_table, jit_code_hash, dynamic_code_hash, dynamic_ji, finalizer,
                  gone, image_assembly, hooked, symbol, written, source>>
  BY DEF LookupMiss, compileVars, freeVars, loadVars, traceVars
<1>3. (Moves(t, "failed") \/ Moves(t, "reserve")) /\ Keeps(t)
  BY <1>0, <1>1, LookupMissFacts
<1>4. HashInv' /\ FinalizerInv' /\ TraceInv'
  BY <1>0, <1>2 DEF HashInv, FinalizerInv, TraceInv
<1>5. TypeOK'
  BY <1>0, <1>1, <1>2, <1>3 DEF TypeOK, Moves, Keeps
<1>6. WorkInv'
  BY <1>0, <1>1, <1>2, <1>3 DEF WorkInv, CompilePc, LoadPc, Moves, Keeps
<1>7. OwnInv'
  BY <1>0, <1>1, <1>2, <1>3 DEF OwnInv, Owning, Moves, Keeps
<1>8. AgreeInv'
  BY <1>0, <1>1, <1>2, <1>3 DEF AgreeInv, Moves, Keeps
<1>9. DynamicInv'
  BY <1>0, <1>1, <1>2, <1>3 DEF DynamicInv, Moves, Keeps
<1>10. LoadInv'
  BY <1>0, <1>1, <1>2, <1>3 DEF LoadInv, Moves, Keeps
<1> QED BY <1>4, <1>5, <1>6, <1>7, <1>8, <1>9, <1>10 DEF IInv

\* A failed compilation leaves nothing behind.
LEMMA CompileFailedStep ==
    ASSUME IInv, NEW t \in Thread, CompileFailed(t)
    PROVE  IInv'
<1>0. TypeOK /\ WorkInv /\ OwnInv /\ HashInv /\ AgreeInv /\ DynamicInv /\
      FinalizerInv /\ TraceInv /\ LoadInv
  BY DEF IInv
<1>1. thread[t].pc = "failed" /\ thread[t].what \in Method
  BY <1>0 DEF CompileFailed, At, WorkInv, CompilePc, LoadPc
<1>2. UNCHANGED <<code, jit_info_table, jit_code_hash, dynamic_code_hash, dynamic_ji, finalizer,
                  gone, image_assembly, hooked, symbol, written, source>>
  BY DEF CompileFailed, compileVars, freeVars, loadVars, traceVars
<1>3. UNCHANGED thread \/ (Moves(t, "idle") /\ thread'[t].what = NULL)
  BY <1>0, <1>1, ReturnFacts DEF CompileFailed, Crash, TypeOK
<1>4. HashInv' /\ FinalizerInv' /\ TraceInv'
  BY <1>0, <1>2 DEF HashInv, FinalizerInv, TraceInv
<1>5. TypeOK'
  BY <1>0, <1>1, <1>2, <1>3 DEF TypeOK, Moves, Keeps
<1>6. WorkInv'
  BY <1>0, <1>1, <1>2, <1>3 DEF WorkInv, CompilePc, LoadPc, Moves, Keeps
<1>7. OwnInv'
  BY <1>0, <1>1, <1>2, <1>3 DEF OwnInv, Owning, Moves, Keeps
<1>8. AgreeInv'
  BY <1>0, <1>1, <1>2, <1>3 DEF AgreeInv, Moves, Keeps
<1>9. DynamicInv'
  BY <1>0, <1>1, <1>2, <1>3 DEF DynamicInv, Moves, Keeps
<1>10. LoadInv'
  BY <1>0, <1>1, <1>2, <1>3 DEF LoadInv, Moves, Keeps
<1> QED BY <1>4, <1>5, <1>6, <1>7, <1>8, <1>9, <1>10 DEF IInv

\* A reserved block was free, so it is nobody else's block and in no hash.
LEMMA ReserveStep ==
    ASSUME IInv, NEW t \in Thread, NEW b \in Block, Reserve(t, b)
    PROVE  IInv'
<1>0. TypeOK /\ WorkInv /\ OwnInv /\ HashInv /\ AgreeInv /\ DynamicInv /\
      FinalizerInv /\ TraceInv /\ LoadInv
  BY DEF IInv
<1>1. thread[t].pc = "reserve" /\ thread[t].what \in Method /\ code[b] = NULL
  BY <1>0 DEF Reserve, At, WorkInv, CompilePc, LoadPc
<1>2. UNCHANGED <<jit_info_table, jit_code_hash, finalizer, gone, image_assembly, hooked, symbol,
                  source>>
  BY DEF Reserve, compileVars, freeVars, loadVars, traceVars
<1>3. Moves(t, "publish") /\ thread'[t].what = thread[t].what /\ thread'[t].block = b
  BY <1>0, <1>1, ReserveFacts
<1>4. TypeOK'
  BY <1>0, <1>1, <1>2, <1>3, NullAssumption, MethodAssumption DEF TypeOK, Moves, Keeps, Reserve
<1>5. WorkInv'
  BY <1>0, <1>1, <1>2, <1>3 DEF WorkInv, CompilePc, LoadPc, Moves, Keeps
<1>6. OwnInv'
  <2>1. \A u \in Thread : Owning(u) => thread[u].block # b
    BY <1>0, <1>1, NullAssumption DEF OwnInv, WorkInv, Owning, CompilePc
  <2>2. /\ code'[b] = thread[t].what /\ written'[b] = 0
        /\ \A c \in Block : c # b => code'[c] = code[c] /\ written'[c] = written[c]
    BY <1>0 DEF Reserve, TypeOK
  <2> QED BY <1>0, <1>1, <1>2, <1>3, <2>1, <2>2 DEF OwnInv, Owning, Moves
<1>7. HashInv'
  <2>1. \A m \in Method : jit_code_hash[m] # NULL => jit_code_hash[m] \in Block \ {b}
    BY <1>0, <1>1, NullAssumption DEF HashInv, TypeOK
  <2>2. \A c \in Block : c # b => code'[c] = code[c]
    BY <1>0 DEF Reserve, TypeOK
  <2> QED BY <1>0, <1>2, <2>1, <2>2 DEF HashInv
<1>8. AgreeInv'
  BY <1>0, <1>1, <1>2, <1>3 DEF AgreeInv, Moves, Keeps
<1>9. DynamicInv'
  <2>1. \A m \in Method : dynamic_code_hash[m] # NULL => dynamic_code_hash[m] \in Block \ {b}
    BY <1>0, <1>1, NullAssumption, DynamicCode
  <2>2. code'[b] = thread[t].what /\ \A c \in Block : c # b => code'[c] = code[c]
    BY <1>0 DEF Reserve, TypeOK
  <2>3. \A c \in Block : c # b => dynamic_ji'[c] = dynamic_ji[c]
    BY <1>0 DEF Reserve, TypeOK
  <2>4. \A u \in Thread : /\ thread'[u].what = thread[u].what
                          /\ thread[u].pc \in {"publish", "hash"} => thread'[u].pc = thread[u].pc
    BY <1>1, <1>3 DEF Moves
  <2>5. \A m \in Method : m # thread[t].what \/ m \notin Dynamic =>
            dynamic_code_hash'[m] = dynamic_code_hash[m]
    BY <1>0 DEF Reserve, TypeOK
  <2>6. thread[t].what \in Dynamic => dynamic_code_hash'[thread[t].what] = b
    BY <1>0, <1>1 DEF Reserve, TypeOK
  <2>7. thread[t].what \notin gone /\ b # NULL
    BY <1>0, <1>1, NullAssumption DEF WorkInv, CompilePc
  <2>8. thread'[t].pc = "publish" /\ thread'[t].what = thread[t].what
    BY <1>3 DEF Moves
  <2>9. ASSUME NEW m \in Method, dynamic_code_hash'[m] # NULL
        PROVE  /\ m \in Dynamic \ gone'
               /\ code'[dynamic_code_hash'[m]] = m
               /\ \/ jit_code_hash'[m] # NULL
                  \/ \E u \in Thread : thread'[u].what = m /\ thread'[u].pc \in {"publish", "hash"}
               /\ \/ <<m, dynamic_ji'[dynamic_code_hash'[m]]>> \in jit_info_table'
                  \/ \E u \in Thread : thread'[u].what = m /\ thread'[u].pc = "publish"
    <3>1. CASE m = thread[t].what /\ m \in Dynamic
      BY <1>2, <2>2, <2>6, <2>7, <2>8, <3>1
    <3>2. CASE m # thread[t].what \/ m \notin Dynamic
      <4>1. dynamic_code_hash[m] # NULL /\ dynamic_code_hash'[m] = dynamic_code_hash[m]
        BY <2>5, <2>9, <3>2
      <4> QED BY <1>0, <1>2, <2>1, <2>2, <2>3, <2>4, <4>1 DEF DynamicInv
    <3> QED BY <3>1, <3>2
  <2>10. ASSUME NEW u \in Thread, thread'[u].pc = "publish", thread'[u].what \in Dynamic
         PROVE  dynamic_code_hash'[thread'[u].what] # NULL
    <3>1. CASE thread[u].what = thread[t].what
      BY <2>4, <2>6, <2>7, <2>10, <3>1
    <3>2. CASE thread[u].what # thread[t].what
      BY <1>0, <1>3, <2>4, <2>5, <2>10, <3>2, MethodAssumption DEF DynamicInv, Moves
    <3> QED BY <3>1, <3>2
  <2> QED BY <2>9, <2>10 DEF DynamicInv
<1>10. FinalizerInv'
  BY <1>0, <1>1, <1>2, <1>3, NullAssumption, MethodAssumption DEF FinalizerInv, Reserve, TypeOK
<1>11. TraceInv'
  BY <1>0, <1>1, <1>2, <1>3 DEF TraceInv, Reserve, TypeOK
<1>12. LoadInv'
  BY <1>0, <1>1, <1>2, <1>3 DEF LoadInv, Moves, Keeps
<1> QED BY <1>4, <1>5, <1>6, <1>7, <1>8, <1>9, <1>10, <1>11, <1>12 DEF IInv

\* The MonoJitInfo goes into the table before anybody can get the code.
LEMMA PublishStep ==
    ASSUME IInv, NEW t \in Thread, Publish(t)
    PROVE  IInv'
<1>0. TypeOK /\ WorkInv /\ OwnInv /\ HashInv /\ AgreeInv /\ DynamicInv /\
      FinalizerInv /\ TraceInv /\ LoadInv
  BY DEF IInv
<1>1. thread[t].pc = "publish" /\ thread[t].what \in Method
  BY <1>0 DEF Publish, At, WorkInv, CompilePc, LoadPc
<1>2. UNCHANGED <<code, jit_code_hash, dynamic_code_hash, finalizer, gone, image_assembly, hooked,
                  symbol, written, source>>
  BY DEF Publish, compileVars, freeVars, loadVars, traceVars
<1>3. Moves(t, "hash") /\ Keeps(t)
  BY <1>0, <1>1, GoFacts DEF Publish, TypeOK, CompilePc
<1>4. FinalizerInv' /\ TraceInv'
  BY <1>0, <1>2 DEF FinalizerInv, TraceInv
<1>5. TypeOK'
  <2>1. thread[t].block \in Block
    BY <1>0, <1>1 DEF OwnInv, Owning
  <2>2. jit_info_table' \subseteq Method \X Block
    BY <1>0, <1>1, <2>1 DEF Publish, TypeOK
  <2>3. dynamic_ji' \in [Block -> Block \cup {NULL}]
    BY <1>0, <2>1 DEF Publish, TypeOK
  <2> QED BY <1>0, <1>1, <1>2, <1>3, <2>2, <2>3 DEF TypeOK, Moves
<1>6. WorkInv'
  BY <1>0, <1>1, <1>2, <1>3 DEF WorkInv, CompilePc, LoadPc, Moves, Keeps
<1>7. OwnInv'
  BY <1>0, <1>1, <1>2, <1>3 DEF OwnInv, Owning, Moves, Keeps, Publish, TypeOK
<1>8. HashInv'
  BY <1>0, <1>1, <1>2, <1>3 DEF HashInv, Publish, TypeOK
<1>9. AgreeInv'
  BY <1>0, <1>1, <1>2, <1>3 DEF AgreeInv, Moves, Keeps
<1>10. DynamicInv'
  <2> DEFINE m == thread[t].what
             b == thread[t].block
  <2>1. \A n \in Method : n # m /\ dynamic_code_hash[n] # NULL => dynamic_code_hash[n] # dynamic_code_hash[m]
    BY <1>0, <1>1, DynamicCode
  <2>2. m \in Dynamic => dynamic_code_hash[m] \in Block /\ dynamic_ji'[dynamic_code_hash[m]] = b
    BY <1>0, <1>1 DEF Publish, TypeOK, DynamicInv
  <2>3. \A n \in Method : n # m /\ dynamic_code_hash[n] # NULL =>
            dynamic_ji'[dynamic_code_hash[n]] = dynamic_ji[dynamic_code_hash[n]]
    BY <1>0, <2>1 DEF Publish, TypeOK
  <2>4. jit_info_table' = jit_info_table \cup {<<m, b>>}
    BY DEF Publish
  <2>5. \A u \in Thread : /\ thread'[u].what = thread[u].what
                          /\ thread'[u].pc = IF u = t THEN "hash" ELSE thread[u].pc
    BY <1>3 DEF Moves, Keeps
  <2>6. ASSUME NEW n \in Method, dynamic_code_hash[n] # NULL
        PROVE  /\ \/ jit_code_hash[n] # NULL
                  \/ \E u \in Thread : thread'[u].what = n /\ thread'[u].pc \in {"publish", "hash"}
               /\ \/ <<n, dynamic_ji'[dynamic_code_hash[n]]>> \in jit_info_table'
                  \/ \E u \in Thread : thread'[u].what = n /\ thread'[u].pc = "publish"
    <3>1. CASE n = m
      BY <1>0, <2>2, <2>4, <2>5, <2>6, <3>1 DEF DynamicInv
    <3>2. CASE n # m
      <4>1. \A u \in Thread : thread[u].what = n => thread'[u].pc = thread[u].pc
        BY <2>5, <3>2
      <4> QED BY <1>0, <2>3, <2>4, <2>5, <2>6, <3>2, <4>1 DEF DynamicInv
    <3> QED BY <3>1, <3>2
  <2>7. \A n \in Method : dynamic_code_hash[n] # NULL => n \in Dynamic \ gone /\ code[dynamic_code_hash[n]] = n
    BY <1>0, DynamicCode
  <2>8. \A u \in Thread : thread'[u].pc = "publish" /\ thread'[u].what \in Dynamic =>
            dynamic_code_hash[thread'[u].what] # NULL
    BY <1>0, <2>5 DEF DynamicInv
  <2> QED BY <1>2, <2>6, <2>7, <2>8 DEF DynamicInv
<1>11. LoadInv'
  BY <1>0, <1>1, <1>2, <1>3 DEF LoadInv, Moves, Keeps
<1> QED BY <1>4, <1>5, <1>6, <1>7, <1>8, <1>9, <1>10, <1>11 DEF IInv

\* The first of several threads enters its code; what is there stays.
LEMMA HashInsertStep ==
    ASSUME IInv, NEW t \in Thread, HashInsert(t)
    PROVE  IInv'
<1>0. TypeOK /\ WorkInv /\ OwnInv /\ HashInv /\ AgreeInv /\ DynamicInv /\
      FinalizerInv /\ TraceInv /\ LoadInv
  BY DEF IInv
<1>1. thread[t].pc = "hash" /\ thread[t].what \in Method
  BY <1>0 DEF HashInsert, At, WorkInv, CompilePc, LoadPc
<1>2. UNCHANGED <<code, jit_info_table, dynamic_code_hash, dynamic_ji, finalizer, gone,
                  image_assembly, hooked, symbol, written, source>>
  BY DEF HashInsert, compileVars, freeVars, loadVars, traceVars
<1>3. /\ Moves(t, "vtable") /\ Keeps(t)
      /\ thread'[t].code = IF jit_code_hash[thread[t].what] # NULL
                           THEN jit_code_hash[thread[t].what] ELSE thread[t].block
  BY <1>0, <1>1, HashInsertFacts
<1>4. FinalizerInv' /\ TraceInv'
  BY <1>0, <1>2 DEF FinalizerInv, TraceInv
<1>5. TypeOK'
  BY <1>0, <1>1, <1>2, <1>3, NullAssumption, MethodAssumption
  DEF TypeOK, Moves, Keeps, HashInsert, OwnInv, Owning
<1>6. WorkInv'
  BY <1>0, <1>1, <1>2, <1>3 DEF WorkInv, CompilePc, LoadPc, Moves, Keeps
<1>7. OwnInv'
  BY <1>0, <1>1, <1>2, <1>3 DEF OwnInv, Owning, Moves, Keeps
<1>8. HashInv'
  BY <1>0, <1>1, <1>2, <1>3 DEF HashInv, HashInsert, TypeOK, OwnInv, Owning, WorkInv, CompilePc
<1>9. AgreeInv'
  <2>1. \A m \in Method : jit_code_hash[m] # NULL => jit_code_hash'[m] = jit_code_hash[m]
    BY <1>0 DEF HashInsert, TypeOK
  <2>2. thread'[t].code = jit_code_hash'[thread[t].what] /\ thread'[t].code # NULL
    <3>1. thread[t].block \in Block
      BY <1>0, <1>1 DEF OwnInv, Owning
    <3>2. jit_code_hash'[thread[t].what] = IF jit_code_hash[thread[t].what] # NULL
                                           THEN jit_code_hash[thread[t].what] ELSE thread[t].block
      BY <1>0, <1>1 DEF HashInsert, TypeOK
    <3> QED BY <1>3, <3>1, <3>2, NullAssumption
  <2>3. \A u \in Thread : thread[u].pc \in {"vtable", "event", "init", "run"} => thread[u].what \in Method
    BY <1>0 DEF WorkInv, CompilePc
  <2> QED BY <1>0, <1>3, <2>1, <2>2, <2>3 DEF AgreeInv, Moves, Keeps
<1>10. DynamicInv'
  <2>1. \A m \in Method : jit_code_hash[m] # NULL => jit_code_hash'[m] # NULL
    BY <1>0 DEF HashInsert, TypeOK
  <2>2. jit_code_hash'[thread[t].what] # NULL
    BY <1>0, <1>1, NullAssumption DEF HashInsert, TypeOK, OwnInv, Owning
  <2>3. \A u \in Thread : /\ thread'[u].what = thread[u].what
                          /\ thread'[u].pc = IF u = t THEN "vtable" ELSE thread[u].pc
    BY <1>3 DEF Moves, Keeps
  <2> QED BY <1>0, <1>1, <1>2, <2>1, <2>2, <2>3 DEF DynamicInv
<1>11. LoadInv'
  BY <1>0, <1>1, <1>2, <1>3 DEF LoadInv, Moves, Keeps
<1> QED BY <1>4, <1>5, <1>6, <1>7, <1>8, <1>9, <1>10, <1>11 DEF IInv

\* With or without a vtable, the code stays in jit_code_hash.
LEMMA VTableStep ==
    ASSUME IInv, NEW t \in Thread, VTable(t)
    PROVE  IInv'
<1>0. TypeOK /\ WorkInv /\ OwnInv /\ HashInv /\ AgreeInv /\ DynamicInv /\
      FinalizerInv /\ TraceInv /\ LoadInv
  BY DEF IInv
<1>1. thread[t].pc = "vtable" /\ thread[t].what \in Method
  BY <1>0 DEF VTable, At, WorkInv, CompilePc, LoadPc
<1>2. UNCHANGED <<code, jit_info_table, jit_code_hash, dynamic_code_hash, dynamic_ji, finalizer,
                  gone, image_assembly, hooked, symbol, written, source>>
  BY DEF VTable, compileVars, freeVars, loadVars, traceVars
<1>3. \/ Moves(t, "event") /\ Keeps(t) /\ thread'[t].code = thread[t].code
      \/ Moves(t, "idle") /\ thread'[t].what = NULL
  BY <1>0, <1>1, GoFacts, ReturnFacts DEF VTable, TypeOK, CompilePc
<1>4. HashInv' /\ FinalizerInv' /\ TraceInv'
  BY <1>0, <1>2 DEF HashInv, FinalizerInv, TraceInv
<1>5. TypeOK'
  BY <1>0, <1>1, <1>2, <1>3 DEF TypeOK, Moves, Keeps
<1>6. WorkInv'
  BY <1>0, <1>1, <1>2, <1>3 DEF WorkInv, CompilePc, LoadPc, Moves, Keeps
<1>7. OwnInv'
  BY <1>0, <1>1, <1>2, <1>3 DEF OwnInv, Owning, Moves, Keeps
<1>8. AgreeInv'
  BY <1>0, <1>1, <1>2, <1>3 DEF AgreeInv, Moves, Keeps
<1>9. DynamicInv'
  BY <1>0, <1>1, <1>2, <1>3 DEF DynamicInv, Moves, Keeps
<1>10. LoadInv'
  BY <1>0, <1>1, <1>2, <1>3 DEF LoadInv, Moves, Keeps
<1> QED BY <1>4, <1>5, <1>6, <1>7, <1>8, <1>9, <1>10 DEF IInv

\* end_jit writes the symbol of the block the thread owns, and only once.
LEMMA EndJitStep ==
    ASSUME IInv, NEW t \in Thread, EndJit(t)
    PROVE  IInv'
<1>0. TypeOK /\ WorkInv /\ OwnInv /\ HashInv /\ AgreeInv /\ DynamicInv /\
      FinalizerInv /\ TraceInv /\ LoadInv
  BY DEF IInv
<1>1. thread[t].pc = "event" /\ thread[t].what \in Method
  BY <1>0 DEF EndJit, At, WorkInv, CompilePc, LoadPc
<1>2. UNCHANGED <<code, jit_info_table, jit_code_hash, dynamic_code_hash, dynamic_ji, finalizer,
                  gone, image_assembly, hooked, source>>
  BY DEF EndJit, compileVars, freeVars, loadVars, traceVars
<1>3. Moves(t, "init") /\ Keeps(t) /\ thread'[t].code = thread[t].code
  BY <1>0, <1>1, GoFacts DEF EndJit, TypeOK, CompilePc
<1>4. HashInv' /\ FinalizerInv'
  BY <1>0, <1>2 DEF HashInv, FinalizerInv
<1>5. TypeOK'
  BY <1>0, <1>1, <1>2, <1>3 DEF TypeOK, Moves, Keeps, EndJit, EventWriteMethod
<1>6. WorkInv'
  BY <1>0, <1>1, <1>2, <1>3 DEF WorkInv, CompilePc, LoadPc, Moves, Keeps
<1>7. OwnInv'
  BY <1>0, <1>1, <1>2, <1>3 DEF OwnInv, Owning, Moves, Keeps, EndJit, EventWriteMethod, TypeOK
<1>8. AgreeInv'
  BY <1>0, <1>1, <1>2, <1>3 DEF AgreeInv, Moves, Keeps
<1>9. DynamicInv'
  BY <1>0, <1>1, <1>2, <1>3 DEF DynamicInv, Moves, Keeps
<1>10. TraceInv'
  <2> DEFINE b == thread[t].block
  <2>1. b \in Block /\ code[b] = thread[t].what /\ written[b] = 0
    BY <1>0, <1>1 DEF OwnInv, Owning
  <2>2. CASE UNCHANGED <<symbol, written>>
    BY <1>0, <1>2, <2>2 DEF TraceInv
  <2>3. CASE /\ symbol' = [symbol EXCEPT ![b] = thread[t].what]
             /\ written' = [written EXCEPT ![b] = @ + 1]
    BY <1>0, <1>2, <2>1, <2>3 DEF TraceInv, TypeOK
  <2> QED BY <2>2, <2>3 DEF EndJit, EventWriteMethod
<1>11. LoadInv'
  BY <1>0, <1>1, <1>2, <1>3 DEF LoadInv, Moves, Keeps
<1> QED BY <1>4, <1>5, <1>6, <1>7, <1>8, <1>9, <1>10, <1>11 DEF IInv

\* The code is handed out, or the thread leaves with an exception.
LEMMA ClassInitStep ==
    ASSUME IInv, NEW t \in Thread, ClassInit(t)
    PROVE  IInv'
<1>0. TypeOK /\ WorkInv /\ OwnInv /\ HashInv /\ AgreeInv /\ DynamicInv /\
      FinalizerInv /\ TraceInv /\ LoadInv
  BY DEF IInv
<1>1. thread[t].pc = "init" /\ thread[t].what \in Method
  BY <1>0 DEF ClassInit, At, WorkInv, CompilePc, LoadPc
<1>2. UNCHANGED <<code, jit_info_table, jit_code_hash, dynamic_code_hash, dynamic_ji, finalizer,
                  gone, image_assembly, hooked, symbol, written, source>>
  BY DEF ClassInit, compileVars, freeVars, loadVars, traceVars
<1>3. \/ Moves(t, "run") /\ Keeps(t) /\ thread'[t].code = thread[t].code
      \/ Moves(t, "idle") /\ thread'[t].what = NULL
  BY <1>0, <1>1, GoFacts, ReturnFacts DEF ClassInit, TypeOK, CompilePc
<1>4. HashInv' /\ FinalizerInv' /\ TraceInv'
  BY <1>0, <1>2 DEF HashInv, FinalizerInv, TraceInv
<1>5. TypeOK'
  BY <1>0, <1>1, <1>2, <1>3 DEF TypeOK, Moves, Keeps
<1>6. WorkInv'
  BY <1>0, <1>1, <1>2, <1>3 DEF WorkInv, CompilePc, LoadPc, Moves, Keeps
<1>7. OwnInv'
  BY <1>0, <1>1, <1>2, <1>3 DEF OwnInv, Owning, Moves, Keeps
<1>8. AgreeInv'
  BY <1>0, <1>1, <1>2, <1>3 DEF AgreeInv, Moves, Keeps
<1>9. DynamicInv'
  BY <1>0, <1>1, <1>2, <1>3 DEF DynamicInv, Moves, Keeps
<1>10. LoadInv'
  BY <1>0, <1>1, <1>2, <1>3 DEF LoadInv, Moves, Keeps
<1> QED BY <1>4, <1>5, <1>6, <1>7, <1>8, <1>9, <1>10 DEF IInv

\* A thread that is done with a method gives nothing back.
LEMMA LeaveStep ==
    ASSUME IInv, NEW t \in Thread, Leave(t)
    PROVE  IInv'
<1>0. TypeOK /\ WorkInv /\ OwnInv /\ HashInv /\ AgreeInv /\ DynamicInv /\
      FinalizerInv /\ TraceInv /\ LoadInv
  BY DEF IInv
<1>1. thread[t].pc = "run" /\ thread[t].what \in Method
  BY <1>0 DEF Leave, At, WorkInv, CompilePc, LoadPc
<1>2. UNCHANGED <<code, jit_info_table, jit_code_hash, dynamic_code_hash, dynamic_ji, finalizer,
                  gone, image_assembly, hooked, symbol, written, source>>
  BY DEF Leave, compileVars, freeVars, loadVars, traceVars
<1>3. Moves(t, "idle") /\ thread'[t].what = NULL
  BY <1>0, <1>1, ReturnFacts DEF Leave, TypeOK
<1>4. HashInv' /\ FinalizerInv' /\ TraceInv'
  BY <1>0, <1>2 DEF HashInv, FinalizerInv, TraceInv
<1>5. TypeOK'
  BY <1>0, <1>1, <1>2, <1>3 DEF TypeOK, Moves, Keeps
<1>6. WorkInv'
  BY <1>0, <1>1, <1>2, <1>3 DEF WorkInv, CompilePc, LoadPc, Moves, Keeps
<1>7. OwnInv'
  BY <1>0, <1>1, <1>2, <1>3 DEF OwnInv, Owning, Moves, Keeps
<1>8. AgreeInv'
  BY <1>0, <1>1, <1>2, <1>3 DEF AgreeInv, Moves, Keeps
<1>9. DynamicInv'
  BY <1>0, <1>1, <1>2, <1>3 DEF DynamicInv, Moves, Keeps
<1>10. LoadInv'
  BY <1>0, <1>1, <1>2, <1>3 DEF LoadInv, Moves, Keeps
<1> QED BY <1>4, <1>5, <1>6, <1>7, <1>8, <1>9, <1>10 DEF IInv

\* A method that has been freed is not compiled again.
LEMMA CompileStep ==
    ASSUME IInv, NEW t \in Thread, NEW m \in Method, Compile(t, m)
    PROVE  IInv'
<1>0. TypeOK /\ WorkInv /\ OwnInv /\ HashInv /\ AgreeInv /\ DynamicInv /\
      FinalizerInv /\ TraceInv /\ LoadInv
  BY DEF IInv
<1>1. thread[t].pc = "idle" /\ m \notin gone
  BY <1>0 DEF Compile, At, WorkInv, CompilePc, LoadPc
<1>2. UNCHANGED <<code, jit_info_table, jit_code_hash, dynamic_code_hash, dynamic_ji, finalizer,
                  gone, image_assembly, hooked, symbol, written, source>>
  BY DEF Compile, compileVars, freeVars, loadVars, traceVars
<1>3. Moves(t, "lookup") /\ thread'[t].what = m
  BY <1>0, <1>1, StartFacts DEF Compile, TypeOK, CompilePc
<1>4. HashInv' /\ FinalizerInv' /\ TraceInv'
  BY <1>0, <1>2 DEF HashInv, FinalizerInv, TraceInv
<1>5. TypeOK'
  BY <1>0, <1>1, <1>2, <1>3 DEF TypeOK, Moves, Keeps
<1>6. WorkInv'
  BY <1>0, <1>1, <1>2, <1>3 DEF WorkInv, CompilePc, LoadPc, Moves, Keeps
<1>7. OwnInv'
  BY <1>0, <1>1, <1>2, <1>3 DEF OwnInv, Owning, Moves, Keeps
<1>8. AgreeInv'
  BY <1>0, <1>1, <1>2, <1>3 DEF AgreeInv, Moves, Keeps
<1>9. DynamicInv'
  BY <1>0, <1>1, <1>2, <1>3 DEF DynamicInv, Moves, Keeps
<1>10. LoadInv'
  BY <1>0, <1>1, <1>2, <1>3 DEF LoadInv, Moves, Keeps
<1> QED BY <1>4, <1>5, <1>6, <1>7, <1>8, <1>9, <1>10 DEF IInv

\* A thread starts to load an assembly.
LEMMA LoadStartStep ==
    ASSUME IInv, NEW t \in Thread, NEW a \in Assembly, LoadStart(t, a)
    PROVE  IInv'
<1>0. TypeOK /\ WorkInv /\ OwnInv /\ HashInv /\ AgreeInv /\ DynamicInv /\
      FinalizerInv /\ TraceInv /\ LoadInv
  BY DEF IInv
<1>1. thread[t].pc = "idle"
  BY <1>0 DEF LoadStart, At, WorkInv, CompilePc, LoadPc
<1>2. UNCHANGED <<code, jit_info_table, jit_code_hash, dynamic_code_hash, dynamic_ji, finalizer,
                  gone, image_assembly, hooked, symbol, written, source>>
  BY DEF LoadStart, compileVars, freeVars, loadVars, traceVars
<1>3. Moves(t, "enter") /\ thread'[t].what = a
  BY <1>0, <1>1, StartFacts DEF LoadStart, TypeOK, LoadPc
<1>4. HashInv' /\ FinalizerInv' /\ TraceInv'
  BY <1>0, <1>2 DEF HashInv, FinalizerInv, TraceInv
<1>5. TypeOK'
  BY <1>0, <1>1, <1>2, <1>3 DEF TypeOK, Moves, Keeps
<1>6. WorkInv'
  BY <1>0, <1>1, <1>2, <1>3 DEF WorkInv, CompilePc, LoadPc, Moves, Keeps
<1>7. OwnInv'
  BY <1>0, <1>1, <1>2, <1>3 DEF OwnInv, Owning, Moves, Keeps
<1>8. AgreeInv'
  BY <1>0, <1>1, <1>2, <1>3 DEF AgreeInv, Moves, Keeps
<1>9. DynamicInv'
  BY <1>0, <1>1, <1>2, <1>3 DEF DynamicInv, Moves, Keeps
<1>10. LoadInv'
  BY <1>0, <1>1, <1>2, <1>3 DEF LoadInv, Moves, Keeps
<1> QED BY <1>4, <1>5, <1>6, <1>7, <1>8, <1>9, <1>10 DEF IInv

\* One thread enters the assembly, the others leave.
LEMMA LoadEnterStep ==
    ASSUME IInv, NEW t \in Thread, LoadEnter(t)
    PROVE  IInv'
<1>0. TypeOK /\ WorkInv /\ OwnInv /\ HashInv /\ AgreeInv /\ DynamicInv /\
      FinalizerInv /\ TraceInv /\ LoadInv
  BY DEF IInv
<1>1. thread[t].pc = "enter" /\ thread[t].what \in Assembly
  BY <1>0 DEF LoadEnter, At, WorkInv, CompilePc, LoadPc
<1>2. UNCHANGED <<code, jit_info_table, jit_code_hash, dynamic_code_hash, dynamic_ji, finalizer,
                  gone, hooked, symbol, written, source>>
  BY DEF LoadEnter, compileVars, freeVars, loadVars, traceVars
<1>3. \/ Moves(t, "hook") /\ Keeps(t) /\ thread[t].what \notin image_assembly
         /\ image_assembly' = image_assembly \cup {thread[t].what}
      \/ Moves(t, "idle") /\ thread'[t].what = NULL /\ UNCHANGED image_assembly
  BY <1>0, <1>1, GoFacts, ReturnFacts DEF LoadEnter, TypeOK, LoadPc
<1>4. HashInv' /\ FinalizerInv' /\ TraceInv'
  BY <1>0, <1>2 DEF HashInv, FinalizerInv, TraceInv
<1>5. TypeOK'
  BY <1>0, <1>1, <1>2, <1>3 DEF TypeOK, Moves, Keeps, LoadEnter
<1>6. WorkInv'
  BY <1>0, <1>1, <1>2, <1>3 DEF WorkInv, CompilePc, LoadPc, Moves, Keeps
<1>7. OwnInv'
  BY <1>0, <1>1, <1>2, <1>3 DEF OwnInv, Owning, Moves, Keeps
<1>8. AgreeInv'
  BY <1>0, <1>1, <1>2, <1>3 DEF AgreeInv, Moves, Keeps
<1>9. DynamicInv'
  BY <1>0, <1>1, <1>2, <1>3 DEF DynamicInv, Moves, Keeps
<1>10. LoadInv'
  BY <1>0, <1>1, <1>2, <1>3 DEF LoadInv, Moves, Keeps, LoadEnter, TypeOK
<1> QED BY <1>4, <1>5, <1>6, <1>7, <1>8, <1>9, <1>10 DEF IInv

\* The load hooks run for the thread that entered the assembly.
LEMMA LoadHookStep ==
    ASSUME IInv, NEW t \in Thread, LoadHook(t)
    PROVE  IInv'
<1>0. TypeOK /\ WorkInv /\ OwnInv /\ HashInv /\ AgreeInv /\ DynamicInv /\
      FinalizerInv /\ TraceInv /\ LoadInv
  BY DEF IInv
<1>1. thread[t].pc = "hook" /\ thread[t].what \in Assembly
  BY <1>0 DEF LoadHook, At, WorkInv, CompilePc, LoadPc
<1>2. UNCHANGED <<code, jit_info_table, jit_code_hash, dynamic_code_hash, dynamic_ji, finalizer,
                  gone, image_assembly, symbol, written, source>>
  BY DEF LoadHook, compileVars, freeVars, loadVars, traceVars
<1>3. Moves(t, "loaded") /\ Keeps(t)
  BY <1>0, <1>1, GoFacts DEF LoadHook, TypeOK, LoadPc
<1>4. HashInv' /\ FinalizerInv' /\ TraceInv'
  BY <1>0, <1>2 DEF HashInv, FinalizerInv, TraceInv
<1>5. TypeOK'
  BY <1>0, <1>1, <1>2, <1>3 DEF TypeOK, Moves, Keeps, LoadHook
<1>6. WorkInv'
  BY <1>0, <1>1, <1>2, <1>3 DEF WorkInv, CompilePc, LoadPc, Moves, Keeps
<1>7. OwnInv'
  BY <1>0, <1>1, <1>2, <1>3 DEF OwnInv, Owning, Moves, Keeps
<1>8. AgreeInv'
  BY <1>0, <1>1, <1>2, <1>3 DEF AgreeInv, Moves, Keeps
<1>9. DynamicInv'
  BY <1>0, <1>1, <1>2, <1>3 DEF DynamicInv, Moves, Keeps
<1>10. LoadInv'
  BY <1>0, <1>1, <1>2, <1>3 DEF LoadInv, Moves, Keeps
<1> QED BY <1>4, <1>5, <1>6, <1>7, <1>8, <1>9, <1>10 DEF IInv

\* The thread that entered the assembly announces it.
LEMMA AssemblyLoadedStep ==
    ASSUME IInv, NEW t \in Thread, AssemblyLoaded(t)
    PROVE  IInv'
<1>0. TypeOK /\ WorkInv /\ OwnInv /\ HashInv /\ AgreeInv /\ DynamicInv /\
      FinalizerInv /\ TraceInv /\ LoadInv
  BY DEF IInv
<1>1. thread[t].pc = "loaded" /\ thread[t].what \in Assembly
  BY <1>0 DEF AssemblyLoaded, At, WorkInv, CompilePc, LoadPc
<1>2. UNCHANGED <<code, jit_info_table, jit_code_hash, dynamic_code_hash, dynamic_ji, finalizer,
                  gone, image_assembly, hooked, symbol, written>>
  BY DEF AssemblyLoaded, compileVars, freeVars, loadVars, traceVars
<1>3. Moves(t, "idle") /\ thread'[t].what = NULL
  BY <1>0, <1>1, ReturnFacts DEF AssemblyLoaded, TypeOK
<1>4. HashInv' /\ FinalizerInv' /\ TraceInv'
  BY <1>0, <1>2 DEF HashInv, FinalizerInv, TraceInv
<1>5. TypeOK'
  BY <1>0, <1>1, <1>2, <1>3 DEF TypeOK, Moves, Keeps, AssemblyLoaded
<1>6. WorkInv'
  BY <1>0, <1>1, <1>2, <1>3 DEF WorkInv, CompilePc, LoadPc, Moves, Keeps
<1>7. OwnInv'
  BY <1>0, <1>1, <1>2, <1>3 DEF OwnInv, Owning, Moves, Keeps
<1>8. AgreeInv'
  BY <1>0, <1>1, <1>2, <1>3 DEF AgreeInv, Moves, Keeps
<1>9. DynamicInv'
  BY <1>0, <1>1, <1>2, <1>3 DEF DynamicInv, Moves, Keeps
<1>10. LoadInv'
  BY <1>0, <1>1, <1>2, <1>3 DEF LoadInv, Moves, Keeps, AssemblyLoaded, TypeOK
<1> QED BY <1>4, <1>5, <1>6, <1>7, <1>8, <1>9, <1>10 DEF IInv

\* No thread has the method, so no thread loses its entry in the hashes.
LEMMA FreeHashesStep ==
    ASSUME IInv, NEW m \in Dynamic, FreeHashes(m)
    PROVE  IInv'
<1>0. TypeOK /\ WorkInv /\ OwnInv /\ HashInv /\ AgreeInv /\ DynamicInv /\
      FinalizerInv /\ TraceInv /\ LoadInv
  BY DEF IInv
<1>1. UNCHANGED <<code, jit_info_table, dynamic_ji, thread, image_assembly, hooked, symbol,
                  written, source>>
  BY DEF FreeHashes, compileVars, freeVars, loadVars, traceVars
<1>2. OwnInv' /\ TraceInv' /\ LoadInv'
  BY <1>0, <1>1 DEF OwnInv, Owning, TraceInv, LoadInv
<1>3. TypeOK'
  BY <1>0, <1>1, NullAssumption, MethodAssumption DEF TypeOK, FreeHashes, FinalizerState
<1>4. WorkInv'
  BY <1>0, <1>1 DEF WorkInv, CompilePc, LoadPc, FreeHashes, TypeOK
<1>5. HashInv'
  BY <1>0, <1>1 DEF HashInv, FreeHashes, TypeOK
<1>6. AgreeInv'
  BY <1>0, <1>1 DEF AgreeInv, FreeHashes, TypeOK
<1>7. DynamicInv'
  BY <1>0, <1>1, NullAssumption, MethodAssumption DEF DynamicInv, FreeHashes, TypeOK
<1>8. FinalizerInv'
  <2>1. /\ finalizer'.pc = "table" /\ finalizer'.method = m
        /\ finalizer'.info = dynamic_code_hash[m] /\ gone' = gone \cup {m}
    BY DEF FreeHashes
  <2>2. m \in Method /\ dynamic_code_hash[m] \in Block /\ code[dynamic_code_hash[m]] = m
    BY <1>0, MethodAssumption, DynamicCode DEF FreeHashes
  <2> QED BY <1>1, <2>1, <2>2 DEF FinalizerInv
<1> QED BY <1>2, <1>3, <1>4, <1>5, <1>6, <1>7, <1>8 DEF IInv

\* The entry that goes is that of a method no hash knows any more.
LEMMA FreeTableStep ==
    ASSUME IInv, FreeTable
    PROVE  IInv'
<1>0. TypeOK /\ WorkInv /\ OwnInv /\ HashInv /\ AgreeInv /\ DynamicInv /\
      FinalizerInv /\ TraceInv /\ LoadInv
  BY DEF IInv
<1>1. UNCHANGED <<code, jit_code_hash, dynamic_code_hash, dynamic_ji, thread, gone,
                  image_assembly, hooked, symbol, written, source>>
  BY DEF FreeTable, compileVars, freeVars, loadVars, traceVars
<1>2. WorkInv' /\ AgreeInv' /\ TraceInv' /\ LoadInv'
  BY <1>0, <1>1 DEF WorkInv, AgreeInv, TraceInv, LoadInv
<1>3. TypeOK'
  BY <1>0, <1>1, NullAssumption, MethodAssumption DEF TypeOK, FreeTable, FinalizerState
<1>4. OwnInv'
  BY <1>0, <1>1 DEF OwnInv, Owning, FreeTable, TypeOK, FinalizerInv, WorkInv, CompilePc
<1>5. HashInv'
  BY <1>0, <1>1 DEF HashInv, FreeTable, TypeOK, FinalizerInv
<1>6. DynamicInv'
  BY <1>0, <1>1, NullAssumption, MethodAssumption DEF DynamicInv, FreeTable, TypeOK, FinalizerInv
<1>7. FinalizerInv'
  BY <1>0, <1>1, NullAssumption, MethodAssumption DEF FinalizerInv, FreeTable, TypeOK
<1> QED BY <1>2, <1>3, <1>4, <1>5, <1>6, <1>7 DEF IInv

\* The block that is freed holds the code of the method that is freed.
LEMMA FreeCodeStep ==
    ASSUME IInv, FreeCode
    PROVE  IInv'
<1>0. TypeOK /\ WorkInv /\ OwnInv /\ HashInv /\ AgreeInv /\ DynamicInv /\
      FinalizerInv /\ TraceInv /\ LoadInv
  BY DEF IInv
<1>1. UNCHANGED <<jit_info_table, jit_code_hash, dynamic_code_hash, thread, gone, image_assembly,
                  hooked, symbol, written, source>>
  BY DEF FreeCode, compileVars, freeVars, loadVars, traceVars
<1>2. WorkInv' /\ AgreeInv' /\ LoadInv'
  BY <1>0, <1>1 DEF WorkInv, AgreeInv, LoadInv
<1>3. TypeOK'
  BY <1>0, <1>1, NullAssumption, MethodAssumption
  DEF TypeOK, FreeCode, IdleFinalizer, FinalizerState
<1>4. OwnInv'
  BY <1>0, <1>1
  DEF OwnInv, Owning, FreeCode, IdleFinalizer, TypeOK, FinalizerInv, WorkInv, CompilePc
<1>5. HashInv'
  BY <1>0, <1>1 DEF HashInv, FreeCode, IdleFinalizer, TypeOK, FinalizerInv
<1>6. DynamicInv'
  <2>1. finalizer.method \in gone /\ finalizer.info \in Block /\ code[finalizer.info] = finalizer.method
    BY <1>0 DEF FreeCode, FinalizerInv
  <2>2. \A c \in Block : c # finalizer.info => code'[c] = code[c] /\ dynamic_ji'[c] = dynamic_ji[c]
    BY <1>0 DEF FreeCode, TypeOK
  <2>3. \A m \in Method : dynamic_code_hash[m] # NULL => dynamic_code_hash[m] \in Block \ {finalizer.info}
    BY <1>0, <2>1, DynamicCode
  <2> QED BY <1>0, <1>1, <2>2, <2>3 DEF DynamicInv
<1>7. FinalizerInv'
  BY <1>0, <1>1, NullAssumption, MethodAssumption DEF FinalizerInv, FreeCode, IdleFinalizer, TypeOK
<1>8. TraceInv'
  BY <1>0, <1>1 DEF TraceInv, FreeCode, IdleFinalizer, TypeOK
<1> QED BY <1>2, <1>3, <1>4, <1>5, <1>6, <1>7, <1>8 DEF IInv
-----------------------------------------------------------------------------
\* Every step keeps the inductive invariant.
LEMMA InvStep == IInv /\ [Next]_vars => IInv'
<1> SUFFICES ASSUME IInv, [Next]_vars PROVE IInv'
  OBVIOUS
<1>1. ASSUME UNCHANGED <<compileVars, thread, freeVars, loadVars, traceVars>> PROVE IInv'
  BY <1>1 DEF IInv, TypeOK, WorkInv, OwnInv, Owning, HashInv, AgreeInv, DynamicInv, FinalizerInv,
              TraceInv, LoadInv, compileVars, freeVars, loadVars, traceVars
<1>2. ASSUME NEW t \in Thread, ThreadStep(t) PROVE IInv'
  BY <1>2, LookupHitStep, LookupMissStep, CompileFailedStep, ReserveStep, PublishStep,
     HashInsertStep, VTableStep, EndJitStep, ClassInitStep, LoadEnterStep, LoadHookStep,
     AssemblyLoadedStep DEF ThreadStep
<1>3. CASE mono_profiler_install \/ StartTrace \/ UNCHANGED vars
           \/ \E events \in SUBSET Etw.events : mono_profiler_set_events(events)
  BY <1>1, <1>3 DEF mono_profiler_install, mono_profiler_set_events, StartTrace, vars
<1> QED
  BY <1>2, <1>3, LeaveStep, CompileStep, LoadStartStep, FreeHashesStep, FreeTableStep,
     FreeCodeStep DEF Next, FinalizerStep

\* The inductive invariant holds in every reachable state.
THEOREM Invariance == Spec => []IInv
<1>1. Init => IInv
  <2> SUFFICES ASSUME Init PROVE IInv
    OBVIOUS
  <2>1. TypeOK
    BY DEF Init, TypeOK, ThreadState, FinalizerState, IdleThread, IdleFinalizer
  <2>2. \A t \in Thread : thread[t].pc = "idle"
    BY DEF Init, IdleThread
  <2> QED BY <2>1, <2>2 DEF Init, IInv, WorkInv, OwnInv, Owning, HashInv, AgreeInv, DynamicInv,
             FinalizerInv, TraceInv, LoadInv, CompilePc, LoadPc, IdleFinalizer
<1> QED BY <1>1, InvStep, PTL DEF Spec

\* Every variable keeps the type of the C variable it stands for.
THEOREM TypeCorrect == Spec => []TypeOK
<1>1. IInv => TypeOK
  BY DEF IInv
<1> QED BY Invariance, <1>1, PTL

\* However many threads compile a method at the same time, they all go on with
\* the code in jit_code_hash, which the second lookup of
\* mono_jit_compile_method_inner under the locks is for.
THEOREM OneCodePerMethod == Spec => []SameCode
<1>1. IInv => SameCode
  BY DEF IInv, AgreeInv, SameCode
<1> QED BY Invariance, <1>1, PTL

\* Code that is handed out is allocated, is that of the method, and its own entry
\* is in the JIT info table, though another thread's copy is thrown away and
\* dynamic methods are freed meanwhile.  It says nothing about other entries: a
\* stale one for the same address may be there too (NoStaleEntry).
THEOREM CodeKnown == Spec => []RunningCodeKnown
<1>1. IInv => RunningCodeKnown
  BY DEF IInv, WorkInv, CompilePc, AgreeInv, HashInv, RunningCodeKnown
<1> QED BY Invariance, <1>1, PTL

\* Code and assemblies get one event at most, and the last symbol of a block
\* that is in use is that of the method it holds.
THEOREM EventsOnce == Spec => []SymbolOnce
<1>1. IInv => SymbolOnce
  BY DEF IInv, TraceInv, LoadInv, SymbolOnce
<1> QED BY Invariance, <1>1, PTL

\* mono_jit_free_method finds the method in jit_code_hash and an entry to
\* remove from the table.
THEOREM FreeSucceeds == Spec => []FreeFinds
<1>1. IInv => FreeFinds
  BY MethodAssumption DEF IInv, DynamicInv, FreeFinds
<1> QED BY Invariance, <1>1, PTL
=============================================================================
