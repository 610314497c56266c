----------------------------- MODULE JitCompile -----------------------------
(***************************************************************************)
(* How a method of one domain is compiled and how its symbol reaches the   *)
(* trace: mono_jit_compile_method (mini/mini.c), the profiler list         *)
(* (metadata/profiler.c), the loading of assemblies (metadata/assembly.c)  *)
(* and the ETW profiler (etwSymbols.c) that turns their callbacks into     *)
(* MethodLoad and SourceLoad events.  Nothing keeps two threads from       *)
(* compiling the same method at the same time; the one that comes second   *)
(* throws its code away.                                                   *)
(*                                                                         *)
(* A MonoJitInfo is <<method, block>>: the block is the code_start.  The   *)
(* JIT info table is a set here, module JitInfoTable models it.            *)
(***************************************************************************)
EXTENDS Integers, Sequences

CONSTANTS
    Thread, Method, Assembly,
    AssemblyOf,  \* method->klass->image->assembly
    Dynamic,     \* methods whose code is freed when they are finalized
    BadIL,       \* methods mini_method_compile fails for
    NoVTable,    \* methods of classes mono_class_vtable fails for
    BadCctor,    \* methods of classes whose static constructor throws
    NativeWrapper, \* "wrapper_native_" methods, which no profiler hears of
    NumBlock,    \* bound: blocks of code that are allocated at a time
    NULL

ASSUME MethodAssumption ==
    /\ Dynamic \cup BadIL \cup NoVTable \cup BadCctor \cup NativeWrapper \subseteq Method
    /\ AssemblyOf \in [Method -> Assembly]
ASSUME BlockAssumption == NumBlock \in Nat \ {0}

Block == 1..NumBlock

ASSUME NullAssumption == NULL \notin Method \cup Assembly \cup Block

VARIABLES
    code,                 \* the method a block holds the code of, or NULL
    jit_info_table,       \* the MonoJitInfos in the domain's table
    jit_code_hash,        \* method -> the block of its MonoJitInfo
    dynamic_code_hash,    \* method -> its MonoJitDynamicMethodInfo, which is
                          \* named by the one block in its code_mp
    dynamic_ji,           \* MonoJitDynamicMethodInfo -> block of its ji field
    thread,               \* what each thread is doing, see IdleThread
    finalizer,            \* mono_jit_free_method in progress
    gone,                 \* methods that have been freed
    prof_list,            \* the installed profilers, newest first
    mono_profiler_events, \* the events some profiler wants
    image_assembly,       \* assemblies whose image->assembly is set
    hooked,               \* assemblies the search hook finds
    listening,            \* is a trace being recorded?
    symbol,               \* block -> the method of the last MethodLoad for it
    written,              \* block -> MethodLoads recorded since it was reserved
    source,               \* assembly -> SourceLoads in the trace
    failure               \* a failed assertion or a NULL dereference

compileVars == <<code, jit_info_table, jit_code_hash, dynamic_code_hash, dynamic_ji>>
freeVars == <<finalizer, gone>>
profVars == <<prof_list, mono_profiler_events>>
loadVars == <<image_assembly, hooked>>
traceVars == <<symbol, written, source>>
vars == <<compileVars, thread, freeVars, profVars, loadVars, listening, traceVars, failure>>

IdleThread == [pc |-> "idle", what |-> NULL, block |-> NULL, code |-> NULL, prof |-> FALSE]
IdleFinalizer == [pc |-> "idle", method |-> NULL, info |-> NULL]

\* mini_init calls init_etw_symbol_profiler before anything is loaded or
\* compiled: its descriptor is the first in prof_list.
Etw == [name |-> "etw", events |-> {"jit", "assembly"}]

Init ==
    /\ code = [b \in Block |-> NULL]
    /\ jit_info_table = {}
    /\ jit_code_hash = [m \in Method |-> NULL]
    /\ dynamic_code_hash = [m \in Method |-> NULL]
    /\ dynamic_ji = [b \in Block |-> NULL]
    /\ thread = [t \in Thread |-> IdleThread]
    /\ finalizer = IdleFinalizer
    /\ gone = {}
    /\ prof_list = <<Etw>>
    /\ mono_profiler_events = Etw.events
    /\ image_assembly = {}
    /\ hooked = {}
    /\ listening \in BOOLEAN
    /\ symbol = [b \in Block |-> NULL]
    /\ written = [b \in Block |-> 0]
    /\ source = [a \in Assembly |-> 0]
    /\ failure = "none"

At(t, pc) == failure = "none" /\ thread[t].pc = pc
Go(t, pc) == thread' = [thread EXCEPT ![t].pc = pc]
Return(t) == thread' = [thread EXCEPT ![t] = IdleThread]
Crash(what) == failure' = what /\ UNCHANGED thread
-----------------------------------------------------------------------------
(***************************************************************************)
(* The profiler list.                                                      *)
(***************************************************************************)
AllEvents(list) == UNION {list[i].events : i \in DOMAIN list}

\* mono_profiler_install by another profiler (the debugger agent, Unity's).
mono_profiler_install ==
    /\ failure = "none" /\ Len(prof_list) = 1
    /\ prof_list' = <<[name |-> "other", events |-> {}]>> \o prof_list
    /\ UNCHANGED <<compileVars, thread, freeVars, mono_profiler_events, loadVars,
                   listening, traceVars, failure>>

\* Mutant: the events of the last profiler replace those of all.
SetEventsLast(events) ==
    /\ failure = "none" /\ prof_list[1].name = "other"
    /\ prof_list' = [prof_list EXCEPT ![1].events = events]
    /\ mono_profiler_events' = events
    /\ UNCHANGED <<compileVars, thread, freeVars, loadVars, listening, traceVars, failure>>

\* mono_profiler_set_events by the profiler that was installed last.
mono_profiler_set_events(events) ==
    /\ failure = "none" /\ prof_list[1].name = "other"
    /\ prof_list' = [prof_list EXCEPT ![1].events = events]
    /\ mono_profiler_events' = AllEvents(prof_list')
    /\ UNCHANGED <<compileVars, thread, freeVars, loadVars, listening, traceVars, failure>>

\* Does a callback for the event reach the ETW profiler?
EtwWants(event) == \E i \in DOMAIN prof_list :
                       prof_list[i].name = "etw" /\ event \in prof_list[i].events
-----------------------------------------------------------------------------
(***************************************************************************)
(* Compiling.                                                              *)
(***************************************************************************)

\* mono_jit_compile_method_with_opt.
Compile(t, m) ==
    /\ At(t, "idle") /\ m \notin gone /\ finalizer.method # m
    /\ AssemblyOf[m] \in image_assembly
    /\ thread' = [thread EXCEPT ![t] = [IdleThread EXCEPT !.pc = "lookup", !.what = m]]
    /\ UNCHANGED <<compileVars, freeVars, profVars, loadVars, listening, traceVars, failure>>

\* lookup_method: somebody has compiled it already.
LookupHit(t) ==
    LET m == thread[t].what
    IN  /\ At(t, "lookup") /\ jit_code_hash[m] # NULL
        /\ IF m \in NoVTable
           THEN Crash("g_assert (vtable)")
           ELSE /\ thread' = [thread EXCEPT ![t].pc = "init", ![t].code = jit_code_hash[m]]
                /\ UNCHANGED failure
        /\ UNCHANGED <<compileVars, freeVars, profVars, loadVars, listening, traceVars>>

\* mini_method_compile starts: cfg->prof_options = mono_profiler_get_events ().
LookupMiss(t) ==
    /\ At(t, "lookup") /\ jit_code_hash[thread[t].what] = NULL
    /\ thread' = [thread EXCEPT
                    ![t].pc = IF thread[t].what \in BadIL THEN "failed" ELSE "reserve",
                    ![t].prof = "jit" \in mono_profiler_events]
    /\ UNCHANGED <<compileVars, freeVars, profVars, loadVars, listening, traceVars, failure>>

\* The compilation failed: end_jit without a MonoJitInfo, and an exception.
\* on_method_jitted reads jinfo->code_size whatever the result says.
CompileFailed(t) ==
    /\ At(t, "failed")
    /\ IF thread[t].prof /\ EtwWants("jit")
       THEN Crash("jinfo == NULL")
       ELSE Return(t) /\ UNCHANGED failure
    /\ UNCHANGED <<compileVars, freeVars, profVars, loadVars, listening, traceVars>>

\* Mutant: the code is emitted but cfg->native_code stays NULL.
ReserveNoBlock(t, b) ==
    /\ At(t, "reserve") /\ code[b] = NULL
    /\ code' = [code EXCEPT ![b] = thread[t].what]
    /\ Go(t, "publish")
    /\ UNCHANGED <<jit_info_table, jit_code_hash, dynamic_code_hash, dynamic_ji, freeVars,
                   profVars, loadVars, listening, traceVars, failure>>

\* mono_codegen reserves a block; the code of a dynamic method gets a code
\* manager of its own, which replaces the one in dynamic_code_hash.
Reserve(t, b) ==
    LET m == thread[t].what
    IN  /\ At(t, "reserve") /\ code[b] = NULL
        /\ code' = [code EXCEPT ![b] = m]
        /\ written' = [written EXCEPT ![b] = 0]
        /\ thread' = [thread EXCEPT ![t].pc = "publish", ![t].block = b]
        /\ IF m \in Dynamic
           THEN /\ dynamic_code_hash' = [dynamic_code_hash EXCEPT ![m] = b]
                /\ dynamic_ji' = [dynamic_ji EXCEPT ![b] = NULL]
           ELSE UNCHANGED <<dynamic_code_hash, dynamic_ji>>
        /\ UNCHANGED <<jit_info_table, jit_code_hash, freeVars, profVars, loadVars,
                       listening, symbol, source, failure>>

\* Mutant: the table keeps one entry per method.
PublishReplaces(t) ==
    LET m == thread[t].what
        b == thread[t].block
    IN  /\ At(t, "publish")
        /\ jit_info_table' = {ji \in jit_info_table : ji[1] # m} \cup {<<m, b>>}
        /\ dynamic_ji' = IF m \in Dynamic
                         THEN [dynamic_ji EXCEPT ![dynamic_code_hash[m]] = b] ELSE dynamic_ji
        /\ Go(t, "hash")
        /\ UNCHANGED <<code, jit_code_hash, dynamic_code_hash, freeVars, profVars, loadVars,
                       listening, traceVars, failure>>

\* Mutant: the MonoJitDynamicMethodInfo never gets its ji.
PublishNoDynamic(t) ==
    /\ At(t, "publish")
    /\ jit_info_table' = jit_info_table \cup {<<thread[t].what, thread[t].block>>}
    /\ Go(t, "hash")
    /\ UNCHANGED <<code, jit_code_hash, dynamic_code_hash, dynamic_ji, freeVars, profVars,
                   loadVars, listening, traceVars, failure>>

\* The end of mini_method_compile, under the domain lock: the MonoJitInfo
\* goes into the table, and into what dynamic_code_hash holds now.
Publish(t) ==
    LET m == thread[t].what
        b == thread[t].block
    IN  /\ At(t, "publish")
        /\ jit_info_table' = jit_info_table \cup {<<m, b>>}
        /\ dynamic_ji' = IF m \in Dynamic
                         THEN [dynamic_ji EXCEPT ![dynamic_code_hash[m]] = b] ELSE dynamic_ji
        /\ Go(t, "hash")
        /\ UNCHANGED <<code, jit_code_hash, dynamic_code_hash, freeVars, profVars, loadVars,
                       listening, traceVars, failure>>

\* Mutant: no second lookup under the locks, the last thread wins.
HashInsertOwn(t) ==
    /\ At(t, "hash")
    /\ thread' = [thread EXCEPT ![t].pc = "vtable", ![t].code = thread[t].block]
    /\ jit_code_hash' = [jit_code_hash EXCEPT ![thread[t].what] = thread[t].block]
    /\ UNCHANGED <<code, jit_info_table, dynamic_code_hash, dynamic_ji, freeVars, profVars,
                   loadVars, listening, traceVars, failure>>

\* Under the loader, domain and hash locks: use the code of a thread that was
\* faster, or enter our own.
HashInsert(t) ==
    LET m == thread[t].what
        info == jit_code_hash[m]
    IN  /\ At(t, "hash")
        /\ thread' = [thread EXCEPT ![t].pc = "vtable",
                                    ![t].code = IF info # NULL THEN info ELSE thread[t].block]
        /\ jit_code_hash' = IF info # NULL THEN jit_code_hash
                            ELSE [jit_code_hash EXCEPT ![m] = thread[t].block]
        /\ UNCHANGED <<code, jit_info_table, dynamic_code_hash, dynamic_ji, freeVars, profVars,
                       loadVars, listening, traceVars, failure>>

\* mono_class_vtable; the exception leaves the code in the hash.
VTable(t) ==
    /\ At(t, "vtable")
    /\ IF thread[t].what \in NoVTable THEN Return(t) ELSE Go(t, "event")
    /\ UNCHANGED <<compileVars, freeVars, profVars, loadVars, listening, traceVars, failure>>

\* EventWrite with MethodLoad: without a listener nothing is recorded.
EventWriteMethod(m, b) ==
    IF listening
    THEN symbol' = [symbol EXCEPT ![b] = m] /\ written' = [written EXCEPT ![b] = @ + 1]
    ELSE UNCHANGED <<symbol, written>>

\* Mutant: the event is about the code that will be used.
EndJitShared(t) ==
    /\ At(t, "event")
    /\ IF thread[t].prof /\ EtwWants("jit")
       THEN EventWriteMethod(thread[t].what, thread[t].code)
       ELSE UNCHANGED <<symbol, written>>
    /\ Go(t, "init")
    /\ UNCHANGED <<compileVars, freeVars, profVars, loadVars, listening, source, failure>>

\* mono_profiler_method_end_jit with the MonoJitInfo of this thread's own
\* code, even if that is not the code that will be used: on_method_jitted.
EndJit(t) ==
    /\ At(t, "event")
    /\ IF thread[t].prof /\ thread[t].what \notin NativeWrapper /\ EtwWants("jit")
       THEN EventWriteMethod(thread[t].what, thread[t].block)
       ELSE UNCHANGED <<symbol, written>>
    /\ Go(t, "init")
    /\ UNCHANGED <<compileVars, freeVars, profVars, loadVars, listening, source, failure>>

\* mono_runtime_class_init_full, and the code is handed out, or the exception.
ClassInit(t) ==
    /\ At(t, "init")
    /\ IF thread[t].what \in BadCctor THEN Return(t) ELSE Go(t, "run")
    /\ UNCHANGED <<compileVars, freeVars, profVars, loadVars, listening, traceVars, failure>>

\* The thread is done with the method.
Leave(t) ==
    /\ At(t, "run")
    /\ Return(t)
    /\ UNCHANGED <<compileVars, freeVars, profVars, loadVars, listening, traceVars, failure>>
-----------------------------------------------------------------------------
(***************************************************************************)
(* mono_jit_free_method, from the finalizer of a dynamic method nobody can *)
(* reach any more.                                                         *)
(***************************************************************************)
FreeHashes(m) ==
    /\ failure = "none" /\ finalizer.pc = "idle"
    /\ m \in Dynamic \ gone /\ \A t \in Thread : thread[t].what # m
    /\ dynamic_code_hash[m] # NULL
    /\ finalizer' = [pc |-> "table", method |-> m, info |-> dynamic_code_hash[m]]
    /\ gone' = gone \cup {m}
    /\ dynamic_code_hash' = [dynamic_code_hash EXCEPT ![m] = NULL]
    /\ jit_code_hash' = [jit_code_hash EXCEPT ![m] = NULL]
    /\ UNCHANGED <<code, jit_info_table, dynamic_ji, thread, profVars, loadVars, listening,
                   traceVars, failure>>

\* mono_jit_info_table_remove, before the code is freed.
FreeTable ==
    /\ failure = "none" /\ finalizer.pc = "table"
    /\ jit_info_table' = jit_info_table \ {<<finalizer.method, dynamic_ji[finalizer.info]>>}
    /\ finalizer' = [finalizer EXCEPT !.pc = "code"]
    /\ UNCHANGED <<code, jit_code_hash, dynamic_code_hash, dynamic_ji, thread, gone, profVars,
                   loadVars, listening, traceVars, failure>>

\* mono_code_manager_destroy.
FreeCode ==
    /\ failure = "none" /\ finalizer.pc = "code"
    /\ code' = [code EXCEPT ![finalizer.info] = NULL]
    /\ dynamic_ji' = [dynamic_ji EXCEPT ![finalizer.info] = NULL]
    /\ finalizer' = IdleFinalizer
    /\ UNCHANGED <<jit_info_table, jit_code_hash, dynamic_code_hash, thread, gone, profVars,
                   loadVars, listening, traceVars, failure>>
-----------------------------------------------------------------------------
(***************************************************************************)
(* mono_assembly_load_from_full.                                           *)
(***************************************************************************)

\* The search hook finds an assembly once its load hook has run.
LoadStart(t, a) ==
    /\ At(t, "idle") /\ a \notin hooked
    /\ thread' = [thread EXCEPT ![t] = [IdleThread EXCEPT !.pc = "enter", !.what = a]]
    /\ UNCHANGED <<compileVars, freeVars, profVars, loadVars, listening, traceVars, failure>>

\* Under the assemblies lock: another thread may have entered it meanwhile.
LoadEnter(t) ==
    LET a == thread[t].what
    IN  /\ At(t, "enter")
        /\ IF a \in image_assembly
           THEN Return(t) /\ UNCHANGED image_assembly
           ELSE Go(t, "hook") /\ image_assembly' = image_assembly \cup {a}
        /\ UNCHANGED <<compileVars, freeVars, profVars, hooked, listening, traceVars, failure>>

LoadHook(t) ==
    /\ At(t, "hook")
    /\ hooked' = hooked \cup {thread[t].what}
    /\ Go(t, "loaded")
    /\ UNCHANGED <<compileVars, freeVars, profVars, image_assembly, listening, traceVars, failure>>

\* Mutant: only the profiler that was installed last is called.
AssemblyLoadedHead(t) ==
    /\ At(t, "loaded")
    /\ source' = IF prof_list[1].name = "etw" /\ listening
                 THEN [source EXCEPT ![thread[t].what] = @ + 1] ELSE source
    /\ Return(t)
    /\ UNCHANGED <<compileVars, freeVars, profVars, loadVars, listening, symbol, written, failure>>

\* mono_profiler_assembly_loaded: on_load_assembly.
AssemblyLoaded(t) ==
    /\ At(t, "loaded")
    /\ source' = IF EtwWants("assembly") /\ listening
                 THEN [source EXCEPT ![thread[t].what] = @ + 1] ELSE source
    /\ Return(t)
    /\ UNCHANGED <<compileVars, freeVars, profVars, loadVars, listening, symbol, written, failure>>

\* xperf starts to record.
StartTrace ==
    /\ failure = "none" /\ ~listening
    /\ listening' = TRUE
    /\ UNCHANGED <<compileVars, thread, freeVars, profVars, loadVars, traceVars, failure>>
-----------------------------------------------------------------------------
ThreadStep(t) ==
    \/ LookupHit(t) \/ LookupMiss(t) \/ CompileFailed(t) \/ Publish(t)
    \/ (\E b \in Block : Reserve(t, b)) \/ HashInsert(t) \/ VTable(t) \/ EndJit(t) \/ ClassInit(t)
    \/ LoadEnter(t) \/ LoadHook(t) \/ AssemblyLoaded(t)
FinalizerStep == FreeTable \/ FreeCode

Next ==
    \/ \E t \in Thread : \/ ThreadStep(t) \/ Leave(t)
                         \/ \E m \in Method : Compile(t, m)
                         \/ \E a \in Assembly : LoadStart(t, a)
    \/ FinalizerStep
    \/ \E m \in Dynamic : FreeHashes(m)
    \/ mono_profiler_install
    \/ \E events \in SUBSET Etw.events : mono_profiler_set_events(events)
    \/ StartTrace

Spec == /\ Init /\ [][Next]_vars
        /\ \A t \in Thread : WF_vars(ThreadStep(t))
        /\ WF_vars(FinalizerStep)
-----------------------------------------------------------------------------
CompilePc == {"lookup", "failed", "reserve", "publish", "hash", "vtable", "event", "init", "run"}
LoadPc == {"enter", "hook", "loaded"}
ThreadState == [pc : {"idle"} \cup CompilePc \cup LoadPc,
                what : Method \cup Assembly \cup {NULL},
                block : Block \cup {NULL},
                code : Block \cup {NULL},
                prof : BOOLEAN]
FinalizerState == [pc : {"idle", "table", "code"}, method : Dynamic \cup {NULL}, info : Block \cup {NULL}]

\* Every variable has its type.
TypeOK ==
    /\ code \in [Block -> Method \cup {NULL}]
    /\ jit_info_table \subseteq Method \X Block
    /\ jit_code_hash \in [Method -> Block \cup {NULL}]
    /\ dynamic_code_hash \in [Method -> Block \cup {NULL}]
    /\ dynamic_ji \in [Block -> Block \cup {NULL}]
    /\ thread \in [Thread -> ThreadState] /\ finalizer \in FinalizerState
    /\ gone \subseteq Method /\ image_assembly \subseteq Assembly /\ hooked \subseteq Assembly
    /\ symbol \in [Block -> Method \cup {NULL}]
    /\ written \in [Block -> Nat] /\ source \in [Assembly -> Nat]

\* However many threads compile a method at the same time, they all end up
\* with the same code, the one in jit_code_hash (mono_jit_compile_method_inner,
\* "Check if some other thread already did the job").
SameCode ==
    \A t \in Thread : thread[t].pc \in {"vtable", "event", "init", "run"} =>
        thread[t].code = jit_code_hash[thread[t].what]

\* Code that is handed out is allocated, is the method's own, and has its
\* MonoJitInfo in the table, so that a stack walk can find it.
RunningCodeKnown ==
    \A t \in Thread : thread[t].pc \in {"init", "run"} =>
        /\ code[thread[t].code] = thread[t].what
        /\ <<thread[t].what, thread[t].code>> \in jit_info_table

\* A block of code gets one MethodLoad at most while it is allocated, though
\* several threads pass through end_jit for its method, and the last symbol
\* the trace has for the block is then that of the method it holds now, also
\* when the block was freed and used for another method.  An assembly gets one
\* SourceLoad at most, though two threads load it.
SymbolOnce ==
    /\ \A b \in Block : /\ written[b] <= 1
                        /\ written[b] = 1 /\ code[b] # NULL => symbol[b] = code[b]
    /\ \A a \in Assembly : source[a] <= 1

\* mono_jit_free_method finds what it removes: a dynamic method with a
\* MonoJitDynamicMethodInfo that no thread compiles or runs is in
\* jit_code_hash (g_assert (0) at the end of mono_internal_hash_table_remove)
\* and the info holds a MonoJitInfo that is in the table.
FreeFinds ==
    \A m \in Dynamic :
        LET info == dynamic_code_hash[m]
        IN  info # NULL /\ (\A t \in Thread : thread[t].what # m) =>
                jit_code_hash[m] # NULL /\ <<m, dynamic_ji[info]>> \in jit_info_table

\* No MonoJitInfo in the table is for code that has been freed: the comment in
\* mono_jit_free_method says why the entry has to go first.
NoStaleEntry == \A ji \in jit_info_table : code[ji[2]] = ji[1]

\* Code that is compiled while a trace is recorded gets its symbol, whatever
\* profilers are installed and whatever events they ask for meanwhile, and
\* also when another thread was faster and the code is thrown away.
SymbolFollows ==
    \A m \in Method \ NativeWrapper, b \in Block :
        (\E t \in Thread : /\ thread[t].pc = "hash" /\ listening
                          /\ thread[t].what = m /\ thread[t].block = b)
            ~> symbol[b] = m

\* An assembly that is loaded while a trace is recorded gets its SourceLoad.
SourceFollows ==
    \A a \in Assembly :
        (\E t \in Thread : thread[t].pc = "hook" /\ thread[t].what = a /\ listening)
            ~> source[a] = 1
=============================================================================
