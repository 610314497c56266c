-------------------------- MODULE ClassInitProofs ---------------------------
(***************************************************************************)
(* Proofs about ClassInit for every set of classes, whatever their static  *)
(* constructors need of each other, and every finite set of threads: a     *)
(* lock lives as long as it is used, a waiter finds the cause of a         *)
(* failure, and class initialization implements OnceInit.                  *)
(***************************************************************************)
EXTENDS ClassInit, FiniteSetTheorems, TLAPS

\* The call that runs the static constructor, until it leaves the lock.
RunPc == {"run", "fail", "store", "done", "leave"}
Runs(t, c) ==
    \E i \in 1..Len(frames[t]) : frames[t][i].pc \in RunPc /\ frames[t][i].class = c

\* A call is inside another one while the other runs a static constructor, of
\* its class or of <Module>.
StackInv ==
    \A t \in Thread : \A i \in 2..Len(frames[t]) : frames[t][i].pc \in {"run", "module_done"}

\* The thread that walks holds type_initialization_section, so that the lock
\* of its class stays.
WalkInv ==
    \A t \in Thread : At(t, "walk") =>
        /\ section = t
        /\ Head(frames[t]).cursor \in Thread
        /\ lock[Cur(t)] # NULL
        /\ lock[Cur(t)].initializing_tid # t

\* A constructor is run by the thread that the lock names, in one call, and
\* holds the lock.
RunInv ==
    \A t \in Thread : \A i \in 1..Len(frames[t]) : frames[t][i].pc \in RunPc =>
        /\ lock[frames[t][i].class] # NULL
        /\ lock[frames[t][i].class].initializing_tid = t
        /\ lock[frames[t][i].class].held
        /\ lock[frames[t][i].class].done <=> frames[t][i].pc = "leave"
        /\ \A j \in 1..Len(frames[t]) :
             frames[t][j].pc \in RunPc /\ frames[t][j].class = frames[t][i].class => j = i

\* Between init_failed and the release of the lock the exception is stored.
FailInv ==
    \A t \in Thread : \A i \in 1..Len(frames[t]) :
        frames[t][i].pc \in RunPc /\ init_failed[frames[t][i].class] =>
            \/ frames[t][i].pc = "store"
            \/ /\ frames[t][i].pc \in {"done", "leave"}
               /\ frames[t][i].class \in type_init_exception

\* The calls that wait or have waited, and that of the initializing thread
\* after it left the lock.
WaitInv ==
    \A t \in Thread : At(t, "wait") \/ At(t, "finish") =>
        /\ lock[Cur(t)] # NULL
        /\ At(t, "wait") => lock[Cur(t)].initializing_tid # t
        /\ At(t, "finish") => lock[Cur(t)].done /\ ~lock[Cur(t)].held
        /\ lock[Cur(t)].initializing_tid # t => blocked[t] = Cur(t)

\* The entries of blocked_thread_hash.
BlockedInv ==
    \A t \in Thread : blocked[t] # NULL =>
        /\ At(t, "wait") \/ At(t, "finish")
        /\ blocked[t] = Cur(t)
        /\ lock[blocked[t]].initializing_tid # t

\* A lock that is not done has a thread that runs the constructor, and the
\* class is not initialized; a lock that is not held is done.
LockInv ==
    \A c \in Class : lock[c] # NULL =>
        /\ c \in Cctor
        /\ ~lock[c].held => lock[c].done
        /\ ~lock[c].done =>
             /\ ~initialized[c]
             /\ \A t \in Thread : lock[c].initializing_tid = t => Runs(t, c)

\* Who left the lock of a class that failed stored the exception, or is gone.
CauseInv ==
    \A c \in Class : lock[c] # NULL /\ ~lock[c].held /\ init_failed[c] =>
        \/ c \in type_init_exception
        \/ frames[lock[c].initializing_tid] = <<>> /\ calls[lock[c].initializing_tid] = 0

\* waiting_count is the number of threads that use the lock.
CountInv ==
    \A c \in Class :
        IF lock[c] = NULL THEN Holders(c) = {}
        ELSE Cardinality(Holders(c)) = lock[c].waiting_count

IInv == TypeOK /\ StackInv /\ WalkInv /\ RunInv /\ FailInv /\ WaitInv /\ BlockedInv
        /\ LockInv /\ CauseInv /\ CountInv
-----------------------------------------------------------------------------
\* The innermost call.
LEMMA TopFacts ==
    ASSUME frames \in [Thread -> Seq(Frame)], NEW t \in Thread
    PROVE  /\ Len(frames[t]) \in Nat /\ DOMAIN frames[t] = 1..Len(frames[t])
           /\ Busy(t) <=> Len(frames[t]) >= 1
           /\ Busy(t) => /\ Head(frames[t]) = frames[t][1] /\ Cur(t) = frames[t][1].class
                         /\ frames[t][1] \in Frame /\ Cur(t) \in Class
           /\ \A i \in 1..Len(frames[t]) : frames[t][i] \in Frame
           /\ \A pc : At(t, pc) <=> Len(frames[t]) >= 1 /\ frames[t][1].pc = pc
<1>1. frames[t] \in Seq(Frame)
  OBVIOUS
<1>2. Len(frames[t]) \in Nat /\ DOMAIN frames[t] = 1..Len(frames[t])
      /\ \A i \in 1..Len(frames[t]) : frames[t][i] \in Frame
  BY <1>1
<1>3. frames[t] # <<>> <=> Len(frames[t]) >= 1
  BY <1>1
<1>4. ASSUME frames[t] # <<>> PROVE Head(frames[t]) = frames[t][1] /\ frames[t][1] \in Frame
  BY <1>1, <1>4
<1> QED BY <1>2, <1>3, <1>4 DEF Busy, Cur, At, Frame

\* A step of thread t that changes its innermost call and leaves it at pc.
TopMoves(t, pc) ==
    /\ frames' \in [Thread -> Seq(Frame)]
    /\ \A u \in Thread \ {t} : frames'[u] = frames[u]
    /\ Len(frames[t]) >= 1 /\ Len(frames'[t]) = Len(frames[t])
    /\ frames'[t][1].pc = pc /\ frames'[t][1].class = frames[t][1].class
    /\ \A i \in 2..Len(frames[t]) : frames'[t][i] = frames[t][i]

\* A step of thread t that returns from its innermost call.
Pops(t) ==
    /\ frames' \in [Thread -> Seq(Frame)]
    /\ \A u \in Thread \ {t} : frames'[u] = frames[u]
    /\ Len(frames'[t]) = Len(frames[t]) - 1
    /\ \A i \in 1..Len(frames'[t]) : /\ frames'[t][i].pc = frames[t][i + 1].pc
                                     /\ frames'[t][i].class = frames[t][i + 1].class

\* A step of thread t that calls mono_runtime_class_init_full, from pc if it is
\* inside a call already.
Pushes(t, pc) ==
    /\ frames' \in [Thread -> Seq(Frame)]
    /\ \A u \in Thread \ {t} : frames'[u] = frames[u]
    /\ Len(frames'[t]) = Len(frames[t]) + 1
    /\ frames'[t][1].pc = "check"
    /\ \A i \in 2..Len(frames'[t]) :
         /\ frames'[t][i].pc = IF i = 2 THEN pc ELSE frames[t][i - 1].pc
         /\ frames'[t][i].class = frames[t][i - 1].class

\* An assignment to the frame of the innermost call.
LEMMA TopFrame ==
    ASSUME frames \in [Thread -> Seq(Frame)], NEW t \in Thread, Busy(t),
           NEW f \in Frame, f.class = Cur(t),
           frames' = [frames EXCEPT ![t] = [frames[t] EXCEPT ![1] = f]]
    PROVE  TopMoves(t, f.pc) /\ frames'[t][1] = f
<1>1. frames[t] \in Seq(Frame) /\ Len(frames[t]) >= 1 /\ Cur(t) = frames[t][1].class
  BY TopFacts
<1>2. frames'[t] = [frames[t] EXCEPT ![1] = f]
  OBVIOUS
<1>3. frames'[t] \in Seq(Frame) /\ Len(frames'[t]) = Len(frames[t]) /\ frames'[t][1] = f
      /\ \A i \in 2..Len(frames[t]) : frames'[t][i] = frames[t][i]
  BY <1>1, <1>2
<1>4. \A u \in Thread \ {t} : frames'[u] = frames[u]
  OBVIOUS
<1>5. frames' \in [Thread -> Seq(Frame)]
  BY <1>3
<1> QED BY <1>1, <1>3, <1>4, <1>5 DEF TopMoves

\* Goto moves the innermost call.
LEMMA GotoFacts ==
    ASSUME frames \in [Thread -> Seq(Frame)], NEW t \in Thread, Busy(t), NEW pc \in Pcs,
           Goto(t, pc)
    PROVE  TopMoves(t, pc)
<1> DEFINE f == [frames[t][1] EXCEPT !.pc = pc]
<1>1. frames[t][1] \in Frame /\ Cur(t) = frames[t][1].class
  BY TopFacts
<1>2. f \in Frame /\ f.class = Cur(t) /\ f.pc = pc
  BY <1>1 DEF Frame
<1>3. frames' = [frames EXCEPT ![t] = [frames[t] EXCEPT ![1] = f]]
  BY DEF Goto
<1> HIDE DEF f
<1> QED BY <1>2, <1>3, TopFrame

\* Return leaves the calls outside.
LEMMA ReturnFacts ==
    ASSUME frames \in [Thread -> Seq(Frame)], NEW t \in Thread, Busy(t), NEW exc \in BOOLEAN,
           Return(t, exc)
    PROVE  Pops(t)
<1> DEFINE s == Tail(frames[t])
           h == [Head(s) EXCEPT !.exc = exc]
           r == IF s = <<>> THEN <<>> ELSE <<h>> \o Tail(s)
<1>1. /\ frames[t] \in Seq(Frame) /\ Len(frames[t]) >= 1
  BY TopFacts
<1>2. s \in Seq(Frame) /\ Len(s) = Len(frames[t]) - 1 /\ \A i \in 1..Len(s) : s[i] = frames[t][i + 1]
  BY <1>1
<1>3. frames' = [frames EXCEPT ![t] = r]
  BY DEF Return
<1> HIDE DEF s
<1>4. r \in Seq(Frame) /\ Len(r) = Len(s)
      /\ \A i \in 1..Len(s) : r[i].pc = s[i].pc /\ r[i].class = s[i].class
  <2>1. CASE s = <<>>
    BY <2>1
  <2>2. CASE s # <<>>
    <3>1. Head(s) \in Frame /\ Head(s) = s[1] /\ Tail(s) \in Seq(Frame) /\ Len(s) >= 1
          /\ Len(Tail(s)) = Len(s) - 1 /\ \A i \in 1..Len(s) - 1 : Tail(s)[i] = s[i + 1]
      BY <1>2, <2>2
    <3>2. h \in Frame /\ h.pc = s[1].pc /\ h.class = s[1].class
      BY <3>1 DEF Frame
    <3> HIDE DEF h
    <3>3. <<h>> \o Tail(s) \in Seq(Frame) /\ Len(<<h>> \o Tail(s)) = Len(s)
          /\ (<<h>> \o Tail(s))[1] = h
          /\ \A i \in 2..Len(s) : (<<h>> \o Tail(s))[i] = s[i]
      BY <1>2, <3>1, <3>2
    <3> QED BY <2>2, <3>2, <3>3, <1>2
  <2> QED BY <2>1, <2>2
<1> HIDE DEF r
<1>5. frames' \in [Thread -> Seq(Frame)] /\ frames'[t] = r
      /\ \A u \in Thread \ {t} : frames'[u] = frames[u]
  BY <1>3, <1>4
<1>6. Len(frames'[t]) = Len(frames[t]) - 1
  BY <1>2, <1>4, <1>5
<1>7. \A i \in 1..Len(frames'[t]) : /\ frames'[t][i].pc = frames[t][i + 1].pc
                                    /\ frames'[t][i].class = frames[t][i + 1].class
  BY <1>2, <1>4, <1>5
<1> QED BY <1>5, <1>6, <1>7 DEF Pops

\* A first call.
LEMMA UseFacts ==
    ASSUME frames \in [Thread -> Seq(Frame)], NEW t \in Thread, ~Busy(t), NEW c \in Class,
           Call(t, c, <<>>), NEW pc
    PROVE  Pushes(t, pc)
<1>1. NewFrame(c) \in Frame /\ NewFrame(c).pc = "check" /\ frames[t] = <<>>
  BY DEF NewFrame, Frame, Pcs, Busy
<1>2. frames' = [frames EXCEPT ![t] = <<NewFrame(c)>> \o <<>>]
  BY DEF Call
<1> HIDE DEF NewFrame
<1>3. <<NewFrame(c)>> \o <<>> \in Seq(Frame) /\ Len(<<NewFrame(c)>> \o <<>>) = 1
      /\ (<<NewFrame(c)>> \o <<>>)[1] = NewFrame(c)
  BY <1>1
<1> QED BY <1>1, <1>2, <1>3 DEF Pushes

\* A call from inside a call, whose frame is f.
LEMMA CallFacts ==
    ASSUME frames \in [Thread -> Seq(Frame)], NEW t \in Thread, Busy(t), NEW c \in Class,
           NEW f \in Frame, f.class = Cur(t), Call(t, c, <<f>> \o Tail(frames[t]))
    PROVE  Pushes(t, f.pc)
<1> DEFINE s == Tail(frames[t])
           q == <<f>> \o s
           r == <<NewFrame(c)>> \o q
<1>1. NewFrame(c) \in Frame /\ NewFrame(c).pc = "check"
  BY DEF NewFrame, Frame, Pcs
<1>2. frames' = [frames EXCEPT ![t] = r]
  BY DEF Call
<1>3. frames[t] \in Seq(Frame) /\ Len(frames[t]) >= 1 /\ f.class = frames[t][1].class
  BY TopFacts
<1>4. s \in Seq(Frame) /\ Len(s) = Len(frames[t]) - 1 /\ \A i \in 1..Len(s) : s[i] = frames[t][i + 1]
  BY <1>3
<1> HIDE DEF s, NewFrame
<1>5. q \in Seq(Frame) /\ Len(q) = Len(frames[t]) /\ q[1] = f
      /\ \A i \in 2..Len(frames[t]) : q[i] = frames[t][i]
  BY <1>3, <1>4
<1> HIDE DEF q
<1>6. r \in Seq(Frame) /\ Len(r) = Len(frames[t]) + 1 /\ r[1] = NewFrame(c)
      /\ \A i \in 2..Len(r) : r[i] = q[i - 1]
  BY <1>1, <1>3, <1>5
<1> HIDE DEF r
<1>7. ASSUME NEW i \in 2..Len(r)
      PROVE  /\ r[i].pc = IF i = 2 THEN f.pc ELSE frames[t][i - 1].pc
             /\ r[i].class = frames[t][i - 1].class
  <2>1. CASE i = 2
    BY <1>3, <1>5, <1>6, <2>1
  <2>2. CASE i # 2
    <3>1. i - 1 \in 2..Len(frames[t])
      BY <1>3, <1>6, <2>2
    <3> QED BY <1>5, <1>6, <2>2, <3>1
  <2> QED BY <2>1, <2>2
<1>8. frames' \in [Thread -> Seq(Frame)] /\ frames'[t] = r
      /\ \A u \in Thread \ {t} : frames'[u] = frames[u]
  BY <1>2, <1>6
<1> QED BY <1>1, <1>6, <1>7, <1>8 DEF Pushes
-----------------------------------------------------------------------------
\* Where a thread is when it uses no lock, but for the constructors that it
\* runs.
QuietPc == {"check", "module", "mark", "module_done", "enter", "raise", "run"}

\* A step of thread t to such a place, that shifts the constructors it runs.
Settles(t, d) ==
    /\ frames' \in [Thread -> Seq(Frame)]
    /\ \A u \in Thread \ {t} : frames'[u] = frames[u]
    /\ \A i \in 1..Len(frames'[t]) : frames'[t][i].pc \in QuietPc
    /\ \A i \in 2..Len(frames'[t]) : frames'[t][i].pc \in {"run", "module_done"}
    /\ \A i \in 1..Len(frames'[t]) : frames'[t][i].pc = "run" =>
         /\ i + d \in 1..Len(frames[t])
         /\ frames[t][i + d].pc = "run" /\ frames[t][i + d].class = frames'[t][i].class
    /\ \A i \in 1..Len(frames[t]) : frames[t][i].pc = "run" =>
         /\ i - d \in 1..Len(frames'[t])
         /\ frames'[t][i - d].pc = "run" /\ frames'[t][i - d].class = frames[t][i].class

\* A jump among those places.
LEMMA GotoSettles ==
    ASSUME frames \in [Thread -> Seq(Frame)], StackInv, NEW t \in Thread, NEW pc \in QuietPc,
           TopMoves(t, pc), frames[t][1].pc = "run" <=> pc = "run"
    PROVE  Settles(t, 0)
<1>1. \A i \in 1..Len(frames[t]) : i = 1 \/ i \in 2..Len(frames[t])
  BY TopFacts
<1>2. \A i \in 2..Len(frames'[t]) : frames'[t][i].pc \in {"run", "module_done"}
  BY DEF TopMoves, StackInv
<1>3. \A i \in 1..Len(frames'[t]) : frames'[t][i].pc \in QuietPc
  BY <1>1, <1>2 DEF TopMoves, QuietPc
<1>4. \A i \in 1..Len(frames[t]) : /\ i + 0 = i /\ i - 0 = i
                                   /\ frames'[t][i].pc = "run" <=> frames[t][i].pc = "run"
                                   /\ frames'[t][i].class = frames[t][i].class
  BY <1>1 DEF TopMoves
<1> QED BY <1>2, <1>3, <1>4 DEF Settles, TopMoves

\* The return from a call that runs no constructor.
LEMMA ReturnSettles ==
    ASSUME frames \in [Thread -> Seq(Frame)], StackInv, NEW t \in Thread, Busy(t), Pops(t),
           frames[t][1].pc # "run"
    PROVE  Settles(t, 1)
<1>1. Len(frames[t]) \in Nat /\ Len(frames'[t]) \in Nat /\ Len(frames'[t]) + 1 = Len(frames[t])
  BY TopFacts DEF Pops
<1>2. ASSUME NEW i \in 1..Len(frames'[t])
      PROVE  /\ i + 1 \in 2..Len(frames[t]) /\ i + 1 \in 1..Len(frames[t])
             /\ frames'[t][i].pc = frames[t][i + 1].pc
             /\ frames'[t][i].class = frames[t][i + 1].class
             /\ frames[t][i + 1].pc \in {"run", "module_done"}
  BY <1>1 DEF Pops, StackInv
<1>3. ASSUME NEW i \in 1..Len(frames[t]), frames[t][i].pc = "run"
      PROVE  i - 1 \in 1..Len(frames'[t]) /\ (i - 1) + 1 = i
  BY <1>1, <1>3
<1>4. \A i \in 2..Len(frames'[t]) : i \in 1..Len(frames'[t])
  BY <1>1
<1> QED BY <1>2, <1>3, <1>4, ZenonT(30) DEF Settles, Pops, QuietPc

\* A call.
LEMMA CallSettles ==
    ASSUME frames \in [Thread -> Seq(Frame)], StackInv, NEW t \in Thread, NEW pc, Pushes(t, pc),
           Len(frames[t]) = 0 \/ (/\ pc \in {"run", "module_done"}
                                  /\ frames[t][1].pc = "run" <=> pc = "run")
    PROVE  Settles(t, -1)
<1>1. Len(frames[t]) \in Nat /\ Len(frames'[t]) = Len(frames[t]) + 1
  BY TopFacts DEF Pushes
<1>2. ASSUME NEW i \in 2..Len(frames'[t])
      PROVE  /\ i + -1 \in 1..Len(frames[t]) /\ i + -1 = i - 1
             /\ frames'[t][i].class = frames[t][i - 1].class
             /\ frames'[t][i].pc \in {"run", "module_done"}
             /\ frames'[t][i].pc = "run" <=> frames[t][i - 1].pc = "run"
  <2>1. i - 1 \in 1..Len(frames[t]) /\ (i = 2 \/ i - 1 \in 2..Len(frames[t])) /\ i + -1 = i - 1
    BY <1>1
  <2>2. CASE i = 2
    BY <2>1, <2>2 DEF Pushes
  <2>3. CASE i # 2
    BY <2>1, <2>3 DEF Pushes, StackInv
  <2> QED BY <2>2, <2>3
<1>3. \A i \in 1..Len(frames'[t]) : i = 1 \/ i \in 2..Len(frames'[t])
  BY <1>1
<1>4. frames'[t][1].pc = "check"
  BY DEF Pushes
<1>5. \A i \in 1..Len(frames'[t]) : frames'[t][i].pc \in QuietPc
  BY <1>2, <1>3, <1>4 DEF QuietPc
<1>6. ASSUME NEW i \in 1..Len(frames[t])
      PROVE  /\ i - (-1) \in 2..Len(frames'[t]) /\ i - (-1) \in 1..Len(frames'[t])
             /\ (i - (-1)) - 1 = i
  BY <1>1
<1>7. ASSUME NEW i \in 1..Len(frames'[t]), frames'[t][i].pc = "run"
      PROVE  /\ i + -1 \in 1..Len(frames[t])
             /\ frames[t][i + -1].pc = "run" /\ frames[t][i + -1].class = frames'[t][i].class
  <2>1. i \in 2..Len(frames'[t])
    BY <1>3, <1>4, <1>7
  <2> QED BY <1>2, <1>7, <2>1
<1>8. ASSUME NEW i \in 1..Len(frames[t]), frames[t][i].pc = "run"
      PROVE  /\ i - (-1) \in 1..Len(frames'[t])
             /\ frames'[t][i - (-1)].pc = "run" /\ frames'[t][i - (-1)].class = frames[t][i].class
  BY <1>2, <1>6, <1>8
<1> QED BY <1>2, <1>5, <1>7, <1>8 DEF Settles, Pushes

\* Where the thread is afterwards.
LEMMA AfterMove ==
    ASSUME NEW t \in Thread, NEW pc, TopMoves(t, pc), frames \in [Thread -> Seq(Frame)]
    PROVE  /\ Cur(t)' = Cur(t) /\ Cur(t) \in Class
           /\ \A p : At(t, p)' <=> p = pc
           /\ \A u \in Thread \ {t} : \A p : (At(u, p)' <=> At(u, p)) /\ Cur(u)' = Cur(u)
<1>1. frames'[t] # <<>> /\ Head(frames'[t]) = frames'[t][1]
  BY DEF TopMoves
<1>2. Cur(t) = frames[t][1].class /\ Cur(t) \in Class
  BY TopFacts DEF TopMoves
<1> QED BY <1>1, <1>2 DEF At, Busy, Cur, TopMoves

LEMMA AfterSettle ==
    ASSUME NEW t \in Thread, NEW d, Settles(t, d)
    PROVE  /\ \A p : At(t, p)' => p \in QuietPc
           /\ \A u \in Thread \ {t} : \A p : (At(u, p)' <=> At(u, p)) /\ Cur(u)' = Cur(u)
<1>1. ASSUME frames'[t] # <<>> PROVE Head(frames'[t]).pc \in QuietPc
  <2>1. frames'[t] \in Seq(Frame)
    BY DEF Settles
  <2>2. Head(frames'[t]) = frames'[t][1] /\ 1 \in 1..Len(frames'[t])
    BY <1>1, <2>1
  <2> QED BY <2>2 DEF Settles
<1> QED BY <1>1 DEF At, Busy, Cur, Settles
-----------------------------------------------------------------------------
\* The calls outside the innermost one that run the constructor of class c.
Outer(t, c) == \E i \in 2..Len(frames[t]) : frames[t][i].pc = "run" /\ frames[t][i].class = c

\* Who uses the lock of a class.
LEMMA HolderIs ==
    ASSUME frames \in [Thread -> Seq(Frame)], StackInv, NEW t \in Thread, NEW c
    PROVE  t \in Holders(c) <=> \/ Busy(t) /\ Head(frames[t]).pc \in HolderPc /\ Cur(t) = c
                                \/ Outer(t, c)
<1>1. \A i \in 1..Len(frames[t]) : i = 1 \/ i \in 2..Len(frames[t])
  BY TopFacts
<1>2. \A i \in 2..Len(frames[t]) : i \in 1..Len(frames[t])
  BY TopFacts
<1>3. DOMAIN frames[t] = 1..Len(frames[t]) /\ (Busy(t) <=> 1 \in 1..Len(frames[t]))
      /\ (Busy(t) => Head(frames[t]) = frames[t][1] /\ Cur(t) = frames[t][1].class)
  BY TopFacts
<1>4. \A i \in 2..Len(frames[t]) : frames[t][i].pc \in HolderPc <=> frames[t][i].pc = "run"
  BY DEF StackInv, HolderPc
<1>5. t \in Holders(c) <=>
        \E i \in 1..Len(frames[t]) : frames[t][i].class = c /\ frames[t][i].pc \in HolderPc
  BY <1>3 DEF Holders
<1> QED BY <1>1, <1>2, <1>3, <1>4, <1>5 DEF Outer

\* The holders of a lock after a step of thread t are those before, and t if
\* it is one.
LEMMA OtherHolders ==
    ASSUME NEW t \in Thread, NEW c, \A u \in Thread \ {t} : frames'[u] = frames[u]
    PROVE  /\ (t \in Holders(c)' <=> t \in Holders(c)) => Holders(c)' = Holders(c)
           /\ t \in Holders(c)' => Holders(c)' = Holders(c) \cup {t}
           /\ t \notin Holders(c)' => Holders(c)' = Holders(c) \ {t}
<1>1. \A u \in Thread \ {t} : u \in Holders(c)' <=> u \in Holders(c)
  BY DEF Holders
<1>2. Holders(c) \subseteq Thread /\ Holders(c)' \subseteq Thread
  BY DEF Holders
<1> QED BY <1>1, <1>2

\* The holders after a thread settled.
LEMMA SettledHolders ==
    ASSUME frames \in [Thread -> Seq(Frame)], NEW t \in Thread, NEW d \in {-1, 0, 1},
           Settles(t, d), NEW c
    PROVE  t \in Holders(c)' <=>
             \E i \in 1..Len(frames[t]) : frames[t][i].pc = "run" /\ frames[t][i].class = c
<1>0. frames'[t] \in Seq(Frame) /\ DOMAIN frames'[t] = 1..Len(frames'[t])
  BY DEF Settles
<1>1. \A i \in 1..Len(frames'[t]) : frames'[t][i].pc \in HolderPc <=> frames'[t][i].pc = "run"
  BY DEF Settles, QuietPc, HolderPc
<1>2. t \in Holders(c)' <=>
        \E i \in 1..Len(frames'[t]) : frames'[t][i].pc = "run" /\ frames'[t][i].class = c
  BY <1>0, <1>1 DEF Holders
<1>3. ASSUME NEW i \in 1..Len(frames'[t]), frames'[t][i].pc = "run", frames'[t][i].class = c
      PROVE  \E j \in 1..Len(frames[t]) : frames[t][j].pc = "run" /\ frames[t][j].class = c
  BY <1>3 DEF Settles
<1>4. ASSUME NEW i \in 1..Len(frames[t]), frames[t][i].pc = "run", frames[t][i].class = c
      PROVE  \E j \in 1..Len(frames'[t]) : frames'[t][j].pc = "run" /\ frames'[t][j].class = c
  BY <1>4 DEF Settles
<1> QED BY <1>2, <1>3, <1>4

\* The holders after the innermost call moved.
LEMMA MovedHolders ==
    ASSUME frames \in [Thread -> Seq(Frame)], StackInv, NEW t \in Thread, NEW pc,
           TopMoves(t, pc), NEW c
    PROVE  t \in Holders(c)' <=> (pc \in HolderPc /\ Cur(t) = c) \/ Outer(t, c)
<1>0. /\ Len(frames[t]) \in Nat /\ Len(frames[t]) >= 1 /\ Cur(t) = frames[t][1].class
      /\ DOMAIN frames'[t] = 1..Len(frames[t])
  BY TopFacts DEF TopMoves
<1>1. \A i \in 2..Len(frames[t]) : frames'[t][i].pc \in HolderPc <=> frames[t][i].pc = "run"
  BY DEF StackInv, HolderPc, TopMoves
<1>2. \A i \in 1..Len(frames[t]) : i = 1 \/ i \in 2..Len(frames[t])
  BY <1>0
<1>3. 1 \in 1..Len(frames[t]) /\ \A i \in 2..Len(frames[t]) : i \in 1..Len(frames[t])
  BY <1>0
<1>4. t \in Holders(c)' <=>
        \E i \in 1..Len(frames[t]) : frames'[t][i].class = c /\ frames'[t][i].pc \in HolderPc
  BY <1>0 DEF Holders
<1> QED BY <1>0, <1>1, <1>2, <1>3, <1>4 DEF Outer, TopMoves
-----------------------------------------------------------------------------
\* A step outside the locks, or the end of a walk that does not wait, keeps
\* the inductive invariant.
LEMMA QuietStep ==
    ASSUME IInv, NEW t \in Thread, NEW d \in {-1, 0, 1}, Settles(t, d),
           \A i \in 1..Len(frames[t]) : frames[t][i].pc \in QuietPc \cup {"walk"},
           UNCHANGED <<lock, init_failed, type_init_exception, blocked>>,
           section' \in {section, NULL}, section' = section \/ section = t,
           initialized' \in [Class -> BOOLEAN],
           \A c \in Class : lock[c] # NULL => initialized'[c] = initialized[c],
           checked_module_cctor' \in BOOLEAN,
           calls' \in [Thread -> 0..MaxCalls], frames[t] # <<>> \/ calls[t] > 0,
           \A u \in Thread \ {t} : calls'[u] = calls[u]
    PROVE  IInv'
<1>0. TypeOK /\ StackInv /\ WalkInv /\ RunInv /\ FailInv /\ WaitInv /\ BlockedInv
      /\ LockInv /\ CauseInv /\ CountInv /\ frames \in [Thread -> Seq(Frame)]
  BY DEF IInv, TypeOK
<1>1. \A u \in Thread \ {t} : frames'[u] = frames[u]
  BY DEF Settles
<1>2. \A i \in 1..Len(frames'[t]) : frames'[t][i].pc \in RunPc =>
        /\ i + d \in 1..Len(frames[t])
        /\ frames[t][i + d].pc = "run" /\ frames[t][i + d].class = frames'[t][i].class
        /\ frames'[t][i].pc = "run"
  BY DEF Settles, RunPc, QuietPc
<1>3. \A i \in 1..Len(frames[t]) : frames[t][i].pc \in RunPc =>
        /\ i - d \in 1..Len(frames'[t])
        /\ frames'[t][i - d].pc = "run" /\ frames'[t][i - d].class = frames[t][i].class
  BY DEF Settles, RunPc, QuietPc
<1>4. TypeOK'
  BY <1>0 DEF TypeOK, Settles
<1>5. StackInv'
  <2>1. ASSUME NEW u \in Thread, NEW i \in 2..Len(frames'[u])
        PROVE  frames'[u][i].pc \in {"run", "module_done"}
    <3>1. CASE u = t
      BY <2>1, <3>1 DEF Settles
    <3>2. CASE u # t
      <4>1. StackInv /\ frames'[u] = frames[u]
        BY <1>0, <1>1, <3>2
      <4> QED BY <2>1, <4>1 DEF StackInv
    <3> QED BY <3>1, <3>2
  <2> QED BY <2>1 DEF StackInv
<1>6. \A p : (At(t, p)' => p \in QuietPc) /\ (At(t, p) => p \in QuietPc \cup {"walk"})
  <2>1. \A p : At(t, p)' => p \in QuietPc
    BY AfterSettle
  <2>2. \A p : At(t, p) => p \in QuietPc \cup {"walk"}
    BY <1>0, TopFacts
  <2> QED BY <2>1, <2>2
<1>7. \A u \in Thread \ {t} : \A p : (At(u, p)' <=> At(u, p)) /\ Cur(u)' = Cur(u)
  BY AfterSettle
<1>8. WalkInv'
  <2> SUFFICES ASSUME NEW u \in Thread, At(u, "walk")'
      PROVE  /\ section' = u /\ Head(frames'[u]).cursor \in Thread
             /\ lock'[Cur(u)'] # NULL /\ lock'[Cur(u)'].initializing_tid # u
    BY DEF WalkInv
  <2>1. u # t
    BY <1>6 DEF QuietPc
  <2>2. section = u
    BY <1>0, <1>7, <2>1 DEF WalkInv
  <2> QED BY <1>0, <1>1, <1>7, <2>1, <2>2 DEF WalkInv
<1>9. RunInv'
  <2>1. ASSUME NEW u \in Thread \ {t}, NEW i \in 1..Len(frames'[u]), frames'[u][i].pc \in RunPc
        PROVE  /\ lock'[frames'[u][i].class] # NULL
               /\ lock'[frames'[u][i].class].initializing_tid = u
               /\ lock'[frames'[u][i].class].held
               /\ lock'[frames'[u][i].class].done <=> frames'[u][i].pc = "leave"
               /\ \A j \in 1..Len(frames'[u]) :
                    frames'[u][j].pc \in RunPc /\ frames'[u][j].class = frames'[u][i].class => j = i
    BY <1>0, <1>1, <2>1 DEF RunInv
  <2>2. ASSUME NEW i \in 1..Len(frames'[t]), frames'[t][i].pc \in RunPc
        PROVE  /\ lock'[frames'[t][i].class] # NULL
               /\ lock'[frames'[t][i].class].initializing_tid = t
               /\ lock'[frames'[t][i].class].held
               /\ lock'[frames'[t][i].class].done <=> frames'[t][i].pc = "leave"
    <3>1. PICK k \in 1..Len(frames[t]) : /\ frames[t][k].pc = "run" /\ frames'[t][i].pc = "run"
                                         /\ frames[t][k].class = frames'[t][i].class
      BY <1>2, <2>2
    <3>2. frames[t][k].pc \in RunPc
      BY <3>1 DEF RunPc
    <3> QED BY <1>0, <3>1, <3>2 DEF RunInv
  <2>3. ASSUME NEW i \in 1..Len(frames'[t]), NEW j \in 1..Len(frames'[t]),
               frames'[t][i].pc \in RunPc, frames'[t][j].pc \in RunPc,
               frames'[t][j].class = frames'[t][i].class
        PROVE  j = i
    <3>1. /\ i + d \in 1..Len(frames[t]) /\ j + d \in 1..Len(frames[t])
          /\ frames[t][i + d].pc \in RunPc /\ frames[t][j + d].pc \in RunPc
          /\ frames[t][i + d].class = frames[t][j + d].class
      BY <1>2, <2>3 DEF RunPc
    <3>2. \A k, l \in 1..Len(frames[t]) :
            frames[t][k].pc \in RunPc /\ frames[t][l].pc \in RunPc
            /\ frames[t][k].class = frames[t][l].class => k = l
      BY <1>0 DEF RunInv
    <3>3. j + d = i + d
      BY <3>1, <3>2
    <3> QED BY <3>3
  <2> QED BY <2>1, <2>2, <2>3 DEF RunInv
<1>10. FailInv'
  <2>1. ASSUME NEW i \in 1..Len(frames'[t]), frames'[t][i].pc \in RunPc
        PROVE  ~init_failed[frames'[t][i].class]
    BY <1>0, <1>2, <2>1 DEF FailInv, RunPc
  <2> QED BY <1>0, <1>1, <2>1 DEF FailInv
<1>11. WaitInv'
  <2> SUFFICES ASSUME NEW u \in Thread, At(u, "wait")' \/ At(u, "finish")'
      PROVE  /\ lock'[Cur(u)'] # NULL
             /\ At(u, "wait")' => lock'[Cur(u)'].initializing_tid # u
             /\ At(u, "finish")' => lock'[Cur(u)'].done /\ ~lock'[Cur(u)'].held
             /\ lock'[Cur(u)'].initializing_tid # u => blocked'[u] = Cur(u)'
    BY DEF WaitInv
  <2>1. u # t
    BY <1>6 DEF QuietPc
  <2> QED BY <1>0, <1>1, <1>7, <2>1 DEF WaitInv
<1>12. BlockedInv'
  <2> SUFFICES ASSUME NEW u \in Thread, blocked[u] # NULL
      PROVE  /\ At(u, "wait")' \/ At(u, "finish")'
             /\ blocked[u] = Cur(u)'
             /\ lock[blocked[u]].initializing_tid # u
    BY <1>0, <1>7 DEF BlockedInv
  <2>1. At(u, "wait") \/ At(u, "finish")
    BY <1>0 DEF BlockedInv
  <2>2. u # t
    BY <1>6, <2>1 DEF QuietPc
  <2> QED BY <1>0, <1>7, <2>2 DEF BlockedInv
<1>13. LockInv'
  <2>1. ASSUME NEW u \in Thread, NEW c \in Class, Runs(u, c) PROVE Runs(u, c)'
    <3>1. CASE u # t
      BY <1>1, <2>1, <3>1 DEF Runs
    <3>2. CASE u = t
      BY <1>3, <2>1, <3>2, ZenonT(30) DEF Runs, RunPc
    <3> QED BY <3>1, <3>2
  <2>2. \A c \in Class : lock[c] # NULL => lock[c].initializing_tid \in Thread
    BY <1>0 DEF TypeOK, Lock
  <2> QED BY <1>0, <2>1, <2>2 DEF LockInv
<1>14. CauseInv'
  <2>1. ASSUME NEW c \in Class, lock[c] # NULL
        PROVE  lock[c].initializing_tid \in Thread
    BY <1>0, <2>1 DEF TypeOK, Lock
  <2>2. ~(frames[t] = <<>> /\ calls[t] = 0)
    BY <1>0 DEF TypeOK
  <2> QED BY <1>0, <1>1, <2>1, <2>2, SMTT(30) DEF CauseInv
<1>15. CountInv'
  <2>1. ASSUME NEW c \in Class PROVE Holders(c)' = Holders(c)
    <3>1. t \in Holders(c) <=>
            \E i \in 1..Len(frames[t]) : frames[t][i].pc = "run" /\ frames[t][i].class = c
      <4>1. DOMAIN frames[t] = 1..Len(frames[t])
        BY <1>0
      <4>2. \A i \in 1..Len(frames[t]) : frames[t][i].pc \in HolderPc <=> frames[t][i].pc = "run"
        BY DEF QuietPc, HolderPc
      <4> QED BY <4>1, <4>2 DEF Holders
    <3>2. t \in Holders(c)' <=> t \in Holders(c)
      BY <1>0, <3>1, SettledHolders
    <3> QED BY <1>1, <3>2, OtherHolders
  <2> QED BY <1>0, <2>1 DEF CountInv
<1> QED BY <1>4, <1>5, <1>8, <1>9, <1>10, <1>11, <1>12, <1>13, <1>14, <1>15 DEF IInv
-----------------------------------------------------------------------------
\* The same calls run the same constructors, and none enters or leaves "leave".
SameRuns ==
    \A u \in Thread :
        /\ Len(frames'[u]) = Len(frames[u])
        /\ \A i \in 1..Len(frames[u]) :
             /\ frames'[u][i].class = frames[u][i].class
             /\ frames'[u][i].pc \in RunPc <=> frames[u][i].pc \in RunPc

LEMMA MoveRuns ==
    ASSUME frames \in [Thread -> Seq(Frame)], NEW t \in Thread, NEW pc, TopMoves(t, pc),
           frames[t][1].pc \in RunPc <=> pc \in RunPc
    PROVE  SameRuns
<1>1. \A i \in 1..Len(frames[t]) : i = 1 \/ i \in 2..Len(frames[t])
  BY TopFacts
<1> QED BY <1>1 DEF SameRuns, TopMoves

\* What a move of the innermost call keeps whatever it does to the locks.
LEMMA MoveStack ==
    ASSUME TypeOK, StackInv, NEW t \in Thread, NEW pc, TopMoves(t, pc)
    PROVE  StackInv'
BY DEF TypeOK, StackInv, TopMoves

\* A step of the thread that runs a constructor, under the lock: it may set
\* init_failed before the exception is stored.
LEMMA RunMoveStep ==
    ASSUME IInv, NEW t \in Thread, NEW pc \in RunPc \ {"leave"}, TopMoves(t, pc),
           frames[t][1].pc \in RunPc \ {"leave"},
           UNCHANGED <<initialized, lock, blocked, section, checked_module_cctor, calls>>,
           init_failed' \in [Class -> BOOLEAN],
           \A c \in Class \ {Cur(t)} : init_failed'[c] = init_failed[c],
           type_init_exception \subseteq type_init_exception', type_init_exception' \subseteq Class,
           init_failed'[Cur(t)] => \/ pc = "store"
                                   \/ pc = "done" /\ Cur(t) \in type_init_exception'
    PROVE  IInv'
<1>0. TypeOK /\ StackInv /\ WalkInv /\ RunInv /\ FailInv /\ WaitInv /\ BlockedInv
      /\ LockInv /\ CauseInv /\ CountInv /\ frames \in [Thread -> Seq(Frame)]
  BY DEF IInv, TypeOK
<1>1. \A u \in Thread \ {t} : frames'[u] = frames[u]
  BY DEF TopMoves
<1>2. SameRuns
  BY <1>0, MoveRuns
<1>3. /\ Busy(t) /\ Cur(t) = frames[t][1].class /\ 1 \in 1..Len(frames[t])
      /\ Head(frames[t]) = frames[t][1] /\ Cur(t) \in Class
  BY <1>0, TopFacts DEF TopMoves
<1>4. TypeOK'
  BY <1>0 DEF TypeOK, TopMoves
<1>5. StackInv'
  BY <1>0, MoveStack
<1>6. \A p : At(t, p) \/ At(t, p)' => p \in RunPc
  <2>1. \A p : At(t, p)' <=> p = pc
    BY <1>0, AfterMove
  <2>2. \A p : At(t, p) => p \in RunPc
    BY <1>3 DEF At
  <2> QED BY <2>1, <2>2
<1>7. \A u \in Thread \ {t} : \A p : (At(u, p)' <=> At(u, p)) /\ Cur(u)' = Cur(u)
  BY <1>0, AfterMove
<1>8. WalkInv'
  <2>1. ASSUME NEW u \in Thread, At(u, "walk")' PROVE u # t
    BY <1>6, <2>1 DEF RunPc
  <2> QED BY <1>0, <1>1, <1>7, <2>1 DEF WalkInv
<1>9. RunInv'
  <2>1. \A u \in Thread : \A i \in 1..Len(frames[u]) :
          frames'[u][i].pc = "leave" <=> frames[u][i].pc = "leave"
    <3>1. \A i \in 1..Len(frames[t]) : i = 1 \/ i \in 2..Len(frames[t])
      BY <1>0, TopFacts
    <3> QED BY <1>1, <3>1 DEF TopMoves
  <2>2. ASSUME NEW u \in Thread, NEW i \in 1..Len(frames'[u]), frames'[u][i].pc \in RunPc
        PROVE  /\ i \in 1..Len(frames[u]) /\ frames[u][i].pc \in RunPc
               /\ frames[u][i].class = frames'[u][i].class
               /\ frames'[u][i].pc = "leave" <=> frames[u][i].pc = "leave"
    BY <1>2, <2>1, <2>2 DEF SameRuns
  <2>3. ASSUME NEW u \in Thread, NEW i \in 1..Len(frames'[u]), frames'[u][i].pc \in RunPc
        PROVE  /\ lock[frames'[u][i].class] # NULL
               /\ lock[frames'[u][i].class].initializing_tid = u
               /\ lock[frames'[u][i].class].held
               /\ lock[frames'[u][i].class].done <=> frames'[u][i].pc = "leave"
    <3>1. \A k \in 1..Len(frames[u]) : frames[u][k].pc \in RunPc =>
            /\ lock[frames[u][k].class] # NULL
            /\ lock[frames[u][k].class].initializing_tid = u
            /\ lock[frames[u][k].class].held
            /\ lock[frames[u][k].class].done <=> frames[u][k].pc = "leave"
      BY <1>0 DEF RunInv
    <3>2. PICK c : c = frames'[u][i].class
      OBVIOUS
    <3>3. i \in 1..Len(frames[u]) /\ frames[u][i].pc \in RunPc /\ frames[u][i].class = c
          /\ (frames'[u][i].pc = "leave" <=> frames[u][i].pc = "leave")
      BY <2>2, <2>3, <3>2
    <3>4. /\ lock[c] # NULL /\ lock[c].initializing_tid = u /\ lock[c].held
          /\ lock[c].done <=> frames[u][i].pc = "leave"
      BY <3>1, <3>3
    <3> QED BY <3>2, <3>3, <3>4
  <2>4. ASSUME NEW u \in Thread, NEW i \in 1..Len(frames'[u]), frames'[u][i].pc \in RunPc,
               NEW j \in 1..Len(frames'[u]), frames'[u][j].pc \in RunPc,
               frames'[u][j].class = frames'[u][i].class
        PROVE  j = i
    BY <1>0, <2>2, <2>4 DEF RunInv
  <2> QED BY <2>3, <2>4 DEF RunInv
<1>10. FailInv'
  <2>1. lock[Cur(t)].initializing_tid = t
    BY <1>0, <1>3 DEF RunInv
  <2>2. ASSUME NEW u \in Thread, NEW i \in 1..Len(frames[u]), frames[u][i].pc \in RunPc,
               frames[u][i].class = Cur(t)
        PROVE  u = t /\ i = 1
    <3>1. u = t
      BY <1>0, <2>1, <2>2 DEF RunInv
    <3> QED BY <1>0, <1>3, <2>2, <3>1 DEF RunInv
  <2>3. ASSUME NEW u \in Thread, NEW i \in 1..Len(frames[u]), frames[u][i].pc \in RunPc,
               u # t \/ i # 1
        PROVE  /\ frames'[u][i] = frames[u][i]
               /\ init_failed'[frames[u][i].class] = init_failed[frames[u][i].class]
    <3>1. frames[u][i].class \in Class
      BY <1>0, TopFacts DEF Frame
    <3>2. frames[u][i].class # Cur(t)
      BY <2>2, <2>3
    <3>3. u # t \/ i \in 2..Len(frames[t])
      BY <2>3, <1>0, TopFacts
    <3> QED BY <3>1, <3>2, <3>3 DEF TopMoves
  <2>4. ASSUME NEW u \in Thread, NEW i \in 1..Len(frames'[u]), frames'[u][i].pc \in RunPc,
               init_failed'[frames'[u][i].class]
        PROVE  \/ frames'[u][i].pc = "store"
               \/ /\ frames'[u][i].pc \in {"done", "leave"}
                  /\ frames'[u][i].class \in type_init_exception'
    <3>1. i \in 1..Len(frames[u]) /\ frames[u][i].pc \in RunPc
      BY <1>2, <2>4 DEF SameRuns
    <3>2. CASE u = t /\ i = 1
      BY <1>3, <2>4, <3>2 DEF TopMoves
    <3>3. CASE u # t \/ i # 1
      BY <1>0, <2>3, <2>4, <3>1, <3>3 DEF FailInv
    <3> QED BY <3>2, <3>3
  <2> QED BY <2>4 DEF FailInv
<1>11. WaitInv'
  <2>1. ASSUME NEW u \in Thread, At(u, "wait")' \/ At(u, "finish")' PROVE u # t
    BY <1>6, <2>1 DEF RunPc
  <2> QED BY <1>0, <1>1, <1>7, <2>1 DEF WaitInv
<1>12. BlockedInv'
  <2>1. ASSUME NEW u \in Thread, At(u, "wait") \/ At(u, "finish") PROVE u # t
    BY <1>6, <2>1 DEF RunPc
  <2> QED BY <1>0, <1>1, <1>7, <2>1 DEF BlockedInv
<1>13. \A c \in Class : lock[c] # NULL => lock[c].initializing_tid \in Thread
  BY <1>0 DEF TypeOK, Lock
<1>14. LockInv'
  <2>1. ASSUME NEW u \in Thread, NEW c \in Class, Runs(u, c) PROVE Runs(u, c)'
    BY <1>2, <2>1 DEF Runs, SameRuns
  <2> QED BY <1>0, <1>13, <2>1 DEF LockInv
<1>15. CauseInv'
  <2>1. lock[Cur(t)].held /\ frames[t] # <<>>
    BY <1>0, <1>3 DEF RunInv, Busy
  <2> QED BY <1>0, <1>1, <1>13, <2>1 DEF CauseInv
<1>16. CountInv'
  <2>1. ASSUME NEW c \in Class PROVE Holders(c)' = Holders(c)
    <3>1. t \in Holders(c)' <=> t \in Holders(c)
      BY <1>0, <1>3, HolderIs, MovedHolders DEF RunPc, HolderPc
    <3> QED BY <1>1, <3>1, OtherHolders
  <2> QED BY <1>0, <2>1 DEF CountInv
<1> QED BY <1>4, <1>5, <1>8, <1>9, <1>10, <1>11, <1>12, <1>14, <1>15, <1>16 DEF IInv
-----------------------------------------------------------------------------
\* A step of a thread whose innermost call runs no constructor, which changes
\* at most the number of threads that use a lock.
LEMMA WaiterMove ==
    ASSUME IInv, NEW t \in Thread, NEW pc \in Pcs \ RunPc, TopMoves(t, pc),
           frames[t][1].pc \notin RunPc,
           UNCHANGED <<vtableVars, calls>>,
           \A c \in Class : /\ lock'[c] # NULL <=> lock[c] # NULL
                            /\ lock[c] # NULL =>
                                 /\ lock'[c].initializing_tid = lock[c].initializing_tid
                                 /\ lock'[c].done = lock[c].done
                                 /\ lock'[c].held = lock[c].held
    PROVE  StackInv' /\ RunInv' /\ FailInv' /\ LockInv' /\ CauseInv'
<1>0. TypeOK /\ StackInv /\ RunInv /\ FailInv
      /\ LockInv /\ CauseInv /\ frames \in [Thread -> Seq(Frame)]
  BY DEF IInv, TypeOK
<1>1. \A u \in Thread \ {t} : frames'[u] = frames[u]
  BY DEF TopMoves
<1>2. SameRuns
  BY <1>0, MoveRuns
<1>3. \A u \in Thread : \A i \in 1..Len(frames[u]) :
        /\ frames[u][i].class \in Class
        /\ frames'[u][i].pc \in RunPc => frames'[u][i].pc = frames[u][i].pc
  <2>1. \A i \in 1..Len(frames[t]) : i = 1 \/ i \in 2..Len(frames[t])
    BY <1>0, TopFacts
  <2>2. \A u \in Thread : \A i \in 1..Len(frames[u]) : frames[u][i].class \in Class
    BY <1>0, TopFacts DEF Frame
  <2> QED BY <1>1, <2>1, <2>2 DEF TopMoves
<1>4. StackInv'
  BY <1>0, MoveStack
<1>5. RunInv'
  <2>1. ASSUME NEW u \in Thread, NEW i \in 1..Len(frames[u]), frames'[u][i].pc \in RunPc
        PROVE  /\ lock'[frames'[u][i].class] # NULL
               /\ lock'[frames'[u][i].class].initializing_tid = u
               /\ lock'[frames'[u][i].class].held
               /\ lock'[frames'[u][i].class].done <=> frames'[u][i].pc = "leave"
    <3>1. /\ frames[u][i].pc = frames'[u][i].pc /\ frames[u][i].pc \in RunPc
          /\ frames[u][i].class = frames'[u][i].class /\ frames[u][i].class \in Class
      BY <1>2, <1>3, <2>1 DEF SameRuns
    <3>2. PICK c \in Class : c = frames[u][i].class
      BY <3>1
    <3>3. /\ lock[c] # NULL /\ lock[c].initializing_tid = u /\ lock[c].held
          /\ lock[c].done <=> frames[u][i].pc = "leave"
      BY <1>0, <3>1, <3>2 DEF RunInv
    <3> QED BY <3>1, <3>2, <3>3
  <2>2. ASSUME NEW u \in Thread, NEW i \in 1..Len(frames[u]), NEW j \in 1..Len(frames[u]),
               frames'[u][i].pc \in RunPc, frames'[u][j].pc \in RunPc,
               frames'[u][j].class = frames'[u][i].class
        PROVE  j = i
    BY <1>0, <1>2, <2>2 DEF RunInv, SameRuns
  <2> QED BY <1>2, <2>1, <2>2 DEF RunInv, SameRuns
<1>6. FailInv'
  <2>1. ASSUME NEW u \in Thread, NEW i \in 1..Len(frames'[u]), frames'[u][i].pc \in RunPc
        PROVE  /\ i \in 1..Len(frames[u]) /\ frames[u][i].pc = frames'[u][i].pc
               /\ frames[u][i].class = frames'[u][i].class
    BY <1>2, <1>3, <2>1 DEF SameRuns
  <2>2. UNCHANGED <<init_failed, type_init_exception>>
    BY DEF vtableVars
  <2>3. ASSUME NEW u \in Thread, NEW i \in 1..Len(frames'[u]), frames'[u][i].pc \in RunPc,
               init_failed'[frames'[u][i].class]
        PROVE  \/ frames'[u][i].pc = "store"
               \/ /\ frames'[u][i].pc \in {"done", "leave"}
                  /\ frames'[u][i].class \in type_init_exception'
    BY <1>0, <2>1, <2>2, <2>3, ZenonT(30) DEF FailInv
  <2> QED BY <2>3 DEF FailInv
<1>7. \A c \in Class : lock[c] # NULL => lock[c].initializing_tid \in Thread
  BY <1>0 DEF TypeOK, Lock
<1>8. LockInv'
  <2>1. ASSUME NEW u \in Thread, NEW c \in Class, Runs(u, c) PROVE Runs(u, c)'
    BY <1>2, <2>1 DEF Runs, SameRuns
  <2> QED BY <1>0, <1>7, <2>1 DEF LockInv, vtableVars
<1>9. CauseInv'
  <2>1. frames[t] # <<>>
    BY <1>0, TopFacts DEF TopMoves, Busy
  <2> QED BY <1>0, <1>1, <1>7, <2>1 DEF CauseInv, vtableVars
<1> QED BY <1>4, <1>5, <1>6, <1>8, <1>9

\* The lock is free: the constructor ended.
LEMMA WaitStep ==
    ASSUME IInv, NEW t \in Thread, Wait(t)
    PROVE  IInv'
<1>0. TypeOK /\ StackInv /\ WalkInv /\ WaitInv /\ BlockedInv /\ LockInv /\ CountInv
      /\ frames \in [Thread -> Seq(Frame)]
  BY DEF IInv, TypeOK
<1>1. At(t, "wait") /\ ~lock[Cur(t)].held /\ UNCHANGED <<vtableVars, lockVars, calls>>
      /\ UNCHANGED checked_module_cctor
  BY DEF Wait
<1>2. TopMoves(t, "finish") /\ frames[t][1].pc = "wait"
  BY <1>0, <1>1, GotoFacts, TopFacts DEF Wait, At, Pcs
<1>3. StackInv' /\ RunInv' /\ FailInv' /\ LockInv' /\ CauseInv'
  BY <1>1, <1>2, WaiterMove DEF Pcs, RunPc, lockVars
<1>4. /\ \A p : At(t, p)' <=> p = "finish"
      /\ Cur(t)' = Cur(t) /\ Cur(t) \in Class
  BY <1>0, <1>2, AfterMove
<1>5. \A u \in Thread \ {t} : \A p : (At(u, p)' <=> At(u, p)) /\ Cur(u)' = Cur(u)
  BY <1>0, <1>2, AfterMove
<1>6. \A u \in Thread \ {t} : frames'[u] = frames[u]
  BY <1>2 DEF TopMoves
<1>7. TypeOK'
  BY <1>0, <1>1, <1>2 DEF TypeOK, TopMoves, vtableVars, lockVars
<1>8. WalkInv'
  BY <1>0, <1>1, <1>4, <1>5, <1>6 DEF WalkInv, lockVars
<1>9. WaitInv'
  <2>1. lock[Cur(t)] # NULL /\ lock[Cur(t)].done /\ blocked[t] = Cur(t)
    BY <1>0, <1>1, <1>4 DEF WaitInv, LockInv
  <2> QED BY <1>0, <1>1, <1>4, <1>5, <2>1 DEF WaitInv, lockVars
<1>10. BlockedInv'
  BY <1>0, <1>1, <1>4, <1>5 DEF BlockedInv, lockVars
<1>11. CountInv'
  <2>1. ASSUME NEW c \in Class PROVE Holders(c)' = Holders(c)
    <3>1. t \in Holders(c)' <=> t \in Holders(c)
      BY <1>0, <1>1, <1>2, HolderIs, MovedHolders DEF At, HolderPc
    <3> QED BY <1>6, <3>1, OtherHolders
  <2> QED BY <1>0, <1>1, <2>1 DEF CountInv, lockVars
<1> QED BY <1>3, <1>7, <1>8, <1>9, <1>10, <1>11 DEF IInv

\* The innermost call starts or goes on with the walk.
LEMMA WalkMove ==
    ASSUME IInv, NEW t \in Thread, TopMoves(t, "walk"), frames[t][1].pc \in {"enter", "walk"},
           section' = t, frames'[t][1].cursor \in Thread, section \in {NULL, t},
           lock[Cur(t)] # NULL, lock[Cur(t)].initializing_tid # t,
           UNCHANGED <<vtableVars, lock, blocked, checked_module_cctor, calls>>
    PROVE  IInv'
<1>0. TypeOK /\ StackInv /\ WalkInv /\ WaitInv /\ BlockedInv /\ LockInv /\ CountInv
      /\ frames \in [Thread -> Seq(Frame)]
  BY DEF IInv, TypeOK
<1>1. StackInv' /\ RunInv' /\ FailInv' /\ LockInv' /\ CauseInv'
  BY WaiterMove DEF Pcs, RunPc
<1>2. Busy(t) /\ Head(frames[t]) = frames[t][1] /\ Head(frames'[t]) = frames'[t][1]
  BY <1>0, TopFacts DEF TopMoves
<1>3. /\ \A p : At(t, p)' <=> p = "walk"
      /\ Cur(t)' = Cur(t) /\ Cur(t) \in Class
  BY <1>0, AfterMove
<1>4. \A u \in Thread \ {t} : \A p : (At(u, p)' <=> At(u, p)) /\ Cur(u)' = Cur(u)
  BY <1>0, AfterMove
<1>5. \A u \in Thread \ {t} : frames'[u] = frames[u]
  BY DEF TopMoves
<1>6. TypeOK'
  BY <1>0 DEF TypeOK, TopMoves, vtableVars
<1>7. WalkInv'
  <2>1. ASSUME NEW u \in Thread \ {t} PROVE ~At(u, "walk")
    BY <1>0, ClassAssumption DEF WalkInv
  <2> QED BY <1>0, <1>2, <1>3, <1>4, <2>1 DEF WalkInv
<1>8. ~At(t, "wait") /\ ~At(t, "finish")
  BY <1>2 DEF At
<1>9. WaitInv'
  BY <1>0, <1>3, <1>4 DEF WaitInv
<1>10. BlockedInv'
  BY <1>0, <1>4, <1>8 DEF BlockedInv
<1>11. CountInv'
  <2>1. ASSUME NEW c \in Class PROVE Holders(c)' = Holders(c)
    <3>1. t \in Holders(c)' <=> t \in Holders(c)
      BY <1>0, <1>2, HolderIs, MovedHolders DEF HolderPc
    <3> QED BY <1>5, <3>1, OtherHolders
  <2> QED BY <1>0, <2>1 DEF CountInv
<1> QED BY <1>1, <1>6, <1>7, <1>9, <1>10, <1>11 DEF IInv
-----------------------------------------------------------------------------
\* The number of threads that use a lock.
LEMMA HolderCount ==
    ASSUME NEW S \in SUBSET Thread, NEW t \in Thread
    PROVE  /\ IsFiniteSet(S) /\ Cardinality(S) \in Nat /\ Cardinality(S) <= Cardinality(Thread)
           /\ Cardinality(Thread) \in Nat
           /\ t \notin S => /\ Cardinality(S \cup {t}) = Cardinality(S) + 1
                            /\ Cardinality(S \cup {t}) <= Cardinality(Thread)
           /\ t \in S => /\ Cardinality(S \ {t}) = Cardinality(S) - 1
                         /\ Cardinality(S) = 1 => S = {t}
<1>1. IsFiniteSet(Thread)
  BY ClassAssumption
<1>2. IsFiniteSet(S) /\ Cardinality(S) <= Cardinality(Thread)
  BY <1>1, FS_Subset
<1>3. Cardinality(S) \in Nat /\ Cardinality(Thread) \in Nat
  BY <1>1, <1>2, FS_CardinalityType
<1>4. S \cup {t} \in SUBSET Thread
  OBVIOUS
<1>5. Cardinality(S \cup {t}) <= Cardinality(Thread)
  BY <1>1, <1>4, FS_Subset
<1>6. t \notin S => Cardinality(S \cup {t}) = Cardinality(S) + 1
  BY <1>2, FS_AddElement
<1>7. t \in S => Cardinality(S \ {t}) = Cardinality(S) - 1
  BY <1>2, FS_RemoveElement
<1>8. ASSUME t \in S, Cardinality(S) = 1 PROVE S = {t}
  <2>1. PICK x : S = {x}
    BY <1>2, <1>8, FS_Singleton
  <2> QED BY <1>8, <2>1
<1> QED BY <1>2, <1>3, <1>5, <1>6, <1>7, <1>8

\* A constructor that an outer call runs.
LEMMA OuterRuns ==
    ASSUME TypeOK, RunInv, NEW t \in Thread, NEW c, Outer(t, c)
    PROVE  lock[c] # NULL /\ lock[c].initializing_tid = t /\ lock[c].held /\ ~lock[c].done
<1>1. PICK i \in 2..Len(frames[t]) : frames[t][i].pc = "run" /\ frames[t][i].class = c
  BY DEF Outer
<1>2. i \in 1..Len(frames[t]) /\ frames[t][i].pc \in RunPc
  BY <1>1, TopFacts DEF RunPc, TypeOK
<1> QED BY <1>1, <1>2 DEF RunInv

\* The thread is not in a cycle: it registers as a waiter.
LEMMA RegisterStep ==
    ASSUME IInv, NEW t \in Thread, At(t, "walk"), Register(t),
           UNCHANGED <<vtableVars, checked_module_cctor, calls>>
    PROVE  IInv'
<1>0. TypeOK /\ StackInv /\ WalkInv /\ RunInv /\ WaitInv /\ BlockedInv /\ LockInv /\ CountInv
      /\ frames \in [Thread -> Seq(Frame)]
  BY DEF IInv, TypeOK
<1>1. /\ Busy(t) /\ Head(frames[t]) = frames[t][1] /\ frames[t][1].pc = "walk"
      /\ frames[t][1] \in Frame /\ Cur(t) = frames[t][1].class /\ Cur(t) \in Class
  BY <1>0, TopFacts DEF At
<1>c. PICK c \in Class : c = Cur(t)
  BY <1>1
<1>2. TopMoves(t, "wait")
  <2> DEFINE f == [frames[t][1] EXCEPT !.pc = "wait", !.cursor = NULL]
  <2>1. f \in Frame /\ f.class = Cur(t) /\ f.pc = "wait"
    BY <1>1 DEF Frame, Pcs
  <2>2. frames' = [frames EXCEPT ![t] = [frames[t] EXCEPT ![1] = f]]
    BY <1>0, <1>1 DEF Register
  <2> HIDE DEF f
  <2> QED BY <1>0, <1>1, <2>1, <2>2, TopFrame, ZenonT(30)
<1>3. /\ section = t /\ lock[c] # NULL /\ lock[c] \in Lock /\ lock[c].initializing_tid # t
      /\ c \in Cctor
  BY <1>0, <1>c DEF WalkInv, TypeOK, LockInv
<1>4. /\ lock' = [lock EXCEPT ![c] = [lock[c] EXCEPT !.waiting_count = @ + 1]]
      /\ blocked' = [blocked EXCEPT ![t] = c] /\ section' = NULL
  BY <1>c DEF Register
<1>5. /\ \A p : At(t, p)' <=> p = "wait"
      /\ Cur(t)' = c
  BY <1>0, <1>2, <1>c, AfterMove
<1>6. \A u \in Thread \ {t} : \A p : (At(u, p)' <=> At(u, p)) /\ Cur(u)' = Cur(u)
  BY <1>0, <1>2, AfterMove
<1>7. \A u \in Thread \ {t} : frames'[u] = frames[u]
  BY <1>2 DEF TopMoves
<1>8. t \notin Holders(c) /\ t \in Holders(c)'
  <2>1. ~Outer(t, c)
    BY <1>0, <1>3, OuterRuns
  <2>2. t \notin Holders(c)
    BY <1>0, <1>1, <2>1, HolderIs DEF HolderPc
  <2>3. t \in Holders(c)'
    BY <1>0, <1>2, <1>c, MovedHolders DEF HolderPc
  <2> QED BY <2>2, <2>3
<1>9. Holders(c)' = Holders(c) \cup {t} /\ \A b \in Class \ {c} : Holders(b)' = Holders(b)
  <2>1. ASSUME NEW b \in Class \ {c} PROVE Holders(b)' = Holders(b)
    <3>1. t \in Holders(b)' <=> t \in Holders(b)
      BY <1>0, <1>1, <1>2, <1>c, HolderIs, MovedHolders DEF HolderPc
    <3> QED BY <1>7, <3>1, OtherHolders
  <2>2. Holders(c)' = Holders(c) \cup {t}
    BY <1>7, <1>8, OtherHolders
  <2> QED BY <2>1, <2>2
<1>10. /\ Cardinality(Holders(c)) = lock[c].waiting_count
       /\ Cardinality(Holders(c)') = lock[c].waiting_count + 1
       /\ lock[c].waiting_count + 1 \in 1..Cardinality(Thread)
  <2>1. Holders(c) \in SUBSET Thread
    BY DEF Holders
  <2>2. Cardinality(Holders(c)) = lock[c].waiting_count
    BY <1>0, <1>1, <1>3 DEF CountInv
  <2> QED BY <1>8, <1>9, <2>1, <2>2, HolderCount
<1>11. /\ lock'[c] \in Lock /\ lock'[c].waiting_count = lock[c].waiting_count + 1
       /\ lock'[c].initializing_tid = lock[c].initializing_tid
       /\ lock'[c].done = lock[c].done /\ lock'[c].held = lock[c].held
       /\ \A b \in Class \ {c} : lock'[b] = lock[b]
       /\ lock' \in [Class -> Lock \cup {NULL}]
  BY <1>0, <1>1, <1>3, <1>4, <1>10 DEF TypeOK, Lock
<1>12. lock'[c] # NULL
  BY <1>11, NullAssumption
<1>13. StackInv' /\ RunInv' /\ FailInv' /\ LockInv' /\ CauseInv'
  <2>1. \A b \in Class : /\ lock'[b] # NULL <=> lock[b] # NULL
                         /\ lock[b] # NULL =>
                              /\ lock'[b].initializing_tid = lock[b].initializing_tid
                              /\ lock'[b].done = lock[b].done
                              /\ lock'[b].held = lock[b].held
    BY <1>3, <1>11, <1>12
  <2>2. frames[t][1].pc \notin RunPc /\ "wait" \in Pcs \ RunPc
    BY <1>1 DEF RunPc, Pcs
  <2> QED BY <1>2, <2>1, <2>2, WaiterMove
<1>14. TypeOK'
  BY <1>0, <1>1, <1>2, <1>4, <1>11 DEF TypeOK, TopMoves, vtableVars
<1>15. WalkInv'
  <2>1. ASSUME NEW u \in Thread \ {t} PROVE ~At(u, "walk")
    BY <1>0, <1>3 DEF WalkInv
  <2> QED BY <1>5, <1>6, <2>1 DEF WalkInv
<1>16. ~At(t, "wait") /\ ~At(t, "finish") /\ blocked'[t] = c
       /\ \A u \in Thread \ {t} : blocked'[u] = blocked[u]
  BY <1>0, <1>1, <1>4 DEF At, TypeOK
<1>17. \A u \in Thread : Busy(u) => Cur(u) \in Class
  BY <1>0, TopFacts
<1>18. WaitInv'
  <2>1. ASSUME NEW u \in Thread \ {t}, At(u, "wait") \/ At(u, "finish")
        PROVE  /\ lock'[Cur(u)] # NULL
               /\ At(u, "wait") => lock'[Cur(u)].initializing_tid # u
               /\ At(u, "finish") => lock'[Cur(u)].done /\ ~lock'[Cur(u)].held
               /\ lock'[Cur(u)].initializing_tid # u => blocked'[u] = Cur(u)
    <3>1. Cur(u) \in Class
      BY <1>17, <2>1 DEF At
    <3> QED BY <1>0, <1>11, <1>12, <1>16, <2>1, <3>1 DEF WaitInv
  <2>2. lock'[c].initializing_tid # t
    BY <1>3, <1>11
  <2> QED BY <1>5, <1>6, <1>12, <1>16, <2>1, <2>2 DEF WaitInv
<1>19. BlockedInv'
  <2>1. ASSUME NEW u \in Thread \ {t}, blocked[u] # NULL
        PROVE  /\ At(u, "wait") \/ At(u, "finish")
               /\ blocked[u] = Cur(u)
               /\ lock'[blocked[u]].initializing_tid # u
    <3>1. blocked[u] \in Class
      BY <1>0, <2>1 DEF TypeOK
    <3>2. /\ At(u, "wait") \/ At(u, "finish")
          /\ blocked[u] = Cur(u) /\ lock[blocked[u]].initializing_tid # u
      BY <1>0, <2>1 DEF BlockedInv
    <3>3. lock'[blocked[u]].initializing_tid = lock[blocked[u]].initializing_tid
      BY <1>11, <3>1
    <3> QED BY <3>2, <3>3
  <2> QED BY <1>3, <1>5, <1>6, <1>11, <1>16, <2>1 DEF BlockedInv
<1>20. CountInv'
  BY <1>0, <1>9, <1>10, <1>11, <1>12 DEF CountInv
<1> QED BY <1>13, <1>14, <1>15, <1>18, <1>19, <1>20 DEF IInv
-----------------------------------------------------------------------------
\* No other call runs the constructor that the innermost call of t runs.
LEMMA OneRunner ==
    ASSUME TypeOK, RunInv, NEW t \in Thread, Busy(t), frames[t][1].pc \in RunPc,
           NEW u \in Thread, NEW i \in 1..Len(frames[u]), frames[u][i].pc \in RunPc,
           frames[u][i].class = frames[t][1].class
    PROVE  u = t /\ i = 1
<1>1. 1 \in 1..Len(frames[t])
  BY TopFacts DEF TypeOK
<1>2. lock[frames[t][1].class].initializing_tid = t
  BY <1>1 DEF RunInv
<1>3. u = t
  BY <1>2 DEF RunInv
<1> QED BY <1>1, <1>3 DEF RunInv

\* The first thread runs the constructor, under a new lock.
LEMMA EnterFirstStep ==
    ASSUME IInv, NEW t \in Thread, EnterFirst(t)
    PROVE  IInv'
<1>0. TypeOK /\ StackInv /\ WalkInv /\ RunInv /\ FailInv /\ WaitInv /\ BlockedInv /\ LockInv
      /\ CauseInv /\ CountInv /\ frames \in [Thread -> Seq(Frame)]
  BY DEF IInv, TypeOK
<1>1. /\ Busy(t) /\ Head(frames[t]) = frames[t][1] /\ frames[t][1].pc = "enter"
      /\ frames[t][1] \in Frame /\ Cur(t) = frames[t][1].class /\ Cur(t) \in Class
      /\ 1 \in 1..Len(frames[t])
  BY <1>0, TopFacts DEF EnterFirst, First, Entering, At
<1>c. PICK c \in Class : c = Cur(t)
  BY <1>1
<1>2. TopMoves(t, "run")
  <2> DEFINE f == [frames[t][1] EXCEPT !.pc = "run", !.todo = Needs[Cur(t)]]
  <2>1. Needs[Cur(t)] \in SUBSET Class
    BY ClassAssumption DEF EnterFirst, First, Entering
  <2>2. f \in Frame /\ f.class = Cur(t) /\ f.pc = "run"
    BY <1>1, <2>1 DEF Frame, Pcs
  <2>3. frames' = [frames EXCEPT ![t] = [frames[t] EXCEPT ![1] = f]]
    BY <1>0, <1>1 DEF EnterFirst
  <2> HIDE DEF f
  <2> QED BY <1>0, <1>1, <2>2, <2>3, TopFrame, ZenonT(30)
<1>3. /\ section = NULL /\ lock[c] = NULL /\ c \in Cctor /\ ~initialized[c] /\ ~init_failed[c]
  BY <1>c DEF EnterFirst, First, Entering
<1>4. UNCHANGED <<initialized, init_failed, type_init_exception, blocked, section,
                  checked_module_cctor, calls>>
  BY DEF EnterFirst, vtableVars
<1>5. Holders(c) = {} /\ 1 \in 1..Cardinality(Thread)
  <2>1. Holders(c) = {}
    BY <1>0, <1>3 DEF CountInv
  <2>2. {} \in SUBSET Thread
    OBVIOUS
  <2>3. Cardinality({} \cup {t}) = Cardinality({}) + 1 /\ Cardinality({} \cup {t}) <= Cardinality(Thread)
        /\ Cardinality(Thread) \in Nat
    BY <2>2, HolderCount
  <2> QED BY <2>1, <2>3, FS_EmptySet
<1>6. /\ lock'[c] \in Lock /\ lock'[c].waiting_count = 1 /\ lock'[c].initializing_tid = t
      /\ lock'[c].done = FALSE /\ lock'[c].held = TRUE
      /\ \A b \in Class \ {c} : lock'[b] = lock[b]
      /\ lock' \in [Class -> Lock \cup {NULL}]
  <2>1. lock' = [lock EXCEPT ![c] = [initializing_tid |-> t, waiting_count |-> 1,
                                     done |-> FALSE, held |-> TRUE]]
    BY <1>c DEF EnterFirst
  <2> QED BY <1>0, <1>5, <2>1 DEF TypeOK, Lock
<1>7. lock'[c] # NULL
  BY <1>6, NullAssumption
<1>8. \A u \in Thread \ {t} : \A p : (At(u, p)' <=> At(u, p)) /\ Cur(u)' = Cur(u)
  BY <1>0, <1>2, AfterMove
<1>9. \A p : At(t, p)' <=> p = "run"
  BY <1>0, <1>2, AfterMove
<1>10. \A u \in Thread \ {t} : frames'[u] = frames[u]
  BY <1>2 DEF TopMoves
<1>11. TypeOK'
  BY <1>0, <1>2, <1>4, <1>6 DEF TypeOK, TopMoves
<1>12. StackInv'
  BY <1>0, <1>2, MoveStack
<1>13. \A u \in Thread : ~At(u, "walk")
  BY <1>0, <1>3, ClassAssumption DEF WalkInv
<1>14. WalkInv'
  BY <1>8, <1>9, <1>13 DEF WalkInv
<1>15. ASSUME NEW u \in Thread, NEW i \in 1..Len(frames'[u]), frames'[u][i].pc \in RunPc
       PROVE  \/ u = t /\ i = 1 /\ frames'[u][i].pc = "run" /\ frames'[u][i].class = c
              \/ /\ i \in 1..Len(frames[u]) /\ frames'[u][i] = frames[u][i]
                 /\ frames[u][i].pc \in RunPc
                 /\ frames[u][i].class \in Class \ {c}
  <2>1. CASE u = t /\ i = 1
    BY <1>1, <1>2, <1>c, <2>1 DEF TopMoves
  <2>2. CASE u # t \/ i # 1
    <3>1. Len(frames'[u]) = Len(frames[u]) /\ Len(frames[u]) \in Nat
      BY <1>0, <1>2, <1>10, TopFacts DEF TopMoves
    <3>2. i \in 1..Len(frames[u]) /\ (u = t => i \in 2..Len(frames[t]))
      BY <2>2, <3>1
    <3>3. frames'[u][i] = frames[u][i]
      BY <1>2, <1>10, <3>2 DEF TopMoves
    <3>4. frames[u][i].class \in Class
      BY <1>0, <3>2, TopFacts DEF Frame
    <3>5. frames[u][i].class # c
      BY <1>0, <1>3, <1>15, <3>2, <3>3 DEF RunInv
    <3> QED BY <1>15, <3>2, <3>3, <3>4, <3>5
  <2> QED BY <2>1, <2>2
<1>16. RunInv'
  <2>1. ASSUME NEW u \in Thread, NEW i \in 1..Len(frames'[u]), frames'[u][i].pc \in RunPc
        PROVE  /\ lock'[frames'[u][i].class] # NULL
               /\ lock'[frames'[u][i].class].initializing_tid = u
               /\ lock'[frames'[u][i].class].held
               /\ lock'[frames'[u][i].class].done <=> frames'[u][i].pc = "leave"
    <3>1. CASE u = t /\ i = 1 /\ frames'[u][i].pc = "run" /\ frames'[u][i].class = c
      BY <1>6, <1>7, <3>1
    <3>2. CASE /\ i \in 1..Len(frames[u]) /\ frames'[u][i] = frames[u][i]
               /\ frames[u][i].pc \in RunPc
               /\ frames[u][i].class \in Class \ {c}
      BY <1>0, <1>6, <3>2 DEF RunInv
    <3> QED BY <1>15, <2>1, <3>1, <3>2
  <2>2. ASSUME NEW u \in Thread, NEW i \in 1..Len(frames'[u]), NEW j \in 1..Len(frames'[u]),
               frames'[u][i].pc \in RunPc, frames'[u][j].pc \in RunPc,
               frames'[u][j].class = frames'[u][i].class
        PROVE  j = i
    <3>1. CASE frames'[u][i].class = c
      BY <1>15, <2>2, <3>1
    <3>2. CASE frames'[u][i].class # c
      <4>1. /\ i \in 1..Len(frames[u]) /\ frames'[u][i] = frames[u][i]
            /\ j \in 1..Len(frames[u]) /\ frames'[u][j] = frames[u][j]
        BY <1>15, <2>2, <3>2
      <4> QED BY <1>0, <2>2, <4>1 DEF RunInv
    <3> QED BY <3>1, <3>2
  <2> QED BY <2>1, <2>2 DEF RunInv
<1>17. FailInv'
  <2>1. ASSUME NEW u \in Thread, NEW i \in 1..Len(frames'[u]), frames'[u][i].pc \in RunPc,
               init_failed'[frames'[u][i].class]
        PROVE  \/ frames'[u][i].pc = "store"
               \/ /\ frames'[u][i].pc \in {"done", "leave"}
                  /\ frames'[u][i].class \in type_init_exception'
    <3>1. i \in 1..Len(frames[u]) /\ frames'[u][i] = frames[u][i]
      BY <1>3, <1>4, <1>15, <2>1
    <3> QED BY <1>0, <1>4, <2>1, <3>1 DEF FailInv
  <2> QED BY <2>1 DEF FailInv
<1>18. ASSUME NEW u \in Thread, At(u, "wait") \/ At(u, "finish")
       PROVE  u # t /\ Cur(u) \in Class \ {c}
  <2>1. u # t
    BY <1>1, <1>18 DEF At
  <2>2. Cur(u) \in Class /\ lock[Cur(u)] # NULL
    BY <1>0, <1>18, TopFacts DEF WaitInv, At
  <2> QED BY <1>3, <2>1, <2>2
<1>19. WaitInv'
  <2>1. ASSUME NEW u \in Thread, At(u, "wait")' \/ At(u, "finish")'
        PROVE  /\ lock'[Cur(u)'] # NULL
               /\ At(u, "wait")' => lock'[Cur(u)'].initializing_tid # u
               /\ At(u, "finish")' => lock'[Cur(u)'].done /\ ~lock'[Cur(u)'].held
               /\ lock'[Cur(u)'].initializing_tid # u => blocked'[u] = Cur(u)'
    <3>1. u # t
      BY <1>9, <2>1
    <3>2. Cur(u)' = Cur(u) /\ (At(u, "wait")' <=> At(u, "wait"))
          /\ (At(u, "finish")' <=> At(u, "finish"))
      BY <1>8, <3>1
    <3>3. lock'[Cur(u)] = lock[Cur(u)]
      BY <1>6, <1>18, <2>1, <3>2
    <3> QED BY <1>0, <1>4, <2>1, <3>2, <3>3 DEF WaitInv
  <2> QED BY <2>1 DEF WaitInv
<1>20. BlockedInv'
  <2>1. ASSUME NEW u \in Thread, blocked[u] # NULL
        PROVE  /\ At(u, "wait")' \/ At(u, "finish")'
               /\ blocked[u] = Cur(u)'
               /\ lock'[blocked[u]].initializing_tid # u
    <3>1. (At(u, "wait") \/ At(u, "finish")) /\ blocked[u] = Cur(u)
          /\ lock[blocked[u]].initializing_tid # u
      BY <1>0, <2>1 DEF BlockedInv
    <3>2. u # t /\ lock'[blocked[u]] = lock[blocked[u]]
      BY <1>6, <1>18, <3>1
    <3> QED BY <1>8, <3>1, <3>2
  <2> QED BY <1>4, <2>1 DEF BlockedInv
<1>21. \A b \in Class : lock[b] # NULL => lock[b].initializing_tid \in Thread
  BY <1>0 DEF TypeOK, Lock
<1>22. LockInv'
  <2>1. ASSUME NEW u \in Thread, NEW b \in Class, Runs(u, b) PROVE Runs(u, b)'
    <3>1. PICK i \in 1..Len(frames[u]) : frames[u][i].pc \in RunPc /\ frames[u][i].class = b
      BY <2>1 DEF Runs
    <3>2. u = t => i # 1
      BY <1>1, <3>1 DEF RunPc
    <3>3. i \in 1..Len(frames'[u]) /\ frames'[u][i] = frames[u][i]
      <4>1. CASE u # t
        BY <1>10, <4>1
      <4>2. CASE u = t
        <5>1. i \in 2..Len(frames[t])
          BY <1>0, <3>2, <4>2, TopFacts
        <5> QED BY <1>2, <4>2, <5>1 DEF TopMoves
      <4> QED BY <4>1, <4>2
    <3> QED BY <3>1, <3>3 DEF Runs
  <2>2. Runs(t, c)'
    BY <1>1, <1>2, <1>c DEF Runs, TopMoves, RunPc
  <2>3. ASSUME NEW b \in Class, lock'[b] # NULL
        PROVE  /\ b \in Cctor
               /\ ~lock'[b].held => lock'[b].done
               /\ ~lock'[b].done => ~initialized'[b]
               /\ ~lock'[b].done => \A u \in Thread : lock'[b].initializing_tid = u => Runs(u, b)'
    <3>1. CASE b = c
      BY <1>3, <1>4, <1>6, <2>2, <3>1
    <3>2. CASE b # c
      <4>1. lock'[b] = lock[b]
        BY <1>6, <3>2
      <4>2. ~lock[b].done => \A u \in Thread : lock[b].initializing_tid = u => Runs(u, b)'
        BY <1>0, <1>21, <2>1, <2>3, <4>1 DEF LockInv
      <4> QED BY <1>0, <1>4, <2>3, <4>1, <4>2 DEF LockInv
    <3> QED BY <3>1, <3>2
  <2> QED BY <2>3 DEF LockInv
<1>23. CauseInv'
  <2>1. frames[t] # <<>>
    BY <1>1 DEF Busy
  <2> QED BY <1>0, <1>4, <1>6, <1>10, <1>21, <2>1 DEF CauseInv
<1>24. CountInv'
  <2>1. ASSUME NEW b \in Class \ {c} PROVE Holders(b)' = Holders(b)
    <3>1. t \in Holders(b)' <=> t \in Holders(b)
      BY <1>0, <1>1, <1>2, <1>c, HolderIs, MovedHolders DEF HolderPc
    <3> QED BY <1>10, <3>1, OtherHolders
  <2>2. t \in Holders(c)'
    BY <1>0, <1>2, <1>c, MovedHolders DEF HolderPc
  <2>3. Holders(c)' = {t}
    BY <1>5, <1>10, <2>2, OtherHolders
  <2>4. Cardinality({t}) = 1
    BY FS_Singleton
  <2> QED BY <1>0, <1>6, <1>7, <2>1, <2>3, <2>4 DEF CountInv
<1> QED BY <1>11, <1>12, <1>14, <1>16, <1>17, <1>19, <1>20, <1>22, <1>23, <1>24 DEF IInv
-----------------------------------------------------------------------------
\* The constructor ended: the lock is done, and then left.
LEMMA EndMove ==
    ASSUME IInv, NEW t \in Thread, NEW pc, TopMoves(t, pc), NEW c \in Class, c = Cur(t),
           \/ frames[t][1].pc = "done" /\ pc = "leave"
           \/ frames[t][1].pc = "leave" /\ pc = "finish",
           lock' = [lock EXCEPT ![c] = [lock[c] EXCEPT !.done = TRUE, !.held = (pc = "leave")]],
           UNCHANGED <<vtableVars, blocked, section, checked_module_cctor, calls>>
    PROVE  IInv'
<1>0. TypeOK /\ StackInv /\ WalkInv /\ RunInv /\ FailInv /\ WaitInv /\ BlockedInv /\ LockInv
      /\ CauseInv /\ CountInv /\ frames \in [Thread -> Seq(Frame)]
  BY DEF IInv, TypeOK
<1>1. /\ Busy(t) /\ Head(frames[t]) = frames[t][1] /\ frames[t][1].pc \in RunPc
      /\ c = frames[t][1].class /\ 1 \in 1..Len(frames[t])
  BY <1>0, TopFacts DEF TopMoves, RunPc
<1>2. UNCHANGED <<initialized, init_failed, type_init_exception, blocked, section,
                  checked_module_cctor, calls>>
  BY DEF vtableVars
<1>3. lock[c] # NULL /\ lock[c] \in Lock /\ lock[c].initializing_tid = t /\ lock[c].held
  <2>1. lock[c] # NULL /\ lock[c].initializing_tid = t /\ lock[c].held
    BY <1>0, <1>1 DEF RunInv
  <2> QED BY <1>0, <2>1 DEF TypeOK
<1>4. /\ lock'[c] \in Lock /\ lock'[c].waiting_count = lock[c].waiting_count
      /\ lock'[c].initializing_tid = t
      /\ lock'[c].done = TRUE /\ lock'[c].held = (pc = "leave")
      /\ \A b \in Class \ {c} : lock'[b] = lock[b]
      /\ lock' \in [Class -> Lock \cup {NULL}]
  <2> DEFINE h == (pc = "leave")
             l == [lock[c] EXCEPT !.done = TRUE, !.held = h]
  <2>1. h \in BOOLEAN
    OBVIOUS
  <2>2. lock' = [lock EXCEPT ![c] = l]
    OBVIOUS
  <2> HIDE DEF h
  <2>3. l \in Lock /\ l.waiting_count = lock[c].waiting_count /\ l.initializing_tid = t
        /\ l.done = TRUE /\ l.held = h
    BY <1>3, <2>1 DEF Lock
  <2> HIDE DEF l
  <2>4. /\ lock'[c] = l /\ \A b \in Class \ {c} : lock'[b] = lock[b]
        /\ lock' \in [Class -> Lock \cup {NULL}]
    BY <1>0, <2>2, <2>3 DEF TypeOK
  <2> QED BY <2>3, <2>4 DEF h
<1>5. lock'[c] # NULL
  BY <1>4, NullAssumption
<1>6. \A b \in Class : /\ lock'[b] # NULL <=> lock[b] # NULL
                       /\ lock[b] # NULL =>
                            lock'[b].initializing_tid = lock[b].initializing_tid
  BY <1>3, <1>4, <1>5
<1>7. \A u \in Thread \ {t} : \A p : (At(u, p)' <=> At(u, p)) /\ Cur(u)' = Cur(u)
  BY <1>0, AfterMove
<1>8. (\A p : At(t, p)' <=> p = pc) /\ Cur(t)' = c
  BY <1>0, AfterMove
<1>9. \A u \in Thread \ {t} : frames'[u] = frames[u]
  BY DEF TopMoves
<1>10. TypeOK'
  BY <1>0, <1>2, <1>4 DEF TypeOK, TopMoves
<1>11. StackInv'
  BY <1>0, MoveStack
<1>12. \A u \in Thread : Busy(u) => Cur(u) \in Class
  BY <1>0, TopFacts
<1>13. WalkInv'
  <2>1. ASSUME NEW u \in Thread, At(u, "walk")'
        PROVE  /\ section' = u /\ Head(frames'[u]).cursor \in Thread
               /\ lock'[Cur(u)'] # NULL /\ lock'[Cur(u)'].initializing_tid # u
    <3>1. u # t
      BY <1>8, <2>1
    <3>2. At(u, "walk") /\ Cur(u)' = Cur(u) /\ Cur(u) \in Class
      BY <1>7, <1>12, <2>1, <3>1 DEF At
    <3> QED BY <1>0, <1>2, <1>6, <1>9, <3>1, <3>2 DEF WalkInv
  <2> QED BY <2>1 DEF WalkInv
<1>14. ASSUME NEW u \in Thread, NEW i \in 1..Len(frames'[u]), frames'[u][i].pc \in RunPc
       PROVE  \/ u = t /\ i = 1 /\ frames'[u][i].pc = "leave" /\ frames'[u][i].class = c /\ pc = "leave"
              \/ /\ i \in 1..Len(frames[u]) /\ frames'[u][i] = frames[u][i]
                 /\ frames[u][i].pc \in RunPc
                 /\ frames[u][i].class \in Class \ {c}
  <2>1. CASE u = t /\ i = 1
    BY <1>1, <1>14, <2>1 DEF TopMoves, RunPc
  <2>2. CASE u # t \/ i # 1
    <3>1. Len(frames'[u]) = Len(frames[u]) /\ Len(frames[u]) \in Nat
      BY <1>0, <1>9, TopFacts DEF TopMoves
    <3>2. i \in 1..Len(frames[u]) /\ (u = t => i \in 2..Len(frames[t]))
      BY <2>2, <3>1
    <3>3. frames'[u][i] = frames[u][i]
      BY <1>9, <3>2 DEF TopMoves
    <3>4. frames[u][i].class \in Class
      BY <1>0, <3>2, TopFacts DEF Frame
    <3>5. frames[u][i].class # c
      BY <1>0, <1>1, <1>14, <2>2, <3>2, <3>3, OneRunner
    <3> QED BY <1>14, <3>2, <3>3, <3>4, <3>5
  <2> QED BY <2>1, <2>2
<1>15. RunInv'
  <2>1. ASSUME NEW u \in Thread, NEW i \in 1..Len(frames'[u]), frames'[u][i].pc \in RunPc
        PROVE  /\ lock'[frames'[u][i].class] # NULL
               /\ lock'[frames'[u][i].class].initializing_tid = u
               /\ lock'[frames'[u][i].class].held
               /\ lock'[frames'[u][i].class].done <=> frames'[u][i].pc = "leave"
    <3>1. CASE u = t /\ i = 1 /\ frames'[u][i].pc = "leave" /\ frames'[u][i].class = c /\ pc = "leave"
      BY <1>4, <1>5, <3>1
    <3>2. CASE /\ i \in 1..Len(frames[u]) /\ frames'[u][i] = frames[u][i]
               /\ frames[u][i].pc \in RunPc
               /\ frames[u][i].class \in Class \ {c}
      BY <1>0, <1>4, <3>2 DEF RunInv
    <3> QED BY <1>14, <2>1, <3>1, <3>2
  <2>2. ASSUME NEW u \in Thread, NEW i \in 1..Len(frames'[u]), NEW j \in 1..Len(frames'[u]),
               frames'[u][i].pc \in RunPc, frames'[u][j].pc \in RunPc,
               frames'[u][j].class = frames'[u][i].class
        PROVE  j = i
    <3>1. CASE frames'[u][i].class = c
      BY <1>14, <2>2, <3>1
    <3>2. CASE frames'[u][i].class # c
      <4>1. /\ i \in 1..Len(frames[u]) /\ frames'[u][i] = frames[u][i]
            /\ j \in 1..Len(frames[u]) /\ frames'[u][j] = frames[u][j]
        BY <1>14, <2>2, <3>2
      <4> QED BY <1>0, <2>2, <4>1 DEF RunInv
    <3> QED BY <3>1, <3>2
  <2> QED BY <2>1, <2>2 DEF RunInv
<1>16. init_failed[c] => c \in type_init_exception
  BY <1>0, <1>1 DEF FailInv
<1>17. FailInv'
  <2>1. ASSUME NEW u \in Thread, NEW i \in 1..Len(frames'[u]), frames'[u][i].pc \in RunPc,
               init_failed'[frames'[u][i].class]
        PROVE  \/ frames'[u][i].pc = "store"
               \/ /\ frames'[u][i].pc \in {"done", "leave"}
                  /\ frames'[u][i].class \in type_init_exception'
    <3>1. CASE u = t /\ i = 1 /\ frames'[u][i].pc = "leave" /\ frames'[u][i].class = c /\ pc = "leave"
      BY <1>2, <1>16, <2>1, <3>1
    <3>2. CASE i \in 1..Len(frames[u]) /\ frames'[u][i] = frames[u][i]
      BY <1>0, <1>2, <2>1, <3>2 DEF FailInv
    <3> QED BY <1>14, <2>1, <3>1, <3>2
  <2> QED BY <2>1 DEF FailInv
<1>18. ~At(t, "wait") /\ ~At(t, "finish")
  BY <1>1 DEF At, RunPc
<1>19. WaitInv'
  <2>1. ASSUME NEW u \in Thread \ {t}, At(u, "wait") \/ At(u, "finish")
        PROVE  /\ lock'[Cur(u)] # NULL
               /\ At(u, "wait") => lock'[Cur(u)].initializing_tid # u
               /\ At(u, "finish") => lock'[Cur(u)].done /\ ~lock'[Cur(u)].held
               /\ lock'[Cur(u)].initializing_tid # u => blocked[u] = Cur(u)
    <3>1. Cur(u) \in Class
      BY <1>12, <2>1 DEF At
    <3>2. /\ lock[Cur(u)] # NULL
          /\ At(u, "wait") => lock[Cur(u)].initializing_tid # u
          /\ At(u, "finish") => lock[Cur(u)].done /\ ~lock[Cur(u)].held
          /\ lock[Cur(u)].initializing_tid # u => blocked[u] = Cur(u)
      BY <1>0, <2>1 DEF WaitInv
    <3> QED BY <1>3, <1>4, <1>6, <3>1, <3>2
  <2>2. At(t, "finish")' => lock'[c].done /\ ~lock'[c].held
    BY <1>4, <1>8
  <2> QED BY <1>2, <1>4, <1>5, <1>7, <1>8, <2>1, <2>2 DEF WaitInv
<1>20. BlockedInv'
  <2>1. ASSUME NEW u \in Thread, blocked[u] # NULL
        PROVE  /\ At(u, "wait")' \/ At(u, "finish")'
               /\ blocked[u] = Cur(u)'
               /\ lock'[blocked[u]].initializing_tid # u
    <3>1. (At(u, "wait") \/ At(u, "finish")) /\ blocked[u] = Cur(u)
          /\ lock[blocked[u]].initializing_tid # u
      BY <1>0, <2>1 DEF BlockedInv
    <3>2. u # t
      BY <1>18, <3>1
    <3>3. Cur(u) \in Class /\ lock[Cur(u)] # NULL
      BY <1>0, <1>12, <3>1 DEF At, WaitInv
    <3> QED BY <1>6, <1>7, <3>1, <3>2, <3>3
  <2> QED BY <1>2, <2>1 DEF BlockedInv
<1>21. LockInv'
  <2>1. ASSUME NEW u \in Thread, NEW b \in Class \ {c}, Runs(u, b) PROVE Runs(u, b)'
    <3>1. PICK i \in 1..Len(frames[u]) : frames[u][i].pc \in RunPc /\ frames[u][i].class = b
      BY <2>1 DEF Runs
    <3>2. u = t => i # 1
      BY <1>1, <3>1
    <3>3. i \in 1..Len(frames'[u]) /\ frames'[u][i] = frames[u][i]
      <4>1. CASE u # t
        BY <1>9, <4>1
      <4>2. CASE u = t
        <5>1. i \in 2..Len(frames[t])
          BY <1>0, <3>2, <4>2, TopFacts
        <5> QED BY <4>2, <5>1 DEF TopMoves
      <4> QED BY <4>1, <4>2
    <3> QED BY <3>1, <3>3 DEF Runs
  <2>2. ASSUME NEW b \in Class, lock'[b] # NULL
        PROVE  /\ b \in Cctor
               /\ ~lock'[b].held => lock'[b].done
               /\ ~lock'[b].done => ~initialized'[b]
               /\ ~lock'[b].done => \A u \in Thread : lock'[b].initializing_tid = u => Runs(u, b)'
    <3>1. CASE b = c
      BY <1>0, <1>3, <1>4, <3>1 DEF LockInv
    <3>2. CASE b # c
      <4>1. lock'[b] = lock[b]
        BY <1>4, <3>2
      <4>2. ~lock[b].done => \A u \in Thread : lock[b].initializing_tid = u => Runs(u, b)'
        BY <1>0, <2>1, <2>2, <3>2, <4>1 DEF LockInv
      <4> QED BY <1>0, <1>2, <2>2, <4>1, <4>2 DEF LockInv
    <3> QED BY <3>1, <3>2
  <2> QED BY <2>2 DEF LockInv
<1>22. CauseInv'
  <2>1. frames[t] # <<>>
    BY <1>1 DEF Busy
  <2>2. \A b \in Class : lock[b] # NULL => lock[b].initializing_tid \in Thread
    BY <1>0 DEF TypeOK, Lock
  <2> QED BY <1>0, <1>2, <1>4, <1>9, <1>16, <2>1, <2>2 DEF CauseInv
<1>23. CountInv'
  <2>1. ASSUME NEW b \in Class PROVE Holders(b)' = Holders(b)
    <3>1. t \in Holders(b)' <=> t \in Holders(b)
      BY <1>0, <1>1, HolderIs, MovedHolders DEF HolderPc, RunPc
    <3> QED BY <1>9, <3>1, OtherHolders
  <2> QED BY <1>0, <1>3, <1>4, <1>5, <2>1 DEF CountInv
<1> QED BY <1>10, <1>11, <1>13, <1>15, <1>17, <1>19, <1>20, <1>21, <1>22, <1>23 DEF IInv
-----------------------------------------------------------------------------
\* A thread that is at "wait" or "finish" uses the lock.
LEMMA WaiterHolds ==
    ASSUME TypeOK, StackInv, NEW u \in Thread, At(u, "wait") \/ At(u, "finish")
    PROVE  u \in Holders(Cur(u)) /\ Cur(u) \in Class
BY HolderIs, TopFacts DEF At, HolderPc, TypeOK

\* A thread that is done with a lock lets it go, and the last one frees it.
LEMMA FinishMove ==
    ASSUME IInv, NEW t \in Thread, NEW d \in {0, 1}, Settles(t, d), NEW c \in Class, c = Cur(t),
           Finish(t)
    PROVE  IInv'
<1>0. TypeOK /\ StackInv /\ WalkInv /\ RunInv /\ FailInv /\ WaitInv /\ BlockedInv /\ LockInv
      /\ CauseInv /\ CountInv /\ frames \in [Thread -> Seq(Frame)]
  BY DEF IInv, TypeOK
<1>1. /\ At(t, "finish") /\ Busy(t) /\ Head(frames[t]) = frames[t][1]
      /\ frames[t][1].pc = "finish" /\ section = NULL
  BY <1>0, TopFacts DEF Finish, At
<1>2. UNCHANGED <<init_failed, type_init_exception, section, checked_module_cctor, calls>>
  BY DEF Finish
<1>3. /\ lock[c] # NULL /\ lock[c] \in Lock /\ lock[c].done /\ ~lock[c].held
      /\ lock[c].initializing_tid # t => blocked[t] = c
  BY <1>0, <1>1 DEF WaitInv, TypeOK
<1>4. t \in Holders(c) /\ Cardinality(Holders(c)) = lock[c].waiting_count
      /\ Holders(c) \in SUBSET Thread
  BY <1>0, <1>1, <1>3, WaiterHolds DEF CountInv, Holders
<1>5. /\ lock[c].waiting_count = 1 => lock'[c] = NULL /\ Holders(c) = {t}
      /\ lock[c].waiting_count # 1 =>
           /\ lock'[c] \in Lock /\ lock'[c] # NULL
           /\ lock'[c].waiting_count = lock[c].waiting_count - 1
           /\ lock'[c].initializing_tid = lock[c].initializing_tid
           /\ lock'[c].done /\ ~lock'[c].held
      /\ \A b \in Class \ {c} : lock'[b] = lock[b]
      /\ lock' \in [Class -> Lock \cup {NULL}]
  <2> DEFINE l == [lock[c] EXCEPT !.waiting_count = @ - 1]
  <2>1. lock' = [lock EXCEPT ![c] = IF lock[c].waiting_count = 1 THEN NULL ELSE l]
    BY DEF Finish
  <2>2. lock[c].waiting_count # 1 =>
          /\ l \in Lock /\ l.waiting_count = lock[c].waiting_count - 1
          /\ l.initializing_tid = lock[c].initializing_tid /\ l.done /\ ~l.held
    <3>1. Cardinality(Thread) \in Nat
      BY <1>4, HolderCount
    <3> QED BY <1>3, <3>1 DEF Lock
  <2> HIDE DEF l
  <2>3. lock[c].waiting_count = 1 => Holders(c) = {t}
    BY <1>4, HolderCount
  <2>4. lock'[c] = (IF lock[c].waiting_count = 1 THEN NULL ELSE l)
        /\ \A b \in Class \ {c} : lock'[b] = lock[b]
    BY <1>0, <2>1 DEF TypeOK
  <2>5. lock' \in [Class -> Lock \cup {NULL}]
    BY <1>0, <2>1, <2>2 DEF TypeOK
  <2> QED BY <2>2, <2>3, <2>4, <2>5, NullAssumption
<1>6. blocked'[t] = NULL /\ (\A u \in Thread \ {t} : blocked'[u] = blocked[u])
      /\ blocked' \in [Thread -> Class \cup {NULL}]
  <2>1. lock[c].initializing_tid = t => blocked[t] = NULL
    BY <1>0 DEF BlockedInv
  <2>2. blocked' = IF lock[c].initializing_tid # t THEN [blocked EXCEPT ![t] = NULL] ELSE blocked
    BY DEF Finish
  <2> QED BY <1>0, <2>1, <2>2 DEF TypeOK
<1>7. initialized' \in [Class -> BOOLEAN] /\ \A b \in Class \ {c} : initialized'[b] = initialized[b]
  BY <1>0 DEF TypeOK, Finish
<1>8. \A u \in Thread \ {t} : \A p : (At(u, p)' <=> At(u, p)) /\ Cur(u)' = Cur(u)
  BY AfterSettle
<1>9. \A p : At(t, p)' => p \in QuietPc
  BY AfterSettle
<1>10. \A u \in Thread \ {t} : frames'[u] = frames[u]
  BY DEF Settles
<1>11. TypeOK'
  BY <1>0, <1>2, <1>5, <1>6, <1>7 DEF TypeOK, Settles
<1>12. StackInv'
  BY <1>0, <1>10 DEF StackInv, Settles
<1>13. WalkInv'
  <2>1. \A u \in Thread : ~At(u, "walk")
    BY <1>0, <1>1, ClassAssumption DEF WalkInv
  <2> QED BY <1>8, <1>9, <2>1 DEF WalkInv, QuietPc
<1>14. \A u \in Thread : \A i \in 1..Len(frames[u]) :
         frames[u][i].pc \in RunPc => frames[u][i].class \in Class \ {c}
  <2>1. ASSUME NEW u \in Thread, NEW i \in 1..Len(frames[u]), frames[u][i].pc \in RunPc
        PROVE  frames[u][i].class \in Class \ {c}
    <3>1. frames[u][i].class \in Class
      BY <1>0, TopFacts DEF Frame
    <3>2. lock[frames[u][i].class].held
      BY <1>0, <2>1 DEF RunInv
    <3> QED BY <1>3, <3>1, <3>2
  <2> QED BY <2>1
<1>15. \A i \in 1..Len(frames'[t]) : frames'[t][i].pc \in RunPc =>
         /\ i + d \in 1..Len(frames[t]) /\ frames'[t][i].pc = "run"
         /\ frames[t][i + d].pc \in RunPc
         /\ frames[t][i + d].pc = frames'[t][i].pc
         /\ frames[t][i + d].class = frames'[t][i].class
  BY DEF Settles, RunPc, QuietPc
<1>16. ASSUME NEW u \in Thread, NEW i \in 1..Len(frames'[u]), frames'[u][i].pc \in RunPc
       PROVE  \E j \in 1..Len(frames[u]) :
                /\ frames[u][j].pc \in RunPc /\ frames[u][j].pc = frames'[u][i].pc
                /\ frames[u][j].class = frames'[u][i].class
  <2>1. CASE u = t
    BY <1>15, <1>16, <2>1
  <2>2. CASE u # t
    BY <1>10, <1>16, <2>2
  <2> QED BY <2>1, <2>2
<1>17. RunInv'
  <2>1. ASSUME NEW u \in Thread, NEW i \in 1..Len(frames'[u]), frames'[u][i].pc \in RunPc
        PROVE  /\ lock'[frames'[u][i].class] # NULL
               /\ lock'[frames'[u][i].class].initializing_tid = u
               /\ lock'[frames'[u][i].class].held
               /\ lock'[frames'[u][i].class].done <=> frames'[u][i].pc = "leave"
    <3>1. PICK j \in 1..Len(frames[u]) :
                /\ frames[u][j].pc \in RunPc /\ frames[u][j].pc = frames'[u][i].pc
                /\ frames[u][j].class = frames'[u][i].class
      BY <1>16, <2>1
    <3>2. lock'[frames[u][j].class] = lock[frames[u][j].class]
      BY <1>5, <1>14, <3>1
    <3> QED BY <1>0, <3>1, <3>2 DEF RunInv
  <2>2. ASSUME NEW u \in Thread, NEW i \in 1..Len(frames'[u]), NEW j \in 1..Len(frames'[u]),
               frames'[u][i].pc \in RunPc, frames'[u][j].pc \in RunPc,
               frames'[u][j].class = frames'[u][i].class
        PROVE  j = i
    <3>1. CASE u # t
      BY <1>0, <1>10, <2>2, <3>1 DEF RunInv
    <3>2. CASE u = t
      <4>1. /\ i + d \in 1..Len(frames[t]) /\ j + d \in 1..Len(frames[t])
            /\ frames[t][i + d].pc \in RunPc /\ frames[t][j + d].pc \in RunPc
            /\ frames[t][i + d].class = frames[t][j + d].class
        BY <1>15, <2>2, <3>2
      <4>2. \A k, l \in 1..Len(frames[t]) :
              frames[t][k].pc \in RunPc /\ frames[t][l].pc \in RunPc
              /\ frames[t][k].class = frames[t][l].class => k = l
        BY <1>0 DEF RunInv
      <4>3. j + d = i + d
        BY <4>1, <4>2
      <4> QED BY <4>3
    <3> QED BY <3>1, <3>2
  <2> QED BY <2>1, <2>2 DEF RunInv
<1>18. FailInv'
  <2>1. ASSUME NEW u \in Thread, NEW i \in 1..Len(frames'[u]), frames'[u][i].pc \in RunPc,
               init_failed'[frames'[u][i].class]
        PROVE  \/ frames'[u][i].pc = "store"
               \/ /\ frames'[u][i].pc \in {"done", "leave"}
                  /\ frames'[u][i].class \in type_init_exception'
    BY <1>0, <1>2, <1>16, <2>1, SMTT(30) DEF FailInv
  <2> QED BY <2>1 DEF FailInv
<1>19. ASSUME NEW u \in Thread \ {t}, At(u, "wait") \/ At(u, "finish")
       PROVE  /\ lock'[Cur(u)] # NULL /\ Cur(u) \in Class
              /\ lock'[Cur(u)].initializing_tid = lock[Cur(u)].initializing_tid
              /\ lock[Cur(u)].done => lock'[Cur(u)].done
              /\ ~lock[Cur(u)].held => ~lock'[Cur(u)].held
  <2>1. u \in Holders(Cur(u)) /\ Cur(u) \in Class
    BY <1>0, <1>19, WaiterHolds
  <2>2. lock[Cur(u)] # NULL
    BY <1>0, <1>19 DEF WaitInv
  <2>3. CASE Cur(u) = c
    <3>1. lock[c].waiting_count # 1
      BY <1>5, <2>1, <2>3
    <3> QED BY <1>5, <2>3, <3>1
  <2>4. CASE Cur(u) # c
    BY <1>5, <2>1, <2>2, <2>4
  <2> QED BY <2>3, <2>4
<1>20. WaitInv'
  <2>1. ASSUME NEW u \in Thread, At(u, "wait")' \/ At(u, "finish")'
        PROVE  /\ lock'[Cur(u)'] # NULL
               /\ At(u, "wait")' => lock'[Cur(u)'].initializing_tid # u
               /\ At(u, "finish")' => lock'[Cur(u)'].done /\ ~lock'[Cur(u)'].held
               /\ lock'[Cur(u)'].initializing_tid # u => blocked'[u] = Cur(u)'
    <3>1. u # t
      BY <1>9, <2>1 DEF QuietPc
    <3>2. Cur(u)' = Cur(u) /\ (At(u, "wait")' <=> At(u, "wait"))
          /\ (At(u, "finish")' <=> At(u, "finish"))
      BY <1>8, <3>1
    <3>3. /\ lock'[Cur(u)] # NULL
          /\ lock'[Cur(u)].initializing_tid = lock[Cur(u)].initializing_tid
          /\ lock[Cur(u)].done => lock'[Cur(u)].done
          /\ ~lock[Cur(u)].held => ~lock'[Cur(u)].held
      BY <1>19, <2>1, <3>1, <3>2
    <3> QED BY <1>0, <1>6, <2>1, <3>1, <3>2, <3>3 DEF WaitInv
  <2> QED BY <2>1 DEF WaitInv
<1>21. BlockedInv'
  <2>1. ASSUME NEW u \in Thread, blocked'[u] # NULL
        PROVE  /\ At(u, "wait")' \/ At(u, "finish")'
               /\ blocked'[u] = Cur(u)'
               /\ lock'[blocked'[u]].initializing_tid # u
    <3>1. u # t /\ blocked'[u] = blocked[u]
      BY <1>6, <2>1
    <3>2. (At(u, "wait") \/ At(u, "finish")) /\ blocked[u] = Cur(u)
          /\ lock[blocked[u]].initializing_tid # u
      BY <1>0, <2>1, <3>1 DEF BlockedInv
    <3> QED BY <1>8, <1>19, <3>1, <3>2
  <2> QED BY <2>1 DEF BlockedInv
<1>22. LockInv'
  <2>1. ASSUME NEW u \in Thread, NEW b \in Class \ {c}, Runs(u, b) PROVE Runs(u, b)'
    <3>1. CASE u # t
      BY <1>10, <2>1, <3>1 DEF Runs
    <3>2. CASE u = t
      <4>1. PICK i \in 1..Len(frames[t]) : frames[t][i].pc \in RunPc /\ frames[t][i].class = b
        BY <2>1, <3>2 DEF Runs
      <4>2. i # 1
        BY <1>1, <4>1 DEF RunPc
      <4>3. frames[t][i].pc = "run"
        BY <1>0, <4>1, <4>2, TopFacts DEF StackInv, RunPc
      <4>4. /\ i - d \in 1..Len(frames'[t]) /\ frames'[t][i - d].pc \in RunPc
            /\ frames'[t][i - d].class = b
        BY <4>1, <4>3 DEF Settles, RunPc
      <4> QED BY <3>2, <4>4 DEF Runs
    <3> QED BY <3>1, <3>2
  <2>2. ASSUME NEW b \in Class, lock'[b] # NULL
        PROVE  /\ b \in Cctor
               /\ ~lock'[b].held => lock'[b].done
               /\ ~lock'[b].done => ~initialized'[b]
               /\ ~lock'[b].done => \A u \in Thread : lock'[b].initializing_tid = u => Runs(u, b)'
    <3>1. CASE b = c
      BY <1>0, <1>3, <1>5, <2>2, <3>1 DEF LockInv
    <3>2. CASE b # c
      <4>1. lock'[b] = lock[b] /\ initialized'[b] = initialized[b]
        BY <1>5, <1>7, <3>2
      <4>2. ~lock[b].done => \A u \in Thread : lock[b].initializing_tid = u => Runs(u, b)'
        BY <1>0, <2>1, <2>2, <3>2, <4>1 DEF LockInv
      <4> QED BY <1>0, <2>2, <4>1, <4>2 DEF LockInv
    <3> QED BY <3>1, <3>2
  <2> QED BY <2>2 DEF LockInv
<1>23. CauseInv'
  <2>1. frames[t] # <<>>
    BY <1>1 DEF Busy
  <2>2. \A b \in Class : lock[b] # NULL => lock[b].initializing_tid \in Thread
    BY <1>0 DEF TypeOK, Lock
  <2>3. ASSUME NEW b \in Class, lock'[b] # NULL, ~lock'[b].held, init_failed'[b]
        PROVE  \/ b \in type_init_exception'
               \/ /\ frames'[lock'[b].initializing_tid] = <<>>
                  /\ calls'[lock'[b].initializing_tid] = 0
    <3>1. lock[b] # NULL /\ ~lock[b].held /\ lock'[b].initializing_tid = lock[b].initializing_tid
      BY <1>3, <1>5, <2>3
    <3> QED BY <1>0, <1>2, <1>10, <2>1, <2>2, <2>3, <3>1 DEF CauseInv
  <2> QED BY <2>3 DEF CauseInv
<1>24. CountInv'
  <2>1. ASSUME NEW b \in Class
        PROVE  t \in Holders(b)' <=> b # c /\ t \in Holders(b)
    <3>1. t \in Holders(b)' <=>
            \E i \in 1..Len(frames[t]) : frames[t][i].pc = "run" /\ frames[t][i].class = b
      BY <1>0, SettledHolders
    <3>2. (\E i \in 1..Len(frames[t]) : frames[t][i].pc = "run" /\ frames[t][i].class = b)
          <=> Outer(t, b)
      <4>1. \A i \in 1..Len(frames[t]) : frames[t][i].pc = "run" => i \in 2..Len(frames[t])
        BY <1>0, <1>1, TopFacts
      <4>2. \A i \in 2..Len(frames[t]) : i \in 1..Len(frames[t])
        BY <1>0, TopFacts
      <4> QED BY <4>1, <4>2 DEF Outer
    <3>3. ~Outer(t, c)
      BY <1>0, <1>3, OuterRuns
    <3> QED BY <1>0, <3>1, <3>2, <3>3, HolderIs
  <2>2. ASSUME NEW b \in Class \ {c} PROVE Holders(b)' = Holders(b)
    BY <1>10, <2>1, OtherHolders
  <2>3. Holders(c)' = Holders(c) \ {t}
    BY <1>10, <2>1, OtherHolders
  <2>4. Cardinality(Holders(c)') = Cardinality(Holders(c)) - 1
    BY <1>4, <2>3, HolderCount
  <2> QED BY <1>0, <1>4, <1>5, <2>2, <2>3, <2>4 DEF CountInv
<1> QED BY <1>11, <1>12, <1>13, <1>17, <1>18, <1>20, <1>21, <1>22, <1>23, <1>24 DEF IInv
-----------------------------------------------------------------------------
\* A thread exits inside constructors: those that wait for them are let go.
LEMMA ExitStep ==
    ASSUME IInv, NEW t \in Thread, Exit(t)
    PROVE  IInv'
<1>0. TypeOK /\ StackInv /\ WalkInv /\ RunInv /\ FailInv /\ WaitInv /\ BlockedInv /\ LockInv
      /\ CauseInv /\ CountInv /\ frames \in [Thread -> Seq(Frame)]
  BY DEF IInv, TypeOK
<1>1. /\ Busy(t) /\ Head(frames[t]).pc = "run" /\ frames[t] # <<>> /\ section = NULL
  BY DEF Exit, At, Busy
<1>2. UNCHANGED <<initialized, type_init_exception, blocked, section, checked_module_cctor>>
  BY DEF Exit
<1>r. PICK R \in SUBSET Class : R = Released(t)
  BY DEF Released
<1>3. \A b \in Class :
        b \in R <=> lock[b] # NULL /\ lock[b].initializing_tid = t /\ ~lock[b].done
  BY <1>r DEF Released
<1>4. ASSUME NEW b \in Class PROVE b \in R <=> t \in Holders(b)
  <2>1. \A i \in 1..Len(frames[t]) : frames[t][i].pc \in {"run", "module_done"}
    <3>1. frames[t][1].pc = "run"
      BY <1>0, <1>1, TopFacts
    <3>2. \A i \in 1..Len(frames[t]) : i = 1 \/ i \in 2..Len(frames[t])
      BY <1>0, TopFacts
    <3> QED BY <1>0, <3>1, <3>2 DEF StackInv
  <2>2. t \in Holders(b) <=> Runs(t, b)
    <3>1. DOMAIN frames[t] = 1..Len(frames[t])
      BY <1>0, TopFacts
    <3>2. \A i \in 1..Len(frames[t]) : frames[t][i].pc \in HolderPc <=> frames[t][i].pc \in RunPc
      BY <2>1 DEF HolderPc, RunPc
    <3> QED BY <3>1, <3>2 DEF Holders, Runs
  <2>3. ASSUME b \in R PROVE Runs(t, b)
    BY <1>0, <1>3, <2>3 DEF LockInv
  <2>4. ASSUME Runs(t, b) PROVE b \in R
    <3>1. PICK i \in 1..Len(frames[t]) : frames[t][i].pc \in RunPc /\ frames[t][i].class = b
      BY <2>4 DEF Runs
    <3>2. frames[t][i].pc # "leave"
      BY <2>1
    <3> QED BY <1>0, <1>3, <3>1, <3>2 DEF RunInv
  <2> QED BY <2>2, <2>3, <2>4
<1>5. \A b \in Class : Holders(b) \in SUBSET Thread
  BY DEF Holders
<1>6. /\ \A b \in Class \ R : lock'[b] = lock[b]
      /\ \A b \in R :
           /\ lock[b].waiting_count = 1 => lock'[b] = NULL /\ Holders(b) = {t}
           /\ lock[b].waiting_count # 1 =>
                /\ lock'[b] \in Lock /\ lock'[b] # NULL
                /\ lock'[b].waiting_count = lock[b].waiting_count - 1
                /\ lock'[b].initializing_tid = lock[b].initializing_tid
                /\ lock'[b].done /\ ~lock'[b].held
      /\ lock' \in [Class -> Lock \cup {NULL}]
  <2> DEFINE l(b) == [lock[b] EXCEPT !.done = TRUE, !.held = FALSE, !.waiting_count = @ - 1]
  <2>1. lock' = [b \in Class |-> IF b \notin R THEN lock[b]
                                 ELSE IF lock[b].waiting_count = 1 THEN NULL ELSE l(b)]
    BY <1>r DEF Exit
  <2>2. ASSUME NEW b \in R
        PROVE  lock[b].waiting_count # 1 =>
                 /\ l(b) \in Lock /\ l(b).waiting_count = lock[b].waiting_count - 1
                 /\ l(b).initializing_tid = lock[b].initializing_tid /\ l(b).done /\ ~l(b).held
    <3>1. Cardinality(Thread) \in Nat
      BY <1>5, HolderCount
    <3>2. lock[b] \in Lock
      BY <1>0, <1>3 DEF TypeOK
    <3>3. SUFFICES ASSUME lock[b].waiting_count # 1
          PROVE  /\ l(b) \in Lock /\ l(b).waiting_count = lock[b].waiting_count - 1
                 /\ l(b).initializing_tid = lock[b].initializing_tid /\ l(b).done /\ ~l(b).held
      OBVIOUS
    <3>4. PICK k \in Lock, n \in 1..Cardinality(Thread) : k = lock[b] /\ n = lock[b].waiting_count - 1
      BY <3>1, <3>2, <3>3 DEF Lock
    <3>5. l(b) = [k EXCEPT !.done = TRUE, !.held = FALSE, !.waiting_count = n]
      BY <3>4
    <3> HIDE DEF l
    <3> QED BY <3>4, <3>5 DEF Lock
  <2> HIDE DEF l
  <2>3. ASSUME NEW b \in R, lock[b].waiting_count = 1 PROVE Holders(b) = {t}
    <3>1. Cardinality(Holders(b)) = 1
      BY <1>0, <1>3, <2>3 DEF CountInv
    <3> QED BY <1>4, <1>5, <3>1, HolderCount
  <2>4. ASSUME NEW b \in Class
        PROVE  /\ b \notin R => lock'[b] = lock[b]
               /\ b \in R => lock'[b] = IF lock[b].waiting_count = 1 THEN NULL ELSE l(b)
    BY <2>1
  <2>5. lock' \in [Class -> Lock \cup {NULL}]
    <3>1. \A b \in Class : lock'[b] \in Lock \cup {NULL}
      BY <1>0, <2>2, <2>4 DEF TypeOK
    <3> QED BY <2>1, <3>1
  <2>6. \A b \in R : lock[b].waiting_count = 1 => lock'[b] = NULL
    BY <2>4
  <2>7. \A b \in R : lock[b].waiting_count # 1 => lock'[b] = l(b) /\ l(b) # NULL
    BY <2>2, <2>4, NullAssumption
  <2> QED BY <2>2, <2>3, <2>4, <2>5, <2>6, <2>7
<1>7. /\ init_failed' \in [Class -> BOOLEAN]
      /\ \A b \in Class \ R : init_failed'[b] = init_failed[b]
      /\ \A b \in R : init_failed'[b]
  BY <1>0, <1>r DEF Exit, TypeOK
<1>8. /\ frames' \in [Thread -> Seq(Frame)] /\ frames'[t] = <<>>
      /\ \A u \in Thread \ {t} : frames'[u] = frames[u]
  <2>1. frames' = [frames EXCEPT ![t] = <<>>]
    BY DEF Exit
  <2> QED BY <1>0, <2>1
<1>9. /\ calls' \in [Thread -> 0..MaxCalls] /\ calls'[t] = 0
      /\ \A u \in Thread \ {t} : calls'[u] = calls[u]
  <2>1. calls' = [calls EXCEPT ![t] = 0]
    BY DEF Exit
  <2> QED BY <1>0, <2>1, ClassAssumption DEF TypeOK
<1>10. TypeOK'
  BY <1>0, <1>2, <1>6, <1>7, <1>8, <1>9 DEF TypeOK
<1>11. Len(frames'[t]) = 0 /\ \A p : ~At(t, p)'
  BY <1>8 DEF At, Busy
<1>12. \A u \in Thread \ {t} : \A p : (At(u, p)' <=> At(u, p)) /\ Cur(u)' = Cur(u)
  BY <1>8 DEF At, Busy, Cur
<1>13. StackInv'
  BY <1>0, <1>8, <1>11 DEF StackInv
<1>14. WalkInv'
  <2>1. \A u \in Thread : ~At(u, "walk")
    BY <1>0, <1>1, ClassAssumption DEF WalkInv
  <2> QED BY <1>11, <1>12, <2>1 DEF WalkInv
<1>15. ASSUME NEW u \in Thread, NEW i \in 1..Len(frames'[u]), frames'[u][i].pc \in RunPc
       PROVE  /\ frames'[u] = frames[u]
              /\ frames[u][i].class \in Class \ R
              /\ lock'[frames[u][i].class] = lock[frames[u][i].class]
              /\ init_failed'[frames[u][i].class] = init_failed[frames[u][i].class]
  <2>1. u # t
    BY <1>11
  <2>2. frames'[u] = frames[u]
    BY <1>8, <2>1
  <2>3. frames[u][i].class \in Class
    BY <1>0, <2>2, TopFacts DEF Frame
  <2>4. lock[frames[u][i].class].initializing_tid = u
    BY <1>0, <1>15, <2>2 DEF RunInv
  <2>5. frames[u][i].class \notin R
    BY <1>3, <2>1, <2>3, <2>4
  <2> QED BY <1>6, <1>7, <2>2, <2>3, <2>5
<1>16. RunInv'
  <2>1. ASSUME NEW u \in Thread, NEW i \in 1..Len(frames'[u]), frames'[u][i].pc \in RunPc
        PROVE  /\ lock'[frames'[u][i].class] # NULL
               /\ lock'[frames'[u][i].class].initializing_tid = u
               /\ lock'[frames'[u][i].class].held
               /\ lock'[frames'[u][i].class].done <=> frames'[u][i].pc = "leave"
               /\ \A j \in 1..Len(frames'[u]) :
                    frames'[u][j].pc \in RunPc /\ frames'[u][j].class = frames'[u][i].class => j = i
    <3>1. frames'[u] = frames[u] /\ lock'[frames[u][i].class] = lock[frames[u][i].class]
      BY <1>15, <2>1
    <3> QED BY <1>0, <2>1, <3>1 DEF RunInv
  <2> QED BY <2>1 DEF RunInv
<1>17. FailInv'
  <2>1. ASSUME NEW u \in Thread, NEW i \in 1..Len(frames'[u]), frames'[u][i].pc \in RunPc,
               init_failed'[frames'[u][i].class]
        PROVE  \/ frames'[u][i].pc = "store"
               \/ /\ frames'[u][i].pc \in {"done", "leave"}
                  /\ frames'[u][i].class \in type_init_exception'
    <3>1. frames'[u] = frames[u]
          /\ init_failed'[frames[u][i].class] = init_failed[frames[u][i].class]
      BY <1>15, <2>1
    <3> QED BY <1>0, <1>2, <2>1, <3>1 DEF FailInv
  <2> QED BY <2>1 DEF FailInv
<1>18. ASSUME NEW u \in Thread \ {t}, At(u, "wait") \/ At(u, "finish")
       PROVE  /\ lock'[Cur(u)] # NULL /\ Cur(u) \in Class
              /\ lock'[Cur(u)].initializing_tid = lock[Cur(u)].initializing_tid
              /\ lock[Cur(u)].done => lock'[Cur(u)].done
              /\ ~lock[Cur(u)].held => ~lock'[Cur(u)].held
  <2>1. u \in Holders(Cur(u)) /\ Cur(u) \in Class
    BY <1>0, <1>18, WaiterHolds
  <2>2. lock[Cur(u)] # NULL
    BY <1>0, <1>18 DEF WaitInv
  <2>3. CASE Cur(u) \in R
    <3>1. lock[Cur(u)].waiting_count # 1
      BY <1>6, <2>1, <2>3
    <3> QED BY <1>6, <2>1, <2>3, <3>1
  <2>4. CASE Cur(u) \notin R
    BY <1>6, <2>1, <2>2, <2>4
  <2> QED BY <2>3, <2>4
<1>19. WaitInv'
  <2>1. ASSUME NEW u \in Thread, At(u, "wait")' \/ At(u, "finish")'
        PROVE  /\ lock'[Cur(u)'] # NULL
               /\ At(u, "wait")' => lock'[Cur(u)'].initializing_tid # u
               /\ At(u, "finish")' => lock'[Cur(u)'].done /\ ~lock'[Cur(u)'].held
               /\ lock'[Cur(u)'].initializing_tid # u => blocked'[u] = Cur(u)'
    <3>1. u # t
      BY <1>11, <2>1
    <3>2. Cur(u)' = Cur(u) /\ (At(u, "wait")' <=> At(u, "wait"))
          /\ (At(u, "finish")' <=> At(u, "finish"))
      BY <1>12, <3>1
    <3>3. /\ lock'[Cur(u)] # NULL
          /\ lock'[Cur(u)].initializing_tid = lock[Cur(u)].initializing_tid
          /\ lock[Cur(u)].done => lock'[Cur(u)].done
          /\ ~lock[Cur(u)].held => ~lock'[Cur(u)].held
      BY <1>18, <2>1, <3>1, <3>2
    <3> QED BY <1>0, <1>2, <2>1, <3>1, <3>2, <3>3 DEF WaitInv
  <2> QED BY <2>1 DEF WaitInv
<1>20. BlockedInv'
  <2>1. ASSUME NEW u \in Thread, blocked[u] # NULL
        PROVE  /\ At(u, "wait")' \/ At(u, "finish")'
               /\ blocked[u] = Cur(u)'
               /\ lock'[blocked[u]].initializing_tid # u
    <3>1. (At(u, "wait") \/ At(u, "finish")) /\ blocked[u] = Cur(u)
          /\ lock[blocked[u]].initializing_tid # u
      BY <1>0, <2>1 DEF BlockedInv
    <3>2. u # t
      BY <1>1, <3>1 DEF At
    <3> QED BY <1>12, <1>18, <3>1, <3>2
  <2> QED BY <1>2, <2>1 DEF BlockedInv
<1>21. \A b \in Class : lock[b] # NULL => lock[b].initializing_tid \in Thread
  BY <1>0 DEF TypeOK, Lock
<1>22. LockInv'
  <2>1. ASSUME NEW b \in Class, lock'[b] # NULL
        PROVE  /\ b \in Cctor
               /\ ~lock'[b].held => lock'[b].done
               /\ ~lock'[b].done => ~initialized'[b]
               /\ ~lock'[b].done => \A u \in Thread : lock'[b].initializing_tid = u => Runs(u, b)'
    <3>1. CASE b \in R
      BY <1>0, <1>3, <1>6, <2>1, <3>1 DEF LockInv
    <3>2. CASE b \notin R
      <4>1. lock'[b] = lock[b]
        BY <1>6, <3>2
      <4>2. ASSUME ~lock[b].done, NEW u \in Thread, lock[b].initializing_tid = u PROVE Runs(u, b)'
        <5>1. u # t
          BY <1>3, <2>1, <3>2, <4>1, <4>2
        <5>2. Runs(u, b)
          BY <1>0, <2>1, <4>1, <4>2 DEF LockInv
        <5> QED BY <1>8, <5>1, <5>2 DEF Runs
      <4> QED BY <1>0, <1>2, <2>1, <4>1, <4>2 DEF LockInv
    <3> QED BY <3>1, <3>2
  <2> QED BY <2>1 DEF LockInv
<1>23. CauseInv'
  <2>1. ASSUME NEW b \in Class, lock'[b] # NULL, ~lock'[b].held, init_failed'[b]
        PROVE  \/ b \in type_init_exception'
               \/ /\ frames'[lock'[b].initializing_tid] = <<>>
                  /\ calls'[lock'[b].initializing_tid] = 0
    <3>1. CASE b \in R
      BY <1>3, <1>6, <1>8, <1>9, <2>1, <3>1, ZenonT(30)
    <3>2. CASE b \notin R
      <4>1. lock'[b] = lock[b] /\ init_failed'[b] = init_failed[b]
        BY <1>6, <1>7, <3>2
      <4> QED BY <1>0, <1>1, <1>2, <1>8, <1>9, <1>21, <2>1, <4>1, ZenonT(30) DEF CauseInv
    <3> QED BY <3>1, <3>2
  <2> QED BY <2>1 DEF CauseInv
<1>24. CountInv'
  <2>1. ASSUME NEW b \in Class PROVE Holders(b)' = Holders(b) \ {t}
    <3>1. t \notin Holders(b)'
      BY <1>8 DEF Holders
    <3> QED BY <1>8, <3>1, OtherHolders
  <2>2. ASSUME NEW b \in Class \ R
        PROVE  IF lock'[b] = NULL THEN Holders(b)' = {}
               ELSE Cardinality(Holders(b)') = lock'[b].waiting_count
    <3>1. Holders(b)' = Holders(b) /\ lock'[b] = lock[b]
      <4>1. t \notin Holders(b)
        BY <1>4
      <4>2. Holders(b)' = Holders(b) \ {t}
        BY <2>1
      <4> QED BY <1>6, <4>1, <4>2
    <3> QED BY <1>0, <3>1 DEF CountInv
  <2>3. ASSUME NEW b \in R
        PROVE  IF lock'[b] = NULL THEN Holders(b)' = {}
               ELSE Cardinality(Holders(b)') = lock'[b].waiting_count
    <3>1. t \in Holders(b) /\ Cardinality(Holders(b)) = lock[b].waiting_count
      BY <1>0, <1>3, <1>4 DEF CountInv
    <3>2. Cardinality(Holders(b) \ {t}) = Cardinality(Holders(b)) - 1
      BY <1>5, <3>1, HolderCount
    <3> QED BY <1>6, <2>1, <3>1, <3>2
  <2> QED BY <2>2, <2>3 DEF CountInv
<1> QED BY <1>10, <1>13, <1>14, <1>16, <1>17, <1>19, <1>20, <1>22, <1>23, <1>24 DEF IInv
-----------------------------------------------------------------------------
\* All calls of a thread are quiet if the innermost one is.
LEMMA QuietStack ==
    ASSUME frames \in [Thread -> Seq(Frame)], StackInv, NEW t \in Thread,
           frames[t][1].pc \in QuietPc \cup {"walk"}
    PROVE  \A i \in 1..Len(frames[t]) : frames[t][i].pc \in QuietPc \cup {"walk"}
<1>1. \A i \in 1..Len(frames[t]) : i = 1 \/ i \in 2..Len(frames[t])
  BY TopFacts
<1> QED BY <1>1 DEF StackInv, QuietPc

\* A jump outside the locks keeps the inductive invariant.
LEMMA GotoStep ==
    ASSUME IInv, NEW t \in Thread, Busy(t), frames[t][1].pc \in QuietPc \ {"run"},
           NEW pc \in QuietPc \ {"run"}, Goto(t, pc), checked_module_cctor' \in BOOLEAN,
           UNCHANGED <<vtableVars, lockVars, calls>>
    PROVE  IInv'
<1>0. TypeOK /\ StackInv /\ frames \in [Thread -> Seq(Frame)]
  BY DEF IInv, TypeOK
<1>1. TopMoves(t, pc)
  BY <1>0, GotoFacts DEF QuietPc, Pcs
<1>2. Settles(t, 0)
  BY <1>0, <1>1, GotoSettles
<1>3. \A i \in 1..Len(frames[t]) : frames[t][i].pc \in QuietPc \cup {"walk"}
  BY <1>0, QuietStack
<1> QED BY <1>0, <1>2, <1>3, QuietStep DEF TypeOK, vtableVars, lockVars, Busy

\* A return from outside the locks keeps the inductive invariant.
LEMMA ReturnStep ==
    ASSUME IInv, NEW t \in Thread, Busy(t), frames[t][1].pc \in (QuietPc \ {"run"}) \cup {"walk"},
           NEW exc \in BOOLEAN, Return(t, exc),
           UNCHANGED <<lock, init_failed, type_init_exception, blocked, checked_module_cctor, calls>>,
           section' \in {section, NULL}, section' = section \/ section = t,
           initialized' \in [Class -> BOOLEAN],
           \A c \in Class : lock[c] # NULL => initialized'[c] = initialized[c]
    PROVE  IInv'
<1>0. TypeOK /\ StackInv /\ frames \in [Thread -> Seq(Frame)]
  BY DEF IInv, TypeOK
<1>1. Settles(t, 1)
  BY <1>0, ReturnFacts, ReturnSettles
<1>2. \A i \in 1..Len(frames[t]) : frames[t][i].pc \in QuietPc \cup {"walk"}
  BY <1>0, QuietStack
<1> QED BY <1>0, <1>1, <1>2, QuietStep DEF TypeOK, Busy

\* A call keeps the inductive invariant.
LEMMA CallStep ==
    ASSUME IInv, NEW t \in Thread, NEW pc, Pushes(t, pc),
           \/ Len(frames[t]) = 0
           \/ /\ frames[t][1].pc \in QuietPc
              /\ pc \in {"run", "module_done"} /\ (frames[t][1].pc = "run" <=> pc = "run"),
           UNCHANGED <<vtableVars, lockVars>>, checked_module_cctor' \in BOOLEAN,
           calls' \in [Thread -> 0..MaxCalls], frames[t] # <<>> \/ calls[t] > 0,
           \A u \in Thread \ {t} : calls'[u] = calls[u]
    PROVE  IInv'
<1>0. TypeOK /\ StackInv /\ frames \in [Thread -> Seq(Frame)]
  BY DEF IInv, TypeOK
<1>1. Settles(t, -1)
  BY <1>0, CallSettles
<1>2. \A i \in 1..Len(frames[t]) : frames[t][i].pc \in QuietPc \cup {"walk"}
  <2>1. CASE Len(frames[t]) = 0
    BY <2>1
  <2>2. CASE frames[t][1].pc \in QuietPc
    BY <1>0, <2>2, QuietStack
  <2> QED BY <2>1, <2>2
<1> QED BY <1>0, <1>1, <1>2, QuietStep DEF TypeOK, vtableVars, lockVars

\* What the steps of a thread inside a call start from.
LEMMA AtFacts ==
    ASSUME IInv, NEW t \in Thread, NEW pc, At(t, pc)
    PROVE  /\ TypeOK /\ StackInv /\ Busy(t) /\ Head(frames[t]) = frames[t][1]
           /\ frames[t][1].pc = pc /\ frames[t][1] \in Frame
           /\ Cur(t) = frames[t][1].class /\ Cur(t) \in Class
           /\ frames \in [Thread -> Seq(Frame)]
           /\ Len(frames[t]) >= 1 /\ frames[t] # <<>>
BY TopFacts DEF IInv, TypeOK, At, Busy

\* The same from At, for a step that changes nothing else.
LEMMA QuietGoto ==
    ASSUME IInv, NEW t \in Thread, NEW p \in QuietPc \ {"run"}, At(t, p),
           NEW pc \in QuietPc \ {"run"}, Goto(t, pc),
           UNCHANGED <<vtableVars, lockVars, checked_module_cctor, calls>>
    PROVE  IInv'
<1>1. Busy(t) /\ frames[t][1].pc \in QuietPc \ {"run"} /\ checked_module_cctor \in BOOLEAN
  BY AtFacts DEF TypeOK
<1> QED BY <1>1, GotoStep

LEMMA QuietReturn ==
    ASSUME IInv, NEW t \in Thread, NEW p \in QuietPc \ {"run"}, At(t, p),
           NEW exc \in BOOLEAN, Return(t, exc),
           UNCHANGED <<vtableVars, lockVars, checked_module_cctor, calls>>
    PROVE  IInv'
<1>1. Busy(t) /\ frames[t][1].pc \in (QuietPc \ {"run"}) \cup {"walk"}
      /\ initialized \in [Class -> BOOLEAN]
  BY AtFacts DEF TypeOK
<1>2. UNCHANGED <<initialized, lock, init_failed, type_init_exception, blocked, section,
                  checked_module_cctor, calls>>
  BY DEF vtableVars, lockVars
<1> QED BY <1>1, <1>2, ReturnStep

\* A return that leaves the class initialized without a constructor.
LEMMA ReadyReturn ==
    ASSUME IInv, NEW t \in Thread, At(t, "enter"), lock[Cur(t)] = NULL,
           NEW exc \in BOOLEAN, Return(t, exc),
           initialized' = [initialized EXCEPT ![Cur(t)] = TRUE],
           UNCHANGED <<lock, init_failed, type_init_exception, blocked, section,
                       checked_module_cctor, calls>>
    PROVE  IInv'
<1>1. Busy(t) /\ frames[t][1].pc \in (QuietPc \ {"run"}) \cup {"walk"}
  BY AtFacts DEF QuietPc
<1>2. initialized \in [Class -> BOOLEAN]
  BY DEF IInv, TypeOK
<1>3. initialized' \in [Class -> BOOLEAN]
      /\ \A c \in Class : lock[c] # NULL => initialized'[c] = initialized[c]
  BY <1>2
<1> QED BY <1>1, <1>3, ReturnStep

\* A jump to the walk, or a turn of it.
LEMMA WalkGoto ==
    ASSUME IInv, NEW t \in Thread, NEW p \in {"enter", "walk"}, At(t, p), NEW u \in Thread,
           frames' = [frames EXCEPT ![t] = [frames[t] EXCEPT
                                              ![1] = [frames[t][1] EXCEPT !.pc = "walk", !.cursor = u]]],
           section' = t, section \in {NULL, t},
           lock[Cur(t)] # NULL, lock[Cur(t)].initializing_tid # t,
           UNCHANGED <<vtableVars, lock, blocked, checked_module_cctor, calls>>
    PROVE  IInv'
<1> DEFINE f == [frames[t][1] EXCEPT !.pc = "walk", !.cursor = u]
<1>1. /\ Busy(t) /\ frames[t][1] \in Frame /\ Cur(t) = frames[t][1].class
      /\ frames \in [Thread -> Seq(Frame)] /\ frames[t][1].pc = p
  BY AtFacts
<1>2. f \in Frame /\ f.class = Cur(t) /\ f.pc = "walk" /\ f.cursor = u
  BY <1>1 DEF Frame, Pcs
<1>3. frames' = [frames EXCEPT ![t] = [frames[t] EXCEPT ![1] = f]]
  OBVIOUS
<1> HIDE DEF f
<1>4. TopMoves(t, f.pc) /\ frames'[t][1] = f
  BY <1>1, <1>2, <1>3, TopFrame, ZenonT(30)
<1>5. TopMoves(t, "walk") /\ frames'[t][1].cursor \in Thread
  BY <1>2, <1>4
<1> QED BY <1>1, <1>5, WalkMove

\* The steps before the lock.
LEMMA BeforeLock ==
    ASSUME IInv, NEW t \in Thread,
           Check(t) \/ ModuleCheck(t) \/ ModuleMark(t) \/ ModuleDone(t) \/ NoCctor(t)
    PROVE  IInv'
<1>1. CASE Check(t)
  <2>1. At(t, "check") /\ UNCHANGED <<vtableVars, lockVars, checked_module_cctor, calls>>
        /\ (Return(t, FALSE) \/ Goto(t, "module"))
    BY <1>1 DEF Check
  <2>2. CASE Return(t, FALSE)
    BY <2>1, <2>2, QuietReturn DEF QuietPc
  <2>3. CASE Goto(t, "module")
    BY <2>1, <2>3, QuietGoto DEF QuietPc
  <2> QED BY <2>1, <2>2, <2>3
<1>2. CASE ModuleCheck(t)
  <2>1. At(t, "module") /\ UNCHANGED <<vtableVars, lockVars, checked_module_cctor, calls>>
        /\ (Goto(t, "enter") \/ Goto(t, "mark"))
    BY <1>2 DEF ModuleCheck
  <2> QED BY <2>1, QuietGoto DEF QuietPc
<1>3. CASE ModuleMark(t)
  <2>1. At(t, "mark") /\ UNCHANGED <<vtableVars, lockVars, calls>>
        /\ checked_module_cctor' \in BOOLEAN
    BY <1>3 DEF ModuleMark
  <2>2. CASE Module = NULL
    BY <1>3, <2>1, <2>2, AtFacts, GotoStep DEF QuietPc, ModuleMark
  <2>3. CASE Module # NULL
    <3> DEFINE f == [frames[t][1] EXCEPT !.pc = "module_done"]
    <3>1. f \in Frame /\ f.class = Cur(t) /\ f.pc = "module_done" /\ Module \in Class
      BY <2>1, <2>3, AtFacts, ClassAssumption, SMTT(30) DEF Frame, Pcs
    <3>2. Call(t, Module, <<f>> \o Tail(frames[t]))
      BY <1>3, <2>1, <2>3, AtFacts DEF ModuleMark
    <3> HIDE DEF f
    <3>3. Busy(t) /\ frames \in [Thread -> Seq(Frame)] /\ frames[t][1].pc = "mark"
          /\ frames[t] # <<>> /\ calls \in [Thread -> 0..MaxCalls] /\ UNCHANGED calls
      BY <2>1, AtFacts DEF TypeOK
    <3>4. Pushes(t, f.pc)
      BY <3>1, <3>2, <3>3, CallFacts
    <3>5. Pushes(t, "module_done")
      BY <3>1, <3>4
    <3>6. frames[t][1].pc \in QuietPc
      BY <3>3 DEF QuietPc
    <3> QED BY <2>1, <3>3, <3>5, <3>6, CallStep
  <2> QED BY <2>2, <2>3
<1>4. CASE ModuleDone(t)
  <2>1. At(t, "module_done") /\ UNCHANGED <<vtableVars, lockVars, checked_module_cctor, calls>>
        /\ (Return(t, TRUE) \/ Goto(t, "enter"))
    BY <1>4 DEF ModuleDone
  <2>2. CASE Return(t, TRUE)
    BY <2>1, <2>2, QuietReturn DEF QuietPc
  <2>3. CASE Goto(t, "enter")
    BY <2>1, <2>3, QuietGoto DEF QuietPc
  <2> QED BY <2>1, <2>2, <2>3
<1>5. CASE NoCctor(t)
  <2>1. /\ At(t, "enter") /\ Return(t, FALSE) /\ Cur(t) \notin Cctor
        /\ UNCHANGED <<lock, init_failed, type_init_exception, blocked, section,
                       checked_module_cctor, calls>>
        /\ initialized' = [initialized EXCEPT ![Cur(t)] = TRUE]
    BY <1>5 DEF NoCctor, lockVars
  <2>2. lock[Cur(t)] = NULL
    BY <2>1, AtFacts DEF IInv, LockInv
  <2> QED BY <2>1, <2>2, ReadyReturn
<1> QED BY <1>1, <1>2, <1>3, <1>4, <1>5

\* The steps under type_initialization_section.
LEMMA UnderSection ==
    ASSUME IInv, NEW t \in Thread,
           DoubleCheck(t) \/ EnterUnloaded(t) \/ EnterOther(t) \/ Walk(t)
    PROVE  IInv'
<1>1. CASE DoubleCheck(t)
  <2>1. At(t, "enter") /\ UNCHANGED <<vtableVars, lockVars, checked_module_cctor, calls>>
        /\ (Return(t, FALSE) \/ Goto(t, "raise"))
    BY <1>1 DEF DoubleCheck, Entering
  <2>2. CASE Return(t, FALSE)
    BY <2>1, <2>2, QuietReturn DEF QuietPc
  <2>3. CASE Goto(t, "raise")
    BY <2>1, <2>3, QuietGoto DEF QuietPc
  <2> QED BY <2>1, <2>2, <2>3
<1>2. CASE EnterUnloaded(t)
  <2>1. /\ At(t, "enter") /\ Return(t, TRUE) /\ lock[Cur(t)] = NULL
        /\ UNCHANGED <<lock, init_failed, type_init_exception, blocked, section,
                       checked_module_cctor, calls>>
        /\ initialized' = [initialized EXCEPT ![Cur(t)] = TRUE]
    BY <1>2 DEF EnterUnloaded, First, Entering, lockVars
  <2> QED BY <2>1, ReadyReturn
<1>3. CASE EnterOther(t)
  <2>1. /\ At(t, "enter") /\ section = NULL /\ lock[Cur(t)] # NULL
        /\ UNCHANGED <<vtableVars, lock, blocked, checked_module_cctor, calls>>
    BY <1>3 DEF EnterOther, Entering
  <2>2. CASE lock[Cur(t)].initializing_tid = t \/ lock[Cur(t)].done
    <3>1. Return(t, FALSE) /\ UNCHANGED section
      BY <1>3, <2>2 DEF EnterOther
    <3>2. UNCHANGED <<vtableVars, lockVars, checked_module_cctor, calls>>
      BY <2>1, <3>1 DEF lockVars
    <3> QED BY <2>1, <3>1, <3>2, QuietReturn DEF QuietPc
  <2>3. CASE ~(lock[Cur(t)].initializing_tid = t \/ lock[Cur(t)].done)
    <3>1. PICK u \in Thread : u = lock[Cur(t)].initializing_tid
      BY <2>1, AtFacts DEF TypeOK, Lock
    <3>2. /\ section' = t
          /\ frames' = [frames EXCEPT ![t][1].pc = "walk", ![t][1].cursor = lock[Cur(t)].initializing_tid]
      BY <1>3, <2>3 DEF EnterOther
    <3>3. frames \in [Thread -> Seq(Frame)] /\ frames[t] \in Seq(Frame) /\ Len(frames[t]) >= 1
      BY <2>1, AtFacts
    <3>4. frames' = [frames EXCEPT ![t] = [frames[t] EXCEPT
                       ![1] = [frames[t][1] EXCEPT !.pc = "walk", !.cursor = u]]]
      BY <3>1, <3>2, <3>3
    <3> QED BY <2>1, <2>3, <3>2, <3>4, WalkGoto
  <2> QED BY <2>2, <2>3
<1>4. CASE Walk(t)
  <2> DEFINE pending == blocked[Head(frames[t]).cursor]
  <2>1. At(t, "walk") /\ UNCHANGED <<vtableVars, checked_module_cctor, calls>>
    BY <1>4 DEF Walk
  <2>2. /\ section = t /\ lock[Cur(t)] # NULL /\ lock[Cur(t)].initializing_tid # t
        /\ Head(frames[t]).cursor \in Thread
    BY <2>1 DEF IInv, WalkInv
  <2>3. CASE Register(t)
    BY <2>1, <2>3, RegisterStep
  <2>4. CASE section' = NULL /\ Return(t, FALSE) /\ UNCHANGED <<lock, blocked>>
    BY <2>1, <2>2, <2>4, AtFacts, ReturnStep DEF QuietPc, vtableVars, TypeOK
  <2>5. CASE /\ frames' = [frames EXCEPT ![t][1].cursor = lock[pending].initializing_tid]
             /\ pending # NULL /\ UNCHANGED <<section, lock, blocked>>
    <3>1. lock[pending].initializing_tid \in Thread
      <4>1. PICK u \in Thread : u = Head(frames[t]).cursor
        BY <2>2
      <4>2. /\ At(u, "wait") \/ At(u, "finish")
            /\ blocked[u] = Cur(u)
        BY <2>5, <4>1 DEF IInv, BlockedInv
      <4>3. lock[Cur(u)] # NULL /\ Cur(u) \in Class
        BY <4>2, AtFacts DEF IInv, WaitInv
      <4> QED BY <4>1, <4>2, <4>3 DEF IInv, TypeOK, Lock
    <3>2. PICK u \in Thread : u = lock[pending].initializing_tid
      BY <3>1
    <3>3. frames \in [Thread -> Seq(Frame)] /\ frames[t] \in Seq(Frame) /\ Len(frames[t]) >= 1
          /\ frames[t][1] \in Frame /\ frames[t][1].pc = "walk"
      BY <2>1, AtFacts
    <3>4. frames' = [frames EXCEPT ![t][1].cursor = u]
      BY <2>5, <3>2
    <3>5. [frames[t][1] EXCEPT !.cursor = u] = [frames[t][1] EXCEPT !.pc = "walk", !.cursor = u]
      BY <3>3 DEF Frame
    <3>6. frames' = [frames EXCEPT ![t] = [frames[t] EXCEPT
                       ![1] = [frames[t][1] EXCEPT !.pc = "walk", !.cursor = u]]]
      BY <3>4, <3>5
    <3> QED BY <2>1, <2>2, <2>5, <3>6, WalkGoto
  <2> QED BY <1>4, <2>3, <2>4, <2>5 DEF Walk
<1> QED BY <1>1, <1>2, <1>3, <1>4

\* The steps of a static constructor, and of the exception it throws.
LEMMA InCctor ==
    ASSUME IInv, NEW t \in Thread,
           CctorUses(t) \/ CctorCatches(t) \/ CctorRethrows(t) \/ CctorEnds(t) \/ Fail(t) \/ Store(t)
    PROVE  IInv'
<1>0. frames \in [Thread -> Seq(Frame)] /\ StackInv /\ TypeOK /\ FailInv
  BY DEF IInv, TypeOK
<1>1. CASE CctorUses(t)
  <2>1. At(t, "run") /\ UNCHANGED <<vtableVars, lockVars, checked_module_cctor, calls>>
    BY <1>1 DEF CctorUses
  <2>2. /\ Busy(t) /\ Head(frames[t]) = frames[t][1] /\ frames[t][1] \in Frame
        /\ frames[t][1].pc = "run" /\ frames[t] # <<>> /\ Cur(t) = frames[t][1].class
    BY <2>1, AtFacts
  <2>3. PICK c \in Head(frames[t]).todo :
          Call(t, c, <<[Head(frames[t]) EXCEPT !.todo = @ \ {c}]>> \o Tail(frames[t]))
    BY <1>1 DEF CctorUses
  <2> DEFINE f == [frames[t][1] EXCEPT !.todo = @ \ {c}]
  <2>4. f \in Frame /\ f.class = Cur(t) /\ f.pc = "run" /\ c \in Class
    BY <2>2, <2>3 DEF Frame
  <2>5. Call(t, c, <<f>> \o Tail(frames[t]))
    BY <2>2, <2>3
  <2> HIDE DEF f
  <2>6. Pushes(t, f.pc)
    BY <1>0, <2>2, <2>4, <2>5, CallFacts
  <2>7. Pushes(t, "run")
    BY <2>4, <2>6
  <2>8. frames[t][1].pc \in QuietPc /\ calls' \in [Thread -> 0..MaxCalls] /\ UNCHANGED calls
        /\ checked_module_cctor' \in BOOLEAN
    BY <1>0, <2>1, <2>2 DEF QuietPc, TypeOK
  <2> QED BY <2>1, <2>2, <2>7, <2>8, CallStep
<1>2. CASE CctorCatches(t)
  <2>1. At(t, "run") /\ UNCHANGED <<vtableVars, lockVars, checked_module_cctor, calls>>
    BY <1>2 DEF CctorCatches
  <2>2. /\ Busy(t) /\ frames[t][1] \in Frame /\ frames[t] # <<>>
        /\ frames[t][1].pc = "run" /\ Cur(t) = frames[t][1].class
    BY <2>1, AtFacts
  <2> DEFINE f == [frames[t][1] EXCEPT !.exc = FALSE]
  <2>3. f \in Frame /\ f.class = Cur(t) /\ f.pc = "run"
    BY <2>2 DEF Frame
  <2>4. frames' = [frames EXCEPT ![t] = [frames[t] EXCEPT ![1] = f]]
    BY <1>2 DEF CctorCatches
  <2> HIDE DEF f
  <2>5. TopMoves(t, f.pc)
    BY <1>0, <2>2, <2>3, <2>4, TopFrame
  <2>6. TopMoves(t, "run") /\ "run" \in QuietPc
    BY <2>3, <2>5 DEF QuietPc
  <2>7. Settles(t, 0)
    BY <1>0, <2>2, <2>6, GotoSettles
  <2>8. \A i \in 1..Len(frames[t]) : frames[t][i].pc \in QuietPc \cup {"walk"}
    BY <1>0, <2>2, <2>6, QuietStack
  <2>9. /\ UNCHANGED <<lock, init_failed, type_init_exception, blocked, section, initialized, calls>>
        /\ initialized \in [Class -> BOOLEAN] /\ checked_module_cctor' \in BOOLEAN
        /\ calls \in [Thread -> 0..MaxCalls]
    BY <1>0, <2>1 DEF vtableVars, lockVars, TypeOK
  <2> QED BY <2>2, <2>7, <2>8, <2>9, QuietStep
<1>3. ASSUME At(t, "run"), NEW pc \in {"fail", "done"}, TopMoves(t, pc),
             UNCHANGED <<vtableVars, lockVars, checked_module_cctor, calls>>
      PROVE  IInv'
  <2>1. frames[t][1].pc = "run" /\ Cur(t) = frames[t][1].class /\ Cur(t) \in Class
        /\ 1 \in 1..Len(frames[t])
    BY <1>0, <1>3, AtFacts, TopFacts
  <2>2. pc \in RunPc \ {"leave"} /\ frames[t][1].pc \in RunPc \ {"leave"}
    BY <2>1 DEF RunPc
  <2>3. ~init_failed[Cur(t)]
    BY <1>0, <2>1, <2>2 DEF FailInv
  <2>4. /\ UNCHANGED <<initialized, lock, blocked, section, checked_module_cctor, calls,
                       init_failed, type_init_exception>>
        /\ init_failed' \in [Class -> BOOLEAN] /\ type_init_exception' \subseteq Class
    BY <1>0, <1>3 DEF vtableVars, lockVars, TypeOK
  <2> QED BY <1>3, <2>2, <2>3, <2>4, RunMoveStep
<1>4. AfterThrow(Cur(t)) \in {"fail", "done"}
  BY DEF AfterThrow
<1>5. CASE CctorRethrows(t)
  <2>1. At(t, "run") /\ UNCHANGED <<vtableVars, lockVars, checked_module_cctor, calls>>
    BY <1>5 DEF CctorRethrows
  <2>2. Busy(t) /\ frames[t][1] \in Frame /\ Cur(t) = frames[t][1].class
    BY <2>1, AtFacts
  <2>3. PICK pc \in {"fail", "done"} : pc = AfterThrow(Cur(t))
    BY <1>4
  <2> DEFINE f == [frames[t][1] EXCEPT !.exc = FALSE, !.todo = {}, !.pc = pc]
  <2>4. f \in Frame /\ f.class = Cur(t) /\ f.pc = pc
    BY <2>2 DEF Frame, Pcs
  <2>5. frames' = [frames EXCEPT ![t] = [frames[t] EXCEPT ![1] = f]]
    <3>1. frames' = [frames EXCEPT ![t][1].exc = FALSE, ![t][1].todo = {}, ![t][1].pc = pc]
      BY <1>5, <2>3 DEF CctorRethrows
    <3>2. frames[t] \in Seq(Frame) /\ Len(frames[t]) >= 1
      BY <1>0, <2>2, TopFacts
    <3> QED BY <1>0, <3>1, <3>2
  <2> HIDE DEF f
  <2>6. TopMoves(t, f.pc)
    BY <1>0, <2>2, <2>4, <2>5, TopFrame
  <2> QED BY <1>3, <2>1, <2>4, <2>6
<1>6. CASE CctorEnds(t)
  <2>1. At(t, "run") /\ UNCHANGED <<vtableVars, lockVars, checked_module_cctor, calls>>
    BY <1>6 DEF CctorEnds
  <2>2. PICK pc \in {"fail", "done"} : Goto(t, pc)
    BY <1>4, <1>6 DEF CctorEnds
  <2>3. TopMoves(t, pc)
    BY <1>0, <2>1, <2>2, GotoFacts DEF Pcs, At
  <2> QED BY <1>3, <2>1, <2>3
<1>7. CASE Fail(t)
  <2>1. At(t, "fail") /\ Goto(t, "store")
        /\ init_failed' = [init_failed EXCEPT ![Cur(t)] = TRUE]
        /\ UNCHANGED <<initialized, type_init_exception, lock, blocked, section,
                       checked_module_cctor, calls>>
    BY <1>7 DEF Fail, lockVars
  <2>2. TopMoves(t, "store")
    BY <1>0, <2>1, GotoFacts DEF Pcs, At
  <2>3. frames[t][1].pc \in RunPc \ {"leave"} /\ "store" \in RunPc \ {"leave"}
    BY <2>1, AtFacts DEF RunPc
  <2>4. /\ init_failed' \in [Class -> BOOLEAN]
        /\ \A c \in Class \ {Cur(t)} : init_failed'[c] = init_failed[c]
        /\ type_init_exception' \subseteq Class
    BY <1>0, <2>1 DEF TypeOK
  <2> QED BY <2>1, <2>2, <2>3, <2>4, RunMoveStep
<1>8. CASE Store(t)
  <2>1. At(t, "store") /\ Goto(t, "done")
        /\ type_init_exception' = type_init_exception \cup {Cur(t)}
        /\ UNCHANGED <<initialized, init_failed, lock, blocked, section,
                       checked_module_cctor, calls>>
    BY <1>8 DEF Store, lockVars
  <2>2. TopMoves(t, "done")
    BY <1>0, <2>1, GotoFacts DEF Pcs, At
  <2>3. frames[t][1].pc \in RunPc \ {"leave"} /\ "done" \in RunPc \ {"leave"} /\ Cur(t) \in Class
    BY <2>1, AtFacts DEF RunPc
  <2>4. init_failed' \in [Class -> BOOLEAN] /\ type_init_exception' \subseteq Class
    BY <1>0, <2>1, <2>3 DEF TypeOK
  <2> QED BY <2>1, <2>2, <2>3, <2>4, RunMoveStep
<1> QED BY <1>1, <1>2, <1>5, <1>6, <1>7, <1>8

\* The end of a call that used the lock.
LEMMA Ending ==
    ASSUME IInv, NEW t \in Thread, Done(t) \/ Leave(t) \/ Finish(t) \/ Raise(t)
    PROVE  IInv'
<1>0. frames \in [Thread -> Seq(Frame)] /\ StackInv /\ TypeOK /\ RunInv
  BY DEF IInv, TypeOK
<1>1. ASSUME At(t, "done") \/ At(t, "leave")
      PROVE  /\ Cur(t) \in Class /\ Busy(t) /\ lock[Cur(t)] \in Lock /\ lock[Cur(t)].held
             /\ At(t, "leave") => lock[Cur(t)].done
  <2>1. /\ Cur(t) \in Class /\ Busy(t) /\ Cur(t) = frames[t][1].class /\ 1 \in 1..Len(frames[t])
        /\ frames[t][1].pc \in RunPc /\ (At(t, "leave") => frames[t][1].pc = "leave")
    BY <1>0, <1>1, TopFacts DEF At, RunPc
  <2>2. lock[Cur(t)] # NULL /\ lock[Cur(t)].held /\ (At(t, "leave") => lock[Cur(t)].done)
    BY <1>0, <2>1 DEF RunInv
  <2> QED BY <1>0, <2>1, <2>2 DEF TypeOK
<1>2. CASE Done(t)
  <2>1. At(t, "done") /\ Goto(t, "leave")
        /\ UNCHANGED <<vtableVars, blocked, section, checked_module_cctor, calls>>
        /\ lock' = [lock EXCEPT ![Cur(t)].done = TRUE]
    BY <1>2 DEF Done
  <2>2. PICK c \in Class, l \in Lock : c = Cur(t) /\ l = lock[c] /\ l.held
    BY <1>1, <2>1
  <2>3. [l EXCEPT !.done = TRUE] = [l EXCEPT !.done = TRUE, !.held = ("leave" = "leave")]
    BY <2>2 DEF Lock
  <2>4. lock' = [lock EXCEPT ![c] = [lock[c] EXCEPT !.done = TRUE, !.held = ("leave" = "leave")]]
    BY <2>1, <2>2, <2>3
  <2>5. TopMoves(t, "leave") /\ frames[t][1].pc = "done"
    BY <1>0, <1>1, <2>1, GotoFacts, AtFacts DEF Pcs
  <2> QED BY <2>1, <2>2, <2>4, <2>5, EndMove
<1>3. CASE Leave(t)
  <2>1. At(t, "leave") /\ Goto(t, "finish")
        /\ UNCHANGED <<vtableVars, blocked, section, checked_module_cctor, calls>>
        /\ lock' = [lock EXCEPT ![Cur(t)].held = FALSE]
    BY <1>3 DEF Leave
  <2>2. PICK c \in Class, l \in Lock : c = Cur(t) /\ l = lock[c] /\ l.done
    BY <1>1, <2>1
  <2>3. [l EXCEPT !.held = FALSE] = [l EXCEPT !.done = TRUE, !.held = ("finish" = "leave")]
    BY <2>2 DEF Lock
  <2>4. lock' = [lock EXCEPT ![c] = [lock[c] EXCEPT !.done = TRUE, !.held = ("finish" = "leave")]]
    BY <2>1, <2>2, <2>3
  <2>5. TopMoves(t, "finish") /\ frames[t][1].pc = "leave"
    BY <1>0, <1>1, <2>1, GotoFacts, AtFacts DEF Pcs
  <2> QED BY <2>1, <2>2, <2>4, <2>5, EndMove
<1>4. CASE Finish(t)
  <2>1. At(t, "finish") /\ (Goto(t, "raise") \/ Return(t, FALSE))
    BY <1>4 DEF Finish
  <2>2. Busy(t) /\ frames[t][1].pc = "finish" /\ Cur(t) \in Class
    BY <2>1, AtFacts
  <2>3. ASSUME Goto(t, "raise") PROVE Settles(t, 0)
    <3>1. TopMoves(t, "raise")
      BY <1>0, <2>2, <2>3, GotoFacts DEF Pcs
    <3> QED BY <1>0, <2>2, <3>1, GotoSettles DEF QuietPc
  <2>4. ASSUME Return(t, FALSE) PROVE Settles(t, 1)
    <3>1. Pops(t)
      BY <1>0, <2>2, <2>4, ReturnFacts
    <3> QED BY <1>0, <2>2, <3>1, ReturnSettles
  <2>5. PICK c \in Class : c = Cur(t)
    BY <2>2
  <2>6. Settles(t, 0) \/ Settles(t, 1)
    BY <2>1, <2>3, <2>4
  <2> QED BY <1>4, <2>5, <2>6, FinishMove
<1>5. CASE Raise(t)
  <2>1. At(t, "raise") /\ Return(t, TRUE)
        /\ UNCHANGED <<vtableVars, lockVars, checked_module_cctor, calls>>
    BY <1>5 DEF Raise
  <2> QED BY <2>1, QuietReturn DEF QuietPc
<1> QED BY <1>2, <1>3, <1>4, <1>5

\* A thread uses a class.
LEMMA UseStep ==
    ASSUME IInv, NEW t \in Thread, NEW c \in Class, Use(t, c)
    PROVE  IInv'
<1>0. frames \in [Thread -> Seq(Frame)] /\ TypeOK
  BY DEF IInv, TypeOK
<1>1. ~Busy(t) /\ calls[t] > 0 /\ Call(t, c, <<>>)
      /\ calls' = [calls EXCEPT ![t] = calls[t] - 1]
      /\ UNCHANGED <<vtableVars, lockVars, checked_module_cctor>>
  BY DEF Use
<1>2. Pushes(t, "run") /\ Len(frames[t]) = 0
  BY <1>0, <1>1, UseFacts DEF Busy
<1>3. calls' \in [Thread -> 0..MaxCalls] /\ (\A u \in Thread \ {t} : calls'[u] = calls[u])
      /\ checked_module_cctor' \in BOOLEAN
  BY <1>0, <1>1, ClassAssumption DEF TypeOK
<1> QED BY <1>1, <1>2, <1>3, CallStep

\* Every step keeps the inductive invariant.
LEMMA InvStep == IInv /\ [Next]_vars => IInv'
<1> SUFFICES ASSUME IInv, [Next]_vars PROVE IInv'
  OBVIOUS
<1>1. CASE UNCHANGED vars
  <2>1. UNCHANGED <<initialized, init_failed, type_init_exception, lock, blocked, section,
                    checked_module_cctor, frames, calls>>
    BY <1>1 DEF vars, vtableVars, lockVars
  <2>2. TypeOK'
    BY <2>1 DEF IInv, TypeOK
  <2>3. StackInv' /\ RunInv' /\ FailInv'
    BY <2>1 DEF IInv, StackInv, RunInv, FailInv
  <2>4. WalkInv' /\ WaitInv' /\ BlockedInv'
    BY <2>1 DEF IInv, WalkInv, WaitInv, BlockedInv, At, Busy, Cur
  <2>5. LockInv' /\ CauseInv'
    BY <2>1 DEF IInv, LockInv, CauseInv, Runs
  <2>6. CountInv'
    BY <2>1 DEF IInv, CountInv, Holders
  <2> QED BY <2>2, <2>3, <2>4, <2>5, <2>6 DEF IInv
<1>2. ASSUME NEW t \in Thread, Step(t) PROVE IInv'
  BY <1>2, BeforeLock, UnderSection, EnterFirstStep, WaitStep, InCctor, Ending DEF Step
<1> QED BY <1>1, <1>2, ExitStep, UseStep DEF Next

\* The inductive invariant holds in every reachable state.
THEOREM Invariance == Spec => []IInv
<1>1. Init => IInv
  <2> SUFFICES ASSUME Init PROVE IInv
    OBVIOUS
  <2>1. TypeOK
    <3>1. frames \in [Thread -> Seq(Frame)]
      BY DEF Init
    <3>2. calls \in [Thread -> 0..MaxCalls]
      BY ClassAssumption DEF Init
    <3>3. blocked \in [Thread -> Class \cup {NULL}] /\ lock \in [Class -> Lock \cup {NULL}]
      BY DEF Init
    <3> QED BY <3>1, <3>2, <3>3 DEF Init, TypeOK
  <2>2. \A t \in Thread : frames[t] = <<>> /\ ~Busy(t) /\ Len(frames[t]) = 0
    BY DEF Init, Busy
  <2>3. \A c : Holders(c) = {}
    BY <2>2 DEF Holders
  <2>4. StackInv /\ RunInv /\ FailInv
    BY <2>2 DEF StackInv, RunInv, FailInv
  <2>5. WalkInv /\ WaitInv
    BY <2>2 DEF WalkInv, WaitInv, At
  <2>6. BlockedInv /\ LockInv /\ CauseInv /\ CountInv
    BY <2>3 DEF Init, BlockedInv, LockInv, CauseInv, CountInv
  <2> QED BY <2>1, <2>4, <2>5, <2>6 DEF IInv
<1> QED BY <1>1, InvStep, PTL DEF Spec

\* Every variable keeps the type of the C variable it stands for, and a lock
\* that is not freed counts at least one thread.
THEOREM TypeCorrect == Spec => []TypeOK
<1>1. IInv => TypeOK
  BY DEF IInv
<1> QED BY Invariance, <1>1, PTL

\* A TypeInitializationLock is freed when the last of the threads that use it
\* is done, and blocked_thread_hash has exactly the threads that wait.
THEOREM LockLifetime == Spec => []LockLives
<1>1. ASSUME IInv PROVE LockLives
  <2>0. TypeOK /\ StackInv /\ RunInv /\ WaitInv /\ BlockedInv /\ CountInv
        /\ frames \in [Thread -> Seq(Frame)]
    BY <1>1 DEF IInv, TypeOK
  <2>1. ASSUME NEW t \in Thread, NEW c \in Class, blocked[t] = c
        PROVE  t \in Holders(c) /\ lock[c] # NULL /\ lock[c].initializing_tid # t
    <3>1. blocked[t] # NULL
      BY <2>1, ClassAssumption
    <3>2. (At(t, "wait") \/ At(t, "finish")) /\ Cur(t) = c /\ lock[c].initializing_tid # t
      BY <2>0, <2>1, <3>1 DEF BlockedInv
    <3> QED BY <2>0, <3>2, WaiterHolds DEF WaitInv
  <2>2. ASSUME NEW t \in Thread, NEW c \in Class, t \in Holders(c), lock[c] # NULL,
               lock[c].initializing_tid # t
        PROVE  blocked[t] = c
    <3>1. ~Outer(t, c)
      BY <2>0, <2>2, OuterRuns
    <3>2. Busy(t) /\ Head(frames[t]).pc \in HolderPc /\ Cur(t) = c
      BY <2>0, <2>2, <3>1, HolderIs
    <3>3. Head(frames[t]).pc \notin RunPc
      BY <2>0, <2>2, <3>2, TopFacts DEF RunInv
    <3>4. At(t, "wait") \/ At(t, "finish")
      BY <3>2, <3>3 DEF At, HolderPc, RunPc
    <3> QED BY <2>0, <2>2, <3>2, <3>4 DEF WaitInv
  <2> QED BY <2>0, <2>1, <2>2 DEF LockLives, CountInv
<1> QED BY Invariance, <1>1, PTL

\* The exception of a static constructor is stored before those that wait
\* for it are let go, unless the thread that ran it died.
THEOREM CauseStored == Spec => []WaiterSeesCause
<1>1. IInv => WaiterSeesCause
  BY DEF IInv, CauseInv, WaiterSeesCause, Busy
<1> QED BY Invariance, <1>1, PTL
-----------------------------------------------------------------------------
\* The refinement of OnceInit.

\* The state of OnceInit that a state of ClassInit stands for.
status == [c \in Class |-> Status(c)]
runner == [c \in Class |-> IF Status(c) = "running" THEN lock[c].initializing_tid ELSE NULL]

\* A step that changes the status of no class.
LEMMA SameStatus ==
    ASSUME \A c \in Class : Status(c)' = Status(c),
           \A c \in Class : Status(c) = "running" =>
               lock'[c].initializing_tid = lock[c].initializing_tid
    PROVE  UNCHANGED <<status, runner>>
BY DEF status, runner

\* A step that changes the status of the classes in C, which are then not
\* "running".
LEMMA EndStatus ==
    ASSUME NEW C \in SUBSET Class, NEW r \in {"ready", "failed"},
           \A c \in C : Status(c) = "running" /\ Status(c)' = r,
           \A c \in Class \ C : Status(c)' = Status(c),
           \A c \in Class \ C : Status(c) = "running" =>
               lock'[c].initializing_tid = lock[c].initializing_tid
    PROVE  Promise!End(C, r)
<1>1. \A c \in C : status[c] = "running"
  BY DEF status
<1>2. status' = [c \in Class |-> IF c \in C THEN r ELSE status[c]]
  BY DEF status
<1>3. runner' = [c \in Class |-> IF c \in C THEN NULL ELSE runner[c]]
  BY DEF runner
<1> QED BY <1>1, <1>2, <1>3 DEF Promise!End, status, runner

\* A class without a constructor is ready at once, or nothing changes.
LEMMA ReadyPromise ==
    ASSUME TypeOK, NEW c \in Class, lock[c] = NULL,
           initialized' = [initialized EXCEPT ![c] = TRUE], UNCHANGED <<init_failed, lock>>
    PROVE  Promise!Skip(c) \/ UNCHANGED <<status, runner>>
<1>1. initialized'[c] /\ \A b \in Class \ {c} : initialized'[b] = initialized[b]
  BY DEF TypeOK
<1>2. \A b \in Class \ {c} : Status(b)' = Status(b)
  BY <1>1 DEF Status
<1>3. CASE initialized[c] \/ init_failed[c]
  <2>1. Status(c)' = Status(c)
    BY <1>1, <1>3 DEF Status
  <2> QED BY <1>2, <2>1, SameStatus
<1>4. CASE ~initialized[c] /\ ~init_failed[c]
  <2>1. Status(c) = "new" /\ Status(c)' = "ready"
    BY <1>1, <1>4 DEF Status
  <2>2. status[c] = "new" /\ status' = [status EXCEPT ![c] = "ready"]
    BY <1>2, <2>1 DEF status
  <2>3. UNCHANGED runner
    BY <1>2, <2>1 DEF runner
  <2> QED BY <2>2, <2>3 DEF Promise!Skip, status, runner
<1> QED BY <1>3, <1>4

\* The first thread starts the constructor.
LEMMA StartPromise ==
    ASSUME TypeOK, NEW t \in Thread, EnterFirst(t), Cur(t) \in Class
    PROVE  \E c \in Class : Promise!Start(c, t)
<1>1. PICK c \in Class : c = Cur(t)
  OBVIOUS
<1>2. ~initialized[c] /\ ~init_failed[c] /\ lock[c] = NULL /\ UNCHANGED <<initialized, init_failed>>
  BY <1>1 DEF EnterFirst, First, vtableVars
<1> DEFINE l == [initializing_tid |-> t, waiting_count |-> 1, done |-> FALSE, held |-> TRUE]
<1>3. lock' = [lock EXCEPT ![c] = l]
  BY <1>1 DEF EnterFirst
<1>4. l # NULL
  <2>1. {} \in SUBSET Thread
    OBVIOUS
  <2>2. Cardinality({} \cup {t}) = Cardinality({}) + 1 /\ Cardinality({} \cup {t}) <= Cardinality(Thread)
        /\ Cardinality(Thread) \in Nat
    BY <2>1, HolderCount
  <2>3. 1 \in 1..Cardinality(Thread)
    BY <2>2, FS_EmptySet
  <2>4. l \in Lock
    BY <2>3 DEF Lock
  <2> QED BY <2>4, NullAssumption
<1>5. l.initializing_tid = t /\ ~l.done
  OBVIOUS
<1> HIDE DEF l
<1>6. lock'[c] = l /\ \A b \in Class \ {c} : lock'[b] = lock[b]
  BY <1>3 DEF TypeOK
<1>7. \A b \in Class \ {c} : Status(b)' = Status(b)
  BY <1>2, <1>6 DEF Status
<1>8. Status(c) = "new" /\ Status(c)' = "running"
  BY <1>2, <1>4, <1>5, <1>6 DEF Status
<1>9. status[c] = "new" /\ status' = [status EXCEPT ![c] = "running"]
  BY <1>7, <1>8 DEF status
<1>10. runner' = [runner EXCEPT ![c] = t]
  BY <1>5, <1>6, <1>7, <1>8 DEF runner
<1> QED BY <1>9, <1>10 DEF Promise!Start, status, runner

\* The constructor fails.
LEMMA FailPromise ==
    ASSUME IInv, NEW t \in Thread, Fail(t)
    PROVE  \E c \in Class : Promise!End({c}, "failed")
<1>1. PICK c \in Class : c = Cur(t)
  BY AtFacts DEF Fail
<1>2. /\ frames[t][1].pc = "fail" /\ frames[t][1].class = c /\ 1 \in 1..Len(frames[t]) /\ TypeOK
      /\ frames[t][1].pc \in RunPc
  BY <1>1, AtFacts, TopFacts DEF Fail, RunPc
<1>3. lock[c] # NULL /\ ~lock[c].done /\ ~init_failed[c]
  BY <1>2 DEF IInv, RunInv, FailInv
<1>4. ~initialized[c]
  BY <1>3 DEF IInv, LockInv
<1>5. UNCHANGED <<initialized, lock>> /\ init_failed' = [init_failed EXCEPT ![c] = TRUE]
  BY <1>1 DEF Fail, lockVars
<1>6. init_failed'[c] /\ \A b \in Class \ {c} : init_failed'[b] = init_failed[b]
  BY <1>2, <1>5 DEF TypeOK
<1>7. Status(c) = "running" /\ Status(c)' = "failed"
  BY <1>3, <1>4, <1>6 DEF Status
<1>8. \A b \in Class \ {c} : Status(b)' = Status(b)
  BY <1>5, <1>6 DEF Status
<1>9. {c} \in SUBSET Class
  OBVIOUS
<1> QED BY <1>5, <1>7, <1>8, <1>9, EndStatus

\* The constructor ends, unless it has failed before.
LEMMA DonePromise ==
    ASSUME IInv, NEW t \in Thread, Done(t)
    PROVE  (\E c \in Class : Promise!End({c}, "ready")) \/ UNCHANGED <<status, runner>>
<1>1. PICK c \in Class : c = Cur(t)
  BY AtFacts DEF Done
<1>2. /\ frames[t][1].pc = "done" /\ frames[t][1].class = c /\ 1 \in 1..Len(frames[t]) /\ TypeOK
      /\ frames[t][1].pc \in RunPc
  BY <1>1, AtFacts, TopFacts DEF Done, RunPc
<1>3. lock[c] # NULL /\ ~lock[c].done
  BY <1>2 DEF IInv, RunInv
<1>4. ~initialized[c] /\ lock[c] \in Lock
  BY <1>2, <1>3 DEF IInv, LockInv, TypeOK
<1>5. UNCHANGED <<initialized, init_failed>> /\ lock' = [lock EXCEPT ![c] = [lock[c] EXCEPT !.done = TRUE]]
  BY <1>1 DEF Done, vtableVars
<1>6. lock'[c] \in Lock /\ lock'[c].done /\ \A b \in Class \ {c} : lock'[b] = lock[b]
  BY <1>2, <1>4, <1>5 DEF TypeOK, Lock
<1>7. \A b \in Class \ {c} : Status(b)' = Status(b)
  BY <1>5, <1>6 DEF Status
<1>8. CASE init_failed[c]
  <2>1. Status(c)' = Status(c) /\ Status(c) # "running"
    BY <1>5, <1>8 DEF Status
  <2> QED BY <1>6, <1>7, <2>1, SameStatus
<1>9. CASE ~init_failed[c]
  <2>1. Status(c) = "running"
    BY <1>3, <1>4, <1>9 DEF Status
  <2>2. Status(c)' = "ready"
    BY <1>5, <1>6, <1>9, NullAssumption DEF Status
  <2>3. {c} \in SUBSET Class
    OBVIOUS
  <2> QED BY <1>6, <1>7, <2>1, <2>2, <2>3, EndStatus
<1> QED BY <1>8, <1>9

\* A waiter registers, or the initializing thread leaves the lock.
LEMMA KeepPromise ==
    ASSUME IInv, NEW c \in Class, lock[c] \in Lock, lock[c] # NULL,
           NEW l \in Lock, l.done = lock[c].done, l.initializing_tid = lock[c].initializing_tid,
           lock' = [lock EXCEPT ![c] = l], UNCHANGED <<initialized, init_failed>>
    PROVE  UNCHANGED <<status, runner>>
<1>1. lock'[c] = l /\ \A b \in Class \ {c} : lock'[b] = lock[b]
  BY DEF IInv, TypeOK
<1>2. l # NULL
  BY NullAssumption
<1>3. \A b \in Class : Status(b)' = Status(b)
  BY <1>1, <1>2 DEF Status
<1> QED BY <1>1, <1>3, SameStatus

\* The last thread frees the lock of a class that is ready or has failed.
LEMMA FinishPromise ==
    ASSUME IInv, NEW t \in Thread, Finish(t)
    PROVE  UNCHANGED <<status, runner>>
<1>1. PICK c \in Class : c = Cur(t)
  BY AtFacts DEF Finish
<1>2. TypeOK /\ lock[c] # NULL /\ lock[c].done
  BY <1>1 DEF Finish, IInv, WaitInv
<1>3. /\ UNCHANGED init_failed
      /\ initialized' = [initialized EXCEPT ![c] = initialized[c] \/ ~init_failed[c]]
      /\ \A b \in Class \ {c} : lock'[b] = lock[b]
  BY <1>1, <1>2 DEF Finish, TypeOK
<1>4. initialized'[c] = (initialized[c] \/ ~init_failed[c])
      /\ \A b \in Class \ {c} : initialized'[b] = initialized[b]
  BY <1>2, <1>3 DEF TypeOK
<1>5. \A b \in Class \ {c} : Status(b)' = Status(b)
  BY <1>3, <1>4 DEF Status
<1>6. Status(c)' = Status(c) /\ Status(c) # "running"
  BY <1>2, <1>3, <1>4 DEF Status
<1> QED BY <1>3, <1>5, <1>6, SameStatus

\* A thread that exits ends all the constructors that it runs.
LEMMA ExitPromise ==
    ASSUME IInv, NEW t \in Thread, Exit(t)
    PROVE  Promise!End({c \in Class : runner[c] = t}, "failed")
<1>0. TypeOK /\ StackInv /\ RunInv /\ FailInv /\ LockInv /\ frames \in [Thread -> Seq(Frame)]
      /\ At(t, "run")
  BY DEF IInv, TypeOK, Exit
<1>r. PICK R \in SUBSET Class : R = Released(t)
  BY DEF Released
<1>1. \A b \in Class :
        b \in R <=> lock[b] # NULL /\ lock[b].initializing_tid = t /\ ~lock[b].done
  BY <1>r DEF Released
<1>2. ASSUME NEW b \in R PROVE ~initialized[b] /\ ~init_failed[b]
  <2>1. ~initialized[b] /\ Runs(t, b)
    BY <1>0, <1>1 DEF LockInv
  <2>2. PICK i \in 1..Len(frames[t]) : frames[t][i].pc \in RunPc /\ frames[t][i].class = b
    BY <2>1 DEF Runs
  <2>3. frames[t][i].pc \in {"run", "module_done"}
    <3>1. frames[t][1].pc = "run"
      BY <1>0, AtFacts
    <3>2. i = 1 \/ i \in 2..Len(frames[t])
      BY <1>0, TopFacts
    <3> QED BY <1>0, <3>1, <3>2 DEF StackInv
  <2> QED BY <1>0, <2>1, <2>2, <2>3 DEF FailInv
<1>3. \A b \in R : Status(b) = "running"
  BY <1>1, <1>2 DEF Status
<1>4. R = {c \in Class : runner[c] = t}
  <2>1. ASSUME NEW b \in Class PROVE b \in R <=> runner[b] = t
    <3>1. runner[b] = IF Status(b) = "running" THEN lock[b].initializing_tid ELSE NULL
      BY DEF runner
    <3>2. Status(b) = "running" => lock[b] # NULL /\ ~lock[b].done
      BY DEF Status
    <3>3. t # NULL
      BY ClassAssumption
    <3> QED BY <1>1, <1>3, <3>1, <3>2, <3>3
  <2> QED BY <2>1
<1>5. /\ UNCHANGED initialized
      /\ \A b \in R : init_failed'[b]
      /\ \A b \in Class \ R : init_failed'[b] = init_failed[b] /\ lock'[b] = lock[b]
  BY <1>0, <1>r DEF Exit, TypeOK
<1>6. \A b \in R : Status(b)' = "failed"
  BY <1>5 DEF Status
<1>7. \A b \in Class \ R : Status(b)' = Status(b)
  BY <1>5 DEF Status
<1>8. Promise!End(R, "failed")
  BY <1>3, <1>5, <1>6, <1>7, EndStatus
<1> QED BY <1>4, <1>8

\* Every step of ClassInit is a step of OnceInit, or changes nothing there.
LEMMA PromiseStep ==
    ASSUME IInv, [Next]_vars
    PROVE  [Promise!Next]_(Promise!vars)
<1>0. TypeOK
  BY DEF IInv
<1>1. UNCHANGED <<status, runner>> => [Promise!Next]_(Promise!vars)
  BY DEF status, runner, Promise!vars
<1>2. ASSUME UNCHANGED <<initialized, init_failed, lock>> PROVE UNCHANGED <<status, runner>>
  BY <1>2 DEF status, runner, Status
<1>3. CASE UNCHANGED vars
  BY <1>1, <1>2, <1>3 DEF vars, vtableVars, lockVars
<1>4. ASSUME NEW t \in Thread, Exit(t) PROVE [Promise!Next]_(Promise!vars)
  BY <1>4, ExitPromise DEF Promise!Next, runner
<1>5. ASSUME NEW t \in Thread, NEW c \in Class, Use(t, c) PROVE [Promise!Next]_(Promise!vars)
  BY <1>1, <1>2, <1>5 DEF Use, vtableVars, lockVars
<1>6. ASSUME NEW t \in Thread,
             \/ Check(t) \/ ModuleCheck(t) \/ ModuleMark(t) \/ ModuleDone(t) \/ DoubleCheck(t)
             \/ EnterOther(t) \/ Wait(t) \/ CctorUses(t) \/ CctorCatches(t) \/ CctorRethrows(t)
             \/ CctorEnds(t) \/ Store(t) \/ Raise(t)
      PROVE  [Promise!Next]_(Promise!vars)
  <2>1. UNCHANGED <<initialized, init_failed, lock>>
    BY <1>6 DEF Check, ModuleCheck, ModuleMark, ModuleDone, DoubleCheck, EnterOther, Wait,
                CctorUses, CctorCatches, CctorRethrows, CctorEnds, Store, Raise,
                vtableVars, lockVars
  <2> QED BY <1>1, <1>2, <2>1
<1>7. ASSUME NEW t \in Thread, NoCctor(t) PROVE [Promise!Next]_(Promise!vars)
  <2>1. PICK c \in Class : c = Cur(t)
    BY <1>7, AtFacts DEF NoCctor
  <2>2. lock[c] = NULL /\ initialized' = [initialized EXCEPT ![c] = TRUE]
        /\ UNCHANGED <<init_failed, lock>>
    BY <1>7, <2>1 DEF NoCctor, lockVars, IInv, LockInv
  <2> QED BY <1>0, <1>1, <2>2, ReadyPromise DEF Promise!Next
<1>8. ASSUME NEW t \in Thread, EnterUnloaded(t) PROVE [Promise!Next]_(Promise!vars)
  <2>1. PICK c \in Class : c = Cur(t)
    BY <1>8, AtFacts DEF EnterUnloaded, First, Entering
  <2>2. lock[c] = NULL /\ initialized' = [initialized EXCEPT ![c] = TRUE]
        /\ UNCHANGED <<init_failed, lock>>
    BY <1>8, <2>1 DEF EnterUnloaded, First, lockVars
  <2> QED BY <1>0, <1>1, <2>2, ReadyPromise DEF Promise!Next
<1>9. ASSUME NEW t \in Thread, EnterFirst(t) PROVE [Promise!Next]_(Promise!vars)
  <2>1. Cur(t) \in Class
    BY <1>9, AtFacts DEF EnterFirst, First, Entering
  <2> QED BY <1>0, <1>9, <2>1, StartPromise DEF Promise!Next
<1>10. ASSUME NEW t \in Thread, Walk(t) PROVE [Promise!Next]_(Promise!vars)
  <2>1. UNCHANGED <<initialized, init_failed>> /\ At(t, "walk") /\ (UNCHANGED lock \/ Register(t))
    BY <1>10 DEF Walk, vtableVars
  <2>2. CASE UNCHANGED lock
    BY <1>1, <1>2, <2>1, <2>2
  <2>3. CASE Register(t)
    <3>1. PICK c \in Class : c = Cur(t)
      BY <2>1, AtFacts
    <3>2. lock[c] # NULL /\ lock[c] \in Lock
      BY <1>0, <2>1, <3>1 DEF IInv, WalkInv, TypeOK
    <3> DEFINE l == [lock[c] EXCEPT !.waiting_count = @ + 1]
    <3>3. lock' = [lock EXCEPT ![c] = l]
      BY <2>3, <3>1 DEF Register
    <3>4. l \in Lock /\ l.done = lock[c].done /\ l.initializing_tid = lock[c].initializing_tid
      <4>1. ~Outer(t, c)
        BY <1>0, <2>1, <3>1, OuterRuns DEF IInv, WalkInv
      <4>2. t \notin Holders(c)
        BY <2>1, <4>1, AtFacts, HolderIs DEF HolderPc
      <4>3. Holders(c) \in SUBSET Thread /\ Cardinality(Holders(c)) = lock[c].waiting_count
        BY <3>2 DEF IInv, CountInv, Holders
      <4>4. lock[c].waiting_count + 1 \in 1..Cardinality(Thread)
        <5>1. PICK S \in SUBSET Thread : S = Holders(c)
          BY <4>3
        <5>2. /\ Cardinality(S) \in Nat /\ Cardinality(Thread) \in Nat
              /\ Cardinality(S \cup {t}) = Cardinality(S) + 1
              /\ Cardinality(S \cup {t}) <= Cardinality(Thread)
          BY <4>2, <5>1, HolderCount
        <5> QED BY <4>3, <5>1, <5>2
      <4> QED BY <3>2, <4>4 DEF Lock
    <3> HIDE DEF l
    <3> QED BY <1>1, <2>1, <3>2, <3>3, <3>4, KeepPromise
  <2> QED BY <2>1, <2>2, <2>3
<1>11. ASSUME NEW t \in Thread, Leave(t) PROVE [Promise!Next]_(Promise!vars)
  <2>1. PICK c \in Class : c = Cur(t)
    BY <1>11, AtFacts DEF Leave
  <2>2. /\ frames[t][1].pc \in RunPc /\ frames[t][1].class = c /\ 1 \in 1..Len(frames[t])
    BY <1>0, <1>11, <2>1, AtFacts, TopFacts DEF Leave, RunPc
  <2>3. lock[c] # NULL /\ lock[c] \in Lock
    BY <1>0, <2>2 DEF IInv, RunInv, TypeOK
  <2> DEFINE l == [lock[c] EXCEPT !.held = FALSE]
  <2>4. lock' = [lock EXCEPT ![c] = l] /\ UNCHANGED <<initialized, init_failed>>
    BY <1>11, <2>1 DEF Leave, vtableVars
  <2>5. l \in Lock /\ l.done = lock[c].done /\ l.initializing_tid = lock[c].initializing_tid
    BY <2>3 DEF Lock
  <2> HIDE DEF l
  <2> QED BY <1>1, <2>3, <2>4, <2>5, KeepPromise
<1>12. ASSUME NEW t \in Thread, Fail(t) \/ Done(t) \/ Finish(t) PROVE [Promise!Next]_(Promise!vars)
  BY <1>1, <1>12, FailPromise, DonePromise, FinishPromise DEF Promise!Next
<1>13. ASSUME NEW t \in Thread, Step(t) PROVE [Promise!Next]_(Promise!vars)
  BY <1>6, <1>7, <1>8, <1>9, <1>10, <1>11, <1>12, <1>13 DEF Step
<1> QED BY <1>3, <1>4, <1>5, <1>13 DEF Next

\* Class initialization implements OnceInit, for every program: no static
\* constructor is started twice and what came of it never changes.
THEOREM Refinement == Spec => InitializedOnce
<1>1. Init => Promise!Init
  <2> SUFFICES ASSUME Init PROVE Promise!Init
    OBVIOUS
  <2>1. \A c \in Class : Status(c) = "new"
    BY DEF Init, Status
  <2> QED BY <2>1 DEF Promise!Init
<1>2. IInv /\ [Next]_vars => [Promise!Next]_(Promise!vars)
  BY PromiseStep
<1> QED BY Invariance, <1>1, <1>2, PTL DEF Spec, InitializedOnce, Promise!Spec
-----------------------------------------------------------------------------
\* Early returns.

\* The thread in the section is on a walk, and what it has walked over leads
\* from the initializing thread to where it is.
SectionInv == section # NULL => At(section, "walk")
ReachInv ==
    \A t \in Thread : At(t, "walk") =>
        Reaches(lock[Cur(t)].initializing_tid, Head(frames[t]).cursor)

\* A thread changes its own frames only.
LEMMA OwnFrames ==
    ASSUME frames \in [Thread -> Seq(Frame)], NEW t \in Thread,
           Step(t) \/ Exit(t) \/ (\E c \in Class : Use(t, c)), NEW u \in Thread, u # t
    PROVE  frames'[u] = frames[u]
<1>1. CASE Check(t) \/ ModuleCheck(t) \/ ModuleMark(t) \/ ModuleDone(t) \/ NoCctor(t)
  BY <1>1 DEF Check, ModuleCheck, ModuleMark, ModuleDone, NoCctor, Goto, Call, Return
<1>2. CASE DoubleCheck(t) \/ EnterUnloaded(t) \/ EnterFirst(t) \/ EnterOther(t)
  BY <1>2 DEF DoubleCheck, EnterUnloaded, EnterFirst, EnterOther, Goto, Return
<1>3. CASE Walk(t) \/ Wait(t)
  BY <1>3 DEF Walk, Wait, Register, Goto, Return
<1>4. CASE CctorUses(t) \/ CctorCatches(t) \/ CctorRethrows(t) \/ CctorEnds(t)
  BY <1>4 DEF CctorUses, CctorCatches, CctorRethrows, CctorEnds, Goto, Call
<1>5. CASE Fail(t) \/ Store(t) \/ Done(t) \/ Leave(t) \/ Finish(t) \/ Raise(t)
  BY <1>5 DEF Fail, Store, Done, Leave, Finish, Raise, Goto, Return
<1>6. CASE Exit(t) \/ (\E c \in Class : Use(t, c))
  BY <1>6 DEF Exit, Use, Call
<1> QED BY <1>1, <1>2, <1>3, <1>4, <1>5, <1>6 DEF Step

\* Who takes the section, and who gives it up.
LEMMA SectionStep ==
    ASSUME NEW t \in Thread, Step(t) \/ Exit(t) \/ (\E c \in Class : Use(t, c))
    PROVE  EnterOther(t) \/ Walk(t) \/ UNCHANGED section
BY DEF Step, Check, ModuleCheck, ModuleMark, ModuleDone, NoCctor, DoubleCheck, EnterUnloaded,
       EnterFirst, Wait, CctorUses, CctorCatches, CctorRethrows, CctorEnds, Fail, Store, Done,
       Leave, Finish, Raise, Exit, Use, lockVars

\* A thread on a walk only walks.
LEMMA OnlyWalks ==
    ASSUME NEW t \in Thread, At(t, "walk"), Step(t) \/ Exit(t) \/ (\E c \in Class : Use(t, c))
    PROVE  Walk(t)
<1>1. Busy(t) /\ Head(frames[t]).pc = "walk"
  BY DEF At
<1> QED BY <1>1 DEF At, Step, Check, ModuleCheck, ModuleMark, ModuleDone, NoCctor, DoubleCheck,
       EnterUnloaded, EnterFirst, EnterOther, First, Entering, Wait, CctorUses, CctorCatches,
       CctorRethrows, CctorEnds, Fail, Store, Done, Leave, Finish, Raise, Exit, Use

\* While a thread is in the section, no other one changes blocked_thread_hash or
\* who initializes what.
LEMMA WalkKeeps ==
    ASSUME IInv, SectionInv, section # NULL,
           NEW t \in Thread, t # section, Step(t) \/ Exit(t) \/ (\E c \in Class : Use(t, c))
    PROVE  /\ UNCHANGED blocked
           /\ \A c \in Class : lock[c] # NULL =>
                lock'[c] # NULL /\ lock'[c].initializing_tid = lock[c].initializing_tid
<1>0. TypeOK /\ lock \in [Class -> Lock \cup {NULL}]
  BY DEF IInv, TypeOK
<1>1. ~Walk(t)
  BY DEF IInv, WalkInv, Walk
<1>2. CASE UNCHANGED <<lock, blocked>>
  BY <1>2
<1>3. CASE Done(t) \/ Leave(t)
  <2>1. At(t, "done") \/ At(t, "leave")
    BY <1>3 DEF Done, Leave
  <2>2. PICK c \in Class : c = Cur(t)
    BY <2>1, AtFacts
  <2>3. lock[c] \in Lock
    <3>1. Cur(t) = frames[t][1].class /\ 1 \in 1..Len(frames[t]) /\ frames[t][1].pc \in RunPc
      BY <2>1, AtFacts DEF RunPc
    <3>2. lock[c] # NULL
      BY <2>2, <3>1 DEF IInv, RunInv
    <3> QED BY <1>0, <3>2
  <2>4. UNCHANGED blocked /\ \/ lock' = [lock EXCEPT ![c] = [lock[c] EXCEPT !.done = TRUE]]
                             \/ lock' = [lock EXCEPT ![c] = [lock[c] EXCEPT !.held = FALSE]]
    BY <1>3, <2>2 DEF Done, Leave
  <2>5. PICK l \in Lock : l.initializing_tid = lock[c].initializing_tid
                          /\ lock' = [lock EXCEPT ![c] = l]
    <3>1. [lock[c] EXCEPT !.done = TRUE] \in Lock /\ [lock[c] EXCEPT !.held = FALSE] \in Lock
      BY <2>3 DEF Lock
    <3>2. [lock[c] EXCEPT !.done = TRUE].initializing_tid = lock[c].initializing_tid
      BY <2>3 DEF Lock
    <3>3. [lock[c] EXCEPT !.held = FALSE].initializing_tid = lock[c].initializing_tid
      BY <2>3 DEF Lock
    <3> QED BY <2>4, <3>1, <3>2, <3>3
  <2> QED BY <1>0, <2>4, <2>5, NullAssumption
<1>4. UNCHANGED <<lock, blocked>> \/ Done(t) \/ Leave(t)
  BY <1>1 DEF Step, Check, ModuleCheck, ModuleMark, ModuleDone, NoCctor, DoubleCheck,
     EnterUnloaded, EnterFirst, EnterOther, First, Entering, Wait, CctorUses, CctorCatches,
     CctorRethrows, CctorEnds, Fail, Store, Finish, Raise, Exit, Use, lockVars
<1> QED BY <1>2, <1>3, <1>4

\* What EnterOther and Walk do to the section and the walk.
LEMMA WalkEffect ==
    ASSUME IInv, NEW t \in Thread, EnterOther(t) \/ Walk(t)
    PROVE  \/ section' # t
           \/ /\ section' = t /\ At(t, "walk")' /\ Cur(t)' = Cur(t) /\ UNCHANGED <<lock, blocked>>
              /\ \/ Head(frames'[t]).cursor = lock[Cur(t)].initializing_tid
                 \/ /\ At(t, "walk")
                    /\ BlockedOn(Head(frames[t]).cursor, Head(frames'[t]).cursor)
                    /\ Head(frames'[t]).cursor \in Thread
<1>0. t # NULL /\ frames \in [Thread -> Seq(Frame)]
  BY ClassAssumption DEF IInv, TypeOK
<1>1. ASSUME NEW p \in {"enter", "walk"}, At(t, p), NEW u,
             frames' = [frames EXCEPT ![t][1].pc = p, ![t][1].pc = "walk", ![t][1].cursor = u]
      PROVE  At(t, "walk")' /\ Cur(t)' = Cur(t) /\ Head(frames'[t]).cursor = u
  <2>1. frames[t] \in Seq(Frame) /\ Len(frames[t]) >= 1 /\ frames[t][1] \in Frame
        /\ Cur(t) = frames[t][1].class
    BY <1>1, AtFacts
  <2>2. PICK f : f = [frames[t][1] EXCEPT !.pc = "walk", !.cursor = u]
    OBVIOUS
  <2>3. f.pc = "walk" /\ f.cursor = u /\ f.class = frames[t][1].class
    BY <2>1, <2>2 DEF Frame
  <2>4. frames'[t] = [frames[t] EXCEPT ![1] = f]
    BY <1>0, <1>1, <2>1, <2>2
  <2>5. frames'[t] # <<>> /\ Head(frames'[t]) = f
    BY <2>1, <2>4
  <2> QED BY <2>1, <2>3, <2>5 DEF At, Busy, Cur
<1>2. CASE EnterOther(t)
  <2>1. At(t, "enter") /\ section = NULL /\ UNCHANGED <<lock, blocked>>
    BY <1>2 DEF EnterOther, Entering
  <2>2. PICK u : u = lock[Cur(t)].initializing_tid
    OBVIOUS
  <2>3. section' = section \/
        (section' = t /\ frames' = [frames EXCEPT ![t][1].pc = "walk", ![t][1].cursor = u])
    BY <1>2, <2>2 DEF EnterOther
  <2>4. CASE frames' = [frames EXCEPT ![t][1].pc = "walk", ![t][1].cursor = u] /\ section' = t
    <3>1. frames[t] \in Seq(Frame) /\ Len(frames[t]) >= 1 /\ frames[t][1] \in Frame
      BY <2>1, AtFacts
    <3>2. frames' = [frames EXCEPT ![t][1].pc = "enter", ![t][1].pc = "walk", ![t][1].cursor = u]
      BY <1>0, <2>4, <3>1
    <3>3. At(t, "walk")' /\ Cur(t)' = Cur(t) /\ Head(frames'[t]).cursor = u
      BY <1>1, <2>1, <3>2
    <3> QED BY <2>1, <2>2, <2>4, <3>3
  <2> QED BY <1>0, <2>1, <2>3, <2>4
<1>3. CASE Walk(t)
  <2> DEFINE pending == blocked[Head(frames[t]).cursor]
  <2>1. At(t, "walk") /\ section = t
    BY <1>3 DEF Walk, IInv, WalkInv
  <2>2. CASE section' = NULL
    BY <1>0, <2>2
  <2>3. PICK u : u = lock[pending].initializing_tid
    OBVIOUS
  <2>4. CASE /\ frames' = [frames EXCEPT ![t][1].cursor = u]
             /\ pending # NULL /\ UNCHANGED <<section, lock, blocked>>
    <3>1. frames[t] \in Seq(Frame) /\ Len(frames[t]) >= 1 /\ frames[t][1] \in Frame
          /\ frames[t][1].pc = "walk"
      BY <2>1, AtFacts
    <3>2. frames' = [frames EXCEPT ![t][1].pc = "walk", ![t][1].pc = "walk", ![t][1].cursor = u]
      <4>1. [frames[t][1] EXCEPT !.pc = "walk"] = frames[t][1]
        BY <3>1 DEF Frame
      <4> QED BY <1>0, <2>4, <3>1, <4>1
    <3>3. At(t, "walk")' /\ Cur(t)' = Cur(t) /\ Head(frames'[t]).cursor = u
      BY <1>1, <2>1, <3>2
    <3>4. BlockedOn(Head(frames[t]).cursor, u)
      BY <2>3, <2>4 DEF BlockedOn
    <3>5. u \in Thread
      <4>1. PICK v \in Thread : v = Head(frames[t]).cursor
        BY <2>1 DEF IInv, WalkInv
      <4>2. (At(v, "wait") \/ At(v, "finish")) /\ blocked[v] = Cur(v)
        BY <2>4, <4>1 DEF IInv, BlockedInv
      <4>3. lock[Cur(v)] # NULL /\ Cur(v) \in Class
        BY <4>2, AtFacts DEF IInv, WaitInv
      <4> QED BY <2>3, <4>1, <4>2, <4>3 DEF IInv, TypeOK, Lock
    <3> QED BY <2>1, <2>4, <3>3, <3>4, <3>5
  <2> QED BY <1>3, <2>2, <2>3, <2>4 DEF Walk, Register
<1> QED BY <1>2, <1>3

\* The section.
LEMMA SectionKept ==
    ASSUME IInv, SectionInv, [Next]_vars
    PROVE  SectionInv'
<1>0. frames \in [Thread -> Seq(Frame)] /\ section \in Thread \cup {NULL}
  BY DEF IInv, TypeOK
<1>1. CASE UNCHANGED vars
  BY <1>1 DEF vars, lockVars, SectionInv, At, Busy
<1>2. ASSUME NEW t \in Thread, Step(t) \/ Exit(t) \/ (\E c \in Class : Use(t, c))
      PROVE  SectionInv'
  <2>1. CASE EnterOther(t) \/ Walk(t)
    <3>1. section' \in {section, NULL, t}
      BY <2>1 DEF EnterOther, Walk, Register
    <3>2. section \in {NULL, t}
      BY <2>1 DEF EnterOther, Entering, Walk, IInv, WalkInv
    <3> QED BY <2>1, <3>1, <3>2, WalkEffect DEF SectionInv
  <2>2. CASE section = NULL /\ UNCHANGED section
    BY <2>2 DEF SectionInv
  <2>3. CASE section # NULL /\ UNCHANGED section /\ ~Walk(t)
    <3>1. section \in Thread /\ At(section, "walk")
      BY <1>0, <2>3 DEF SectionInv
    <3>2. t # section
      BY <1>2, <2>3, <3>1, OnlyWalks
    <3>3. frames'[section] = frames[section]
      BY <1>0, <1>2, <3>1, <3>2, OwnFrames
    <3> QED BY <2>3, <3>1, <3>3 DEF SectionInv, At, Busy
  <2> QED BY <1>2, <2>1, <2>2, <2>3, SectionStep
<1> QED BY <1>1, <1>2 DEF Next

\* Reaches depends on the locks that are in use only.
LEMMA ReachesKept ==
    ASSUME IInv, UNCHANGED blocked,
           \A c \in Class : lock[c] # NULL => lock'[c].initializing_tid = lock[c].initializing_tid,
           NEW t \in Thread, NEW u \in Thread, Reaches(t, u)
    PROVE  Reaches(t, u)'
<1>1. ASSUME NEW v \in Thread, NEW w \in Thread
      PROVE  BlockedOn(v, w)' <=> BlockedOn(v, w)
  <2>1. CASE blocked[v] = NULL
    BY <2>1 DEF BlockedOn
  <2>2. CASE blocked[v] # NULL
    <3>1. (At(v, "wait") \/ At(v, "finish")) /\ blocked[v] = Cur(v)
      BY <2>2 DEF IInv, BlockedInv
    <3>2. lock[blocked[v]] # NULL /\ blocked[v] \in Class
      BY <3>1, AtFacts DEF IInv, WaitInv
    <3> QED BY <3>2 DEF BlockedOn
  <2> QED BY <2>1, <2>2
<1> QED BY <1>1 DEF Reaches

\* The walk.
LEMMA ReachKept ==
    ASSUME IInv, SectionInv, ReachInv, [Next]_vars
    PROVE  ReachInv'
<1>0. /\ frames \in [Thread -> Seq(Frame)] /\ lock \in [Class -> Lock \cup {NULL}]
      /\ section \in Thread \cup {NULL} /\ IInv'
  BY InvStep DEF IInv, TypeOK
<1>1. CASE UNCHANGED vars
  <2>1. UNCHANGED <<lock, blocked, frames>>
    BY <1>1 DEF vars, lockVars
  <2> QED BY <2>1 DEF ReachInv, Reaches, BlockedOn, At, Busy, Cur
<1>2. ASSUME NEW t \in Thread, Step(t) \/ Exit(t) \/ (\E c \in Class : Use(t, c)),
             NEW u \in Thread, At(u, "walk")'
      PROVE  Reaches(lock[Cur(u)].initializing_tid, Head(frames[u]).cursor)'
  <2>0. section' = u /\ u # NULL
    BY <1>0, <1>2, ClassAssumption DEF IInv, WalkInv
  <2>1. CASE EnterOther(t) \/ Walk(t)
    <3>1. section' \in {section, NULL, t} /\ section \in {NULL, t}
      BY <2>1 DEF EnterOther, Entering, Walk, Register, IInv, WalkInv
    <3>2. u = t
      BY <2>0, <3>1
    <3>3. UNCHANGED <<lock, blocked>> /\ Cur(t)' = Cur(t)
      BY <2>0, <2>1, <3>2, WalkEffect
    <3>4. CASE Head(frames'[t]).cursor = lock[Cur(t)].initializing_tid
      BY <3>2, <3>3, <3>4 DEF Reaches
    <3>5. CASE /\ At(t, "walk") /\ BlockedOn(Head(frames[t]).cursor, Head(frames'[t]).cursor)
               /\ Head(frames'[t]).cursor \in Thread
      <4>1. PICK v, w : v = Head(frames[t]).cursor /\ w = Head(frames'[t]).cursor
        OBVIOUS
      <4>2. BlockedOn(v, w) /\ w \in Thread
        BY <3>5, <4>1
      <4>3. Reaches(lock[Cur(t)].initializing_tid, v)
        BY <3>5, <4>1 DEF ReachInv
      <4>4. Reaches(lock[Cur(t)].initializing_tid, w)
        BY <4>2, <4>3 DEF Reaches
      <4>5. \A x, y : BlockedOn(x, y)' <=> BlockedOn(x, y)
        BY <3>3 DEF BlockedOn
      <4> QED BY <3>2, <3>3, <4>1, <4>4, <4>5 DEF Reaches
    <3> QED BY <2>0, <2>1, <3>2, <3>4, <3>5, WalkEffect
  <2>2. CASE UNCHANGED section /\ ~Walk(t)
    <3>1. section = u /\ At(u, "walk") /\ section # NULL
      BY <2>0, <2>2 DEF SectionInv
    <3>2. t # u
      BY <1>2, <2>2, <3>1, OnlyWalks
    <3>3. frames'[u] = frames[u]
      BY <1>0, <1>2, <3>2, OwnFrames
    <3>4. PICK c \in Class, v \in Thread, w \in Thread :
            c = Cur(u) /\ v = lock[c].initializing_tid /\ w = Head(frames[u]).cursor /\ lock[c] # NULL
      <4>1. Cur(u) \in Class /\ lock[Cur(u)] # NULL /\ Head(frames[u]).cursor \in Thread
        BY <3>1, AtFacts DEF IInv, WalkInv
      <4>2. lock[Cur(u)].initializing_tid \in Thread
        BY <1>0, <4>1 DEF Lock
      <4> QED BY <4>1, <4>2
    <3>5. Reaches(v, w)
      BY <3>1, <3>4 DEF ReachInv
    <3>6. UNCHANGED blocked
          /\ \A d \in Class : lock[d] # NULL => lock'[d].initializing_tid = lock[d].initializing_tid
      BY <1>2, <3>1, <3>2, WalkKeeps
    <3>7. Reaches(v, w)'
      BY <3>5, <3>6, ReachesKept
    <3>8. lock'[Cur(u)'].initializing_tid = v /\ Head(frames'[u]).cursor = w
      BY <3>3, <3>4, <3>6 DEF Cur
    <3> QED BY <3>7, <3>8
  <2> QED BY <1>2, <2>1, <2>2, SectionStep
<1> QED BY <1>1, <1>2 DEF Next, ReachInv

\* The steps that do not return from a call.
LEMMA NoReturn ==
    ASSUME IInv, NEW t \in Thread,
           \/ ModuleCheck(t) \/ ModuleMark(t) \/ EnterFirst(t) \/ Wait(t) \/ CctorUses(t)
           \/ CctorCatches(t) \/ CctorRethrows(t) \/ CctorEnds(t) \/ Fail(t) \/ Store(t)
           \/ Done(t) \/ Leave(t) \/ ModuleDone(t) \/ Raise(t) \/ Exit(t)
    PROVE  ~GoesOn(t)
<1>1. frames \in [Thread -> Seq(Frame)]
  BY DEF IInv, TypeOK
<1>2. ASSUME Head(frames[t]).pc \in {"module_done", "raise", "run"}
      PROVE  ~GoesOn(t)
  BY <1>2 DEF GoesOn
<1>3. ASSUME Busy(t), NEW pc \in Pcs, Goto(t, pc)
      PROVE  ~GoesOn(t)
  <2>1. Len(frames'[t]) = Len(frames[t]) /\ Len(frames[t]) \in Nat
    BY <1>1, <1>3, GotoFacts, TopFacts DEF TopMoves
  <2> QED BY <2>1 DEF GoesOn
<1>4. CASE ModuleDone(t) \/ Raise(t) \/ Exit(t) \/ CctorUses(t) \/ CctorCatches(t)
           \/ CctorRethrows(t) \/ CctorEnds(t)
  BY <1>2, <1>4 DEF ModuleDone, Raise, Exit, CctorUses, CctorCatches, CctorRethrows, CctorEnds, At
<1>5. CASE ModuleCheck(t) \/ Wait(t) \/ Fail(t) \/ Store(t) \/ Done(t) \/ Leave(t)
  <2>1. Busy(t) /\ (\E pc \in Pcs : Goto(t, pc))
    BY <1>5 DEF ModuleCheck, Wait, Fail, Store, Done, Leave, At, Pcs
  <2> QED BY <1>3, <2>1
<1>6. CASE ModuleMark(t)
  <2>1. At(t, "mark")
    BY <1>6 DEF ModuleMark
  <2>2. CASE Module = NULL
    BY <1>3, <1>6, <2>1, <2>2, AtFacts DEF ModuleMark, Pcs
  <2>3. CASE Module # NULL
    <3> DEFINE f == [frames[t][1] EXCEPT !.pc = "module_done"]
    <3>0. frames[t][1] \in Frame /\ Cur(t) = frames[t][1].class
      BY <2>1, AtFacts
    <3>1. f \in Frame /\ f.class = Cur(t) /\ Module \in Class
      BY <2>3, <3>0, ClassAssumption DEF Frame, Pcs
    <3>2. Call(t, Module, <<f>> \o Tail(frames[t]))
      BY <1>6, <2>1, <2>3, AtFacts DEF ModuleMark
    <3> HIDE DEF f
    <3>3. Pushes(t, f.pc)
      BY <1>1, <2>1, <3>1, <3>2, AtFacts, CallFacts
    <3>4. Len(frames'[t]) = Len(frames[t]) + 1 /\ Len(frames[t]) \in Nat
      BY <1>1, <3>3, TopFacts DEF Pushes
    <3> QED BY <3>4 DEF GoesOn
  <2> QED BY <2>2, <2>3
<1>7. CASE EnterFirst(t)
  <2>1. At(t, "enter")
        /\ frames' = [frames EXCEPT ![t][1].pc = "run", ![t][1].todo = Needs[Cur(t)]]
    BY <1>7 DEF EnterFirst, First, Entering
  <2>2. frames[t] \in Seq(Frame) /\ Len(frames'[t]) = Len(frames[t]) /\ Len(frames[t]) \in Nat
    BY <1>1, <2>1
  <2> QED BY <2>2 DEF GoesOn
<1> QED BY <1>4, <1>5, <1>6, <1>7

\* A call ends before its class is initialized only if the thread itself
\* initializes the class, or the walk along blocked_thread_hash has found a
\* thread that waits for this one; whatever the threads do meanwhile.
THEOREM EarlyReturn == Spec => EarlyOnlyInCycle
<1> DEFINE Early(t) ==
      GoesOn(t) /\ Status(Cur(t)) = "running" =>
          \/ lock[Cur(t)].initializing_tid = t
          \/ \E u \in Thread : Reaches(lock[Cur(t)].initializing_tid, u) /\ WaitsFor(u, t)
<1>1. ASSUME IInv, ReachInv, NEW u \in Thread, NEW t \in Thread,
             Step(u) \/ Exit(u) \/ (\E c \in Class : Use(u, c))
      PROVE  Early(t)
  <2>0. frames \in [Thread -> Seq(Frame)] /\ Len(frames[t]) \in Nat
    BY <1>1, TopFacts DEF IInv, TypeOK
  <2>1. CASE t # u
    BY <1>1, <2>0, <2>1, OwnFrames DEF GoesOn
  <2>2. ASSUME Step(t) \/ Exit(t) PROVE Early(t)
    <3>1. CASE \/ ModuleCheck(t) \/ ModuleMark(t) \/ EnterFirst(t) \/ Wait(t) \/ CctorUses(t)
               \/ CctorCatches(t) \/ CctorRethrows(t) \/ CctorEnds(t) \/ Fail(t) \/ Store(t)
               \/ Done(t) \/ Leave(t) \/ ModuleDone(t) \/ Raise(t) \/ Exit(t)
      BY <1>1, <3>1, NoReturn
    <3>2. CASE Check(t)
      <4>1. At(t, "check") /\ (initialized[Cur(t)] \/ Goto(t, "module"))
        BY <3>2 DEF Check
      <4>2. ASSUME Goto(t, "module") PROVE ~GoesOn(t)
        <5>1. Len(frames'[t]) = Len(frames[t])
          BY <1>1, <2>0, <4>1, <4>2, GotoFacts, AtFacts DEF TopMoves, Pcs
        <5> QED BY <2>0, <5>1 DEF GoesOn
      <4> QED BY <4>1, <4>2 DEF Status
    <3>3. CASE NoCctor(t)
      <4>1. At(t, "enter") /\ Cur(t) \notin Cctor
        BY <3>3 DEF NoCctor
      <4>2. lock[Cur(t)] = NULL
        BY <1>1, <4>1, AtFacts DEF IInv, LockInv
      <4> QED BY <4>2 DEF Status
    <3>4. CASE DoubleCheck(t) \/ EnterUnloaded(t)
      BY <3>4 DEF DoubleCheck, EnterUnloaded, First, Status
    <3>5. CASE EnterOther(t)
      <4>1. At(t, "enter")
        BY <3>5 DEF EnterOther, Entering
      <4>2. CASE ~(lock[Cur(t)].initializing_tid = t \/ lock[Cur(t)].done)
        <5>1. frames' = [frames EXCEPT ![t][1].pc = "walk",
                                       ![t][1].cursor = lock[Cur(t)].initializing_tid]
          BY <3>5, <4>2 DEF EnterOther
        <5>2. frames[t] \in Seq(Frame) /\ Len(frames'[t]) = Len(frames[t])
          BY <2>0, <5>1
        <5> QED BY <2>0, <5>2 DEF GoesOn
      <4> QED BY <4>2 DEF Status
    <3>6. CASE Walk(t)
      <4> DEFINE v == Head(frames[t]).cursor
                 pending == blocked[v]
      <4>1. At(t, "walk") /\ Busy(t) /\ v \in Thread
        BY <1>1, <3>6 DEF Walk, IInv, WalkInv, At
      <4>2. CASE Register(t)
        <5>1. frames[t] \in Seq(Frame) /\ Len(frames'[t]) = Len(frames[t])
          BY <2>0, <4>2 DEF Register
        <5> QED BY <2>0, <5>1 DEF GoesOn
      <4>3. CASE pending # NULL /\ lock[pending].initializing_tid = t /\ ~lock[pending].done
        <5>1. Reaches(lock[Cur(t)].initializing_tid, v)
          BY <1>1, <4>1 DEF ReachInv
        <5>2. WaitsFor(v, t)
          BY <4>3 DEF WaitsFor, BlockedOn
        <5> QED BY <4>1, <5>1, <5>2
      <4>4. CASE frames' = [frames EXCEPT ![t][1].cursor = lock[pending].initializing_tid]
        <5>1. frames[t] \in Seq(Frame) /\ Len(frames'[t]) = Len(frames[t])
          BY <2>0, <4>4
        <5> QED BY <2>0, <5>1 DEF GoesOn
      <4> QED BY <3>6, <4>2, <4>3, <4>4 DEF Walk
    <3>7. CASE Finish(t)
      <4>1. At(t, "finish") /\ Cur(t) \in Class
        BY <1>1, <3>7, AtFacts DEF Finish
      <4>2. lock[Cur(t)] # NULL /\ lock[Cur(t)].done
        BY <1>1, <4>1 DEF IInv, WaitInv
      <4> QED BY <4>2 DEF Status
    <3> QED BY <2>2, <3>1, <3>2, <3>3, <3>4, <3>5, <3>6, <3>7 DEF Step
  <2>3. CASE \E c \in Class : Use(t, c)
    BY <2>3 DEF Use, GoesOn
  <2> QED BY <1>1, <2>1, <2>2, <2>3
<1>2. IInv /\ ReachInv /\ [Next]_vars => [\A t \in Thread : Early(t)]_vars
  BY <1>1 DEF Next
<1>3. Init => SectionInv /\ ReachInv
  BY DEF Init, SectionInv, ReachInv, At, Busy
<1>4. IInv /\ SectionInv /\ ReachInv /\ [Next]_vars => SectionInv' /\ ReachInv'
  BY SectionKept, ReachKept
<1>5. Spec => [](SectionInv /\ ReachInv)
  BY <1>3, <1>4, Invariance, PTL DEF Spec
<1>6. Spec => [][\A t \in Thread : Early(t)]_vars
  BY <1>2, <1>5, Invariance, PTL DEF Spec
<1> QED BY <1>6 DEF EarlyOnlyInCycle
=============================================================================
