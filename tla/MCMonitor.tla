----------------------------- MODULE MCMonitor -----------------------------
(***************************************************************************)
(* Instances of Monitor for TLC.                                           *)
(***************************************************************************)
EXTENDS Monitor

CONSTANTS t1, t2, t3, r1, r2

\* Two arrays; a second record of the second one would only stay in the free list.
TwoArrays == <<{r1}, {r2}>>

CallsOf(c1, c2, c3) == [t \in Thread |-> CASE t = t1 -> c1 [] t = t2 -> c2 [] t = t3 -> c3]

\* Threads that enter an object more than once.
Nested == [calls |-> CallsOf({"Enter", "WaitTimeout", "Exit"}, {"Enter", "TryEnter0", "Pulse", "FastExit"}, {}),
           nest |-> 2, interrupts |-> 0, collections |-> 0]

\* A thread is interrupted, the object collected, and its record used again.
Faulty == [calls |-> CallsOf({"Enter", "Wait", "FastExit"}, {"Enter", "TryEnter", "Exit"}, {}),
           nest |-> 1, interrupts |-> 1, collections |-> 1]

\* Two threads wait, and a third one pulses them.
Pulsed == [calls |-> CallsOf({"Enter", "Wait", "Exit"}, {"Enter", "WaitTimeout", "FastExit"},
                             {"TryEnter0", "Pulse", "PulseAll", "Exit"}),
           nest |-> 1, interrupts |-> 0, collections |-> 0]

ThreePrograms == {Nested, Faulty, Pulsed}
=============================================================================
