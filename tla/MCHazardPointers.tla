-------------------------- MODULE MCHazardPointers --------------------------
(* Instances of HazardPointers for TLC. *)
EXTENDS HazardPointers, TLC

CONSTANTS t0, t1, t2, p1, p2

OneCell == {"table"}
OneCellSlot == [c \in OneCell |-> 0]

\* Main keeps its id; the two threads that come and go need a larger table.
ThreeThreads == {t0, t1, t2}
TwoThreads == {t1, t2}
TwoPtrs == {p1, p2}

\* The active threads and the blocks are interchangeable.
Symmetry == Permutations(TwoThreads) \cup Permutations(TwoPtrs)
=============================================================================
