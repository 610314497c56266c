---------------------------- MODULE MCThreadPool ----------------------------
(***************************************************************************)
(* Instances of ThreadPool for TLC.                                        *)
(***************************************************************************)
EXTENDS ThreadPool, TLC

CONSTANTS game, w1, w2

\* All jobs are of one domain.
InGame == [j \in Job |-> game]

\* Workers are interchangeable.
TwoWorkers == {w1, w2}
Symmetry == Permutations(TwoWorkers)
=============================================================================
