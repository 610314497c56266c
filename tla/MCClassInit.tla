---------------------------- MODULE MCClassInit -----------------------------
(***************************************************************************)
(* Instances of ClassInit for TLC.                                         *)
(***************************************************************************)
EXTENDS ClassInit

CONSTANTS A, B, F, M, N, X, K

\* Two classes that need each other, one of which needs a class whose
\* constructor throws after it used a class without one.
CycleNeeds == [c \in Cctor |-> CASE c = A -> {B} [] c = B -> {A, F} [] c = F -> {N} [] OTHER -> {}]

\* One class that needs another.
ChainNeeds == [c \in Cctor |-> IF c = K THEN {M} ELSE {}]
=============================================================================
