---------------------------- MODULE MCJitCompile ----------------------------
(***************************************************************************)
(* Instances of JitCompile for TLC.                                        *)
(***************************************************************************)
EXTENDS JitCompile

CONSTANTS game, plain, emitted, broken, abstract, throwing, native

\* One assembly, which every method is in.
InGame == [m \in Method |-> game]
=============================================================================
