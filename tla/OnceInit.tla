------------------------------ MODULE OnceInit ------------------------------
(***************************************************************************)
(* What class initialization promises, without its locks: a class is       *)
(* initialized by at most one thread, at most once, and what came of it     *)
(* never changes.  ClassInit implements this specification.                 *)
(***************************************************************************)
CONSTANTS Class, Thread, NULL

VARIABLES
    status,  \* [Class -> {"new", "running", "ready", "failed"}]
    runner   \* [Class -> Thread \cup {NULL}], who runs the static constructor

vars == <<status, runner>>

Init ==
    /\ status = [c \in Class |-> "new"]
    /\ runner = [c \in Class |-> NULL]

\* A thread starts the static constructor.
Start(c, t) ==
    /\ status[c] = "new"
    /\ status' = [status EXCEPT ![c] = "running"]
    /\ runner' = [runner EXCEPT ![c] = t]

\* A class that has none, or whose domain is gone, is ready at once.
Skip(c) ==
    /\ status[c] = "new"
    /\ status' = [status EXCEPT ![c] = "ready"]
    /\ UNCHANGED runner

\* Static constructors end; a thread that dies ends all that it runs.
End(C, r) ==
    /\ \A c \in C : status[c] = "running"
    /\ status' = [c \in Class |-> IF c \in C THEN r ELSE status[c]]
    /\ runner' = [c \in Class |-> IF c \in C THEN NULL ELSE runner[c]]

Next ==
    \/ \E c \in Class : Skip(c) \/ \E t \in Thread : Start(c, t)
    \/ \E c \in Class : End({c}, "ready") \/ End({c}, "failed")
    \/ \E t \in Thread : End({c \in Class : runner[c] = t}, "failed")

Spec == Init /\ [][Next]_vars
=============================================================================
