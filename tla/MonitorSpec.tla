----------------------------- MODULE MonitorSpec -----------------------------
(***************************************************************************)
(* What the monitor of an object promises: one thread at a time holds it,  *)
(* as often as it entered; a thread that waits gives it up whole and gets  *)
(* it back whole; a pulse goes to the thread that has waited longest.  The *)
(* ticket of a waiter that was interrupted stays in the queue.             *)
(* Monitor implements this specification.                                  *)
(***************************************************************************)
EXTENDS Naturals, Sequences, SequencesExt

CONSTANTS Thread, Object, Ticket, NULL

VARIABLES
    holder,   \* [Object -> Thread \cup {NULL}]
    depth,    \* [Object -> Nat], how often the holder has entered
    queue,    \* [Object -> Seq(Ticket)], the waiters, the oldest first
    pulsed,   \* the tickets that were pulsed and not used yet
    waiter,   \* [Ticket -> Thread \cup {NULL}]
    saved     \* [Ticket -> Nat], the depth to which the waiter returns

vars == <<holder, depth, queue, pulsed, waiter, saved>>
waits == <<queue, pulsed, waiter, saved>>

Init ==
    /\ holder = [o \in Object |-> NULL]
    /\ depth = [o \in Object |-> 0]
    /\ queue = [o \in Object |-> <<>>]
    /\ pulsed = {}
    /\ waiter = [e \in Ticket |-> NULL]
    /\ saved = [e \in Ticket |-> 0]

Enter(t, o) ==
    /\ holder[o] \in {NULL, t}
    /\ holder' = [holder EXCEPT ![o] = t]
    /\ depth' = [depth EXCEPT ![o] = @ + 1]
    /\ UNCHANGED waits

Exit(t, o) ==
    /\ holder[o] = t
    /\ depth' = [depth EXCEPT ![o] = @ - 1]
    /\ holder' = [holder EXCEPT ![o] = IF depth[o] = 1 THEN NULL ELSE t]
    /\ UNCHANGED waits

Wait(t, o, e) ==
    /\ holder[o] = t
    /\ waiter[e] = NULL /\ \A p \in Object : e \notin ToSet(queue[p])
    /\ holder' = [holder EXCEPT ![o] = NULL]
    /\ depth' = [depth EXCEPT ![o] = 0]
    /\ queue' = [queue EXCEPT ![o] = Append(@, e)]
    /\ waiter' = [waiter EXCEPT ![e] = t]
    /\ saved' = [saved EXCEPT ![e] = depth[o]]
    /\ UNCHANGED pulsed

\* The first n waiters are woken.
Pulse(t, o, n) ==
    /\ holder[o] = t
    /\ n <= Len(queue[o])
    /\ queue' = [queue EXCEPT ![o] = SubSeq(@, n + 1, Len(@))]
    /\ pulsed' = pulsed \cup {e \in ToSet(SubSeq(queue[o], 1, n)) : waiter[e] # NULL}
    /\ UNCHANGED <<holder, depth, waiter, saved>>

Without(s, e) == IF e \in ToSet(s) THEN RemoveAt(s, CHOOSE i \in DOMAIN s : s[i] = e) ELSE s

\* A waiter holds the monitor again, because of a pulse or of its timeout.
Resume(t, o, e) ==
    /\ holder[o] = NULL /\ waiter[e] = t
    /\ e \in pulsed \/ e \in ToSet(queue[o])
    /\ holder' = [holder EXCEPT ![o] = t]
    /\ depth' = [depth EXCEPT ![o] = saved[e]]
    /\ queue' = [queue EXCEPT ![o] = Without(@, e)]
    /\ pulsed' = pulsed \ {e}
    /\ waiter' = [waiter EXCEPT ![e] = NULL]
    /\ saved' = [saved EXCEPT ![e] = 0]

\* A waiter that is interrupted goes without the monitor.
Desert(e) ==
    /\ waiter[e] # NULL
    /\ pulsed' = pulsed \ {e}
    /\ waiter' = [waiter EXCEPT ![e] = NULL]
    /\ saved' = [saved EXCEPT ![e] = 0]
    /\ UNCHANGED <<holder, depth, queue>>

\* Nothing refers to the object any more: another one takes its place.
Replace(o) ==
    /\ \A e \in ToSet(queue[o]) : waiter[e] = NULL
    /\ holder' = [holder EXCEPT ![o] = NULL]
    /\ depth' = [depth EXCEPT ![o] = 0]
    /\ queue' = [queue EXCEPT ![o] = <<>>]
    /\ UNCHANGED <<pulsed, waiter, saved>>

Next ==
    \/ \E t \in Thread, o \in Object :
         \/ Enter(t, o) \/ Exit(t, o)
         \/ Pulse(t, o, 1) \/ Pulse(t, o, Len(queue[o]))
         \/ \E e \in Ticket : Wait(t, o, e) \/ Resume(t, o, e)
    \/ \E e \in Ticket : Desert(e)
    \/ \E o \in Object : Replace(o)

Spec == Init /\ [][Next]_vars
=============================================================================
