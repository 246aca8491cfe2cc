-------------------------------- MODULE WaitSet --------------------------------
(***************************************************************************)
(* What condition_base promises when nobody waits with a timeout, without   *)
(* its semaphores: a set of waiting threads and a number of wakeups owed to *)
(* them.  A thread wakes only if one is owed, and nobody joins while one    *)
(* is, so that a notification goes to a thread that waited before it: there *)
(* are no spurious wakeups and none is stolen.                             *)
(***************************************************************************)
EXTENDS Naturals, FiniteSets

CONSTANT Waiters

VARIABLES waiting,    \* threads that have begun to wait and are not woken
          owed        \* wakeups that have been notified and not consumed

vars == <<waiting, owed>>

Init == waiting = {} /\ owed = 0

Join(w) == /\ w \notin waiting /\ owed = 0
           /\ waiting' = waiting \cup {w}
           /\ UNCHANGED owed

\* One more, or all that wait; never more than wait.
NotifyOne == /\ owed < Cardinality(waiting)
             /\ owed' = owed + 1
             /\ UNCHANGED waiting

NotifyAll == /\ owed' = Cardinality(waiting)
             /\ UNCHANGED waiting

Wake(w) == /\ w \in waiting /\ owed > 0
           /\ waiting' = waiting \ {w}
           /\ owed' = owed - 1

Next == NotifyOne \/ NotifyAll \/ \E w \in Waiters : Join(w) \/ Wake(w)

Spec == Init /\ [][Next]_vars
================================================================================
