----------------------------- MODULE QueueThreads -----------------------------
(***************************************************************************)
(* The threads that use the queues of the warehouse computer and the orders *)
(* that go through them.                                                   *)
(***************************************************************************)
EXTENDS FiniteSets

CONSTANTS Adders, Removers, Orders,
          NoOrder,     \* the order that remove answers with when it has none
          NoThread     \* the holder of a free mutex

ASSUME ThreadsAssumption ==
  /\ Adders \cap Removers = {}
  /\ NoThread \notin Adders \cup Removers
  /\ IsFiniteSet(Adders) /\ IsFiniteSet(Removers)

ASSUME OrdersAssumption == NoOrder \notin Orders

Threads == Adders \cup Removers
===============================================================================
