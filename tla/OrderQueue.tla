------------------------------ MODULE OrderQueue ------------------------------
(***************************************************************************)
(* What the warehouse's command queues promise to the threads that share   *)
(* them, without saying how.  PickupQueue, DeliveryTruckQueue,             *)
(* RestockingQueue and TruckQueue all offer the same two calls: add, which  *)
(* may still be running when its order is already in the queue, and a       *)
(* remove that never blocks and answers NoOrder ("order -1") when it finds  *)
(* nothing.  CommandQueue is the detailed specification.                    *)
(***************************************************************************)
EXTENDS Naturals, Sequences, FiniteSets

CONSTANTS Adders,    \* threads that add orders
          Removers,  \* threads that poll for orders
          Orders,    \* what is queued
          NoOrder,   \* the sentinel Order(-1)
          Lifo       \* TRUE: add puts the order in front (push_front)

VARIABLES items,     \* the queued orders, next one first
          adding,    \* adders whose order is in but whose call is still running
          taken      \* what each remover's last call returned

vars == <<items, adding, taken>>

Insert(s, o) == IF Lifo THEN <<o>> \o s ELSE Append(s, o)

Init == /\ items = <<>>
        /\ adding = {}
        /\ taken = [r \in Removers |-> NoOrder]

Put(a, o) == /\ a \notin adding
             /\ items' = Insert(items, o)
             /\ adding' = adding \cup {a}
             /\ UNCHANGED taken

Return(a) == /\ a \in adding
             /\ adding' = adding \ {a}
             /\ UNCHANGED <<items, taken>>

Take(r) == /\ items # <<>>
           /\ taken' = [taken EXCEPT ![r] = Head(items)]
           /\ items' = Tail(items)
           /\ UNCHANGED adding

\* A remove may come back empty-handed only if every queued order belongs to
\* an add that has not returned yet.
Miss(r) == /\ Len(items) <= Cardinality(adding)
           /\ taken' = [taken EXCEPT ![r] = NoOrder]
           /\ UNCHANGED <<items, adding>>

Next == \/ \E a \in Adders : (\E o \in Orders : Put(a, o)) \/ Return(a)
        \/ \E r \in Removers : Take(r) \/ Miss(r)

Spec == Init /\ [][Next]_vars
===============================================================================
