------------------------------- MODULE DockYard -------------------------------
(***************************************************************************)
(* What the loading docks promise: a truck comes once, parks at a dock that *)
(* is empty, and keeps it until it leaves.                                  *)
(***************************************************************************)
CONSTANTS Trucks, Docks,
          Away, Left    \* a truck that has not parked yet; one that has left

VARIABLE place          \* for every truck, its dock, Away or Left

Init == place = [t \in Trucks |-> Away]

Park(t, i) ==
  /\ place[t] = Away
  /\ \A u \in Trucks : place[u] # i
  /\ place' = [place EXCEPT ![t] = i]

\* A truck may also turn away without having parked.
Leave(t) ==
  /\ place[t] # Left
  /\ place' = [place EXCEPT ![t] = Left]

Next == \E t \in Trucks : Leave(t) \/ \E i \in Docks : Park(t, i)

Spec == Init /\ [][Next]_place
===============================================================================
