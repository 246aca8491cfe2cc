------------------------------ MODULE MCTruckDock ------------------------------
\* Small instances of TruckDock for TLC.
EXTENDS TruckDock

CONSTANTS d1, d2, r1, r2, r3

MCThreeTrucks == {d1, d2, r1}
MCTwoDelivery == {d1, d2}

\* One truck more than docks: on Windows it takes one that dies with the mutex,
\* one that then sleeps owning it and one that blocks on its way to the third
\* dock for a fourth to wait at the gate with a dock free.
MCFourTrucks == {d1, r1, r2, r3}
MCOneDelivery == {d1}
MCMortal == {d1}

\* The delivery trucks are interchangeable.
Sym == Permutations(MCTwoDelivery)
===============================================================================
