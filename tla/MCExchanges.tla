------------------------------ MODULE MCExchanges ------------------------------
(***************************************************************************)
(* What the threads and processes exchange data through, small: a           *)
(* connection, the places of the robots, the fifo and the shared mutex.     *)
(* They do not touch each other: a behaviour is one of one of them.         *)
(***************************************************************************)
EXTENDS Wire, RobotRoster, RingFifo, SharedMutexFair

CONSTANTS a1, a2, r1, r2, o1, o2, m1, m2, m3, x1, x2

\* A message of each kind, and lists of entries that are empty and not.
MCBear(n) == [ItemEntry("bear", n, 1, 5, 10) EXCEPT
                !.quantityOnHold = 1, !.shelfLocations = << <<3, 4>> >>]
MCLamp == ItemEntry("lamp", 2, 2, 7, 20)
MCMail == {AddMessage("", 1, 2), AddResponseMessage(<<MCBear(2)>>, "OK", ""),
           SearchMessage("bear", 0), SearchResponseMessage(<<MCBear(3), MCLamp>>, "OK", ""),
           SearchResponseMessage(<<>>, "ERROR", ""),
           ConfirmOrder(<<MCBear(1), MCLamp>>),
           ConfirmOrderResponseMessage(1001, "OK", "confirmed"),
           CancelOrder(1001), CancelOrderResponseMessage("OK", ""), GoodbyeMessage}
\* With its terminating zero, a text needs one buffer, two, or three; the sizes
\* need two digits, and those of the orders have the sign bit.
MCTextLength(j) == IF j.msg = "confirm" THEN 7 ELSE IF j.msg = "search_response" THEN 4
                   ELSE IF j.msg = "goodbye" THEN 1 ELSE 2

MCAdders == {a1, a2}
MCRemovers == {r1, r2}
MCOrders == {o1, o2}

MCReaders == {m1, m2, m3}
MCWriters == {x1, x2}

VARIABLE exchange

exchangeVars == <<exchange, wireVars, rosterVars, fifoVars, smVars>>

ExchangeInit ==
  /\ exchange \in {"wire", "roster", "fifo", "shared"}
  /\ WireInit /\ RosterInit /\ FifoInit /\ SmInit

Connection(A) == exchange = "wire" /\ A /\ UNCHANGED <<exchange, rosterVars, fifoVars, smVars>>
Roster(A) == exchange = "roster" /\ A /\ UNCHANGED <<exchange, wireVars, fifoVars, smVars>>
Fifo(A) == exchange = "fifo" /\ A /\ UNCHANGED <<exchange, wireVars, rosterVars, smVars>>
SharedMutex(A) == exchange = "shared" /\ A /\ UNCHANGED <<exchange, wireVars, rosterVars, fifoVars>>

ExchangeNext ==
  \/ Connection(WireNext) \/ Roster(RosterNext) \/ Fifo(FifoNext) \/ SharedMutex(SmNext)

ExchangeSpec == ExchangeInit /\ [][ExchangeNext]_exchangeVars /\ WireFairness
===============================================================================
