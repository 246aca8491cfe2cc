------------------------------- MODULE TruckDock -------------------------------
(***************************************************************************)
(* The loading docks: truckMonitor, a thread of the warehouse computer      *)
(* (warehouseComputer.cpp), and the truck processes (DeliveryTruck.cpp,     *)
(* RestockTruck.cpp).                                                       *)
(*                                                                         *)
(* They meet in three named semaphores, a shared array of docks, a mutex    *)
(* that both builds of the library implement differently, and a condition   *)
(* variable.  The array is read and isOccupied written without the mutex.   *)
(***************************************************************************)
EXTENDS NamedMutex, Integers, Sequences, FiniteSets, SequencesExt

CONSTANTS
  Trucks,        \* truck processes; each makes one visit
  DeliveryTrucks,\* those that run DeliveryTruck.cpp; the others RestockTruck.cpp
  NDocks,        \* docks in the layout
  MaxPicked,     \* bound on the orders robots pick
  RobotsWork,    \* FALSE: the program as it stands, where no robot runs
  Mortal,        \* trucks whose window may be closed
  Computer,      \* the warehouse computer's threads, as owner of the mutex
  Away, Left     \* DockYard

ASSUME DockAssumption ==
  /\ IsFiniteSet(Trucks) /\ DeliveryTrucks \subseteq Trucks
  /\ NoThread \notin Trucks /\ Computer \notin Trucks \cup {NoThread}
  /\ NDocks \in Nat \ {0}
  /\ MaxPicked \in Nat
  /\ RobotsWork \in BOOLEAN /\ Mortal \subseteq Trucks

ASSUME YardAssumption == Away # Left /\ {Away, Left} \cap (0..(NDocks - 1)) = {}

VARIABLES
  tpc,       \* truck: where it is
  dock,      \* truck: the dock it looks at, later the one it has
  mpc,       \* truckMonitor: where it is
  mdock,     \* truckMonitor: the dock it looks at, then lowestDock
  magic,     \* has the monitor initialised the shared memory?
  arrival, available, ready,   \* the semaphores' counts
  bay,       \* memory->dockBay
  mutex,     \* TRUCK_SHARED_MUTEX
  picked,    \* orders in the queue of completed orders
  made,      \* orders the robots have picked (bound)
  jobs       \* commands sent to the robots: [dock, delivery]

truck == <<tpc, dock>>
monitor == <<mpc, mdock, magic>>
semaphores == <<arrival, available, ready>>
work == <<picked, made, jobs>>
vars == <<truck, monitor, semaphores, bay, mutex, work>>

Docks == 0..(NDocks - 1)

\* Places of a truck, in the order of its visit.
Parking == {"scan", "claim", "lockType", "type", "ready"}
Parked == {"lockType", "type", "ready", "lock", "test", "wait", "relock", "leave"}
Holding == {"type", "test", "leave", "linger"}

TypeOK ==
  /\ tpc \in [Trucks -> {"outside", "await", "wreck", "lost", "gone"}
                          \cup Parking \cup Parked \cup Holding]
  /\ dock \in [Trucks -> Docks] /\ mdock \in Docks
  /\ mpc \in {"start", "poll", "scan", "grant", "await", "read", "take", "load", "restock"}
  /\ magic \in BOOLEAN
  /\ arrival \in Nat /\ available \in Nat /\ ready \in Nat
  /\ bay \in [Docks -> [isOccupied : BOOLEAN, isDeliveryTruck : BOOLEAN, isDone : BOOLEAN]]
  /\ mutex \in MutexType(Trucks \cup {Computer})
  /\ picked \in Nat /\ made \in Nat
  /\ jobs \in Seq([dock : Docks, delivery : BOOLEAN])

EmptyDock == [isOccupied |-> FALSE, isDeliveryTruck |-> FALSE, isDone |-> FALSE]

Init ==
  /\ tpc = [t \in Trucks |-> "outside"]
  /\ dock = [t \in Trucks |-> 0]
  /\ mpc = "start" /\ mdock = 0
  /\ magic = FALSE
  /\ arrival = 0 /\ available = 0 /\ ready = 0
  /\ bay = [i \in Docks |-> EmptyDock]
  /\ mutex = Free
  /\ picked = 0 /\ made = 0 /\ jobs = <<>>

-------------------------------------------------------------------------------
(***************************************************************************)
(* The trucks.                                                             *)
(***************************************************************************)
At(t, place) == tpc[t] = place
Goto(t, place) == tpc' = [tpc EXCEPT ![t] = place]

\* Only a restocking truck looks whether the shared memory is initialised.
TurnAway(t) ==
  /\ At(t, "outside")
  /\ t \notin DeliveryTrucks /\ ~ magic
  /\ Goto(t, "gone")
  /\ UNCHANGED <<dock, monitor, semaphores, bay, mutex, work>>

\* Mistake: the truck does not announce itself.
Arrive_Silently(t) ==
  /\ At(t, "outside")
  /\ t \in DeliveryTrucks \/ magic
  /\ Goto(t, "await")
  /\ UNCHANGED <<dock, monitor, semaphores, bay, mutex, work>>

Arrive(t) ==
  /\ At(t, "outside")
  /\ t \in DeliveryTrucks \/ magic
  /\ arrival' = arrival + 1
  /\ Goto(t, "await")
  /\ UNCHANGED <<dock, monitor, available, ready, bay, mutex, work>>

\* Mistake: the truck does not wait for dock_available.
Admitted_AtOnce(t) ==
  /\ At(t, "await")
  /\ dock' = [dock EXCEPT ![t] = 0]
  /\ Goto(t, "scan")
  /\ UNCHANGED <<monitor, semaphores, bay, mutex, work>>

\* dock_available.wait()
Admitted(t) ==
  /\ At(t, "await")
  /\ available > 0
  /\ available' = available - 1
  /\ dock' = [dock EXCEPT ![t] = 0]
  /\ Goto(t, "scan")
  /\ UNCHANGED <<monitor, arrival, ready, bay, mutex, work>>

\* Mistake: the search goes on beyond the last dock.
NextDock_NoWrap(i) == i + 1

\* The search for the lowest free dock reads one dock after the other, and
\* begins again after the last one; it holds no lock.
NextDock(i) == IF i + 1 = NDocks THEN 0 ELSE i + 1

Pass(t) ==
  /\ At(t, "scan")
  /\ bay[dock[t]].isOccupied
  /\ dock' = [dock EXCEPT ![t] = NextDock(@)]
  /\ UNCHANGED <<tpc, monitor, semaphores, bay, mutex, work>>

Find(t) ==
  /\ At(t, "scan")
  /\ ~ bay[dock[t]].isOccupied
  /\ Goto(t, "claim")
  /\ UNCHANGED <<dock, monitor, semaphores, bay, mutex, work>>

Claim(t) ==
  /\ At(t, "claim")
  /\ bay' = [bay EXCEPT ![dock[t]].isOccupied = TRUE]
  /\ Goto(t, "lockType")
  /\ UNCHANGED <<dock, monitor, semaphores, mutex, work>>

\* Mistake: the mutex is not locked.
Lock_NoLock(t, from, to) ==
  /\ At(t, from)
  /\ Goto(t, to)
  /\ UNCHANGED <<dock, monitor, semaphores, bay, mutex, work>>

\* lock() for a truck: before the type is written, before isDone is tested, and
\* at the end of is_loaded.wait().
Lock(t, from, to) ==
  /\ At(t, from)
  /\ CanLock(mutex, t)
  /\ mutex' = Locked(mutex, t)
  /\ Goto(t, to)
  /\ UNCHANGED <<dock, monitor, semaphores, bay, work>>

SetType(t) ==
  /\ At(t, "type")
  /\ bay' = [bay EXCEPT ![dock[t]].isDeliveryTruck = t \in DeliveryTrucks]
  /\ mutex' = Unlocked(mutex, t)
  /\ Goto(t, "ready")
  /\ UNCHANGED <<dock, monitor, semaphores, work>>

\* Mistake: truck_ready is not notified.
Ready_Silent(t) ==
  /\ At(t, "ready")
  /\ Goto(t, "lock")
  /\ UNCHANGED <<dock, monitor, semaphores, bay, mutex, work>>

\* truck_ready.notify()
Ready(t) ==
  /\ At(t, "ready")
  /\ ready' = ready + 1
  /\ Goto(t, "lock")
  /\ UNCHANGED <<dock, monitor, arrival, available, bay, mutex, work>>

\* is_loaded.wait(mylock): unlock once and block until notified.
Sleep(t) ==
  /\ At(t, "test")
  /\ ~ bay[dock[t]].isDone
  /\ mutex' = Unlocked(mutex, t)
  /\ Goto(t, "wait")
  /\ UNCHANGED <<dock, monitor, semaphores, bay, work>>

\* "Truck has been unloaded and is now leaving"
Loaded(t) ==
  /\ At(t, "test")
  /\ bay[dock[t]].isDone
  /\ Goto(t, "leave")
  /\ UNCHANGED <<dock, monitor, semaphores, bay, mutex, work>>

\* Mistake: isDeliveryTruck is not reset.
Leave_FlagKept(t) ==
  /\ At(t, "leave")
  /\ CanLock(mutex, t)
  /\ mutex' = Unlocked(Locked(mutex, t), t)
  /\ bay' = [bay EXCEPT ![dock[t]].isDone = FALSE, ![dock[t]].isOccupied = FALSE]
  /\ Goto(t, "linger")
  /\ UNCHANGED <<dock, monitor, semaphores, work>>

\* The dock is reset under a second lock of the mutex the truck already holds.
\* The three flags are reset in one step: the ones before isOccupied are not
\* read of an occupied dock but by its own truck and, before isDone is set, by
\* the monitor.
Leave(t) ==
  /\ At(t, "leave")
  /\ CanLock(mutex, t)
  /\ mutex' = Unlocked(Locked(mutex, t), t)
  /\ bay' = [bay EXCEPT ![dock[t]] = EmptyDock]
  /\ Goto(t, "linger")
  /\ UNCHANGED <<dock, monitor, semaphores, work>>

\* cin.get() waits for a key, still under the first lock.  mylock unlocks once
\* and the process ends, which abandons a mutex that it had locked twice.
DriveOff(t) ==
  /\ At(t, "linger")
  /\ mutex' = OwnerExits(Unlocked(mutex, t), t, TRUE)
  /\ Goto(t, "gone")
  /\ dock' = [dock EXCEPT ![t] = 0]
  /\ UNCHANGED <<monitor, semaphores, bay, work>>

\* The truck's window is closed.  Its dock, if it has one, stays occupied; one
\* that was looking for a dock is lost, and with it the "ready" it owes.
Die(t) ==
  /\ t \in Mortal
  /\ tpc[t] \notin {"outside", "gone", "lost", "wreck"}
  /\ Goto(t, IF tpc[t] \in Parked THEN "wreck"
             ELSE IF tpc[t] \in Parking THEN "lost" ELSE "gone")
  /\ dock' = [dock EXCEPT ![t] = IF tpc[t] \in Parked THEN @ ELSE 0]
  /\ mutex' = OwnerExits(mutex, t, TRUE)   \* the monitor has the mutex open
  /\ UNCHANGED <<monitor, semaphores, bay, work>>

Truck(t) ==
  \/ TurnAway(t) \/ Arrive(t) \/ Admitted(t) \/ Pass(t) \/ Find(t) \/ Claim(t)
  \/ Lock(t, "lockType", "type") \/ SetType(t) \/ Ready(t)
  \/ Lock(t, "lock", "test") \/ Sleep(t) \/ Lock(t, "relock", "test")
  \/ Loaded(t) \/ Leave(t)

-------------------------------------------------------------------------------
(***************************************************************************)
(* truckMonitor.  Nobody sets memory->quit of the docks' shared memory.     *)
(***************************************************************************)
StartMonitor ==
  /\ mpc = "start"
  /\ CanLock(mutex, Computer)
  /\ bay' = [i \in Docks |-> EmptyDock]
  /\ magic' = TRUE
  /\ mpc' = "poll"
  /\ UNCHANGED <<truck, mdock, semaphores, mutex, work>>

\* truck_arrival.try_wait() succeeds.
NoticeArrival ==
  /\ mpc = "poll"
  /\ arrival > 0
  /\ arrival' = arrival - 1
  /\ mdock' = 0
  /\ mpc' = "scan"
  /\ UNCHANGED <<truck, magic, available, ready, bay, mutex, work>>

MonitorPass ==
  /\ mpc = "scan"
  /\ bay[mdock].isOccupied
  /\ mdock' = NextDock(mdock)
  /\ UNCHANGED <<truck, mpc, magic, semaphores, bay, mutex, work>>

MonitorFind ==
  /\ mpc = "scan"
  /\ ~ bay[mdock].isOccupied
  /\ mpc' = "grant"
  /\ UNCHANGED <<truck, mdock, magic, semaphores, bay, mutex, work>>

\* Mistake: the monitor does not wait for truck_ready.
Grant_NoWait ==
  /\ mpc = "grant"
  /\ available' = available + 1
  /\ mpc' = "poll"
  /\ UNCHANGED <<truck, mdock, magic, arrival, ready, bay, mutex, work>>

Grant ==
  /\ mpc = "grant"
  /\ available' = available + 1
  /\ mpc' = "await"
  /\ UNCHANGED <<truck, mdock, magic, arrival, ready, bay, mutex, work>>

\* truck_ready.wait()
AwaitReady ==
  /\ mpc = "await"
  /\ ready > 0
  /\ ready' = ready - 1
  /\ mpc' = "read"
  /\ UNCHANGED <<truck, mdock, magic, arrival, available, bay, mutex, work>>

ReadType ==
  /\ mpc = "read"
  /\ mpc' = IF bay[mdock].isDeliveryTruck THEN "take" ELSE "restock"
  /\ UNCHANGED <<truck, mdock, magic, semaphores, bay, mutex, work>>

\* removeFromDCQueue() waits for an order a robot has picked.
TakeOrder ==
  /\ mpc = "take"
  /\ picked > 0
  /\ picked' = picked - 1
  /\ mpc' = "load"
  /\ UNCHANGED <<truck, mdock, magic, semaphores, bay, mutex, made, jobs>>

\* changeStatus (OrderDesk) and addToDTQueue, or addToTQueue.
SendJob ==
  /\ mpc \in {"load", "restock"}
  /\ jobs' = Append(jobs, [dock |-> mdock, delivery |-> mpc = "load"])
  /\ mpc' = "poll" /\ mdock' = 0
  /\ UNCHANGED <<truck, magic, semaphores, bay, mutex, picked, made>>

Monitor ==
  \/ StartMonitor \/ NoticeArrival \/ MonitorPass \/ MonitorFind \/ Grant
  \/ AwaitReady \/ ReadType \/ TakeOrder \/ SendJob

-------------------------------------------------------------------------------
(***************************************************************************)
(* The robots are external: what the monitor and the trucks expect of them. *)
(* One picks an order; one does a job at a dock, sets isDone under the      *)
(* mutex and notifies the trucks that wait.                                 *)
(***************************************************************************)
RobotPicks ==
  /\ RobotsWork
  /\ made < MaxPicked
  /\ made' = made + 1 /\ picked' = picked + 1
  /\ UNCHANGED <<truck, monitor, semaphores, bay, mutex, jobs>>

RobotFinishes(k) ==
  /\ RobotsWork
  /\ CanLock(mutex, Computer)
  /\ mutex' = Unlocked(Locked(mutex, Computer), Computer)
  /\ bay' = [bay EXCEPT ![jobs[k].dock].isDone = TRUE]
  /\ tpc' = [t \in Trucks |-> IF At(t, "wait") THEN "relock" ELSE tpc[t]]
  /\ jobs' = RemoveAt(jobs, k)
  /\ UNCHANGED <<dock, monitor, semaphores, picked, made>>

Robots == RobotPicks \/ \E k \in DOMAIN jobs : RobotFinishes(k)

Next == \/ \E t \in Trucks : Truck(t) \/ DriveOff(t) \/ Die(t)
        \/ Monitor \/ Robots

Spec == Init /\ [][Next]_vars

\* Processes and threads are scheduled.  A visit is finite, so one that waits
\* for the mutex is not overtaken for ever.  A driver may never press the key.
Fairness ==
  /\ \A t \in Trucks : WF_vars(Truck(t))
  /\ WF_vars(Monitor)
  /\ WF_vars(Robots)

FairSpec == Spec /\ Fairness

-------------------------------------------------------------------------------
(***************************************************************************)
(* Properties.                                                             *)
(***************************************************************************)
Occupies(t) == tpc[t] \in Parked \cup {"wreck"}

\* The monitor lets one truck at a time look for a dock and awaits it: a grant,
\* a truck on its way and a truck's "ready" are never there together.  A truck
\* that dies on the way leaves none of them, and the monitor waiting.
OneTruckParks ==
  /\ \A t, u \in Trucks : tpc[t] \in Parking /\ tpc[u] \in Parking => t = u
  /\ available + ready <= 1
  /\ available + ready = 1 => \A t \in Trucks : tpc[t] \notin Parking
  /\ mpc # "await" => available + ready = 0 /\ \A t \in Trucks : tpc[t] \notin Parking

\* Although docks are searched and taken without a lock, no dock is taken by
\* two trucks, and isOccupied is set just for the docks where there is one.
OneTruckPerDock ==
  /\ \A t, u \in Trucks : Occupies(t) /\ Occupies(u) /\ dock[t] = dock[u] => t = u
  /\ \A i \in Docks : bay[i].isOccupied <=> \E t \in Trucks : Occupies(t) /\ dock[t] = i
  /\ \A t \in Trucks : At(t, "claim") => ~ bay[dock[t]].isOccupied

\* No announcement is lost: for every truck at the gate there is a token, in
\* truck_arrival, in dock_available, or in the monitor's hand.
ArrivalsAccounted ==
  Cardinality({t \in Trucks : At(t, "await")})
    <= arrival + available + (IF mpc \in {"scan", "grant"} THEN 1 ELSE 0)

\* The type flag of a dock is that of the truck that stands there.
FlagMatchesTruck ==
  \A t \in Trucks :
    /\ tpc[t] \in {"ready", "lock", "test", "wait", "relock", "leave"} =>
         (bay[dock[t]].isDeliveryTruck <=> t \in DeliveryTrucks)
    /\ At(t, "claim") => ~ bay[dock[t]].isDeliveryTruck

\* Trucks exclude each other while they read or write the dock under the mutex,
\* from the last test of isDone to the key press, and when one of them dies.
OneTruckHolds ==
  \A t, u \in Trucks : tpc[t] \in Holding /\ tpc[u] \in Holding => t = u

\* "Truck parked at dock ..." (warehouseComputer.cpp:475): the truck that is
\* ready has parked at the dock the monitor found, whose flag it reads next.
ReadsParkedTruck ==
  mpc = "read" => \E t \in Trucks : Occupies(t) /\ dock[t] = mdock

\* "Truck has been unloaded and is now leaving" (DeliveryTruck.cpp:61): the
\* dock is then freed.
UnloadedTruckLeaves == \A t \in Trucks : At(t, "leave") ~> ~ At(t, "leave")

\* The mutex is locked, and its owner does not go on to unlock it: a truck that
\* waits for its driver, or sleeps owning a mutex it found abandoned, locked
\* twice and unlocked once; the computer after the same; on POSIX also a truck
\* that blocks on itself or has died.
MutexKept ==
  /\ mutex.owner # NoThread
  /\ mutex.owner \in Trucks =>
       tpc[mutex.owner] \in {"linger", "wait", "wreck", "lost", "gone"}
         \cup (IF Windows THEN {} ELSE {"leave"})

\* What keeps the monitor from letting in the next truck: every dock is
\* occupied; it waits for an order; the truck it let in blocks at the mutex, or
\* has died on its way to the dock.
GateBarred ==
  \/ \A i \in Docks : bay[i].isOccupied
  \/ mpc = "take"
  \/ MutexKept /\ \E u \in Trucks : At(u, "lockType")
  \/ /\ mpc = "await" /\ available + ready = 0
     /\ \A u \in Trucks : tpc[u] \notin Parking
     /\ \E u \in Trucks : tpc[u] \in {"wreck", "lost"}

\* A truck that waits at the gate for ever does so because the gate stays barred.
GateOpens == \A t \in Trucks : <>[]At(t, "await") => <>[]GateBarred

\* The docks implement DockYard.
YardPlace ==
  [t \in Trucks |-> IF Occupies(t) THEN dock[t]
                    ELSE IF tpc[t] \in {"linger", "lost", "gone"} THEN Left ELSE Away]

Yard == INSTANCE DockYard WITH place <- YardPlace

ImplementsYard == Yard!Spec
===============================================================================
