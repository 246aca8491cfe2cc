---------------------------- MODULE TruckDockProofs ----------------------------
(***************************************************************************)
(* Proofs about TruckDock, for any trucks, any number of docks, either      *)
(* build of the mutex, and trucks that may die.                             *)
(***************************************************************************)
EXTENDS TruckDock, FiniteSetTheorems, TLAPS

\* Before the monitor has started no truck gets past the gate.
StartInv ==
  mpc = "start" => \A t \in Trucks : tpc[t] \in {"outside", "await", "gone"}

\* A truck where the code holds the mutex owns it.
MutexInv ==
  \A t \in Trucks : tpc[t] \in Holding => mutex.owner = t /\ mutex.count >= 1

\* A free dock has no type.
FreeDockInv == \A i \in Docks : ~ bay[i].isOccupied => ~ bay[i].isDeliveryTruck

DockInv == TypeOK /\ StartInv /\ OneTruckParks /\ OneTruckPerDock

Inv == DockInv /\ MutexInv /\ FreeDockInv /\ FlagMatchesTruck /\ ArrivalsAccounted

-------------------------------------------------------------------------------
\* The search stays within the docks.
LEMMA NextDockType == ASSUME NEW i \in Docks PROVE NextDock(i) \in Docks
  BY DockAssumption DEF NextDock, Docks

\* The operations of the mutex keep its type; unlocking needs a lock.
LEMMA MutexTypes ==
  ASSUME NEW T, NEW m \in MutexType(T), NEW t \in T
  PROVE  /\ Free \in MutexType(T)
         /\ Locked(m, t) \in MutexType(T)
         /\ Locked(m, t).owner = t /\ Locked(m, t).count >= 1
         /\ m.count >= 1 => Unlocked(m, t) \in MutexType(T)
         /\ OwnerExits(m, t, TRUE) \in MutexType(T)
<1> USE DEF MutexType
<1>1. Free \in MutexType(T) /\ OwnerExits(m, t, TRUE) \in MutexType(T)
  BY DEF Free, OwnerExits
<1>2. /\ Locked(m, t) \in MutexType(T)
      /\ Locked(m, t).owner = t /\ Locked(m, t).count >= 1
  BY DEF Locked
<1>3. ASSUME m.count >= 1 PROVE Unlocked(m, t) \in MutexType(T)
  <2>1. m.count - 1 \in Nat /\ (IF m.count = 1 THEN NoThread ELSE m.owner) \in T \cup {NoThread}
    BY <1>3
  <2>2. [m EXCEPT !.count = m.count - 1, !.owner = IF m.count = 1 THEN NoThread ELSE m.owner]
          \in MutexType(T)
    BY <2>1
  <2> QED BY <2>2 DEF Unlocked
<1> QED BY <1>1, <1>2, <1>3

\* Taking a job out of the list leaves a list of jobs.
LEMMA RemoveJob ==
  ASSUME NEW S, NEW s \in Seq(S), NEW k \in DOMAIN s
  PROVE  RemoveAt(s, k) \in Seq(S)
  BY DEF RemoveAt

-------------------------------------------------------------------------------
LEMMA TypeInit == Init => TypeOK
<1> SUFFICES ASSUME Init PROVE TypeOK
  OBVIOUS
<1>1. 0 \in Docks
  BY DockAssumption DEF Docks
<1>2. mutex \in MutexType(Trucks \cup {Computer})
  BY DEF Init, Free, MutexType
<1>3. bay \in [Docks -> [isOccupied : BOOLEAN, isDeliveryTruck : BOOLEAN, isDone : BOOLEAN]]
  BY DEF Init, EmptyDock
<1>4. /\ tpc \in [Trucks -> {"outside", "await", "wreck", "lost", "gone"}
                              \cup Parking \cup Parked \cup Holding]
      /\ dock \in [Trucks -> Docks]
  BY <1>1 DEF Init
<1>5. jobs \in Seq([dock : Docks, delivery : BOOLEAN])
  BY DEF Init
<1> QED BY <1>1, <1>2, <1>3, <1>4, <1>5 DEF Init, TypeOK

LEMMA TypeNext == TypeOK /\ MutexInv /\ [Next]_vars => TypeOK'
<1> SUFFICES ASSUME TypeOK, MutexInv, [Next]_vars PROVE TypeOK'
  OBVIOUS
<1> DEFINE Threads == Trucks \cup {Computer}
<1>m. mutex \in MutexType(Threads)
  BY DEF TypeOK
<1>1. ASSUME NEW t \in Trucks,
             TurnAway(t) \/ Arrive(t) \/ Admitted(t) \/ Find(t) \/ Ready(t) \/ Loaded(t)
      PROVE  TypeOK'
  <2>1. 0 \in Docks
    BY DockAssumption DEF Docks
  <2>2. CASE TurnAway(t) \/ Find(t) \/ Loaded(t)
    BY <2>2 DEF TurnAway, Find, Loaded, Goto, TypeOK, Parking, Parked, Holding, monitor,
       semaphores, work
  <2>3. CASE Arrive(t)
    BY <2>3 DEF Arrive, Goto, TypeOK, Parking, Parked, Holding, monitor, work
  <2>4. CASE Ready(t)
    BY <2>4 DEF Ready, Goto, TypeOK, Parking, Parked, Holding, monitor, work
  <2>5. CASE Admitted(t)
    BY <2>1, <2>5 DEF Admitted, Goto, TypeOK, Parking, Parked, Holding, monitor, work
  <2> QED BY <1>1, <2>2, <2>3, <2>4, <2>5
<1>2. ASSUME NEW t \in Trucks, Pass(t) PROVE TypeOK'
  BY <1>2, NextDockType DEF Pass, TypeOK, monitor, semaphores, work
<1>3. ASSUME NEW t \in Trucks, Claim(t) PROVE TypeOK'
  BY <1>3 DEF Claim, At, Goto, TypeOK, Parking, Parked, Holding, monitor, semaphores, work
<1>4. ASSUME NEW t \in Trucks, NEW from, NEW to \in {"type", "test"}, Lock(t, from, to)
      PROVE  TypeOK'
  <2>1. mutex' \in MutexType(Threads)
    BY <1>4, <1>m, MutexTypes DEF Lock
  <2> QED BY <1>4, <2>1 DEF Lock, Goto, TypeOK, Holding, Parking, Parked, monitor, semaphores, work
<1>5. ASSUME NEW t \in Trucks, SetType(t) \/ Sleep(t) \/ DriveOff(t) PROVE TypeOK'
  <2>1. Unlocked(mutex, t) \in MutexType(Threads)
    <3>1. mutex.count >= 1
      BY <1>5 DEF MutexInv, SetType, Sleep, DriveOff, At, Holding
    <3> QED BY <3>1, <1>m, MutexTypes
  <2>3. CASE SetType(t)
    <3>2. PICK b \in BOOLEAN : bay' = [bay EXCEPT ![dock[t]].isDeliveryTruck = b]
      <4>1. CASE t \in DeliveryTrucks
        <5>1. (t \in DeliveryTrucks) = TRUE
          BY <4>1
        <5> QED BY <2>3, <5>1, Zenon DEF SetType
      <4>2. CASE t \notin DeliveryTrucks
        <5>1. (t \in DeliveryTrucks) = FALSE
          BY <4>2
        <5> QED BY <2>3, <5>1, Zenon DEF SetType
      <4> QED BY <4>1, <4>2
    <3>1. bay' \in [Docks -> [isOccupied : BOOLEAN, isDeliveryTruck : BOOLEAN, isDone : BOOLEAN]]
      BY <3>2 DEF TypeOK
    <3> QED BY <2>1, <2>3, <3>1 DEF SetType, Goto, TypeOK, Holding, Parking, Parked, monitor,
            semaphores, work
  <2>4. CASE Sleep(t)
    BY <2>1, <2>4 DEF Sleep, Goto, TypeOK, Holding, Parking, Parked, monitor, semaphores, work
  <2>5. CASE DriveOff(t)
    <3>1. mutex' \in MutexType(Threads)
      <4> DEFINE m == Unlocked(mutex, t)
      <4>1. mutex' = OwnerExits(m, t, TRUE)
        BY <2>5 DEF DriveOff
      <4> HIDE DEF m
      <4>2. m \in MutexType(Threads)
        BY <2>1 DEF m
      <4> QED BY <4>1, <4>2, MutexTypes
    <3>2. 0 \in Docks
      BY DockAssumption DEF Docks
    <3> QED BY <2>5, <3>1, <3>2 DEF DriveOff, Goto, TypeOK, monitor, semaphores, work
  <2> QED BY <1>5, <2>3, <2>4, <2>5
<1>6. ASSUME NEW t \in Trucks, Leave(t) PROVE TypeOK'
  <2>1. mutex' \in MutexType(Threads)
    BY <1>6, <1>m, MutexTypes DEF Leave
  <2> QED BY <1>6, <2>1 DEF Leave, EmptyDock, At, Goto, TypeOK, Holding, Parking,
          Parked, monitor, semaphores, work
<1>7. ASSUME NEW t \in Trucks, Die(t) PROVE TypeOK'
  <2>1. mutex' \in MutexType(Threads)
    BY <1>7, <1>m, MutexTypes DEF Die
  <2>2. dock' \in [Trucks -> Docks]
    <3>1. 0 \in Docks
      BY DockAssumption DEF Docks
    <3> QED BY <1>7, <3>1 DEF Die, TypeOK
  <2> QED BY <1>7, <2>1, <2>2 DEF Die, Goto, TypeOK, Holding, Parking, Parked, monitor, semaphores, work
<1>8. ASSUME Monitor PROVE TypeOK'
  <2>1. CASE MonitorPass
    BY <2>1, NextDockType DEF MonitorPass, TypeOK, truck, semaphores, work
  <2>2. CASE StartMonitor
    BY <2>2 DEF StartMonitor, EmptyDock, TypeOK, truck, semaphores, work
  <2>5. CASE NoticeArrival
    <3>1. 0 \in Docks
      BY DockAssumption DEF Docks
    <3> QED BY <2>5, <3>1 DEF NoticeArrival, TypeOK, truck, work
  <2>3. CASE MonitorFind \/ Grant \/ AwaitReady \/ ReadType \/ TakeOrder
    BY <2>3 DEF MonitorFind, Grant, AwaitReady, ReadType, TakeOrder, TypeOK, truck,
       semaphores, work
  <2>4. CASE SendJob
    <3>1. 0 \in Docks
      BY DockAssumption DEF Docks
    <3> QED BY <2>4, <3>1 DEF SendJob, TypeOK, truck, semaphores
  <2> QED BY <1>8, <2>1, <2>2, <2>3, <2>4, <2>5 DEF Monitor
<1>9. ASSUME RobotPicks PROVE TypeOK'
  BY <1>9 DEF RobotPicks, TypeOK, truck, monitor, semaphores
<1>10. ASSUME NEW k \in DOMAIN jobs, RobotFinishes(k) PROVE TypeOK'
  <2>1. mutex' \in MutexType(Threads)
    BY <1>10, <1>m, MutexTypes DEF RobotFinishes
  <2>2. jobs' \in Seq([dock : Docks, delivery : BOOLEAN])
    BY <1>10, RemoveJob DEF RobotFinishes, TypeOK
  <2>3. bay' \in [Docks -> [isOccupied : BOOLEAN, isDeliveryTruck : BOOLEAN, isDone : BOOLEAN]]
    BY <1>10 DEF RobotFinishes, TypeOK
  <2> QED BY <1>10, <2>1, <2>2, <2>3 DEF RobotFinishes, At, TypeOK, Holding, Parking, Parked,
          monitor, semaphores
<1>11. CASE UNCHANGED vars
  BY <1>11 DEF vars, truck, monitor, semaphores, work, TypeOK
<1> QED
  BY <1>1, <1>2, <1>3, <1>4, <1>5, <1>6, <1>7, <1>8, <1>9, <1>10, <1>11 DEF Next, Truck, Robots

-------------------------------------------------------------------------------
LEMMA MutexInit == Init => MutexInv
  BY DEF Init, MutexInv, Holding

LEMMA MutexNext == TypeOK /\ MutexInv /\ [Next]_vars => MutexInv'
<1> SUFFICES ASSUME TypeOK, MutexInv, [Next]_vars PROVE MutexInv'
  OBVIOUS
<1>m. /\ mutex \in MutexType(Trucks \cup {Computer})
      /\ \A t \in Trucks : t # NoThread /\ t # Computer
  BY DockAssumption DEF TypeOK
<1> USE DEF MutexInv, Holding
<1>1. ASSUME NEW t \in Trucks,
             \/ TurnAway(t) \/ Arrive(t) \/ Admitted(t) \/ Pass(t) \/ Find(t) \/ Claim(t)
             \/ Ready(t) \/ Loaded(t)
      PROVE  MutexInv'
  BY <1>1 DEF TurnAway, Arrive, Admitted, Pass, Find, Claim, Ready, Loaded, At, Goto, TypeOK
\* lock() returns only when no other truck holds the mutex.
<1>2. ASSUME NEW t \in Trucks, NEW from, NEW to, Lock(t, from, to) PROVE MutexInv'
  <2>1. \A u \in Trucks : u # t => tpc[u] \notin Holding
    BY <1>2, <1>m, PlatformAssumption DEF Lock, CanLock, MutexType
  <2>2. Locked(mutex, t).owner = t /\ Locked(mutex, t).count >= 1
    BY <1>m DEF Locked, MutexType
  <2> QED BY <1>2, <2>1, <2>2 DEF Lock, Goto, TypeOK
<1>3. ASSUME NEW t \in Trucks, SetType(t) \/ Sleep(t) \/ DriveOff(t) PROVE MutexInv'
  <2>1. \A u \in Trucks : u # t => tpc[u] \notin Holding
    BY <1>3 DEF SetType, Sleep, DriveOff, At
  <2>2. tpc'[t] \notin Holding /\ \A u \in Trucks : u # t => tpc'[u] = tpc[u]
    BY <1>3 DEF SetType, Sleep, DriveOff, Goto, TypeOK
  <2> QED BY <2>1, <2>2
<1>4. ASSUME NEW t \in Trucks, Leave(t) PROVE MutexInv'
  <2>1. \A u \in Trucks : u # t => tpc[u] \notin Holding
    BY <1>4 DEF Leave, At
  <2>2. mutex.owner = t /\ mutex.count >= 1
    BY <1>4 DEF Leave, At
  <2>3. Windows
    BY <1>4, <2>2 DEF Leave, CanLock
  <2> DEFINE m == Locked(mutex, t)
  <2>5. m.owner = t /\ m.count \in Nat /\ m.count >= 2
    BY <1>m, <2>2 DEF Locked, MutexType
  <2>6. m \in MutexType(Trucks \cup {Computer})
    BY <1>m, MutexTypes
  <2>7. Unlocked(m, t).owner = t /\ Unlocked(m, t).count >= 1
    <3> HIDE DEF m
    <3> QED BY <2>5, <2>6 DEF Unlocked, MutexType
  <2>8. mutex' = Unlocked(m, t)
    BY <1>4 DEF Leave
  <2> QED BY <1>4, <2>1, <2>7, <2>8 DEF Leave, Goto, TypeOK
<1>5. ASSUME NEW t \in Trucks, Die(t) PROVE MutexInv'
  <2>1. tpc'[t] \notin Holding /\ \A u \in Trucks : u # t => tpc'[u] = tpc[u]
    BY <1>5 DEF Die, Goto, TypeOK
  <2>2. mutex.owner # t => mutex' = mutex
    BY <1>5 DEF Die, OwnerExits
  <2> QED BY <2>1, <2>2
<1>6. ASSUME Monitor \/ RobotPicks PROVE MutexInv'
  BY <1>6 DEF Monitor, StartMonitor, NoticeArrival, MonitorPass, MonitorFind, Grant, AwaitReady,
     ReadType, TakeOrder, SendJob, RobotPicks, truck
<1>7. ASSUME NEW k \in DOMAIN jobs, RobotFinishes(k) PROVE MutexInv'
  <2>1. \A u \in Trucks : tpc[u] \notin Holding
    BY <1>7, <1>m, PlatformAssumption DEF RobotFinishes, CanLock, MutexType
  <2>2. \A u \in Trucks : tpc'[u] \notin Holding
    BY <1>7, <2>1 DEF RobotFinishes, At
  <2> QED BY <2>2
<1>8. CASE UNCHANGED vars
  BY <1>8 DEF vars, truck
<1> QED
  BY <1>1, <1>2, <1>3, <1>4, <1>5, <1>6, <1>7, <1>8 DEF Next, Truck, Robots

-------------------------------------------------------------------------------
LEMMA ParksInit == Init => OneTruckParks /\ StartInv
  BY DEF Init, OneTruckParks, StartInv, Parking

LEMMA ParksNext ==
  TypeOK /\ OneTruckParks /\ StartInv /\ [Next]_vars => OneTruckParks' /\ StartInv'
<1> SUFFICES ASSUME TypeOK, OneTruckParks, StartInv, [Next]_vars
             PROVE  OneTruckParks' /\ StartInv'
  OBVIOUS
<1> USE DEF OneTruckParks, StartInv, Parking
<1>1. ASSUME NEW t \in Trucks, TurnAway(t) \/ Arrive(t) PROVE OneTruckParks' /\ StartInv'
  BY <1>1 DEF TurnAway, Arrive, At, Goto, TypeOK, monitor, semaphores
<1>2. ASSUME NEW t \in Trucks, Admitted(t) PROVE OneTruckParks' /\ StartInv'
  <2>1. mpc = "await" /\ available = 1 /\ ready = 0 /\ \A u \in Trucks : tpc[u] \notin Parking
    BY <1>2 DEF Admitted, TypeOK
  <2> QED BY <1>2, <2>1 DEF Admitted, Goto, TypeOK, monitor
<1>3. ASSUME NEW t \in Trucks,
             \/ Pass(t) \/ Find(t) \/ Claim(t) \/ SetType(t) \/ Sleep(t)
             \/ Loaded(t) \/ Leave(t) \/ DriveOff(t) \/ Die(t)
      PROVE  OneTruckParks' /\ StartInv'
  <2>1. /\ \A u \in Trucks : tpc'[u] \in Parking => tpc[u] \in Parking
        /\ UNCHANGED <<mpc, available, ready>>
    BY <1>3 DEF Pass, Find, Claim, SetType, Sleep, Loaded, Leave, DriveOff, Die, At, Goto,
       TypeOK, Parked, monitor, semaphores
  <2>2. \A u \in Trucks : tpc[u] \in {"outside", "await", "gone"} => tpc'[u] \in {tpc[u], "gone"}
    BY <1>3 DEF Pass, Find, Claim, SetType, Sleep, Loaded, Leave, DriveOff, Die, At, Goto,
       TypeOK, Parked
  <2> QED BY <2>1, <2>2
<1>4. ASSUME NEW t \in Trucks,
             \/ Lock(t, "lockType", "type") \/ Lock(t, "lock", "test") \/ Lock(t, "relock", "test")
      PROVE  OneTruckParks' /\ StartInv'
  BY <1>4 DEF Lock, At, Goto, TypeOK, monitor, semaphores
<1>5. ASSUME NEW t \in Trucks, Ready(t) PROVE OneTruckParks' /\ StartInv'
  <2>1. mpc = "await" /\ available = 0 /\ ready = 0
        /\ \A u \in Trucks : u # t => tpc[u] \notin Parking
    BY <1>5 DEF Ready, At, TypeOK
  <2> QED BY <1>5, <2>1 DEF Ready, Goto, TypeOK, monitor
<1>6. ASSUME Monitor PROVE OneTruckParks' /\ StartInv'
  <2>1. CASE StartMonitor \/ NoticeArrival \/ MonitorPass \/ MonitorFind
    BY <2>1 DEF StartMonitor, NoticeArrival, MonitorPass, MonitorFind, truck, semaphores
  <2>2. CASE Grant
    BY <2>2 DEF Grant, TypeOK, truck
  <2>3. CASE AwaitReady
    BY <2>3 DEF AwaitReady, TypeOK, truck
  <2>4. CASE ReadType \/ TakeOrder \/ SendJob
    BY <2>4 DEF ReadType, TakeOrder, SendJob, truck, semaphores
  <2> QED BY <1>6, <2>1, <2>2, <2>3, <2>4 DEF Monitor
<1>7. ASSUME RobotPicks PROVE OneTruckParks' /\ StartInv'
  BY <1>7 DEF RobotPicks, truck, monitor, semaphores
<1>8. ASSUME NEW k \in DOMAIN jobs, RobotFinishes(k) PROVE OneTruckParks' /\ StartInv'
  BY <1>8 DEF RobotFinishes, At, TypeOK, monitor, semaphores
<1>9. CASE UNCHANGED vars
  BY <1>9 DEF vars, truck, monitor, semaphores
<1> QED
  BY <1>1, <1>2, <1>3, <1>4, <1>5, <1>6, <1>7, <1>8, <1>9 DEF Next, Truck, Robots

-------------------------------------------------------------------------------
LEMMA DocksInit == Init => OneTruckPerDock
  BY DEF Init, OneTruckPerDock, Occupies, Parked, EmptyDock, At

\* What the proof of the next lemma needs of a step that occupies and frees no
\* dock and claims none.
LEMMA DocksKept ==
  ASSUME OneTruckPerDock,
         \A t \in Trucks : Occupies(t)' <=> Occupies(t),
         \A t \in Trucks : Occupies(t) => dock'[t] = dock[t],
         \A i \in Docks : bay'[i].isOccupied = bay[i].isOccupied,
         \A t \in Trucks : At(t, "claim")' => At(t, "claim") /\ dock'[t] = dock[t],
         dock \in [Trucks -> Docks]
  PROVE  OneTruckPerDock'
  BY DEF OneTruckPerDock

LEMMA DocksNext ==
  TypeOK /\ StartInv /\ OneTruckParks /\ OneTruckPerDock /\ [Next]_vars => OneTruckPerDock'
<1> SUFFICES ASSUME TypeOK, StartInv, OneTruckParks, OneTruckPerDock, [Next]_vars
             PROVE  OneTruckPerDock'
  OBVIOUS
<1>d. dock \in [Trucks -> Docks] /\ DOMAIN tpc = Trucks
  BY DEF TypeOK
<1>1. ASSUME NEW t \in Trucks,
             \/ TurnAway(t) \/ Arrive(t) \/ Admitted(t) \/ Pass(t) \/ Ready(t) \/ Sleep(t)
             \/ Loaded(t) \/ DriveOff(t)
             \/ Lock(t, "lockType", "type") \/ Lock(t, "lock", "test") \/ Lock(t, "relock", "test")
      PROVE  OneTruckPerDock'
  <2>1. /\ bay' = bay
        /\ \A u \in Trucks : Occupies(u)' <=> Occupies(u)
        /\ \A u \in Trucks : Occupies(u) \/ At(u, "claim") => dock'[u] = dock[u]
        /\ \A u \in Trucks : At(u, "claim")' => At(u, "claim")
    BY <1>1, <1>d DEF TurnAway, Arrive, Admitted, Pass, Ready, Sleep, Loaded, DriveOff, Lock, At, Goto,
       Occupies, Parked
  <2> QED BY <2>1, <1>d, DocksKept
<1>2. ASSUME NEW t \in Trucks, Find(t) PROVE OneTruckPerDock'
  <2>1. \A u \in Trucks : (Occupies(u)' <=> Occupies(u)) /\ (At(u, "claim")' <=> At(u, "claim") \/ u = t)
    BY <1>2, <1>d DEF Find, At, Goto, Occupies, Parked
  <2> QED BY <1>2, <2>1, <1>d DEF Find, OneTruckPerDock
\* The truck that claims a dock is the only one that is parking, and the dock
\* is free.
<1>3. ASSUME NEW t \in Trucks, Claim(t) PROVE OneTruckPerDock'
  <2> DEFINE i == dock[t]
  <2>1. i \in Docks /\ ~ bay[i].isOccupied
    BY <1>3, <1>d DEF Claim, OneTruckPerDock
  <2>2. \A u \in Trucks : Occupies(u) => dock[u] # i
    BY <2>1 DEF OneTruckPerDock
  <2>3. \A u \in Trucks : Occupies(u)' <=> Occupies(u) \/ u = t
    BY <1>3, <1>d DEF Claim, At, Goto, Occupies, Parked
  <2>4. \A u \in Trucks : ~ At(u, "claim")'
    BY <1>3, <1>d DEF Claim, At, Goto, OneTruckParks, Parking
  <2>5. \A j \in Docks : bay'[j].isOccupied <=> bay[j].isOccupied \/ j = i
    BY <1>3, <2>1 DEF Claim, TypeOK
  <2>6. dock' = dock
    BY <1>3 DEF Claim
  <2> HIDE DEF i
  <2>7. i = dock[t]
    BY DEF i
  <2> QED BY <1>d, <2>1, <2>2, <2>3, <2>4, <2>5, <2>6, <2>7 DEF OneTruckPerDock
<1>4. ASSUME NEW t \in Trucks, SetType(t) PROVE OneTruckPerDock'
  <2>1. \A i \in Docks : bay'[i].isOccupied = bay[i].isOccupied
    BY <1>4 DEF SetType, TypeOK
  <2>2. /\ \A u \in Trucks : Occupies(u)' <=> Occupies(u)
        /\ \A u \in Trucks : At(u, "claim")' => At(u, "claim")
        /\ dock' = dock
    BY <1>4, <1>d DEF SetType, At, Goto, Occupies, Parked
  <2> QED BY <2>1, <2>2, <1>d, DocksKept
<1>5. ASSUME NEW t \in Trucks, Leave(t) PROVE OneTruckPerDock'
  <2> DEFINE i == dock[t]
  <2>1. i \in Docks /\ Occupies(t)
    BY <1>5, <1>d DEF Leave, At, Occupies, Parked
  <2>2. \A u \in Trucks : Occupies(u)' <=> Occupies(u) /\ u # t
    BY <1>5, <1>d DEF Leave, At, Goto, Occupies, Parked
  <2>3. \A u \in Trucks : At(u, "claim")' => At(u, "claim")
    BY <1>5, <1>d DEF Leave, At, Goto
  <2>4. \A j \in Docks : bay'[j].isOccupied <=> bay[j].isOccupied /\ j # i
    BY <1>5, <2>1 DEF Leave, EmptyDock, TypeOK
  <2>5. dock' = dock
    BY <1>5 DEF Leave
  <2> HIDE DEF i
  <2>6. i = dock[t]
    BY DEF i
  <2> QED BY <1>d, <2>1, <2>2, <2>3, <2>4, <2>5, <2>6 DEF OneTruckPerDock
<1>6. ASSUME NEW t \in Trucks, Die(t) PROVE OneTruckPerDock'
  <2>1. /\ \A u \in Trucks : Occupies(u)' <=> Occupies(u)
        /\ \A u \in Trucks : Occupies(u) => dock'[u] = dock[u]
        /\ \A u \in Trucks : At(u, "claim")' => At(u, "claim") /\ dock'[u] = dock[u]
    BY <1>6, <1>d DEF Die, At, Goto, Occupies, Parked
  <2> QED BY <1>6, <2>1, <1>d, DocksKept DEF Die
<1>7. ASSUME StartMonitor PROVE OneTruckPerDock'
  <2>1. \A u \in Trucks : ~ Occupies(u) /\ ~ At(u, "claim")
    BY <1>7 DEF StartMonitor, StartInv, Occupies, Parked, At
  <2> QED BY <1>7, <2>1 DEF StartMonitor, OneTruckPerDock, Occupies, At, EmptyDock, truck
<1>8. ASSUME Monitor, ~ StartMonitor PROVE OneTruckPerDock'
  <2>1. UNCHANGED <<tpc, dock, bay>>
    BY <1>8 DEF Monitor, NoticeArrival, MonitorPass, MonitorFind, Grant, AwaitReady, ReadType,
       TakeOrder, SendJob, truck
  <2> QED BY <2>1 DEF OneTruckPerDock, Occupies, At
<1>9. ASSUME RobotPicks \/ UNCHANGED vars PROVE OneTruckPerDock'
  <2>1. UNCHANGED <<tpc, dock, bay>>
    BY <1>9 DEF RobotPicks, vars, truck
  <2> QED BY <2>1 DEF OneTruckPerDock, Occupies, At
<1>10. ASSUME NEW k \in DOMAIN jobs, RobotFinishes(k) PROVE OneTruckPerDock'
  <2>1. \A i \in Docks : bay'[i].isOccupied = bay[i].isOccupied
    BY <1>10 DEF RobotFinishes, TypeOK
  <2>2. /\ \A u \in Trucks : Occupies(u)' <=> Occupies(u)
        /\ \A u \in Trucks : At(u, "claim")' => At(u, "claim")
        /\ dock' = dock
    BY <1>10 DEF RobotFinishes, At, Occupies, Parked
  <2> QED BY <2>1, <2>2, <1>d, DocksKept
<1> QED
  BY <1>1, <1>2, <1>3, <1>4, <1>5, <1>6, <1>7, <1>8, <1>9, <1>10 DEF Next, Truck, Robots

-------------------------------------------------------------------------------
\* Places of a truck that has set the type of its dock.
Typed == {"ready", "lock", "test", "wait", "relock", "leave"}

LEMMA FlagInit == Init => FlagMatchesTruck /\ FreeDockInv
  BY DEF Init, FlagMatchesTruck, FreeDockInv, EmptyDock, At

LEMMA FlagNext ==
  DockInv /\ FreeDockInv /\ FlagMatchesTruck /\ [Next]_vars => FlagMatchesTruck' /\ FreeDockInv'
<1> SUFFICES ASSUME DockInv, FreeDockInv, FlagMatchesTruck, [Next]_vars
             PROVE  FlagMatchesTruck' /\ FreeDockInv'
  OBVIOUS
<1>d. /\ dock \in [Trucks -> Docks] /\ DOMAIN tpc = Trucks
      /\ \A t \in Trucks : tpc[t] \in Parked => bay[dock[t]].isOccupied
  BY DEF DockInv, TypeOK, OneTruckPerDock, Occupies
<1> USE DEF FlagMatchesTruck, FreeDockInv
<1>1. ASSUME NEW t \in Trucks,
             \/ TurnAway(t) \/ Arrive(t) \/ Admitted(t) \/ Pass(t) \/ Ready(t) \/ Sleep(t)
             \/ Loaded(t) \/ DriveOff(t) \/ Die(t)
             \/ Lock(t, "lockType", "type") \/ Lock(t, "lock", "test") \/ Lock(t, "relock", "test")
      PROVE  FlagMatchesTruck' /\ FreeDockInv'
  <2>1. /\ bay' = bay
        /\ \A u \in Trucks : tpc'[u] \in Typed => tpc[u] \in Typed /\ dock'[u] = dock[u]
        /\ \A u \in Trucks : At(u, "claim")' => At(u, "claim") /\ dock'[u] = dock[u]
    <3>1. CASE DriveOff(t)
      BY <3>1, <1>d DEF DriveOff, At, Goto, Typed
    <3>2. CASE Die(t)
      BY <3>2, <1>d DEF Die, At, Goto, Typed, Parked
    <3>3. CASE ~ DriveOff(t) /\ ~ Die(t)
      BY <1>1, <1>d, <3>3 DEF TurnAway, Arrive, Admitted, Pass, Ready, Sleep, Loaded, Lock, At, Goto,
         Typed
    <3> QED BY <3>1, <3>2, <3>3
  <2> QED BY <2>1 DEF Typed
<1>2. ASSUME NEW t \in Trucks, Find(t) PROVE FlagMatchesTruck' /\ FreeDockInv'
  <2>1. ~ bay[dock[t]].isDeliveryTruck
    BY <1>2, <1>d DEF Find
  <2> QED BY <1>2, <1>d, <2>1 DEF Find, At, Goto
<1>3. ASSUME NEW t \in Trucks, Claim(t) PROVE FlagMatchesTruck' /\ FreeDockInv'
  <2>1. \A i \in Docks : /\ bay'[i].isDeliveryTruck = bay[i].isDeliveryTruck
                         /\ bay[i].isOccupied => bay'[i].isOccupied
    BY <1>3, <1>d DEF Claim, DockInv, TypeOK
  <2>2. dock' = dock /\ \A u \in Trucks : tpc'[u] = IF u = t THEN "lockType" ELSE tpc[u]
    BY <1>3, <1>d DEF Claim, Goto
  <2> QED BY <1>d, <2>1, <2>2 DEF At
\* No other truck stands at the dock.
<1>4. ASSUME NEW t \in Trucks, SetType(t) PROVE FlagMatchesTruck' /\ FreeDockInv'
  <2>1. \A u \in Trucks : tpc[u] \in Parked /\ u # t => dock[u] # dock[t]
    BY <1>4 DEF SetType, At, DockInv, OneTruckPerDock, Occupies, Parked
  <2>2. \A u \in Trucks : ~ At(u, "claim")
    BY <1>4 DEF SetType, At, DockInv, OneTruckParks, Parking
  <2>3. /\ \A i \in Docks : bay'[i].isOccupied = bay[i].isOccupied
        /\ \A i \in Docks : i # dock[t] => bay'[i] = bay[i]
    BY <1>4 DEF SetType, DockInv, TypeOK
  <2>4. bay'[dock[t]].isDeliveryTruck <=> t \in DeliveryTrucks
    <3>1. bay'[dock[t]].isDeliveryTruck = (t \in DeliveryTrucks)
      BY <1>4, <1>d, Zenon DEF SetType, DockInv, TypeOK
    <3> QED BY <3>1
  <2>5. dock' = dock /\ \A u \in Trucks : tpc'[u] = IF u = t THEN "ready" ELSE tpc[u]
    BY <1>4, <1>d DEF SetType, Goto
  <2>6. bay[dock[t]].isOccupied
    BY <1>4, <1>d DEF SetType, At, Parked
  <2>7. FreeDockInv'
    BY <1>d, <2>3, <2>6
  <2> QED BY <1>d, <2>1, <2>2, <2>3, <2>4, <2>5, <2>7 DEF At, Parked
<1>5. ASSUME NEW t \in Trucks, Leave(t) PROVE FlagMatchesTruck' /\ FreeDockInv'
  <2>1. \A u \in Trucks : tpc[u] \in Parked /\ u # t => dock[u] # dock[t]
    BY <1>5 DEF Leave, At, DockInv, OneTruckPerDock, Occupies, Parked
  <2>2. /\ bay'[dock[t]] = EmptyDock
        /\ \A i \in Docks : i # dock[t] => bay'[i] = bay[i]
    BY <1>5, <1>d DEF Leave, DockInv, TypeOK
  <2>3. dock' = dock /\ \A u \in Trucks : tpc'[u] = IF u = t THEN "linger" ELSE tpc[u]
    BY <1>5, <1>d DEF Leave, Goto
  <2> QED BY <1>d, <2>1, <2>2, <2>3 DEF EmptyDock, At, Parked
<1>6. ASSUME StartMonitor PROVE FlagMatchesTruck' /\ FreeDockInv'
  <2>1. \A u \in Trucks : tpc[u] \in {"outside", "await", "gone"}
    BY <1>6 DEF StartMonitor, DockInv, StartInv
  <2> QED BY <1>6, <2>1 DEF StartMonitor, At, EmptyDock, truck
<1>7. ASSUME (Monitor /\ ~ StartMonitor) \/ RobotPicks \/ UNCHANGED vars
      PROVE  FlagMatchesTruck' /\ FreeDockInv'
  <2>1. UNCHANGED <<tpc, dock, bay>>
    BY <1>7 DEF Monitor, NoticeArrival, MonitorPass, MonitorFind, Grant, AwaitReady, ReadType,
       TakeOrder, SendJob, RobotPicks, vars, truck
  <2> QED BY <2>1 DEF At
<1>8. ASSUME NEW k \in DOMAIN jobs, RobotFinishes(k) PROVE FlagMatchesTruck' /\ FreeDockInv'
  <2>1. \A i \in Docks : /\ bay'[i].isOccupied = bay[i].isOccupied
                         /\ bay'[i].isDeliveryTruck = bay[i].isDeliveryTruck
    BY <1>8 DEF RobotFinishes, DockInv, TypeOK
  <2>2. /\ \A u \in Trucks : tpc'[u] \in Typed => tpc[u] \in Typed
        /\ \A u \in Trucks : At(u, "claim")' => At(u, "claim")
        /\ dock' = dock
    BY <1>8 DEF RobotFinishes, At, Typed
  <2> QED BY <1>d, <2>1, <2>2 DEF Typed
<1> QED
  BY <1>1, <1>2, <1>3, <1>4, <1>5, <1>6, <1>7, <1>8 DEF Next, Truck, Robots

-------------------------------------------------------------------------------
AtGate == {t \in Trucks : At(t, "await")}

LEMMA GateFinite == IsFiniteSet(AtGate) /\ Cardinality(AtGate) \in Nat
  BY DockAssumption, FS_Subset, FS_CardinalityType DEF AtGate

LEMMA ArrivalsInit == Init => ArrivalsAccounted
<1> SUFFICES ASSUME Init PROVE ArrivalsAccounted
  OBVIOUS
<1>1. AtGate = {}
  BY DEF Init, AtGate, At
<1>2. Cardinality(AtGate) = 0
  BY <1>1, FS_EmptySet
<1>3. Cardinality(AtGate) <= arrival + available + (IF mpc \in {"scan", "grant"} THEN 1 ELSE 0)
  BY <1>2 DEF Init
<1> QED BY <1>3 DEF ArrivalsAccounted, AtGate

LEMMA ArrivalsNext == TypeOK /\ ArrivalsAccounted /\ [Next]_vars => ArrivalsAccounted'
<1> SUFFICES ASSUME TypeOK, ArrivalsAccounted, [Next]_vars PROVE ArrivalsAccounted'
  OBVIOUS
<1> DEFINE Held == IF mpc \in {"scan", "grant"} THEN 1 ELSE 0
<1>d. /\ DOMAIN tpc = Trucks
      /\ arrival \in Nat /\ available \in Nat /\ Held \in Nat
      /\ Cardinality(AtGate) <= arrival + available + Held
  BY DEF TypeOK, ArrivalsAccounted, AtGate
<1>1. ASSUME NEW t \in Trucks, Arrive(t) PROVE ArrivalsAccounted'
  <2>1. AtGate' = AtGate \cup {t} /\ t \notin AtGate
    BY <1>1, <1>d DEF Arrive, AtGate, At, Goto
  <2>2. Cardinality(AtGate') = Cardinality(AtGate) + 1
    BY <2>1, GateFinite, FS_AddElement
  <2>3. arrival' = arrival + 1 /\ available' = available /\ Held' = Held
    BY <1>1 DEF Arrive, monitor
  <2>4. Cardinality(AtGate') <= arrival' + available' + Held'
    BY <1>d, <2>2, <2>3, GateFinite
  <2> QED BY <2>4 DEF ArrivalsAccounted, AtGate
<1>2. ASSUME NEW t \in Trucks, Admitted(t) PROVE ArrivalsAccounted'
  <2>1. AtGate' = AtGate \ {t} /\ t \in AtGate
    BY <1>2, <1>d DEF Admitted, AtGate, At, Goto
  <2>2. Cardinality(AtGate') = Cardinality(AtGate) - 1
    BY <2>1, GateFinite, FS_RemoveElement
  <2>3. arrival' = arrival /\ available' = available - 1 /\ Held' = Held
    BY <1>2 DEF Admitted, monitor
  <2>4. Cardinality(AtGate') <= arrival' + available' + Held'
    BY <1>d, <2>2, <2>3, GateFinite
  <2> QED BY <2>4 DEF ArrivalsAccounted, AtGate
\* Trucks may leave the gate, and the tokens change hands.
<1>3. ASSUME AtGate' \subseteq AtGate,
             arrival' + available' + Held' = arrival + available + Held
      PROVE  ArrivalsAccounted'
  <2>1. Cardinality(AtGate') <= Cardinality(AtGate) /\ Cardinality(AtGate') \in Nat
    BY <1>3, GateFinite, FS_Subset, FS_CardinalityType
  <2>2. Cardinality(AtGate') <= arrival + available + Held
    BY <2>1, <1>d, GateFinite
  <2>3. Cardinality(AtGate') <= arrival' + available' + Held'
    BY <2>2, <1>3
  <2> QED BY <2>3 DEF ArrivalsAccounted, AtGate
<1>4. ASSUME NEW t \in Trucks,
             \/ TurnAway(t) \/ Pass(t) \/ Find(t) \/ Claim(t) \/ SetType(t) \/ Ready(t)
             \/ Sleep(t) \/ Loaded(t) \/ Leave(t) \/ DriveOff(t) \/ Die(t)
             \/ Lock(t, "lockType", "type") \/ Lock(t, "lock", "test") \/ Lock(t, "relock", "test")
      PROVE  ArrivalsAccounted'
  <2>1. AtGate' \subseteq AtGate
    BY <1>4, <1>d DEF TurnAway, Pass, Find, Claim, SetType, Ready, Sleep, Loaded, Leave, DriveOff,
       Die, Lock, AtGate, At, Goto
  <2>2. UNCHANGED <<mpc, arrival, available>>
    BY <1>4 DEF TurnAway, Pass, Find, Claim, SetType, Ready, Sleep, Loaded, Leave, DriveOff, Die,
       Lock, monitor, semaphores
  <2>3. Held' = Held
    BY <2>2
  <2> QED BY <2>1, <2>2, <2>3, <1>3
<1>5. ASSUME Monitor PROVE ArrivalsAccounted'
  <2>1. AtGate' = AtGate
    BY <1>5 DEF Monitor, StartMonitor, NoticeArrival, MonitorPass, MonitorFind, Grant, AwaitReady,
       ReadType, TakeOrder, SendJob, AtGate, At, truck
  <2>2. arrival' + available' + Held' = arrival + available + Held
    BY <1>5, <1>d DEF Monitor, StartMonitor, NoticeArrival, MonitorPass, MonitorFind, Grant,
       AwaitReady, ReadType, TakeOrder, SendJob, semaphores
  <2> QED BY <2>1, <2>2, <1>3
<1>6. ASSUME RobotPicks \/ (\E k \in DOMAIN jobs : RobotFinishes(k)) \/ UNCHANGED vars
      PROVE  ArrivalsAccounted'
  <2>1. AtGate' \subseteq AtGate
    BY <1>6 DEF RobotPicks, RobotFinishes, vars, AtGate, At, truck
  <2>2. UNCHANGED <<mpc, arrival, available>>
    BY <1>6 DEF RobotPicks, RobotFinishes, vars, monitor, semaphores
  <2>3. Held' = Held
    BY <2>2
  <2> QED BY <2>1, <2>2, <2>3, <1>3
<1> QED BY <1>1, <1>2, <1>4, <1>5, <1>6 DEF Next, Truck, Robots

-------------------------------------------------------------------------------
\* The inductive invariant holds in every reachable state: types, who owns the
\* mutex, one truck parking at a time, one truck at a dock, the types of the
\* docks and the tokens of the trucks at the gate.
THEOREM Invariance == Spec => []Inv
<1>1. Init => Inv
  BY TypeInit, MutexInit, ParksInit, DocksInit, FlagInit, ArrivalsInit DEF Inv, DockInv
<1>2. Inv /\ [Next]_vars => Inv'
  BY TypeNext, MutexNext, ParksNext, DocksNext, FlagNext, ArrivalsNext DEF Inv, DockInv
<1> QED BY <1>1, <1>2, PTL DEF Spec

\* Every variable keeps its type: docks, tokens and the mutex of the shared
\* memory included.
THEOREM TypeCorrect == Spec => []TypeOK
  BY Invariance, PTL DEF Inv, DockInv

\* The monitor's handshake lets one truck at a time park.
THEOREM Handshake == Spec => []OneTruckParks
  BY Invariance, PTL DEF Inv, DockInv

\* No dock is taken twice, although it is found and taken without a lock, and
\* isOccupied is right about every dock, wrecks included.
THEOREM DocksExclusive == Spec => []OneTruckPerDock
  BY Invariance, PTL DEF Inv, DockInv

\* No announcement of a truck is lost.
THEOREM NoLostArrival == Spec => []ArrivalsAccounted
  BY Invariance, PTL DEF Inv

\* The type flag of a dock is that of the truck that stands there.
THEOREM FlagsRight == Spec => []FlagMatchesTruck
  BY Invariance, PTL DEF Inv

\* The mutex excludes in both builds: on Windows, where it is recursive and a
\* dead truck abandons it, and on POSIX, where it has no owner.
THEOREM MutualExclusion == Spec => []OneTruckHolds
<1>1. MutexInv => OneTruckHolds
  BY DEF MutexInv, OneTruckHolds
<1> QED BY <1>1, Invariance, PTL DEF Inv

-------------------------------------------------------------------------------
LEMMA YardInit == Init => Yard!Init
  BY DEF Init, Yard!Init, YardPlace, Occupies, Parked

\* A step that changes no truck's place on the yard.
LEMMA YardStutter ==
  ASSUME \A t \in Trucks : Occupies(t)' <=> Occupies(t),
         \A t \in Trucks : Occupies(t) => dock'[t] = dock[t],
         \A t \in Trucks : tpc'[t] \in {"linger", "lost", "gone"} <=> tpc[t] \in {"linger", "lost", "gone"}
  PROVE  YardPlace' = YardPlace
  BY DEF YardPlace

\* A step with which truck t leaves the yard, or turns away from it.
LEMMA YardLeave ==
  ASSUME NEW t \in Trucks, DOMAIN tpc = Trucks,
         \A u \in Trucks : u # t => dock'[u] = dock[u],
         tpc[t] \notin {"linger", "lost", "gone"},
         tpc' = [tpc EXCEPT ![t] = "gone"] \/ tpc' = [tpc EXCEPT ![t] = "linger"]
           \/ tpc' = [tpc EXCEPT ![t] = "lost"],
         \A i \in Docks : i # Left,
         dock \in [Trucks -> Docks]
  PROVE  Yard!Leave(t)
<1>1. YardPlace[t] # Left
  BY YardAssumption DEF YardPlace
<1>2. YardPlace' = [YardPlace EXCEPT ![t] = Left]
  BY DEF YardPlace, Occupies, Parked
<1> QED BY <1>1, <1>2 DEF Yard!Leave

LEMMA YardNext == Inv /\ [Next]_vars => [Yard!Next]_YardPlace
<1> SUFFICES ASSUME Inv, [Next]_vars PROVE Yard!Next \/ YardPlace' = YardPlace
  OBVIOUS
<1>d. /\ dock \in [Trucks -> Docks] /\ DOMAIN tpc = Trucks
      /\ \A i \in Docks : i # Left /\ i # Away
  BY YardAssumption DEF Inv, DockInv, TypeOK, Docks
<1>1. ASSUME NEW t \in Trucks,
             \/ Arrive(t) \/ Admitted(t) \/ Pass(t) \/ Find(t) \/ Ready(t) \/ Sleep(t) \/ Loaded(t)
             \/ DriveOff(t) \/ SetType(t)
             \/ Lock(t, "lockType", "type") \/ Lock(t, "lock", "test") \/ Lock(t, "relock", "test")
      PROVE  YardPlace' = YardPlace
  <2>1. /\ \A u \in Trucks : Occupies(u)' <=> Occupies(u)
        /\ \A u \in Trucks : Occupies(u) => dock'[u] = dock[u]
        /\ \A u \in Trucks : tpc'[u] \in {"linger", "lost", "gone"} <=> tpc[u] \in {"linger", "lost", "gone"}
    BY <1>1, <1>d DEF Arrive, Admitted, Pass, Find, Ready, Sleep, Loaded, DriveOff, SetType, Lock, At,
       Goto, Occupies, Parked
  <2> QED BY <2>1, YardStutter
<1>2. ASSUME NEW t \in Trucks, Claim(t) PROVE Yard!Park(t, dock[t])
  <2>1. dock[t] \in Docks /\ \A u \in Trucks : Occupies(u) => dock[u] # dock[t]
    BY <1>2, <1>d DEF Claim, Inv, DockInv, OneTruckPerDock
  <2>2. YardPlace[t] = Away /\ \A u \in Trucks : YardPlace[u] # dock[t]
    BY <1>2, <1>d, <2>1 DEF Claim, At, YardPlace, Occupies, Parked
  <2>3. YardPlace' = [YardPlace EXCEPT ![t] = dock[t]]
    BY <1>2, <1>d DEF Claim, Goto, At, YardPlace, Occupies, Parked
  <2> QED BY <2>2, <2>3 DEF Yard!Park
<1>3. ASSUME NEW t \in Trucks, TurnAway(t) \/ Leave(t) PROVE Yard!Leave(t)
  BY <1>3, <1>d, YardLeave DEF TurnAway, Leave, At, Goto
<1>4. ASSUME NEW t \in Trucks, Die(t) PROVE Yard!Leave(t) \/ YardPlace' = YardPlace
  <2>1. CASE tpc[t] \in Parked \/ tpc[t] = "linger"
    <3>1. /\ \A u \in Trucks : Occupies(u)' <=> Occupies(u)
          /\ \A u \in Trucks : tpc'[u] \in {"linger", "lost", "gone"} <=> tpc[u] \in {"linger", "lost", "gone"}
          /\ \A u \in Trucks : Occupies(u) => dock'[u] = dock[u]
      BY <1>4, <1>d, <2>1 DEF Die, At, Goto, Occupies, Parked
    <3> QED BY <3>1, YardStutter
  <2>2. CASE tpc[t] \notin Parked /\ tpc[t] # "linger"
    BY <1>4, <1>d, <2>2, YardLeave DEF Die, At, Goto
  <2> QED BY <2>1, <2>2
<1>5. ASSUME Monitor \/ RobotPicks \/ UNCHANGED vars PROVE YardPlace' = YardPlace
  <2>1. UNCHANGED <<tpc, dock>>
    BY <1>5 DEF Monitor, StartMonitor, NoticeArrival, MonitorPass, MonitorFind, Grant, AwaitReady,
       ReadType, TakeOrder, SendJob, RobotPicks, vars, truck
  <2> QED BY <2>1 DEF YardPlace, Occupies
<1>6. ASSUME NEW k \in DOMAIN jobs, RobotFinishes(k) PROVE YardPlace' = YardPlace
  <2>1. /\ \A u \in Trucks : Occupies(u)' <=> Occupies(u)
        /\ \A u \in Trucks : tpc'[u] \in {"linger", "lost", "gone"} <=> tpc[u] \in {"linger", "lost", "gone"}
        /\ dock' = dock
    BY <1>6 DEF RobotFinishes, At, Occupies, Parked
  <2> QED BY <2>1, YardStutter
<1>7. \A t \in Trucks : Claim(t) => Yard!Next
  BY <1>2, <1>d DEF Yard!Next
<1>8. \A t \in Trucks : Yard!Leave(t) => Yard!Next
  BY DEF Yard!Next
<1> QED
  BY <1>1, <1>3, <1>4, <1>5, <1>6, <1>7, <1>8 DEF Next, Truck, Robots

\* The docks implement DockYard: every truck parks at most once, at a dock where
\* no other one stands, and keeps it until it leaves.
THEOREM DocksImplementYard == Spec => ImplementsYard
  BY YardInit, YardNext, Invariance, PTL DEF Spec, Yard!Spec, ImplementsYard
===============================================================================
