CONSTANTS
  d1 = d1
  d2 = d2
  r1 = r1
  r2 = r2
  r3 = r3
  Trucks <- MCFourTrucks
  DeliveryTrucks <- MCOneDelivery
  NDocks = 3
  MaxPicked = 1
  RobotsWork = TRUE
  Mortal <- MCMortal
  Windows = TRUE
  NoThread = NoThread
  Computer = Computer
  Away = Away
  Left = Left

SPECIFICATION FairSpec
CHECK_DEADLOCK FALSE
INVARIANTS TypeOK OneTruckParks OneTruckPerDock ArrivalsAccounted FlagMatchesTruck OneTruckHolds
PROPERTIES ImplementsYard GateOpens
