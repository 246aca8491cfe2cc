CONSTANTS
  d1 = d1
  d2 = d2
  r1 = r1
  r2 = r2
  r3 = r3
  Trucks <- MCThreeTrucks
  DeliveryTrucks <- MCTwoDelivery
  NDocks = 2
  MaxPicked = 2
  RobotsWork = TRUE
  Mortal = {}
  Windows = FALSE
  NoThread = NoThread
  Computer = Computer
  Away = Away
  Left = Left

SPECIFICATION FairSpec
CHECK_DEADLOCK FALSE
PROPERTIES UnloadedTruckLeaves
