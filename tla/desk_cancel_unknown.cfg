SPECIFICATION Spec
CONSTANTS
  c1 = c1
  c2 = c2
  c3 = c3
  i1 = i1
  i2 = i2
  NoItem = NoItem
  NoThread = NoThread
  Absent = Absent
  NoMsg = NoMsg
  Eof = Eof
  NoOrder = NoOrder
  Clients <- MCClients
  Items <- MCItems
  Stock <- MCStock
  Queries <- MCQueries
  Windows = TRUE
  RobotsWork = FALSE
  Quantities = {1}
  CancelNums = {1001}
  MaxAsks = 1
INVARIANTS
  CancelledOrderExists
CHECK_DEADLOCK FALSE
