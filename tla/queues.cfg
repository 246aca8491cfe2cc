SPECIFICATION PartsSpec
CONSTANTS
  a1 = a1
  a2 = a2
  r1 = r1
  r2 = r2
  o1 = o1
  o2 = o2
  w1 = w1
  w2 = w2
  w3 = w3
  n1 = n1
  Adders <- MCAdders
  Removers <- MCRemovers
  Orders <- MCOrders
  NoOrder = NoOrder
  NoThread = NoThread
  Lifo = FALSE
  MaxQueued = 2
  Waiters <- MCWaiters
  Notifiers <- MCNotifiers
  Nobody = Nobody
  Uses <- MCUses
  GoneLimit = 2
INVARIANTS
  TokensMatchOrders
  SleepersAreOwed
  WaitersCounted
PROPERTIES
  ImplementsQueue
  EveryOrderTaken
  CompletedInOrder
  CallersServed
  ImplementsWaitSet
  AllAreWoken
CHECK_DEADLOCK FALSE
