SPECIFICATION ExchangeSpec
CONSTANTS
  a1 = a1
  a2 = a2
  r1 = r1
  r2 = r2
  o1 = o1
  o2 = o2
  m1 = m1
  m2 = m2
  m3 = m3
  x1 = x1
  x2 = x2
  Adders <- MCAdders
  Removers <- MCRemovers
  Orders <- MCOrders
  NoOrder = NoOrder
  NoThread = NoThread
  Null = Null
  Mail <- MCMail
  MaxSent = 2
  TextLength <- MCTextLength
  Base = 4
  Digits = 2
  SizeWord = 64
  BufferSize = 3
  Window = 2
  MaxAdded = 3
  MaxRobots = 4
  MaxDraws = 2
  RingSize = 2
  Readers <- MCReaders
  Writers <- MCWriters
INVARIANTS
  NumbersUsable
  DrawnWhole
  SleepersHaveReason
PROPERTIES
  ImplementsLink
  MessagesArrive
  FifoInOrder
  ImplementsBatches
CHECK_DEADLOCK FALSE
