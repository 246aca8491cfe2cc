CONSTANTS
  MaxWeight = 200
  Files <- MCFiles
  Stock <- MCStock
  Orders <- MCOrders
  MaxWalks = 2

SPECIFICATION FairSpec
CHECK_DEADLOCK FALSE
INVARIANTS
  ShelfRules
  ReadsInside
  OnlyWayBackClosed
  EveryShelfPassed
PROPERTIES
  AllOrNothing
  LoadingEnds
  WalkEnds
