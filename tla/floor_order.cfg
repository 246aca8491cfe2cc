CONSTANTS
  MaxWeight = 200
  Files <- MCFiles
  Stock <- MCStock
  Orders <- MCOddRow
  MaxWalks = 2

SPECIFICATION Spec
CHECK_DEADLOCK FALSE
INVARIANTS OrderPicked
