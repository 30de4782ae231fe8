SPECIFICATION Spec
CONSTANTS
  HEAP = 6
  LINE = 2
  RUN_ONCHIP = 1
  RUN_TABLE = 0
  MAX_BLOCKS = 3
  Requests <- MCRequests
INVARIANT AlwaysFreshStorage
CHECK_DEADLOCK FALSE
