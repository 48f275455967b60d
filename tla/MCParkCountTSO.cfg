SPECIFICATION CountSpec
CONSTANTS
  Buffered = TRUE
  Last = 2
PROPERTY WaiterCatchesUp
CHECK_DEADLOCK FALSE
