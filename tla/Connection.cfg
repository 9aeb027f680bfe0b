SPECIFICATION Spec
CONSTANTS
  Cap = 1
  MaxStarts = 2
  MaxFaults = 2
INVARIANTS NothingRunsAfterDisconnect
PROPERTIES  ConnectedIsReported 
CHECK_DEADLOCK FALSE
