SPECIFICATION Spec
CONSTANTS
  In = {i1}
  Out = {o1}
  Devices = {d1, d2}
  Caller = d1
  None = None
INVARIANTS
  OneCallAtATime
  MatrixLegsClosed
  CandidatesReachLeg
  
PROPERTIES SlotFreed HandlerReturns
CHECK_DEADLOCK FALSE
