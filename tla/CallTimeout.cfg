SPECIFICATION Spec
CONSTANTS
  In = {i1}
  Out = {o1}
  Devices = {d1, d2}
  Caller = d1
  None = None
PROPERTY TimersSpareLiveCalls
CHECK_DEADLOCK FALSE
