SPECIFICATION Spec
CONSTANTS
  Devices = {d1}
  Locking = {l1}
  Fallback = {f1}
  Handler = h
  MaxRetries = 1
  MaxEvents = 1
  None = None
INVARIANT KeysStaySealed
CHECK_DEADLOCK FALSE
