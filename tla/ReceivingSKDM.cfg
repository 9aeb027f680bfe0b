SPECIFICATION Spec
CONSTANTS
    Messages <- OneMessage
    Kinds = {"badskdm"}
    ChanCap = 1
    MinCallbacks = 1
    MaxTime = 0
    MaxFaults = 0
INVARIANTS NothingLost
