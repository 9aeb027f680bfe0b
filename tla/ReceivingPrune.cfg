SPECIFICATION Spec
CONSTANTS
    Messages <- TwoMessages
    Kinds = {"data", "retry"}
    ChanCap = 1
    MinCallbacks = 1
    MaxTime = 2
    MaxFaults = 0
INVARIANTS PlaintextKept NothingLost
