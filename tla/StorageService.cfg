SPECIFICATION MCSpec
CONSTANTS
    Chats = {"a", "b"}
    First = "a"
    Updates = {"u1"}
    MaxPins = 1
    MaxAttempts = 2
    MaxVersion = 4
    Faults = TRUE
INVARIANTS TypeOK PinsLegal NoChangeMissed
PROPERTIES WriteTouchesOnlyItsChange AtomicSpec UpdatesReturn
CHECK_DEADLOCK FALSE
