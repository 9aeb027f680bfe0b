SPECIFICATION Spec
CONSTANTS
    Messages <- OneMessage
    Kinds = {"data", "receipt", "lenient", "foreign", "anonymous", "garbled", "retry",
             "undecryptable", "quiet", "unparsable"}
    ChanCap = 1
    MinCallbacks = 1
    MaxTime = 2
    MaxFaults = 2
INVARIANTS NoSpuriousNotice RepetitionsNeedFaults
PROPERTIES DeliverySpec
