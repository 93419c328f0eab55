SPECIFICATION Spec
CONSTANTS
    MaxVersion = 4
    Broken = {2}
    Format <- NewerFormat
    AutoReboot = FALSE
    Tries = 3
    NotifyFails = TRUE
    Budget <- SafetyBudget
CHECK_DEADLOCK FALSE
INVARIANTS
    TypeOK
    NeverBricked
    PendingIsNewer
PROPERTIES
    KeepsPromise
