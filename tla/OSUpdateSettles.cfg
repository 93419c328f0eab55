SPECIFICATION FairSpec
CONSTANTS
    MaxVersion = 3
    Broken = {3}
    Format <- SameFormat
    AutoReboot = TRUE
    Tries = 3
    NotifyFails = FALSE
    Budget <- FairBudget
CHECK_DEADLOCK FALSE
PROPERTIES
    ComesUp
    Settles
