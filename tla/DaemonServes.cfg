SPECIFICATION FairSpec
CONSTANTS
    Requests = {r1, r2}
    EarlyKinds = {"reboot"}
    Fails <- FailsOutsideLoop
    RebootFails = FALSE
    AutoReboot = FALSE
    Faults = 1
CHECK_DEADLOCK FALSE
INVARIANTS
    TypeOK
    StartupNeverBlocks
PROPERTIES
    RequestsHonoured
    FallbackServed
