SPECIFICATION FairSpec
CONSTANTS
    Configs = {c1, c2}
    None = None
    Requests = {r1, r2}
    Confirms = {k1}
    Faults = {"begin", "set", "online", "save"}
    Serial = TRUE
    MaxRestarts = 0
CHECK_DEADLOCK FALSE
PROPERTIES
    PendingSettles
