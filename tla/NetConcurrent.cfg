SPECIFICATION Spec
CONSTANTS
    Configs = {c1, c2}
    None = None
    Requests = {r1, r2}
    Confirms = {}
    Faults = {}
    Serial = FALSE
    MaxRestarts = 1
CHECK_DEADLOCK FALSE
SYMMETRY Symmetry
INVARIANTS
    PendingHasWatcher
