SPECIFICATION Spec
CONSTANTS
    Configs = {c1, c2}
    None = None
    Requests = {r1}
    Confirms = {k1}
    Faults = {}
    Serial = TRUE
    MaxRestarts = 0
CHECK_DEADLOCK FALSE
INVARIANT RolledBackUnlessConfirmed
