SPECIFICATION Spec
CONSTANTS
    Configs = {c1, c2}
    None = None
    Requests = {r1, r2}
    Confirms = {k1}
    Faults = {"online", "save"}
    Serial = TRUE
    MaxRestarts = 2
CHECK_DEADLOCK FALSE
SYMMETRY Symmetry
INVARIANTS
    TypeOK
    CrashRestores
PROPERTIES
    NoChangeWhilePending
