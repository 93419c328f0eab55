SPECIFICATION Spec
CONSTANTS
    Apps <- TwoApps
    Primary = {"incus"}
    Default = "incus"
    Seed = {"incus", "debug"}
    Needs <- NoNeeds
    MaxRelease = 2
    NotifyFails = TRUE
    Events = 2
INVARIANTS
    TypeOK
    FallbackImageKept
    RollbackRestores
    RecordsMatchDisk
PROPERTIES
    NoSilentDowngrade
CHECK_DEADLOCK FALSE
