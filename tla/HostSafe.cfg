SPECIFICATION HostSpec
CONSTANTS
    HostParts = {"secureboot", "storage", "services", "ceph", "state", "backup", "reset", "recovery"}
    Certs = {"c1", "c2"}
    MaxOSRelease = 4
    SignedBy <- MCSignedBy
    Embedded <- MCEmbedded
    Archives <- MCCertArchives
    AutoKey = "auto"
    UserKeys = {"k1"}
    InitialSB = {TRUE, FALSE}
    Trouble = 1
    MaxDrive = 3
    ExtraPools = {"tank"}
    StorageRequests = {"r1"}
    MaxKey = 4
    MaxStorageCalls = 3
    WrongKeys = FALSE
    WipesNew = FALSE
    PowerLosses = 1
    MaxRevision = 2
    MaxServiceCalls = 4
    ServicePowerLosses = 1
    Hosts <- MCHosts
    CephJobs = {"j1"}
    Tags = {"v20"}
    DefaultTag = "v20"
    MaxImage = 2
    CephCalls = 3
    CephFaults = 2
    MaxSetting = 2
    MaxStateCalls = 4
    FirstFormats = {4, 5}
    Volumes = {"root", "swap"}
    Primary = {"incus", "operations-center"}
    Skips <- MCSkips
    OtherArchives <- MCArchives
    MaxRestores = 2
    RestoreLosses = 1
    SeedNames = {"incus"}
    MaxResets = 4
    Media <- MCMedia
    MaxRelease = 2
    MaxStarts = 2
INVARIANTS
    HostTypeOK
    NeverLockedOut
    PredictionsHold
    ListedKeysWork
    ImagesAccepted
    PoolsIntact
    KeysKept
    RecordedInEffect
    OneCluster
    SettingsKept
    RestoreKeepsKeys
    ResetSeeded
CHECK_DEADLOCK FALSE
