SPECIFICATION SetupSpec
CONSTANTS
    SetupParts = {"network"}
    Publishers = {p1, p2}
    Releases = {1, 2}
    Archs = {"x86_64"}
    Channels = {"testing", "stable"}
    Retentions = {1}
    Commands = 3
    Absent = Absent
    Torn = Torn
    Disks = {"sda", "sdb"}
    DiskSize <- MCDiskSize
    MinimumSize = 50
    InstallConfigs <- MCInstallConfigs
    SeedNames = {"incus"}
    MediaVersion = 1
    Interventions = 2
    NICs = {"aa", "bb"}
    KernelName <- MCKernelName
    NetConfigs <- MCNetConfigs
    UsbName <- MCUsbName
    NetApplications = 3
    NetPowerCycles = 1
    FailedDeletes = 1
    Day = 3
    Schedules <- MCSchedules
    Never = Never
    Hour = 1
    SixHours = 2
    Requests = 1
    WrapWeek = FALSE
INVARIANT
    TagsPass
CHECK_DEADLOCK FALSE
