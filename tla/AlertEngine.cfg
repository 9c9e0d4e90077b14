\* Every family of rules in a world of its own.
CONSTANTS
    Cooldown = 3
    MaxGap = 2
    MaxTime = 11
    WarnHold = 1
    PageHold = 2
    GateHold = 1
    StableSecs = 2
    Gpus = {"gpu0"}
    Roles = {"serve"}
    LoadHold <- LoadHolds
    Devices = {"gpu0", "gpu1"}
    Excluded = {"gpu1"}
    MissingHold = 1
    ThermalHold = 1
    DigestPeriod = 3
    MaxStep = 1
    DiskSize = 3
    WarnLine = 2
    PageLine = 3
    Margin = 1
    DiskHold = 1
    GrowthLine = 2
    GrowthSecs = 3
    RejectLine = 1
    RejectSecs = 3
    LowProbes = 2
    BaselineProbes = 1
    StaleAfter = 1
    StaleHold = 0
    MuteWindow = 6
    MuteThreshold = 2
    LabelWindow = 7
SPECIFICATION MCSpec
\* a world ends at its last clock reading
CHECK_DEADLOCK FALSE
INVARIANTS
    NoStaleOutage
    NoSilentOutage
    RestartHeard
    StableOwedFromTheLast
    PageHasItsWarn
    WindowsAreExact
    DigestFitsItsWindow
    StaleIsTold
PROPERTIES
    ImplementsChannel
    PageEarned
    RecoveryAnswers
    StableKeepsLabel
    SaysWhatItRead
    LowIsAStreak
