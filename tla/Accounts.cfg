\* Buckets of two and four units; every world of MCAccounts.
CONSTANTS
    Configs = {"a", "b"}
    Layouts = {"a", "b"}
    Minute = 2
    TenMinutes = 4
    MaxStep = 2
    SaveEvery = 2
    Day = 4
    PeakDays = 2
    KeepRaw = 5
    KeepM1 = 8
    KeepM10 = 12
    PruneEvery = 6
    Chunk = 4
    RecentMinutes = 2
    LoadoutStep = 1
    ColdWindow = 2
    ColdKept = 2
    LogWindow = 4
    DaySecs = 4
    MonthLengths <- MCMonthLengths
    Januaries <- MCJanuaries
    DaysAWeek = 3
    ShortestMonth = 3
    LastWeek = 3
    LastMonth = 4
    Chart = 5
    PROJECTION_MIN_DAYS = 2
    PROJECTION_MIN_COVERAGE = 80
    LocalTime <- MCLocalTime
    HoursADay = 3
    Months = 3
    MaxTries = 2
    DoubtfulCharge = 2
    MAX_STEP_SECS = 2
    HISTORY_SECS = 1
    SERIES_STEP_SECS = 1
SPECIFICATION MCSpec
\* a world ends after its last poll
CHECK_DEADLOCK FALSE
INVARIANTS
    LedgerIsExact
    RollupsAreExact
    WindowsAgree
    LoadoutIsItsOwn
    WindowsAreTheCalendars
    ProjectionIsOfThisMonth
    BillIsAsAgreed
