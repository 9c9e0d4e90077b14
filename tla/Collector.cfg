\* Every hardship of the poll loop: outages, windows, deaths of the collector, restarts in
\* progress, writes that fail.  Of the mail: a small spool, a collector that dies and whose
\* script does not, a person who flushes.  Of the benches: two collectors with one loopback
\* listener each (the default), the second one may start at any time, or never.
CONSTANTS
    Cooldown = 3
    WarnHold = 1
    Worlds <- EveryHardship
    Severity <- ThreeAlerts
    Text <- Repeated
    SPOOL_MAX = 2
    DIGEST_OVER = 1
    SeatMoods = {"idle", "busy", "down"}
    Locks = {"free", "missing"}
    Seconds = 1
    Prompts = 1
    MaxDeaths = 1
    c1 = c1
    c2 = c2
    l1 = l1
    Nobody = Nobody
    Collectors = {c1, c2}
    Listeners = {l1}
    MaxRuns = 2
    MaxFailures = 1
    MaxCrashes = 1
SPECIFICATION MCSpec
SYMMETRY Twins
CONSTRAINT Bounds
INVARIANTS
    IncidentsAreOutages
    RepeatsAreDeaths
    PersistedClaimsAreTrue
    RestartsAreBooked
    WindowIsOnRecord
    LoadIsAnnounced
    NoLeakedLock
    RecordsAreLive
    CancelStays
    DeliveriesAreAsTold
PROPERTIES
    MailIsKeptInOrder
