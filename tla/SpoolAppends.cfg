\* A person flushes while the worker takes the ids of late deliveries.
CONSTANTS
    Severity <- TwoAlerts
    Text <- Distinct2
    SPOOL_MAX = 5
    DIGEST_OVER = 5
    SeatMoods = {"idle", "busy"}
    Locks = {"free"}
    Seconds = 0
    Prompts = 1
    MaxDeaths = 0
SPECIFICATION SpoolSpec
INVARIANTS
    AppendedIsKept
