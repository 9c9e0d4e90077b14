\* One collector with one loopback listener (the default), dying once; and an agent that stays
\* idle in the end, with a person at a prompt or one death of the collector.
CONSTANTS
    Nobody = Nobody
    Collectors = {"c1"}
    Listeners = {"l1"}
    MaxRuns = 3
    MaxFailures = 1
    MaxCrashes = 1
    Severity <- TwoAlerts
    Text <- Distinct2
    SPOOL_MAX = 2
    DIGEST_OVER = 1
    SeatMoods = {"idle", "busy"}
    Locks = {"free"}
    Seconds = 0
    Prompts = 1
    MaxDeaths = 1
SPECIFICATION MCSpec
CONSTRAINT OneTrouble
PROPERTIES
    EveryRunEnds
    WaitingIsSeenTo
