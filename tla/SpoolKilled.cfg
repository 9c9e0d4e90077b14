\* An agent that turns idle late in every wait.
CONSTANTS
    Severity <- FourAlerts
    Text <- Distinct4
    SPOOL_MAX = 5
    DIGEST_OVER = 5
    SeatMoods = {"busy"}
    Locks = {"free"}
    Seconds = 0
    Prompts = 0
    MaxDeaths = 0
SPECIFICATION SpoolSpec
INVARIANTS
    MailIsNotLost
