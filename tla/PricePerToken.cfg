CONSTANTS
    LocalTime <- MCLocalTime
    HoursADay = 3
    Months = 3
    MaxTries = 2
    DoubtfulCharge = 2
    MAX_STEP_SECS = 2
    HISTORY_SECS = 1
    SERIES_STEP_SECS = 1
SPECIFICATION MCTariffSpec
CHECK_DEADLOCK FALSE
INVARIANTS
    TokensAreTheDays
