SPECIFICATION Spec
CONSTANTS
    daily = daily  weekly = weekly
    Order <- BothTasks
    Reports = {weekly}
    LastPeriod = 1
    Limit <- DailyOnce
    DetectEvery = 1
    RetryAfter = 2
    StaleAfter = 1
    MaxFaults = 1
    MaxManual = 1
    MaxAsked = 1
INVARIANT TypeOK
INVARIANT StatusIsHonest
INVARIANT AttemptsAreReal
INVARIANT RetryBudget
