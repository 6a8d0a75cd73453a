SPECIFICATION JobsSpec
CONSTANTS
    weekly = weekly
    Order <- WeeklyOnly
    Reports = {weekly}
    LastPeriod = 1
    Limit <- RetryOnce
    DetectEvery = 1
    RetryAfter = 2
    StaleAfter = 1
    MaxFaults = 1
    MaxManual = 1
    MaxAsked = 1
    Every = 2
    Keep = 1
INVARIANT DateIsHonest
PROPERTY SnapshotStays
PROPERTY BackedUp
PROPERTY Attended
