SPECIFICATION Spec
CONSTANTS
    p = p  q = q  x = x
    Devices = {p}
    Ids = {1, 2}
    Texts = {x}
    LastDay = 1
    DateOf <- LastIdLastDay
    Writable <- TwoByP
    Deletable <- ByAll
    Imports <- OldCopy
    Skew = 1
    Reports = {1}
    MaxVersion = 2
    ReportFails = FALSE
    MaxFaults = 1
    Crashes = TRUE
    DeleteInFlight = FALSE
    MidnightInHistory = FALSE
    None = None
PROPERTY StaysDeleted
PROPERTY ReportsNeverLost
PROPERTY ReportsTaken
PROPERTY HubIsDayLog
