SPECIFICATION Spec
CONSTANTS
    p = p  q = q  x = x
    Devices = {p}
    Ids = {1, 2}
    Texts = {x}
    LastDay = 1
    DateOf <- LastIdLastDay
    Writable <- TwoByP
    Deletable <- ByAll
    Imports = {}
    Skew = 0
    Reports = {}
    MaxVersion = 0
    ReportFails = FALSE
    MaxFaults = 0
    Crashes = FALSE
    DeleteInFlight = FALSE
    MidnightInHistory = TRUE
    None = None
PROPERTY TodayIsProtected
