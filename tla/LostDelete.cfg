SPECIFICATION Spec
CONSTANTS
    p = p  q = q  x = x
    Devices = {p}
    Ids = {1}
    Texts = {x}
    LastDay = 0
    DateOf <- OneDay
    Writable <- OneWriter
    Deletable <- ByAll
    Imports = {}
    Skew = 0
    Reports = {}
    MaxVersion = 0
    ReportFails = FALSE
    MaxFaults = 0
    Crashes = FALSE
    DeleteInFlight = TRUE
    MidnightInHistory = FALSE
    None = None
PROPERTY DeletesKeptUntilStored
