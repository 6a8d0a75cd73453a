SPECIFICATION FairSpec
CONSTANTS
    p = p  q = q  x = x
    Devices = {p, q}
    Ids = {1}
    Texts = {x}
    LastDay = 0
    DateOf <- OneDay
    Writable <- OneWriter
    Deletable <- ByAll
    Imports = {}
    Skew = 0
    Reports = {}
    MaxVersion = 0
    ReportFails = FALSE
    MaxFaults = 1
    Crashes = FALSE
    DeleteInFlight = FALSE
    MidnightInHistory = FALSE
    None = None
INVARIANT NothingForgotten
PROPERTY Converges
