SPECIFICATION Spec
CONSTANTS
    p = p  q = q  x = x
    Devices = {p, q}
    Ids = {1, 2}
    Texts = {x}
    LastDay = 0
    DateOf <- OneDay
    Writable <- TwoByP
    Deletable <- ByAllButOne
    Imports = {}
    Skew = 0
    Reports = {}
    MaxVersion = 0
    ReportFails = FALSE
    MaxFaults = 0
    Crashes = FALSE
    DeleteInFlight = FALSE
    MidnightInHistory = FALSE
    None = None
INVARIANT TypeOK
INVARIANT NothingForgotten
INVARIANT DeletionsTravel
INVARIANT TokenIsSound
PROPERTY EntriesKeptUntilStored
PROPERTY DeletesKeptUntilStored
PROPERTY TrashNeverEmptied
