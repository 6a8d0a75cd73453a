SPECIFICATION Spec
CONSTANTS
    a = a  b = b  c = c  x = x  y = y
    Ids = {a, b, c}
    Bodies = {x, y}
    LastDay = 1
    DateOf <- MCDateOf
    Workers = {w1, w2}
    Requests <- MCRaceRequests
    NoJob = NoJob  NoReply = NoReply  NoToken = NoToken  Free = Free
    MidnightRace = TRUE
    MayCrash = TRUE
INVARIANT TypeOK
INVARIANT OneBlockPerId
INVARIANT EmptyDeltaIsCurrent
PROPERTY NeverResurrected
PROPERTY PastIsFrozen
PROPERTY ImplementsDayLog
