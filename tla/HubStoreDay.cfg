SPECIFICATION Spec
CONSTANTS
    a = a  b = b  c = c  x = x  y = y
    Ids = {a, b, c}
    Bodies = {x, y}
    LastDay = 1
    DateOf <- MCDateOf
    Workers = {w1, w2}
    Requests <- MCRequests
    NoJob = NoJob  NoReply = NoReply  NoToken = NoToken  Free = Free
    MidnightRace = FALSE
    MayCrash = FALSE
INVARIANT AcceptedIsStored
INVARIANT FiledUnderItsDay
INVARIANT TrashHasBody
INVARIANT ReadYourWrites
PROPERTY ErasedBodyIsKept
