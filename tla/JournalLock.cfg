SPECIFICATION FairSpec
CONSTANTS
    input = input
    poll = poll
    other = other
    NoOp = NoOp
    Done = Done
    Nothing = Nothing
    Threads <- MCThreads
    Processes <- MCProcesses
    Contents <- MCContents
    Ops <- MCOps
    Apply <- MCApply
    Appends <- MCAppends
    Does <- MCDoes
    LockBeside = TRUE
    MaxInode = 0
PROPERTIES ImplementsAtomicFile SomeoneGetsThrough
