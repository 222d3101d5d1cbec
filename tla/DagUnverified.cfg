CONSTANTS
    a = a
    b = b
    c = c
    d = d
    Subtasks = {a, b}
    Deps <- Chain
    Rank <- ChainRank
    Files <- ChainFiles
    SerializeOverlapping = TRUE
    MaxWorkers = 2
    Recoverable = {a}
    Events = {"verifyFail"}
SPECIFICATION Spec
CHECK_DEADLOCK FALSE
INVARIANTS CompletedIsVerified
