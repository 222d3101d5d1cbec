CONSTANTS
    a = a
    b = b
    c = c
    d = d
    Subtasks = {a, b, c, d}
    Deps <- Mixed
    Rank <- MixedRank
    Files <- MixedFiles
    SerializeOverlapping = TRUE
    MaxWorkers = 2
    Recoverable = {a}
    Events = {"workerFail", "workerPause", "workerError", "conflict"}
SPECIFICATION LiveSpec
CHECK_DEADLOCK FALSE
INVARIANTS CompletedWorkIsIntegrated CompletedIsVerified
PROPERTIES DependenciesVisible TaskEnds
