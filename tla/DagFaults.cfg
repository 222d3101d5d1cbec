CONSTANTS
    a = a
    b = b
    c = c
    d = d
    Subtasks = {a, b}
    Deps <- Chain
    Rank <- ChainRank
    Files <- ChainFiles
    SerializeOverlapping = TRUE
    MaxWorkers = 2
    Recoverable = {a}
    Events = {"workerFail", "workerPause", "workerBlocked", "workerError", "commitFail", "conflict", "checkoutFail", "verifyFail", "interrupt", "crash", "userCheckout", "userMerge"}
SPECIFICATION Spec
CHECK_DEADLOCK FALSE
INVARIANTS IntegratedMeansAncestor WorkersRunOnCompletedDeps
PROPERTIES   MergesFollowDag
