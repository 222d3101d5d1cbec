CONSTANTS
    p1 = p1
    f1 = f1
    f2 = f2
    c1 = c1
    c2 = c2
    d1 = d1
    Procs = {p1}
    Files = {f1, f2}
    Candidates = {c1, c2}
    FileOf <- MCFileOf
    Drafts = {d1}
    Events = {"edit", "kill", "raise", "torn", "rollback"}
    MaxDisturbances = 1
    MaxOrders = 0
    MaxFailures = 2
    MaxExecuted = 2
    Retention = 1
    MaxLosses = 1
    Ids = {c1, c2}
    ConfiguredTier = 4
    max_candidates_selected = 2
    max_candidates_executed = 2
    max_elapsed_seconds = 1
    max_candidates = 1
    Severities = {0, 1}
    Metrics = {"size"}
SPECIFICATION MCSpec
CHECK_DEADLOCK FALSE
INVARIANTS FailuresAddUp ReportsAreTrue
PROPERTIES RetriesEnd
