CONSTANTS
    early = early
    late = late
    home = home
    away = away
    Subtasks = {early}
    Deps <- Single
    Rank <- SingleRank
    Files = {home, away}
    Planned <- SingleFile
    HasTests = TRUE
    MaxIterations = 3
    MaxAmendments = 1
    Providers = 2
    MaxDisturbances = 2
    Events = {"planLimit", "codeLimit", "reviewLimit", "refuse", "raise", "proposal", "commitOnCompletion", "edit"}
SPECIFICATION Spec
CHECK_DEADLOCK FALSE
INVARIANTS PauseKeepsProgress
PROPERTIES CompletedWasTested WritesWithinPlan  
