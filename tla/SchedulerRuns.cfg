CONSTANTS
    elder = elder
    junior = junior
    base = base
    onTop = onTop
    planner = planner
    builder = builder
    expert = expert
    Tasks = {elder, junior}
    Age <- Created
    Autonomous = {junior}
    Mode = "plan_review"
    Subtasks = {base, onTop}
    Deps <- Chain
    Rank <- Order
    Providers = {planner, builder, expert}
    Priority <- Priorities
    Planners = {planner, expert}
    Builders = {builder, expert}
    Events = {"planError", "noKey", "limit", "proposal", "raise", "editPlan", "killPlanning", "killRunning"}
    MaxDisturbances = 3
SPECIFICATION Spec
CHECK_DEADLOCK FALSE
INVARIANTS ReviewedBeforeRun CompletedIsWhole
PROPERTIES TasksRest
