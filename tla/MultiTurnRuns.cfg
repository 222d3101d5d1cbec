SPECIFICATION Spec
CONSTANTS
    f = f
    g = g
    absent = absent
    old = old
    new = new
    broken = broken
    Files <- MCFiles
    Contents <- MCContents
    Absent = absent
    Unparsable = {broken}
    Guarded = {}
    MaxEntries = 3
    MaxRequirements = 5
    MaxObligations = 3
    Base <- MCBase
    InRepository = FALSE
    Patches <- MCPatches
    Allowed = {}
    Protected = {}
    Commands = 1
    MaxTurns = 7
    MaxRepair = 1
    MaxReview = 1
    MaxVerification = 0
    Contract <- MCContract
    PathWords <- MCPathWords
    LineWords <- MCLineWords
    Docs = {}
    Events = {"pause", "raise", "clarify", "edit", "unsaved", "foreign", "crash"}
    MaxCalls = 2
    MaxDisturbances = 2
CHECK_DEADLOCK FALSE
  
PROPERTIES EveryCallReturns KeepsPromise
