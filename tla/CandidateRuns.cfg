SPECIFICATION Spec
CONSTANTS
    f = f
    t = t
    g = g
    absent = absent
    old = old
    new = new
    wrong = wrong
    bad = bad
    whole = whole
    Files <- MCFiles
    Contents <- MCContents
    Absent = absent
    Commands = {"compile", "test_f", "lint"}
    TestFile <- MCTestFile
    NoFile = "none"
    MinConfidence = "high"
    MaxLedger = 4
    Mirrored <- MCFiles
    Unparsable = {bad}
    Whole = whole
    Protected = {}
    Allowed = {}
    Tools = {"look", "run_command_sandbox", "ask_user_clarification"}
    AllowedTools = {"look", "run_command_sandbox"}
    Arguments = {1}
    MaxToolSteps = 4
    MaxImplementationToolSteps = 3
    TotalBudget = 4
    Sizes = {1}
    FeedbackSize = 0
    MaxRepeats = 2
    Limits <- MCLimits
    Modes = {"single", "interactive", "prospective"}
    StartTrees <- MCStartTrees
    StartHistories <- MCStartHistories
    Proposals <- MCProposals
    CheckSets <- MCCheckSets
    Reads <- MCReads
    Breaks <- MCBreaks
    MaybeMissing = {"lint"}
    Syntax = "compile"
    Tests <- MCTests
    Statics <- MCStatics
    NameOf <- MCNameOf
    Dependents <- MCDependents
    MaxTargeted = 1
    MaxStatic = 1
    MaxRefineRounds = 1
    MaxCandidateIterations = 2
    Strays <- MCStrays
    MaxDisturbances = 1
CHECK_DEADLOCK FALSE
INVARIANTS CallsWithinBudget CandidateIsBasePlusOps HandOverIsSound ReusedWouldPass
PROPERTIES AttemptEnds
