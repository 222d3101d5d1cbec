SPECIFICATION MCSpec
CONSTANTS
    r1 = r1
    r2 = r2
    main = main
    tree = tree
    base = base
    mid = mid
    app = app
    web = web
    t1 = t1
    t2 = t2
    Free = Free
    NoReport = NoReport
    NoDefect = NoDefect
    Threads = {r1, r2}
    RootOf <- OneRoot
    ReportsOf <- MCReports
    DefectOrder <- MCDefects
    MaxLifecycles = 2
    MaxIterations = 2
    MinResolved = 1
    TopDefects = 1
    ZSquared = 100
    MaxDecisions = 3
    MaxObservations = 4
    MinSamples = 2
    MaxAdjustment = 30
    ZSquaredT = 3000
    MaxRounds <- ThreeAndOne
    MaxAttempts <- OneAndTwo
    Disturbances = 1
    PathOrder <- MCOrder
    Python = {base, mid, app, web, t1, t2}
    TestPaths = {t1, t2}
    Names = {"f", "_h"}
    Public = {"f"}
    Ambiguous = {}
    DerivesFrom <- MCDerives
    MaxFiles = 7
    MaxDepth = 2
    MaxNodes = 4
    MaxTests = 2
    HighFanout = 3
    Questions <- MCQuestions
CHECK_DEADLOCK FALSE
INVARIANTS HistoryIsCausal NoLostUpdate   
