SPECIFICATION GroupSpec
CONSTANTS
    d1 = d1
    d2 = d2
    t1 = t1
    t2 = t2
    x1 = x1
    q1 = q1
    q2 = q2
    h1 = h1
    w1 = w1
    Clients = {k1, k2}
    Questionnaires <- MCQuestionnaires
    Resolutions <- MCResolutions
    MaxResponses = 1
    MaxLost = 1
    MaxListed = 2
    Limit = 1
    ProbeGate = 1
    MaxFrames = 1
    RingCap = 2
    Window = 1
    QueueCap = 1
    MaxAttach = 2
    MaxRestarts = 1
    Passes = {p1}
    ActionDeadline = 3
    ActionLease = 2
    ClaimLease = 2
    MaxClock = 4
    MaxDeliveries = 2
    MaxPassDeaths = 1
    Requests = {r1, r2}
    Stores = 2
    MaxAttempts = 2
    MaxOverruns = 1
    MaxRefusals = 1
    MaxDeaths = 1
    Puts = {a1}
    Prunes = {x1}
    Starts = {s1}
    WriteVerbs = {v1}
    WriteAttempts = 2
    MaxOthers = 2
    MaxCancels = 1
    Callers = {c1, c2, c3}
    Identities = {"r1", "r2"}
    MaxEntries = 4
    Migrators = {m1}
    HeadRevision = 2
    MaxRuns = 1
    MaxKills = 1
    MaxGenerations = 3
    WatchdogRetries = 2
    MaxWorkerFaults = 2
    Gateways = {g1, g2}
    Owners = {o1}
    Verbs = {v1, v2}
    Profiles = {FALSE}
    MaxResidentTrouble = 1
    Launchers = {l1}
    Band = 2
    StaleMarkers = {1}
    MaxProcs = 2
    MaxMishaps = 1
    CatalogCallers = {k1}
    Workspaces = {w1, w2}
    MaxScopes = 1
    CatalogLanes = {"claude"}
    MaxInvalidations = 1
    HealthProfiles = {TRUE}
    MaxShifts = 1
    Threads = {t1, t2}
    Dispatches = {d1, d2}
    Digests = {x1}
    Plans <- MCPlans
    MaxConcurrent = 1
    Cancellable = {t1}
    MaxCached = 1
    Phases <- MCPhases
    PhaseThreads = {t1, t2}
    Budget = 0
    Verdicts = {"approved", "request_changes"}
    MaxBodies = 1
    MaxTrouble = 1
    StreamCalls = {c1}
    StreamQuestions <- MCQuestions
    Clarifications = {}
    MaxPieces = 1
    ChunkCap = 2
    MaxRevisions = 1
    Menus <- MCMenus
    MaxIngests = 2
    MaxStreamCancels = 0
    MaxEvents = 4
    Outcomes = {2, 4}
    Oversize = {3}
    BufferCap = 3
    BatchCap = 2
    FlushRetries = 1
    MaxRefusedPosts = 2
    MaxTurnAttempts = 3
    Selections <- MCSelections
    Terminals = {t1}
    MaxChunks = 0
    ChunkQueueSize = 2
    MaxKillFailures = 1
    PermissionCalls = {k1}
    CallShapes <- MCShapes
    Tasks = {w1, w2}
    FanOutTasks = {w2}
    CallNames = {c1}
    MaxUnusable = 2
    RoleTurns = {r1, r2}
    Registry <- MCRegistry
    WebLanes = {"codex"}
    BridgeTools = {"propose"}
    TurnMenu <- MCMenu
    MaxReleases = 0
    RelayCalls = {k1, k2}
    Submissions = {p1}
    MaxEdgeDeliveries = 1
    MaxEngineTurns = 1
    HomeWorkers = {w1}
    HomeTurns = {h1}
    WorkerOf <- MCWorkerOf
    OrphanAge = 1
    MaxLogins = 4
    MaxFaults = 1
    TreeCallers = {c1, c2}
    MaxLateForks = 2
    EmptyScans = 2
    MaxPids = 2
PROPERTIES
    GatewayProgress
    WorkerProgress
CHECK_DEADLOCK FALSE
