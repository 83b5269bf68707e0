SPECIFICATION GroupSpec
CONSTANTS
    h1 = h1
    h2 = h2
    w1 = w1
    w2 = w2
    d1 = d1
    d2 = d2
    d3 = d3
    t1 = t1
    t2 = t2
    x1 = x1
    x2 = x2
    q1 = q1
    q2 = q2
    MaxGenerations = 5
    WatchdogRetries = 2
    MaxWorkerFaults = 3
    Gateways = {g1, g2}
    Owners = {o1, o2}
    Verbs = {v1, v2}
    Profiles = {TRUE, FALSE}
    MaxResidentTrouble = 2
    Launchers = {l1, l2}
    Band = 2
    StaleMarkers = {1}
    MaxProcs = 2
    MaxMishaps = 1
    TreeCallers = {c1, c2}
    MaxLateForks = 2
    EmptyScans = 2
    MaxPids = 3
    HomeWorkers = {w1, w2}
    HomeTurns = {h1, h2}
    WorkerOf <- MCWorkerOf
    OrphanAge = 1
    MaxLogins = 3
    MaxFaults = 1
    CatalogCallers = {k1, k2}
    Workspaces = {w1, w2}
    MaxScopes = 1
    CatalogLanes = {"claude"}
    MaxInvalidations = 1
    Calls = {c1, c2, c3}
    NoCall = NoCall
    FailureThreshold = 2
    RecoveryTimeout = 2
    MaxEvents = 5
    Outcomes = {2, 4}
    Oversize = {3}
    BufferCap = 3
    BatchCap = 2
    FlushRetries = 2
    MaxRefusedPosts = 3
    Threads = {t1, t2}
    Dispatches = {d1, d2, d3}
    Digests = {x1, x2}
    Plans <- MCPlans
    MaxConcurrent = 1
    Cancellable = {t1}
    MaxCached = 1
    Order <- MCOrder
    PhaseOf <- MCPhaseOf
    ReaskLimit = 1
    FinishBlockLimit = 5
    RecursionLimit = 16
    MaxLoops = 2
    MaxAsks = 2
    Phases <- MCPhases
    PhaseThreads = {t1, t2}
    Budget = 0
    Verdicts = {"approved", "request_changes"}
    MaxBodies = 2
    MaxTrouble = 1
    StreamCalls = {c1}
    StreamQuestions <- MCQuestions
    Clarifications = {}
    MaxPieces = 3
    ChunkCap = 2
    MaxRevisions = 3
    Menus <- MCMenus
    MaxIngests = 2
    MaxStreamCancels = 1
    MaxTurnAttempts = 3
    Selections <- MCSelections
    Terminals = {t1}
    MaxChunks = 2
    ChunkQueueSize = 1
    MaxKillFailures = 1
    PermissionCalls = {k1, k2}
    CallShapes <- MCShapes
    Tasks = {w1, w2}
    FanOutTasks = {w2}
    CallNames = {c1, c2}
    MaxUnusable = 1
    RoleTurns = {r1, r2}
    Registry <- MCRegistry
    WebLanes = {"codex"}
    BridgeTools = {"propose"}
    TurnMenu <- MCMenu
    MaxReleases = 1
    RelayCalls = {k1, k2}
    Submissions = {p1}
    MaxEdgeDeliveries = 2
    MaxEngineTurns = 2
    Bridges = {b1, b2}
    Scopes = {s1}
    LogicalCalls = {c1, c2}
    MaxRevision = 2
    MaxJournalTrouble = 1
INVARIANTS
    ProcessesAreAccounted
    CapabilitiesAreProven
    WorkIsNeitherLostNorRepeated
    TeamIsGoverned
    TurnsAreWhole
    EffectsHappenOnce
    ProbeIsOwned
    UnprovenKeepsItsFailures
    RetriesAreSafe
    TypesOK
PROPERTIES
    OneProbePerWindow
    WorkerSteps
CHECK_DEADLOCK FALSE
