SPECIFICATION GroupSpec
CONSTANTS
    Questions = {q1, q2}
    Documents = {}
    Responders = {u1, u2}
    Deniers = {u2}
    MaxAsksOf = 2
    MaxParks = 3
    MaxUndelivered = 1
    Prompts = {m1, m2, m3, m4}
    PlanPrompts = {m1}
    Surveys = {m4}
    Unnamed = {m3}
    Illegible = {m2}
    MaxSteps = 1
    MaxCaptures = 1
    Clients = {k1, k2}
    Questionnaires <- MCQuestionnaires
    Resolutions <- MCResolutions
    MaxResponses = 2
    MaxLost = 1
    SelectionLanes = {"a", "b"}
    SelectionRoles = {"r1", "r2"}
    Starters = {s1, s2}
    Bodies <- MCBodies
    MaxMoves = 1
    MaxListed = 4
    Limit = 2
    ProbeGate = 1
    Requests = {r1, r2}
    Stores = 2
    MaxAttempts = 2
    MaxOverruns = 1
    MaxRefusals = 3
    MaxDeaths = 1
    Puts = {a1, a2}
    Prunes = {x1}
    Starts = {s1, s2}
    WriteVerbs = {v1}
    WriteAttempts = 2
    MaxOthers = 2
    MaxCancels = 1
    Callers = {c1, c2, c3}
    Identities = {"r1", "r2"}
    MaxEntries = 4
    HealthProfiles = {TRUE, FALSE}
    MaxShifts = 1
    Migrators = {m1, m2}
    HeadRevision = 2
    MaxRuns = 2
    MaxKills = 1
    MaxFrames = 2
    RingCap = 2
    Window = 1
    QueueCap = 1
    MaxAttach = 2
    MaxRestarts = 1
    Passes = {p1, p2}
    ActionDeadline = 4
    ActionLease = 2
    ClaimLease = 2
    MaxClock = 5
    MaxDeliveries = 2
    MaxPassDeaths = 1
INVARIANTS
    AcceptedIsHonoured
    ShownIsTrue
    WritesAreWhole
    MutualExclusion
    SelfCleaning
    DeletionIsWhole
    TypesOK
PROPERTIES
    GatewaySteps
CHECK_DEADLOCK FALSE
