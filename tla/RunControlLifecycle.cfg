SPECIFICATION FairSpec
CONSTANTS
    f1 = f1
    f2 = f2
    a1 = a1
    a2 = a2
    d1 = d1
    d2 = d2
    p1 = p1
    p2 = p2
    Ingest = Ingest
    Cancel = Cancel
    NoOne = NoOne
    Followups = {f1}
    Asks <- NoAsks
    Dispatchers = {d1}
    Passes = {p1}
    LeaseTTL = 1
    RunTimeout = 1
    Lifetime = 2
    QueueDepth = 1
    Requests = {"cancel", "archive", "delete"}
    Backlog = 1
    Revisions = 4
    Horizon = 2
    Crashes = 0
CHECK_DEADLOCK FALSE
PROPERTIES
    RowPromise
    CancellingIsLeft
    AcceptedIsDecided
