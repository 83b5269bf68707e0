SPECIFICATION Spec
CONSTANTS
    f1 = f1
    f2 = f2
    a1 = a1
    a2 = a2
    d1 = d1
    d2 = d2
    p1 = p1
    p2 = p2
    Ingest = Ingest
    Cancel = Cancel
    NoOne = NoOne
    Followups = {}
    Asks <- TwoAsks
    Dispatchers = {d1}
    Passes = {p1}
    LeaseTTL = 1
    RunTimeout = 2
    Lifetime = 2
    QueueDepth = 2
    Requests = {"read"}
    Backlog = 1
    Revisions = 3
    Horizon = 2
    Crashes = 0
SYMMETRY Symmetry
CHECK_DEADLOCK FALSE
INVARIANTS
    TypeOK
    WriterIsReceipted
    ReceiptsAreUnique
