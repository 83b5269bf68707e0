SPECIFICATION FairSpec
CONSTANTS
    Requests = {p1, p2, p3}
    Verbs = {"start", "prepare", "commit"}
    Bodies <- OneIntention
    NoBody = NoBody
    MaxReservations = 1
    TTL = 1
    Issues = 1
    MaxTime = 0
    Restarts = 0
INVARIANT GateIsSound
PROPERTY PostsAndDrainEnd
CHECK_DEADLOCK FALSE
