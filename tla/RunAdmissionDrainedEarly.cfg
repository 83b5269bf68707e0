SPECIFICATION Spec
CONSTANTS
    Requests = {p1, p2}
    Verbs = {"start"}
    Bodies <- OneIntention
    NoBody = NoBody
    MaxReservations = 1
    TTL = 1
    Issues = 1
    MaxTime = 0
    Restarts = 0
SYMMETRY HandlerSymmetry
INVARIANT QuiescentIsFinal
CHECK_DEADLOCK FALSE
