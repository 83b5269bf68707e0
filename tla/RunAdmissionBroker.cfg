SPECIFICATION Spec
CONSTANTS
    Requests = {p1, p2, p3}
    Verbs = {"start", "prepare", "commit", "release"}
    Bodies <- TwoRuns
    NoBody = NoBody
    MaxReservations = 1
    TTL = 1
    Issues = 2
    MaxTime = 1
    Restarts = 1
SYMMETRY HandlerSymmetry
VIEW BrokerView
INVARIANT BrokerIsSound
PROPERTY ReservationEndsByItsOwn
CHECK_DEADLOCK FALSE
