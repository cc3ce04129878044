CONSTANTS
    w1 = w1
    w2 = w2
    None = None
    Workers <- MCWorkers
    MaxKeys = 3
    MaxRequests = 4
    MaxNow = 3
    Timeout = 1
SPECIFICATION Spec
SYMMETRY WorkerSymmetry
INVARIANTS SessionsOK
PROPERTIES ComesBackInFlight
CHECK_DEADLOCK FALSE
