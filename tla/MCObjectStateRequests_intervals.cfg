SPECIFICATION Spec
CONSTANTS
    None = None
    serverBlocked = serverBlocked
    noTransfer = noTransfer
    noUpdate = noUpdate
    p1 = p1
    p2 = p2
    States <- OneState
    ServerStates <- OneState
    Process = {p1, p2}
    Calls <- IntervalCalls
    MaxTime = 3
    MaxRequests = 3
SYMMETRY Processes
INVARIANTS
    RequestsAreInOrder
    OverlapBeginsEarlier
