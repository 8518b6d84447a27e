SPECIFICATION Spec
CONSTANTS
    None = None
    serverBlocked = "serverBlocked"
    noTransfer = "serverTransferProhibited"
    noUpdate = "serverUpdateProhibited"
    p1 = p1
    p2 = p2
    States <- BlockStates
    ServerStates <- BlockStates
    Process = {p1, p2}
    Calls <- BlockCalls
    MaxTime = 3
    MaxRequests = 2
SYMMETRY Processes
INVARIANTS
    StateHistoryTellsStates
PROPERTIES
    RestoreLosesNothing
    BlockReplacesServerStates
