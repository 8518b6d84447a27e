SPECIFICATION Spec
CONSTANTS
    None = None
    Empty = Empty
    p1 = p1
    p2 = p2
    Process = {p1, p2}
    Workloads <- AllWorkloads
    Start <- StartRows
    MaxRows = 3
    LastDay <- AllDays
    Countries = {"CZ"}
    Rejects <- Refusals
    Suites <- AllSuites
    CheckStatus = {"auto_ok", "ok"}
    TestStatus = {"ok"}
    AfterTests = {"auto_ok"}
    MaxChanges = 3
SYMMETRY Symmetry
INVARIANTS
    MembershipsIntersectByInversion
    FirstChargesSucceed
    NoStatusIsLost
PROPERTIES
    AccessOverlapWasConcurrent
    CertificationOverlapByUpdate
    CancelledGroupWasEmpty
    UpdatesChangeWhatTheyAsk
    DomainFitsItsZone
    RepeatedWasConcurrent
