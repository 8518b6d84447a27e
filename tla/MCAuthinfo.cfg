SPECIFICATION FairSpec
CONSTANTS
    None = None
    d1 = d1
    c1 = c1
    x1 = x1
    r1 = r1
    r2 = r2
    r3 = r3
    p1 = p1
    p2 = p2
    Objects <- MCObjects
    Registrars = {r1, r2, r3}
    Existing <- MCExisting
    Passwords = {p1, p2}
    Tx = {t1, t2}
    Calls <- MCCalls
    InitialRows <- MCRows
    InitialSponsor <- MCSponsor
    MaxTime = 2
CHECK_DEADLOCK FALSE
INVARIANTS
    UsesAreCounted
    VisitorFindsRow
    TwoActiveWereConcurrent
    TransferCleans
PROPERTIES
    EveryOperationEnds
