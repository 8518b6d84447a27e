SPECIFICATION Spec
CONSTANTS
    None = None
    Keep = Keep
    Shipping <- ShippingTypes
    EnumNames <- Enum
    Alike <- Texts
    Organizations <- Companies
    MojeIdNames <- Names
    ProtectionPeriod = 1
    Calls <- CallsOfAll
    Start <- StartCalls
    Process = {p1, p2}
    MaxTime = 8
SYMMETRY Symmetry
CHECK_DEADLOCK FALSE
INVARIANTS
    CurrentVersionIsLive
    HistoryIsAChain
    TimelineTellsVersions
    LookUpsAgree
PROPERTIES
    VerifiedDataStays
    VersionsAreKept
    DiffShowsUpdate
