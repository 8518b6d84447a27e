SPECIFICATION NoticesSpec
CONSTANTS
    None = None
    Keep = Keep
    Shipping <- ShippingTypes
    EnumNames <- Enum
    Alike <- Nothing
    Organizations <- Nothing
    MojeIdNames <- Nothing
    ProtectionPeriod = 0
    Calls <- CallsOfAll
    Start <- StartCalls
    Process = {p1, p2}
    Worker = {w1, w2}
    MaxTime = 6
    MaxFailures = 1
SYMMETRY Symmetry
CHECK_DEADLOCK FALSE
INVARIANTS
    MailedTwiceAfterFailure
    UnsentWasOutOfTurn
PROPERTIES
    NoticeReachesConcerned
    PollReachesConcerned
