SPECIFICATION FairSpec
CONSTANTS
    None = None
    identify = identify
    validate = validate
    Types <- TwoTypes
    CancelOnCreate <- MCCancelOnCreate
    CancelOnUpdate <- MCCancelOnUpdate
    p1 = p1
    p2 = p2
    Process = {p1, p2}
    Calls <- StatusCalls
    MaxRows = 3
INVARIANTS
    OpenedIsUnresolved
    OneOpened
PROPERTIES
    AllAreClosed
    LettersStop
    EveryOperationEnds
