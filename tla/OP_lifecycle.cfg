\* One order through every status, two operators racing.
SPECIFICATION FairSpec
CONSTANTS
    o1 = o1
    o2 = o2
    p1 = p1
    p2 = p2
    p3 = p3
    s1 = s1
    s2 = s2
    clerk = clerk
    tailor = tailor
    Orders = {o1}
    ProviderOrders = {p1}
    Foreign = {}
    Sessions = {s1}
    Operators = {clerk, tailor}
    BackOffice = {clerk}
    Amounts = {1}
    GrandTotal <- OneTotal
    NoOrder = NoOrder
    MaxEvents = 12
    MaxAttempts = 2
INVARIANTS
    TrailExplainsStatus
    DispatchedWasConfirmed
PROPERTIES
    ContractSpec
    CapturedIsFinal
    CaptureIsRecorded
CHECK_DEADLOCK FALSE
