\* A capture of another amount, refused by the webhook, confirmed by the browser.
SPECIFICATION Spec
CONSTANTS
    o1 = o1
    o2 = o2
    p1 = p1
    p2 = p2
    p3 = p3
    s1 = s1
    s2 = s2
    clerk = clerk
    tailor = tailor
    Orders = {o1}
    ProviderOrders = {p1}
    Foreign = {}
    Sessions = {s1}
    Operators = {clerk}
    BackOffice = {clerk}
    Amounts = {1, 2}
    GrandTotal <- OneTotal
    NoOrder = NoOrder
    MaxEvents = 2
    MaxAttempts = 1
INVARIANT
    RefusedCaptureNotConfirmed
CHECK_DEADLOCK FALSE
