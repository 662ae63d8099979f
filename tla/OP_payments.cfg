\* Two orders of different totals, two sessions opening payments at once.
SPECIFICATION Spec
CONSTANTS
    o1 = o1
    o2 = o2
    p1 = p1
    p2 = p2
    p3 = p3
    s1 = s1
    s2 = s2
    clerk = clerk
    tailor = tailor
    Orders = {o1, o2}
    ProviderOrders = {p1, p2, p3}
    Foreign = {p3}
    Sessions = {s1, s2}
    Operators = {clerk}
    BackOffice = {clerk}
    Amounts = {1, 2}
    GrandTotal <- TwoTotals
    NoOrder = NoOrder
    MaxEvents = 2
    MaxAttempts = 1
SYMMETRY SessionSymmetry
INVARIANTS
    HeldOrderAwaitsPayment
    OnePaymentPerOrder
    MoneyAccounted
    IInv
CHECK_DEADLOCK FALSE
