\* One tab, where nothing is clamped or withdrawn at first.
SPECIFICATION Spec
CONSTANTS
    t1 = t1
    t2 = t2
    lehenga = lehenga
    saree = saree
    Tabs = {t1}
    Variants = {saree}
    Stock <- OneAndPlenty
    Price <- SamePrice
    MaxQuantity = 9
    MaxPieces = 2
    MaxVisits = 1
INVARIANT
    OrderIsTheBag
CHECK_DEADLOCK FALSE
