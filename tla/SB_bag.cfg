\* One customer, two tabs, a catalogue that changes.
SPECIFICATION Spec
CONSTANTS
    t1 = t1
    t2 = t2
    lehenga = lehenga
    saree = saree
    Tabs = {t1, t2}
    Variants = {saree}
    Stock <- OneAndPlenty
    Price <- SamePrice
    MaxQuantity = 2
    MaxPieces = 2
    MaxVisits = 2
SYMMETRY TabSymmetry
INVARIANTS
    NoLeftovers
    OncePerHandOver
CHECK_DEADLOCK FALSE
