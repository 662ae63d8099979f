\* Two customers after the same two pieces.
SPECIFICATION FairSpec
CONSTANTS
    ann = ann
    bea = bea
    t1 = t1
    t2 = t2
    c1 = c1
    c2 = c2
    lehenga = lehenga
    saree = saree
    vendor = vendor
    Users = {ann, bea}
    Tabs = {t1, t2}
    UserOf <- TwoCustomers
    Carts = {c1, c2}
    Variants = {lehenga, saree}
    Key <- TwoKeys
    Supply <- TwoAndOne
    Changing = {}
    Prices = {1}
    OpeningPrice = 1
    MaxQuantity = 2
    Vendors = {}
    Nobody = Nobody
    NoCart = NoCart
INVARIANTS
    TypeOK
    NoCircularWait
    StockConserved
PROPERTY
    SalesSpec
    PlacementAnswered
CHECK_DEADLOCK FALSE
