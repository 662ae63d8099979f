\* One customer submitting from two tabs while the catalogue changes.
SPECIFICATION Spec
CONSTANTS
    ann = ann
    bea = bea
    t1 = t1
    t2 = t2
    c1 = c1
    c2 = c2
    lehenga = lehenga
    saree = saree
    vendor = vendor
    Users = {ann, bea}
    Tabs = {t1, t2}
    UserOf <- OneCustomer
    Carts = {c1, c2}
    Variants = {lehenga}
    Key <- TwoKeys
    Supply <- Two
    Changing = {lehenga}
    Prices = {1, 2}
    OpeningPrice = 1
    MaxQuantity = 1
    Vendors = {vendor}
    Nobody = Nobody
    NoCart = NoCart
INVARIANT
    OneOrderPerBag
CHECK_DEADLOCK FALSE
