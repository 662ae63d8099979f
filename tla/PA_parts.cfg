\* Two tabs editing one bag; or two requests at a time on one account; or one
\* question to each of the pure rules, which ends with its answer.
SPECIFICATION PartsSpec
CONSTANTS
    a = a
    b = b
    lehenga = lehenga
    saree = saree
    Tabs = {a, b}
    Variants = {lehenga, saree}
    Batches <- AllBatches
    Stock <- Plenty
    MaxQuantity = 3
    f1 = f1
    f2 = f2
    a1 = a1
    a2 = a2
    p1 = p1
    p2 = p2
    w1 = w1
    w2 = w2
    Forms = {f1, f2}
    MaxChanges = 2
    MaxLogins = 1
    Addresses = {a1, a2}
    Profiles = {p1, p2}
    Writers = {w1, w2}
    Sets = {1, 2}
    MaxRequests = 3
    u1 = u1
    q1 = q1
    q2 = q2
    Users = {u1}
    Staff = {}
    Products = {q1, q2}
    Orders = {1}
    Buyer <- BoughtByOne
    Content <- OfOneProduct
    MaxReviews = 2
    Today = 2
    Baskets <- SomeBaskets
    Detections <- SomeDetections
    Blurs <- SomeBlurs
    Limits <- SomeLimits
    Drafts <- SomeDrafts
    Width = 24
    Height = 20
    MaxEscalations = 1
INVARIANTS
    TypeOK
    SpentLinksDead
    HistoryComplete
    BadgeIsEarned
    TaxAddsUp
    SlabExplainsRate
    FacetsAgree
    ScoreIsHonest
    CentreIsBlurred
    PublishedIsDestroyed
    MeasurementsAgree
PROPERTIES
    AddsSum
    
CHECK_DEADLOCK FALSE
