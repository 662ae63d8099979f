\* Dropped connections, dead workers, no request slower than the lock.
SPECIFICATION Spec
CONSTANTS
    k1 = k1
    k2 = k2
    r1 = r1
    r2 = r2
    r3 = r3
    Keys = {k1, k2}
    Requests = {r1, r2, r3}
    Bodies = {"pune", "delhi"}
    SlowRequests = FALSE
    MaxRefills = 1
    NoKey = NoKey
    NoRequest = NoRequest
SYMMETRY RequestSymmetry
INVARIANTS
    TypeOK
    OneRunAtATime
    ShownOrderIsTheirs
CHECK_DEADLOCK FALSE
