\* Three clicks, up to two of them at a time, racing to refresh.
SPECIFICATION Spec
CONSTANTS
    t1 = t1
    t2 = t2
    Tabs = {t1, t2}
    MaxPairs = 4
    MaxClicks = 3
SYMMETRY Symmetry
INVARIANTS
    NoSelfSignOut
    EffectAtMostOnce
CHECK_DEADLOCK FALSE
