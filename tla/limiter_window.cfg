\* Two keys, two calls per window of two, a sweep on every third call.
CONSTANTS
    Keys = {k1, k2}
    Limit = 2
    Window = 2
    SweepEvery = 3
    MaxTime = 5
SPECIFICATION Spec
INVARIANTS
    TypeOK
    LimitHolds
    RefusalIsEarned
PROPERTIES
    SweepForgets
CHECK_DEADLOCK FALSE
