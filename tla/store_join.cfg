\* One fault while a seat is claimed.
CONSTANTS
    Joiners = {j1, j2}
    Sessions = {s1}
    MaxSeq = 2
    MaxTick = 3
    MaxFaults = 1
SPECIFICATION Spec
INVARIANT FailedJoinConsumesNoSeat
CHECK_DEADLOCK FALSE
