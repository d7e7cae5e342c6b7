\* Two seats, two connections, three database faults at any moment, a crash.
CONSTANTS
    Joiners = {j1, j2}
    Sessions = {s1, s2}
    MaxSeq = 2
    MaxTick = 4
    MaxFaults = 3
SYMMETRY Symmetric
SPECIFICATION Spec
INVARIANTS
    TypeOK
    MemoryFollowsDatabase
    AckedIsDurable
PROPERTIES
    AckedNeverReapplied
    ImplementsDurableLog
CHECK_DEADLOCK FALSE
