\* Three builds booted in any order and at any time, two matches.
CONSTANTS
    p1 = p1
    p2 = p2
    p3 = p3
    Processes = {p1, p2, p3}
    Carries <- Builds
    Tables <- CoreTables
    Matches = {m1, m2}
SPECIFICATION Spec
INVARIANTS
    ServingHasSchema
    SchemaInOrder
    InterruptedMeansDead
CHECK_DEADLOCK FALSE
