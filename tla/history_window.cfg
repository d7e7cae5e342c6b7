\* Transitions of one to three events through a window of four, some adopted.
CONSTANTS
    Cap = 4
    MaxEvents = 3
    MaxTick = 6
    MaxAdopts = 1
SPECIFICATION Spec
INVARIANTS
    WholeTransitions
    ResumeExact
CHECK_DEADLOCK FALSE
