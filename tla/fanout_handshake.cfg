\* Two clients act; one connection each, without a cursor: the shipped client sends none.
CONSTANTS
    Clients = {c1, c2}
    Resuming = {}
    Joiners = {j1}
    MaxTick = 2
    MaxConns = 1
SPECIFICATION Spec
INVARIANT HandshakeLosesNothing
CHECK_DEADLOCK FALSE
