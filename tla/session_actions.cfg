\* Three clients, one seat they take in turns, two connections and three actions between them.
CONSTANTS
    Clients = {c1, c2, c3}
    Seats = {0}
    MaxConns = 2
    MaxSeq = 3
    MaxAdopts = 1
SPECIFICATION Spec
INVARIANTS
    PromisesAreHonest
    ActorHoldsSeat
PROPERTIES
    PromisesSettle
CHECK_DEADLOCK FALSE
