\* One client that reconnects, with a cursor or without, and acts, and a seat claim:
\* three goroutines commit, contend for the fan-out lock and publish.  No symmetry,
\* for liveness.
CONSTANTS
    Clients = {c1}
    Resuming = {c1}
    Joiners = {j1}
    MaxTick = 4
    MaxConns = 2
SPECIFICATION FairSpec
INVARIANTS
    TypeOK
    SnapshotBeforeLive
    NoLossWhileReady
PROPERTIES
    CommitIsPublished
CHECK_DEADLOCK FALSE
