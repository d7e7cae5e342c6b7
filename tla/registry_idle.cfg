\* Overlapping creations of three matches for one place; connections and a seat claim meet
\* the janitor.  No symmetry, for liveness.
CONSTANTS
    Matches = {m1, m2, m3}
    Creators = {c1, c2}
    Sessions = {s1}
    Joiners = {j1}
    MaxLive = 1
    Ttl = 1
SPECIFICATION FairSpec
INVARIANTS
    TypeOK
    OvershootBounded
PROPERTIES
    ReconnectGrace
    IdleIsReclaimed
CHECK_DEADLOCK FALSE
