\* One connection whose welcome cannot be written.
CONSTANTS
    Matches = {m1}
    Creators = {c1}
    Sessions = {s1}
    Joiners = {j1}
    MaxLive = 1
    Ttl = 1
SPECIFICATION FairSpec
PROPERTY AbandonedIsReclaimed
CHECK_DEADLOCK FALSE
