SPECIFICATION FairSpec
CONSTANTS
    Repos = {r1}
    Users = {u1}
    Requests = {c1, c2}
    Never <- NoDay
    MaxDay = 1
    MaxEvents = 2
    MaxFaults = 2
INVARIANT TypeOK
INVARIANT Conserved
INVARIANT SnapshotUnlessMissed
PROPERTY FlushedAgain
