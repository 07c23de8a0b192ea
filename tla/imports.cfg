SPECIFICATION FairSpec
CONSTANTS
    r1 = r1
    r2 = r2
    b1 = b1
    b2 = b2
    x = x
    y = y
    m1 = m1
    m2 = m2
    Jobs = {j1}
    Repos <- TwoRepos
    Blobs <- TwoBlobs
    Manifests <- FourManifests
    Desc <- DescOf
    Child <- ChildOf
    Tagged <- TagsOf
    Concurrency = 2
    MaxDepth = 1
    MaxFaults = 1
INVARIANT TypeOK
INVARIANT FetchedOnce
INVARIANT StoredWithDependencies
INVARIANT ProgressExact
INVARIANT RunningHasTask
PROPERTY PollSpec
PROPERTY JobsEnd
CHECK_DEADLOCK FALSE
