SPECIFICATION Spec
CONSTANTS
    bucket = bucket
    endpoint = endpoint
    ann = ann
    bob = bob
    ours = ours
    theirs = theirs
    StorageKeys <- Storage
    Values = {v0, v1}
    Base = v0
    Emails <- People
    Domains <- AllDomains
    DomainsOf <- Homes
    Requests = {q1, q2}
    None = None
    MaxCalls = 3
    MaxFaults = 1
SYMMETRY Symmetric
INVARIANT ClientFollows
INVARIANT AccountsAllowed
CHECK_DEADLOCK FALSE
