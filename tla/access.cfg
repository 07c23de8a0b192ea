SPECIFICATION Spec
CONSTANTS
    None = None
    Users = {u1, u2}
    Teams = {t1}
    Names = {n1}
    RepoIds = {i1, i2}
    Pats = {p1}
    Requests = {q1, q2}
    Ops = {"setup", "found", "member", "remove", "join", "leave", "perm", "create", "drop", "pat", "token", "pull", "push", "delete"}
    PullLimit = 2
    MaxCalls = 2
    MaxMore = 1
    Asked = {1, 2}
    MaxFaults = 1
SYMMETRY Symmetric
INVARIANT GrantsJustified
INVARIANT PatConfined
INVARIANT SetupOnce
INVARIANT PullsOfThisRepo
CHECK_DEADLOCK FALSE
