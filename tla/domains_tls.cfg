SPECIFICATION FairSpec
CONSTANTS
    a = a
    b = b
    Names <- Two
    Earlier <- Both
    Emails = {e1}
    Requests = {q1, q2}
    None = None
    Configured = None
    Contact = None
    MaxCalls = 2
    MaxFaults = 1
INVARIANT TypeOK
INVARIANT UrlFollows
INVARIANT RedirectsHome
PROPERTY TlsFollows
CHECK_DEADLOCK FALSE
