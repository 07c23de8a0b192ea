SPECIFICATION FairConversation
CONSTANTS
    Hosts = {home, realm, other, local, meta}
    Home = home
    Loopback = {local}
    Allowed = {realm}
    Refused = {meta}
    Pages = 3
    MaxPages = 2
    MaxRedirects = 2
INVARIANT CredentialsHome
INVARIANT ListingWhole
PROPERTY ConversationEnds
CHECK_DEADLOCK FALSE
