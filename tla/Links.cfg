SPECIFICATION FairSpec
CONSTANTS
    d1 = d1
    d2 = d2
    i1 = i1
    i2 = i2
    Servers = {d1, d2}
    Ids = {i1, i2}
    IdsOf <- MCIdsOf
    Punctual = {d1}
    TTL = 1
    Poller = Poller
    Free = Free
    NoLink = NoLink
PROPERTIES
    NoDeadLink
    RefreshedIsReturned
    DeadLinksLeave
