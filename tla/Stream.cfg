SPECIFICATION FairSpec
CONSTANTS
    c1 = c1
    c2 = c2
    Clients = {c1, c2}
    MaxConnections = 1
    Nobody = Nobody
    MaxVersion = 3
INVARIANTS
    SlotsAreCounted
    NoLostWakeup
PROPERTIES
    StreamKeepsPromise
    SlotsComeBack
