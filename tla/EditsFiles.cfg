SPECIFICATION FairSpec
CONSTANTS
    a = a
    b = b
    e1 = e1
    e2 = e2
    s1 = s1
    s2 = s2
    x = x
    u1 = u1
    u2 = u2
    Servers = {s1, s2}
    Editors = {e1, e2}
    Home <- TwoServers
    Hosts = {a, b}
    Watched = {a}
    Labels = {x}
    Urls = {u1, u2}
    NoLabel = NoLabel
    PrLimit = 1
    Requests <- OneOfEach
    MaxEdits = 2
    HandLists <- MCHandLists
    MaxHandEdits = 1
    MaxFailures = 1
INVARIANTS
    CardsAreBounded
PROPERTIES
    FilesImplementConfig
    ViewsCatchUp
