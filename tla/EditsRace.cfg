SPECIFICATION Spec
CONSTANTS
    a = a
    b = b
    e1 = e1
    e2 = e2
    s1 = s1
    s2 = s2
    x = x
    u1 = u1
    u2 = u2
    Servers = {s1}
    Editors = {e1, e2}
    Home <- OneServer
    Hosts = {a, b}
    Watched = {a, b}
    Labels = {x}
    Urls = {u1, u2}
    NoLabel = NoLabel
    PrLimit = 1
    Requests <- SetLabels
    MaxEdits = 2
    HandLists <- MCHandLists
    MaxHandEdits = 0
    MaxFailures = 0
PROPERTIES
    OthersKept
