SPECIFICATION MCSpec
CONSTANTS
    p1 = p1
    s1 = s1
    s2 = s2
    a = a
    b = b
    x = x
    y = y
    u1 = u1
    u2 = u2
    u3 = u3
    Pages = {p1}
    Runs = {s1, s2}
    Dismissible = {1, 2}
    MaxEvents = 2
    MaxRestarts = 1
    CardHosts = {a, b}
    Entries = {x, y}
    NoEntry = NoEntry
    Absent = Absent
    Addresses = {u1, u2, u3}
    LinkLists <- MCLinkLists
    NoPage = NoPage
    MaxAsked = 4
    Aliases = {a, b}
    OnPage = {a}
    Untitled = Untitled
    NoTab = NoTab
    MaxTabs = 3
INVARIANTS
    
    OnlyDismissedIsHidden
    StoreIsPruned
    HeldIsDrawnLater
    ActiveIsShown
    BulbIsTrue
PROPERTIES
    SavedOnceIfTyped
    TypingSurvivesMessages
    ReadingIsNotDisturbed
    RightTabIsShown
CHECK_DEADLOCK FALSE
