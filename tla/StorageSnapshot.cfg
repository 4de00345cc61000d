SPECIFICATION HistoryFairSpec
CONSTANTS
    h1 = h1
    h2 = h2
    r1 = r1
    s1 = s1
    s2 = s2
    Hooks = {h1, h2}
    Readers = {r1}
    RunIds = {s1, s2}
    Texts <- MCTexts
    Payloads <- Mixed
    EventLimit = 1
    Retention = 0
    MaxFires = 2
    MaxTime = 1
    Free = Free
    Nothing = Nothing
    Unread = Unread
INVARIANTS
    SnapshotIsCoherent
    MergeIsCurrent
    RunNotBehindLog
PROPERTIES
    TextIsSticky
    HeartbeatKeepsMessage
    EventsOutliveRetention
    HookReturns
    IsDevbox
