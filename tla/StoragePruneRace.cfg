SPECIFICATION HistorySpec
CONSTANTS
    h1 = h1
    h2 = h2
    r1 = r1
    s1 = s1
    s2 = s2
    Hooks = {h1, h2}
    Readers = {}
    RunIds = {s1}
    Texts <- MCTexts
    Payloads <- OneRun
    EventLimit = 2
    Retention = 0
    MaxFires = 4
    MaxTime = 1
    Free = Free
    Nothing = Nothing
    Unread = Unread
CHECK_DEADLOCK FALSE
PROPERTIES
    RunsOutliveRetention
