SPECIFICATION MCSpec
CONSTANTS
    h1 = h1
    l1 = l1
    Hosts = {h1, l1}
    Local = {l1}
    Capacity = 1
    MaxOutput = 2
    Patterns <- MCPatterns
    Values <- MCValues
    dev1 = dev1
    web1 = web1
    config = config
    extra = extra
    alias = alias
    gone = gone
    f1 = f1
    f2 = f2
    none = none
    Names = {dev1, web1}
    Eligible = {dev1}
    Paths = {config, extra, alias, gone}
    Root = config
    Files = {f1, f2, none}
    FileOf <- MCFileOf
    Readable = {f1, f2}
    Contents <- MCContents
INVARIANTS
    AnswerIsWhole
    NothingLeftBehind
    NobodyWaitsForEachOther
    VerdictIsRight
    FindsAll
PROPERTIES
    PollsEnd
    MatcherEnds
    DiscoveryEnds
CHECK_DEADLOCK FALSE
