SPECIFICATION FairSpec
CONSTANTS
    p1 = p1
    p2 = p2
    s1 = s1
    s2 = s2
    Hosts = {1, 2}
    Pollers = {p1}
    Quiet = {}
    RunIds = {s1, s2}
    RunStates = {"running", "approval"}
    EventLimit = 1
    SeenLimit = 1
    MaxUpdates = 2
    MaxFailures = 1
INVARIANTS
    RepeatsOnlyForgotten
    BaselineIsSilent
PROPERTIES
    DisplayNeverGoesBack
    AlertIsNotified
