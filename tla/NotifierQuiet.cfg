SPECIFICATION FairSpec
CONSTANTS
    p1 = p1
    p2 = p2
    s1 = s1
    s2 = s2
    Hosts = {1}
    Pollers = {p1, p2}
    Quiet = {p2}
    RunIds = {s1}
    RunStates = {"running", "approval"}
    EventLimit = 1
    SeenLimit = 9
    MaxUpdates = 1
    MaxFailures = 0
PROPERTIES
    AlertIsNotified
