SPECIFICATION Spec
CONSTANTS
    p1 = p1
    p2 = p2
    s1 = s1
    s2 = s2
    Hosts = {1}
    Pollers = {p1, p2}
    Quiet = {}
    RunIds = {s1}
    RunStates = {"running", "approval"}
    EventLimit = 2
    SeenLimit = 9
    MaxUpdates = 2
    MaxFailures = 0
INVARIANTS
    NotifiesOnce
