SPECIFICATION Spec
CONSTANTS
    p1 = p1
    p2 = p2
    s1 = s1
    s2 = s2
    Pages = {p1}
    Runs = {s1, s2}
    Dismissible = {1, 2}
    MaxEvents = 2
    MaxRestarts = 1
INVARIANTS
    HiddenUntilNews
