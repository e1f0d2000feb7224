CONSTANTS
    None = None
    p1 = p1
    p2 = p2
    l1 = l1
    l2 = l2
    c1 = c1
    c2 = c2
    s1 = s1
    Process = {p1, p2}
    Lineage = {l1, l2}
    Conclusion = {c1, c2}
    Scenario = {s1}
    MaxCommands = 4
    MaxEdits = 1
SPECIFICATION Spec
SYMMETRY MCSymmetry
INVARIANTS
    HealthyIsOneStory
    LoadedIsWhole
    UndisturbedIsHealthy
CHECK_DEADLOCK FALSE
