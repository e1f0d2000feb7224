CONSTANTS
    None = None
    p1 = p1
    p2 = p2
    r1 = r1
    Process = {p1, p2}
    Runtime = {r1}
    CoveredWindows = {1}
    Undetected <- MCUndetected
    SimulationConfig <- MCSimulations
    StageConfig <- MCStageConfig
    MaxCommands = 3
    MaxEdits = 1
SPECIFICATION Spec
SYMMETRY MCSymmetry
INVARIANTS
    ValidIsWhole
    HealthyIsDerived
    UndisturbedIsHealthy
CHECK_DEADLOCK FALSE
