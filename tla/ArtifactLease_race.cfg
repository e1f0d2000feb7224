SPECIFICATION Spec
CONSTANTS
    p1 = p1
    p2 = p2
    p3 = p3
    Processes = {p1, p2}
    Roots = {1, 2, 3}
    Directories <- MCDirectories
    DomainOf <- OwnGates
    GateOf <- Above
    OperationsOf <- Pipeline
    Trees = {1, 2, 3}
    MaxReplacements = 1
    MaxFaults = 1
    None = None
SYMMETRY Symmetry
INVARIANTS LeasesExclude ReadsOneCut
PROPERTIES WriterNotOvertaken ImplementsSnapshots
