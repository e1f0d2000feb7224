SPECIFICATION FairSpec
CONSTANTS
    p1 = p1
    p2 = p2
    p3 = p3
    Processes = {p1, p2, p3}
    Roots = {1, 2, 3}
    Directories <- MCDirectories
    DomainOf <- OwnGates
    GateOf <- Above
    OperationsOf <- Parts
    Trees = {1, 2, 3, 4}
    MaxReplacements = 0
    MaxFaults = 0
    None = None
PROPERTY EveryOperationEnds
