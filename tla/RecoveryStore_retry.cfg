SPECIFICATION RetrySpec
CONSTANTS
    None = None
    Appliers = {x1, x2}
    Executions = {e1}
    Horizon = 4
    ReopenAfter = 2
    ImmediateReopen = TRUE
    Capacity = 4
    MaxFaults = 2
INVARIANTS
    LineageOnDisk
    AlwaysReadable
PROPERTIES
    RetryCommits
    ImplementsLifecycle
SYMMETRY Symmetry
CHECK_DEADLOCK FALSE
