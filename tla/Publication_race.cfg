SPECIFICATION Spec
CONSTANTS
    a1 = a1
    a2 = a2
    a3 = a3
    p = p
    q = q
    Attempt = {a1, a2, a3}
    Owner = {p, q}
    OwnerOf <- MCOwnerOf
    Overwrite = {a1, a3}
    MaxFaults = 2
    None = None
CHECK_DEADLOCK FALSE
INVARIANTS TargetComplete LeavesNothing ReportsTrue
PROPERTIES NoUnwantedReplacement StaleLockHolds ImplementsRegister EveryAttemptEnds
