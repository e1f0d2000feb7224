SPECIFICATION Spec
CONSTANTS
    Config <- MCConfig
    Series <- MCSeries
    Periods <- Periods6
    Feed <- MCFeed
    Benchmarks <- MCBenchmarks
    Absent = Absent
    None = None
INVARIANTS
    PublishedValidatesIfDetected
    ChangePointsAreCrossings
    SignificanceIsStepUp
    EventsPartitionAlerts
    BenchmarkAccounts
CHECK_DEADLOCK FALSE
