CONSTANTS
    NumSps = 2
    None = None
    Builds <- MCBuilds
    LastTest = 2
    PLATFORM_FFA_V = 12
SPECIFICATION Spec
INVARIANTS TypeOK TablesAgree CountsMatch NoGaps CleanUnlessFailed FailureReported
PROPERTIES TakenOnce Ends
\* VM1 ends in an endless loop, or waits for a partition that stopped.
CHECK_DEADLOCK FALSE
