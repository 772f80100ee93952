CONSTANTS
    NumSps = 2
    None = None
    Builds <- MCBuilds
    LastTest = 2
    PLATFORM_FFA_V = 12
SPECIFICATION Spec
PROPERTY Recovers
\* A partition that panicked never runs again, nor does VM1 if it waits for it.
CHECK_DEADLOCK FALSE
