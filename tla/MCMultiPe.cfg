CONSTANTS
    c1 = c1
    c2 = c2
    Secondaries = {c1, c2}
    Plan <- MCPlan
    Messaging = {1, 3}
    Retries = 5
SPECIFICATION FairSpec
INVARIANTS TypeOK CollectsOwnResult ResetNotOverwritten
PROPERTY OnlyFailuresBlock
\* A panic, or a wait for an event that is not sent, stops the boot CPU.
CHECK_DEADLOCK FALSE
