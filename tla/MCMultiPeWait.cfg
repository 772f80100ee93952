CONSTANTS
    c1 = c1
    c2 = c2
    Secondaries = {c1, c2}
    Plan <- MCPlan
    Messaging = {1, 3}
    Retries = 5
SPECIFICATION FairSpec
PROPERTY WaitsForCompletion
CHECK_DEADLOCK FALSE
