SPECIFICATION Safe
CONSTANTS
    router = router
    clerk = clerk
    search = search
    pay = pay
    Agents = {router, clerk}
    Tools = {search, pay}
    Start = router
    Guarded = {pay}
    Toolbox <- SharedToolbox
    Handoffs <- BothWays
    MaxTurns = 2
    MaxBatch = 1
    MaxCalls = 1
    MaxAttempts = 2
INVARIANT SessionHasTheOutputs
CHECK_DEADLOCK FALSE
