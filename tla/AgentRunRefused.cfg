SPECIFICATION Safe
CONSTANTS
    router = router
    clerk = clerk
    search = search
    pay = pay
    Agents = {router, clerk}
    Tools = {search, pay}
    Start = router
    Guarded = {pay}
    Toolbox <- SharedToolbox
    Handoffs <- BothWays
    MaxTurns = 3
    MaxBatch = 1
    MaxCalls = 2
    MaxAttempts = 3
INVARIANT RefusedWhenExhausted
CHECK_DEADLOCK FALSE
