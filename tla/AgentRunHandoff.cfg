SPECIFICATION Safe
CONSTANTS
    router = router
    clerk = clerk
    search = search
    pay = pay
    Agents = {router, clerk}
    Tools = {search, pay}
    Start = router
    Guarded = {pay}
    Toolbox <- ClerkPays
    Handoffs <- OneWay
    MaxTurns = 2
    MaxBatch = 1
    MaxCalls = 1
    MaxAttempts = 2
INVARIANT ActiveAgentOwnsThePendingCall
CHECK_DEADLOCK FALSE
