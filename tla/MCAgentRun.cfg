SPECIFICATION Spec
CONSTANTS
    router = router
    clerk = clerk
    search = search
    pay = pay
    Agents = {router, clerk}
    Tools = {search, pay}
    Start = router
    Guarded = {pay}
    Toolbox <- SharedToolbox
    Handoffs <- OneWay
    MaxTurns = 2
    MaxBatch = 2
    MaxCalls = 2
    MaxAttempts = 3
INVARIANTS
    TypeOK
    OutputsAnswerCalls
    PendingCallIsOpen
    ApprovalsAreConsumed
    TurnsWithinBudget
    SessionHoldsThePersisted
PROPERTIES
    OnlyApprovedCallsRun
    EveryCallReturns
CHECK_DEADLOCK FALSE
