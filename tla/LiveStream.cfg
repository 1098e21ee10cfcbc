SPECIFICATION Spec
CONSTANTS
    Items = {ea, eb}
    Streams = {s1}
    Waiters = {w1}
    MaxItems = 2
INVARIANTS TypeOK WakeupIsPending ResultFollowsLog
PROPERTIES ImplementsEventLog NoMissedChange
CHECK_DEADLOCK FALSE
