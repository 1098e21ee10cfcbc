SPECIFICATION Spec
CONSTANTS
    Items = {ea}
    Streams = {s1}
    Waiters = {w1}
    MaxItems = 1
PROPERTY CompletedResultIsObserved
CHECK_DEADLOCK FALSE
