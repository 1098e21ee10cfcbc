SPECIFICATION Spec
CONSTANTS
    Items = {ea}
    Streams = {s1}
    Waiters = {w1}
    MaxItems = 1
INVARIANT EndedStreamsAreNotEmpty
CHECK_DEADLOCK FALSE
