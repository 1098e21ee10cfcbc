SPECIFICATION Spec
CONSTANTS
    Count = 2
    Visitors = {v1}
INVARIANT ExposesOnlyConnected
