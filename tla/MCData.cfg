SPECIFICATION DataSpec
CONSTANTS
    MaxHosted = 2
    MaxRounds = 3
    MaxEdits = 2
INVARIANTS
    
    Sandboxes
    Requests
    Tools
    Trees
CHECK_DEADLOCK FALSE
