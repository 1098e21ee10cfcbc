SPECIFICATION Spec
CONSTANTS
    Count = 3
    Visitors = {v1}
INVARIANTS TypeOK NoServerIsForgotten BooksAreRight
PROPERTY StrictFailureCleansUp
