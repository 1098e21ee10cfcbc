SPECIFICATION DurableSpec
CONSTANTS
    Files = {a, b}
    Sessions = {s1, s2}
    Manifest = {a}
    MaxVersions = 1
    MaxChanges = 2
    Clients = {c1, c2}
    MaxAdds = 2
    MaxOps = 3
    MaxRuns = 3
    Threshold = 1
    MaxItems = 3
    Fingerprints = {x, y}
    MaxInitial = 3
    MaxTurns = 2
SYMMETRY Alike
INVARIANTS
    DurableTypeOK
    OwnerDecides
    SessionsHaveTheirWorkspace
    AddedIsKept
    PoppedOnce
    OnlyOldCandidatesGo
    UnstoredIsNotContinued
    UnseenIsPrepared
    SeenIsNotRepeated
    SourcesAreRight
PROPERTIES
    ResumeRestoresTheLastRefresh
    StoreIsALog
CHECK_DEADLOCK FALSE
