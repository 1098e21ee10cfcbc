SPECIFICATION LiveSpec
CONSTANTS
    Callers = {p, q}
    Users = {p, q}
    Threads = {p, q}
    RealtimeAgents = {m, n}
    TracedRuns = {m, n}
    RealtimeStreams = {s}
    Values = {1, 2}
    MaxCalls = 3
    MaxVoiceTurns = 3
    MaxTexts = 1
    VoiceAgents = {v, w}
    StreamsAudio = TRUE
    MaxClients = 4
    MaxVisits = 4
SYMMETRY Alike
INVARIANTS
    LiveTypeOK
    DriverFollowsSession
    ReadersAreTold
    HeardTurnsAreRemembered
    ClientsAreAccountedFor
    SpansNameTheirRun
CHECK_DEADLOCK FALSE
