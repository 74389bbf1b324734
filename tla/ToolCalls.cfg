CONSTANTS
    Surfaces = {c1, c2}
    SharedSessions = {h1, h2}
    Pids = {p1, p2}
    Nothing = Nothing
    MaxRequestId = 4
    MaxLines = 2
    Calls = {a}
    Straggler = z
    MaxBinds = 2
    InboxCap = 1
    MaxTombstones = 1
    None = None
SPECIFICATION MCSpec
INVARIANTS
    AnswersAreOwn KillsOwnChild OneRuntime
    TypeOK NoOrphans CancelReaches RegistryOfLiveLoop
PROPERTIES HandshakesEndUnlessKillFails CancelledCallsEnd
