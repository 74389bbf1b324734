CONSTANTS
    SessionIds = {"s1", "s2"}
    Clients = {"tui", "acp", "bad id"}
    Hosts = {"hostA", "bad id"}
    ValidIds <- MCValidIds
    MaxSessions = 1
    MaxClientsPerSession = 1
    MaxReplayEvents = 1
    Times = {1}
    Cursors = {0, 1}
    Sequences = {1}
    Limits = {0, 1}
    ReportedStatuses = {"Blocked"}
    Persistent = TRUE
VIEW MCView
SPECIFICATION Spec
INVARIANTS SnapshotRestorable
PROPERTIES ImplementsStream
