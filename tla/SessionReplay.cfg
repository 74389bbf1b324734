CONSTANTS
    SessionIds = {"s1"}
    Clients = {"tui", "acp"}
    Hosts = {"hostA", "hostB"}
    ValidIds <- MCIds
    MaxSessions = 1
    MaxClientsPerSession = 1
    MaxReplayEvents = 2
    Times = {0}
    Cursors = {0}
    Sequences = {0}
    Limits = {2}
    ReportedStatuses = {}
    Persistent = FALSE
    Sid = "s1"
    Incarnations <- MCIncarnations
    MaxLog = 2
    Batch = 2
SPECIFICATION FairReplaySpec
INVARIANT TakenIsPrefix
PROPERTY CatchesUp
