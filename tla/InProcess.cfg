CONSTANTS
    SessionIds = {"s1"}
    Clients = {"tui", "acp", "bad id"}
    Hosts = {"hostA", "hostB", "bad id"}
    ValidIds <- MCValidIds
    MaxSessions = 2
    MaxClientsPerSession = 1
    MaxReplayEvents = 1
    Times = {1}
    Cursors = {0, 1, 2}
    Sequences = {0, 1, 2}
    Limits = {0, 1}
    ReportedStatuses = {"Active", "Blocked", "Cancelled", "Closed", "Degraded"}
    Persistent = FALSE
    Threads = {t1, t2}
    OpenDuration = 1
    WindowDuration = 1
    MinSamples = 1
    RateNum = 1
    RateDen = 2
    MaxProbes = 1
    MaxWindowEntries = 2
    UsizeMod = 4
    MaxTime = 2
    MaxRequests = 1
SPECIFICATION MCSpec
INVARIANTS
    ReplayPositionSound AttentionAnnounced
    BreakerTypeOK WindowSound
PROPERTIES ResponsesApplyInOrder Recovers
