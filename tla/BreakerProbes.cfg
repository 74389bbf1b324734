CONSTANTS
    Threads = {t1, t2}
    OpenDuration = 2
    WindowDuration = 1
    MinSamples = 1
    RateNum = 1
    RateDen = 2
    MaxProbes = 1
    MaxWindowEntries = 2
    UsizeMod = 4
    MaxTime = 2
    MaxRequests = 1
SPECIFICATION HistorySpec
INVARIANT ProbeLimitKept
