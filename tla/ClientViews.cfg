CONSTANTS
    Turns = {a, b}
    Profiles = {desktop, other}
    OwnProfile = desktop
    MaxIncarnation = 2
    MaxAdvisories = 2
    MaxPerPage = 1
    NoTurn = NoTurn
    Sessions = {s1}
    Targets = {"run", "other"}
    Risks = {0, 2}
    Actions = {"Approve", "Cancel"}
    IntentIds = {i1, i2}
    DecisionIds = {d1}
    Revisions = {1}
    SequenceNumbers = {1, 2}
    MaxApplied = 5
    Absent = Absent
    Tasks = {"t1", "t2"}
    DeliveryTasks = {"t2"}
    WorkerEvents <- MCEvents
    MaxLog = 3
    MaxEvents = 2
    MaxCalls = 1
    None = None
    MaxObserved = 3
    MaxGeneration = 2
    MaxPage = 2
    MaxHistory = 2
SPECIFICATION MCSpec
INVARIANTS
    TurnsSerialized SettledIsSettled
    ReceiptsSettleTheirItem RequestsAreAuthorized
    ViewNotBehindCursor LeasesExclusive DeliveriesWereDone
    MutationsNotRepeated PlanIsSchedulable
    HistorySound
PROPERTIES TurnsGetResolved ImplementsGate NoComeback ViewCatchesUp
