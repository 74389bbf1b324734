CONSTANTS
    Turns = {a, b}
    Profiles = {desktop, other}
    OwnProfile = desktop
    MaxIncarnation = 1
    MaxAdvisories = 0
    MaxPerPage = 1
    NoTurn = NoTurn
SPECIFICATION Spec
INVARIANT ReadyMeansReconciled
