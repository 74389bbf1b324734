CONSTANTS
    Calls = {a}
    Straggler = z
    MaxBinds = 2
    InboxCap = 1
    MaxTombstones = 1
    None = None
SPECIFICATION Spec
INVARIANT LoopHasSemaphore
