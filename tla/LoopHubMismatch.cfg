CONSTANTS
    c1 = c1
    c2 = c2
    Callers = {c1, c2}
    Workflows = {"w1", "w2"}
    WorkflowOf <- MCWorkflowOf
    Ops = {"submit", "cancel", "resume", "progress"}
    MaxLog = 1
    MaxBreaks = 2
    None = None
SPECIFICATION Spec
INVARIANT MismatchBlocksEffects
