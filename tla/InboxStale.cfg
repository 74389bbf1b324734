CONSTANTS
    Sessions = {s1}
    Targets = {"run", "other"}
    Risks = {0, 2}
    Actions = {"Approve", "Cancel"}
    IntentIds = {i1, i2}
    DecisionIds = {d1}
    Revisions = {1}
    SequenceNumbers = {1, 2}
    MaxApplied = 5
    Absent = Absent
SPECIFICATION InboxSpec
INVARIANT DispatchMatchesItem
