SPECIFICATION DSpec
CONSTANTS
    Workers = {w1, w2}
    Drafts = {shoe}
    NoDraft = NoDraft
    MaxTasks = 2
    MaxWrites = 2
    MaxEvents = 1
    Viewed = {1}
    MaxCrashes = 0
    Page = 1
    Faults <- MCFaults
SYMMETRY Machines
CHECK_DEADLOCK FALSE
INVARIANTS
    TasksTypeOK
    OwnDraft
    IdleIsEditable
    DoneHasAll
PROPERTIES
    TurnsSpec
