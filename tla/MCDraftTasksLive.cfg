SPECIFICATION DFairSpec
CONSTANTS
    Workers = {w1, w2}
    Drafts = {shoe}
    NoDraft = NoDraft
    MaxTasks = 2
    MaxWrites = 1
    MaxEvents = 0
    Viewed = {}
    MaxCrashes = 1
    Page = 1
    Faults <- MCFaults
CHECK_DEADLOCK FALSE
PROPERTIES
    TaskEnds
