SPECIFICATION SFairSpec
CONSTANTS
    MaxEdits = 1
    MaxChanges = 1
    MaxUpdates = 1
    MaxAsks = 1
CHECK_DEADLOCK FALSE
INVARIANTS
    SyncTypeOK
    
    
PROPERTIES
    
    OnlyWhatWasRead
    TurnsEnd
