SPECIFICATION AFairSpec
CONSTANTS
    research = research
    sync = sync
    main = main
    worker = worker
    SignIns = {s1, s2}
    NoSignIn = NoSignIn
    Accounts = {shop}
    NoAccount = NoAccount
    Calls <- MCCalls
    LoopOf <- MCOneLoop
    NoCall = NoCall
    MaxRefresh = 2
    Faults <- MCFaults
CHECK_DEADLOCK FALSE
INVARIANTS
    AccountTypeOK
    StaysSignedIn
    NeverRevived
    ConnectedIsLinked
PROPERTIES
    CallEnds
