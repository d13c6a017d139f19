SPECIFICATION ASpec
CONSTANTS
    research = research
    sync = sync
    main = main
    worker = worker
    SignIns = {s1}
    NoSignIn = NoSignIn
    Accounts = {shop}
    NoAccount = NoAccount
    Calls <- MCCalls
    LoopOf <- MCTwoLoops
    NoCall = NoCall
    MaxRefresh = 2
    Faults <- MCNoFaults
CHECK_DEADLOCK FALSE
INVARIANT
    OneRefreshAtATime
