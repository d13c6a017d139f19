SPECIFICATION DSpec
CONSTANTS
    c1 = c1
    Listings <- MCListings
    Imported <- MCImported
    Markets <- MCMarkets
    NoListing = NoListing
    Happens <- MCAll
    MaxJobs = 2
    MaxTorn = 1
    MaxNames = 2
CHECK_DEADLOCK FALSE
INVARIANTS
    DTypeOK
    OneDraftEach
    Recoverable
    BoundDraftExists
CONSTRAINT OneSendAtATime
