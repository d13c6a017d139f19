SPECIFICATION Spec
CONSTANTS
    c1 = c1
    c2 = c2
    ebay = ebay
    etsy = etsy
    Listings <- MCListings
    Imported <- MCImported
    Markets <- MCMarkets
    NoListing = NoListing
    Happens <- MCSlot
    MaxJobs = 2
    MaxTorn = 0
SYMMETRY Symmetric
CHECK_DEADLOCK FALSE
INVARIANTS
    TypeOK
    SlotExclusive
    QueuedIsNotSent
    ClaimedHasNoWorker
PROPERTIES
    FinishedIsFinal
    SlotSpec
