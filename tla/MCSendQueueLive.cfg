SPECIFICATION FairSpec
CONSTANTS
    c1 = c1
    c2 = c2
    ebay = ebay
    etsy = etsy
    Listings <- MCListings
    Imported <- MCImported
    Markets <- MCNoMarkets
    NoListing = NoListing
    Happens <- MCLive
    MaxJobs = 2
    MaxTorn = 1
CHECK_DEADLOCK FALSE
INVARIANTS
    ResumedOnce
PROPERTIES
    SlotIsFreed
    QueuedSendStarts
