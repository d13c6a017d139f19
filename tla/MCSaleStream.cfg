SPECIFICATION SSpec
CONSTANTS
    order1 = order1
    order2 = order2
    order3 = order3
    closed = closed
    shirt = shirt
    hat = hat
    Notes <- MCNotes
    NoNote = NoNote
    Sold <- MCSold
    Lines <- MCLines
    PageLimit = 3
    MaxSeq = 3
    Faults <- MCFaults
CHECK_DEADLOCK FALSE
INVARIANTS
    SaleTypeOK
    UnrecordedOnlyMissed
    AnnouncedOnce
