SPECIFICATION SSpec
CONSTANTS
    order1 = order1
    order2 = order2
    order3 = order3
    closed = closed
    shirt = shirt
    hat = hat
    Notes <- MCBacklog
    NoNote = NoNote
    Sold <- MCSold
    Lines <- MCBacklogLines
    PageLimit = 1
    MaxSeq = 4
    Faults <- MCNoFaults
CHECK_DEADLOCK FALSE
INVARIANTS
    BacklogArrives
