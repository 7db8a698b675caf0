SPECIFICATION FairSpec
CONSTANTS
    c1 = c1
    c2 = c2
    c3 = c3
    c4 = c4
    c5 = c5
    Ticket <- Tickets5
    MaxPerSecond = 3
    SECOND = 4
INVARIANTS WindowBound
PROPERTIES KeepsPromise EventuallyGrants
