SPECIFICATION FairSpec
CONSTANTS
    i1 = i1
    i2 = i2
    i3 = i3
    w1 = w1
    w2 = w2
    NoItem = NoItem
    Item <- Items3
    Worker <- Workers1
    MaxAge = 2
    RestRate = 1
    GrpcRate = 0
    SECOND = 2
INVARIANTS BurstBound
PROPERTIES EveryItemSettles
