SPECIFICATION Spec
CONSTANTS
    i1 = i1
    i2 = i2
    i3 = i3
    w1 = w1
    w2 = w2
    NoItem = NoItem
    Item <- Items2
    Worker <- Workers2
    MaxAge = 2
    RestRate = 1
    GrpcRate = 1
    SECOND = 2
INVARIANTS NoSlotForDoomed
