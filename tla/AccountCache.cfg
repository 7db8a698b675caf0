SPECIFICATION Spec
CONSTANTS
    pool = pool
    mint = mint
    c1 = c1
    c2 = c2
    main = main
    NoCaller = NoCaller
    Key <- Keys
    Streamed <- Pools
    Changing <- Pools
    Caller <- Callers
    Prefetcher = main
    Warm <- WarmUp
    Tx <- Transactions
    FirstBackoff = 1
    MaxBackoff = 1
    MaxSlot = 3
SYMMETRY Symmetry
INVARIANTS LiveUnlessLostOrHidden NoRpcForCached MissingOnlyIfFailed
PROPERTIES SettledStays ClockBackWithStream
