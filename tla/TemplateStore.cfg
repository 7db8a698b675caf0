SPECIFICATION Spec
CONSTANTS
    s1 = s1
    s2 = s2
    p1 = p1
    h1 = h1
    h2 = h2
    s3 = s3
    d1 = d1
    a1 = a1
    a2 = a2
    NoPair = NoPair
    Sig <- Sigs
    Pair <- Pairs
    PairOf <- PairOfSig
    Hop <- Hops
    HopsOf <- HopsOfSig
    Dex <- Dexes
    DexOf <- DexOfHop
    Amount <- Amounts
    Discovered <- NotFound
    ROUTE_SEG_CAP = 1
    MaxRestarts = 1
INVARIANTS OneGeneration UsedRecentlyKept IndexFaithful
PROPERTIES SavedHopsStay KeepsServing
SYMMETRY Alike
