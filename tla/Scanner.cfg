SPECIFICATION FairSpec
CONSTANTS
    e1 = e1
    e2 = e2
    r1 = r1
    r2 = r2
    r3 = r3
    h1 = h1
    h2 = h2
    None = None
    NoKey = NoKey
    Entry <- Entries
    AmountOf <- Amounts
    Direct <- DirectOnes
    Route <- Routes
    Hop <- HopKeys
    HopsOf <- Plan
    Fee = 1
    Past <- Earlier
    Disk <- Files
    Base = 2
    Width = 2
    Pre <- Before
    Post <- After
    Other = {3}
    MaxQuotes = 2
    Config <- Configs
INVARIANTS TypeOK InstructionsRight HopsKnown FunnelBalances
PROPERTIES EveryEntryEnds
