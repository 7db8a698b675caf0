SPECIFICATION Spec
CONSTANTS
    e1 = e1
    e2 = e2
    t = t
    a = a
    b = b
    x = x
    NoPlan = NoPlan
    NoKey = NoKey
    Entry <- Entries
    MintOf <- MintOfEntry
    Direct <- Directs
    amount = 1
    MinProfit = 1
    Fees = 1
    Plan <- Plans
    Banned <- Forbiddens
    Outs <- Outputs
    Mints <- MintList
    Every = 2
    Days <- DayList
INVARIANTS TypeOK CandidatesSound  BooksBalance VerdictsKeepUp StampsRight
