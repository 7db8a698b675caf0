SPECIFICATION Spec
CONSTANTS
    w1 = w1
    w2 = w2
    t1 = t1
    t2 = t2
    a = a
    b = b
    payer = payer
    tipper = tipper
    NoSwap = NoSwap
    Worker <- Workers
    Table <- Tables
    Account <- Accounts
    Tip <- Tips
    Fixed <- Payers
    Swap <- Swaps
    Chain0 <- Tables0
    MaxTable = 3
SYMMETRY Symmetry
INVARIANTS TypeOK LookupsHold CopyFaithful LocksExact
