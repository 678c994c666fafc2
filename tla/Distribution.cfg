\* Nothing is moved while a sync runs; a statement is lost, the process is killed once.
SPECIFICATION Spec
CONSTANTS
    a1 = a1
    a2 = a2
    omni = omni
    c1 = c1
    c2 = c2
    c3 = c3
    c4 = c4
    Investors <- TwoInvestors
    Omnibus = omni
    Calls = {c1, c2, c3}
    Offers <- Everything
    None = None
    NoTx = NoTx
    SyncedBefore = FALSE
    SyncAlone = TRUE
    MaxChain = 2
    MaxFunds = 4
    MaxFaults = 1
    MaxCrashes = 1
SYMMETRY Symmetric
CHECK_DEADLOCK FALSE
INVARIANTS
    TypeOK
    TotalIsOwed
    RepliesAreTrue
    ImportsWereMade
