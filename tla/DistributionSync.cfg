\* A sync runs beside other statements.
SPECIFICATION Spec
CONSTANTS
    a1 = a1
    a2 = a2
    omni = omni
    c1 = c1
    c2 = c2
    c3 = c3
    c4 = c4
    Investors <- TwoInvestors
    Omnibus = omni
    Calls = {c1, c2, c3}
    Offers <- Pool
    None = None
    NoTx = NoTx
    SyncedBefore = TRUE
    SyncAlone = FALSE
    MaxChain = 2
    MaxFunds = 4
    MaxFaults = 0
    MaxCrashes = 0
SYMMETRY Symmetric
CHECK_DEADLOCK FALSE
INVARIANTS
    TotalIsOwed
