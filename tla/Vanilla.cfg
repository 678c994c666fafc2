\* A rough setup, and a calm one with both delegates; the process is killed once.
SPECIFICATION Spec
CONSTANTS
    a1 = a1
    a2 = a2
    p1 = p1
    p2 = p2
    Accounts = {a1, a2}
    Jobs <- AllJobs
    Setups <- AllSetups
    Clients = {p1, p2}
    None = None
    NoTx = NoTx
    MaxCrashes = 1
    MaxFaults = 2
    MaxFunds = 4
SYMMETRY Symmetric
CHECK_DEADLOCK FALSE
INVARIANTS
    TypeOK
    SuccessIsBacked
    OutcomesAreTrue
    LocksUsedOnce
    LockedFundsAreThere
