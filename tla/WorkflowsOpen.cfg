\* Any client timing, crashes, faults, late statements, a receipt that does not convert.
SPECIFICATION Spec
CONSTANTS
    c1 = c1
    c2 = c2
    q1 = q1
    k1 = k1
    k2 = k2
    issue = issue
    hold = hold
    None = None
    Requests = {q1}
    Methods = {issue}
    MethodOf <- OneMethod
    Cids = {c1, c2}
    Calls = {k1, k2}
    Receipts = {"bad"}
    Unmappable = {"bad"}
    RouterConfigured = TRUE
    QuietStart = FALSE
    LateStatements = TRUE
    MaxCrashes = 1
    MaxFaults = 1
SYMMETRY Symmetric
INVARIANTS
    TypeOK
    AnswersNameOneOperation
    NoticesArePersisted
    PendingRowsAreOwned
