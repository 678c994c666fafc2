\* Clients call once recovery has read the table; every receipt converts; steps are fair.
SPECIFICATION FairSpec
CONSTANTS
    c1 = c1
    c2 = c2
    q1 = q1
    k1 = k1
    k2 = k2
    issue = issue
    hold = hold
    None = None
    Requests = {q1}
    Methods = {issue, hold}
    MethodOf <- OneMethod
    Cids = {c1, c2}
    Calls = {k1, k2}
    Receipts = {"r1", "r2"}
    Unmappable = {}
    RouterConfigured = TRUE
    QuietStart = TRUE
    LateStatements = FALSE
    MaxCrashes = 2
    MaxFaults = 2
INVARIANTS
    OneRunPerOperation
    NoticesStayTrue
PROPERTIES
    OutcomeIsFinal
    CompletedNotReexecuted
    RegistrySpec
    PendingRowsSettle
