\* A client call may land between recovery's query and its answer.
SPECIFICATION Spec
CONSTANTS
    c1 = c1
    c2 = c2
    q1 = q1
    k1 = k1
    k2 = k2
    issue = issue
    hold = hold
    None = None
    Requests = {q1}
    Methods = {issue}
    MethodOf <- OneMethod
    Cids = {c1, c2}
    Calls = {k1, k2}
    Receipts = {"r1"}
    Unmappable = {}
    RouterConfigured = TRUE
    QuietStart = FALSE
    LateStatements = FALSE
    MaxCrashes = 0
    MaxFaults = 0
PROPERTIES
    CompletedNotReexecuted
