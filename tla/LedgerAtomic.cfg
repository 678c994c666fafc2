\* Callers open the accounts first, or do not; two statements in flight, one lost.
SPECIFICATION Spec
CONSTANTS
    a1 = a1
    a2 = a2
    p1 = p1
    p2 = p2
    Accounts = {a1, a2}
    Keys = {"issue", "hold", "settle", "rollback", "pay"}
    Clients = {p1, p2}
    None = None
    NoTx = NoTx
    Amounts = {1, 2}
    Requests <- Mixed
    AccountsFirst = {TRUE, FALSE}
    MaxFaults = 1
    MaxFunds = 1
SYMMETRY Symmetric
INVARIANTS
    TypeOK
    AnswersAreJournaled
    JournalExplains
PROPERTIES
    AtomicSpec
