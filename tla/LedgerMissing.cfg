\* A party of an operation may have no account.
SPECIFICATION Spec
CONSTANTS
    a1 = a1
    a2 = a2
    p1 = p1
    p2 = p2
    Accounts = {a1, a2}
    Keys = {"issue", "hold", "settle", "rollback", "pay"}
    Clients = {p1, p2}
    None = None
    NoTx = NoTx
    Amounts = {1, 2}
    Requests <- Mixed
    AccountsFirst = {FALSE}
    MaxFaults = 0
    MaxFunds = 3
PROPERTIES
    RefusedMovesNothing
