\* Four requests about one hold and two accounts, with a crash; three calls about two
\* fields, with a crash.
SPECIFICATION Spec
CONSTANTS
    r1 = r1
    r2 = r2
    r3 = r3
    r4 = r4
    c1 = c1
    c2 = c2
    c3 = c3
    Accounts = {"alice", "bob"}
    Operations = {"op"}
    Requests = {r1, r2, r3, r4}
    Quantities = {1, 3}
    Asked <- SomeAsked
    MaxCrashes = 1
    FinIds = {"alice"}
    Fields = {"account", "network"}
    Names = {"x"}
    Submitted <- SomeSaves
    Calls = {c1, c2, c3}
    MaxRestarts = 1
SYMMETRY Symmetry
CHECK_DEADLOCK FALSE
INVARIANTS
    TypeOK
    ReceiptsExplainBalances
    HeldComesBack
    SavedIsFound
    MixedOnlyByOverlap
