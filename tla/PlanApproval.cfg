\* Two requests of any kind about any small plan; the process is killed once.
SPECIFICATION Spec
CONSTANTS
    r1 = r1
    r2 = r2
    Requests = {r1, r2}
    Plans <- SmallPlans
    Setups <- SomeSetups
    MaxCrashes = 1
SYMMETRY Symmetric
CHECK_DEADLOCK FALSE
INVARIANTS
    TypeOK
    CreditsAreBacked
    CreditedOnce
    ApprovedIsCredited
    ApprovedIsPrepared
    ToldItsEnds
