\* Two calls of any flows, one plan that was there before.
SPECIFICATION Spec
CONSTANTS
    c1 = c1
    c2 = c2
    p1 = p1
    Calls = {c1, c2}
    Known = {p1}
    Terms <- SmallTerms
    MaxTimes = 2
CHECK_DEADLOCK FALSE
INVARIANTS
    TypeOK
    ResolvedUnlessFailed
    ChangesAreHeard
    PaidByTaker
    ExecutedAsIntended
PROPERTY
    CallsEnd
