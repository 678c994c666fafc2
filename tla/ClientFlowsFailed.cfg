\* The same instance: what unwrapOperation says of the flows that resolve.
SPECIFICATION Spec
CONSTANTS
    c1 = c1
    c2 = c2
    p1 = p1
    Calls = {c1, c2}
    Known = {p1}
    Terms <- SmallTerms
    MaxTimes = 2
CHECK_DEADLOCK FALSE
INVARIANT
    ResolvedIsDone
