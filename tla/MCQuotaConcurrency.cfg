SPECIFICATION Spec
CONSTANTS
    c1 = c1
    c2 = c2
    c3 = c3
    symA = symA
    symB = symB
    Calls = {c1, c2, c3}
    Symbols = {symA, symB}
    SymbolOf <- MCSymbolOf
    None = none
    Limit <- MCOneAtATime
    Period = 2
    Span = 1
    LeaseSeconds = 2
    LocalZero = {"symbols"}
    Exclusive = TRUE
    MaxSnapshots = 2
    MaxTime = 2
INVARIANT
    ConcurrencyCapped
CHECK_DEADLOCK FALSE
