SPECIFICATION Spec
CONSTANTS
    c1 = c1
    c2 = c2
    c3 = c3
    symA = symA
    symB = symB
    Calls = {c1, c2, c3}
    Symbols = {symA, symB}
    SymbolOf <- MCSymbolOf
    None = none
    Limit <- MCLimit
    Period = 2
    Span = 1
    LeaseSeconds = 1
    LocalZero = {"requests", "symbols"}
    Exclusive = TRUE
    MaxSnapshots = 1
    MaxTime = 2
SYMMETRY SameSymbol
INVARIANTS
    TypeOK
    LedgerBalanced
    SentIsClaimed
    RequestsWithinLimit
PROPERTY
    AdmissionWithinLimit
CHECK_DEADLOCK FALSE
