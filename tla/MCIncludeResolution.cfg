SPECIFICATION Spec
CONSTANTS
    a = a
    b = b
    c = c
    NoTarget = NoTarget
    Target = {a, b, c}
    RootTarget = a
    Size = {1, 2}
    Denial = {"not-found"}
    MaxDepth = 2
    MaxCalls = 3
    MaxBytes = 2
    MaxWarnings = 1
    MaxDirectives = 2
INVARIANTS
    TypeOK
    AcyclicStack
    LatchExact
    ReportsNest
    ResolvedWasRead
PROPERTIES
    Terminates
    ResolvedStays
    NeverSilent
    ImplementsBudget
