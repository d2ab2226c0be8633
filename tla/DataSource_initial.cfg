\* An unknown enum value in the initial load.
SPECIFICATION Spec
CONSTANTS
    Flags = {f1}
    Segments = {}
    Runner = runner
    Pollers = {p1}
    None = none
    All = all
    FallbackThreshold = 1
    BadEdits = {1}
    MaxEdits = 1
    f1 = f1
    p1 = p1
INVARIANT StoreIsEvaluable
CHECK_DEADLOCK FALSE
