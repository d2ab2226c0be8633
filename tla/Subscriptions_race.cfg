\* OnUpdate races Close on one client while a sibling keeps the core.
SPECIFICATION Spec
CONSTANTS
    Callers = {c1, c2}
    Sources = {s1}
    Handles = {h1, h2}
    None = none
    MaxSubs = 1
    MaxUpdates = 1
    c1 = c1
    c2 = c2
    s1 = s1
    h1 = h1
    h2 = h2
INVARIANT ClosedClientHasNoListener
SYMMETRY Symmetric
CHECK_DEADLOCK FALSE
