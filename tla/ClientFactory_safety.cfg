\* Three goroutines race to get, close and reset one key; no symmetry, for
\* CallsReturn.
SPECIFICATION FairSpec
CONSTANTS
    Threads = {g1, g2, g3}
    Keys = {k1}
    None = none
    MaxCores = 6
    MaxGets = 3
    MaxResets = 1
    g1 = g1
    g2 = g2
    g3 = g3
    k1 = k1
INVARIANTS
    TypeOK
    RefCountExact
    OneLiveCore
    NothingLeaks
PROPERTIES
    RegistrySpec
    CallsReturn
CHECK_DEADLOCK FALSE
