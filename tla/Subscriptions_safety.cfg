\* Two clients of one core, a caller and a source whose listeners call back;
\* no symmetry, for SourcesEnd.
SPECIFICATION FairSpec
CONSTANTS
    Callers = {c1}
    Sources = {s1}
    Handles = {h1, h2}
    None = none
    MaxSubs = 3
    MaxUpdates = 1
    c1 = c1
    s1 = s1
    h1 = h1
    h2 = h2
INVARIANTS
    TypeOK
    SubscriptionsFollowOwners
    ChangesReachListeners
PROPERTY SourcesEnd
CHECK_DEADLOCK FALSE
