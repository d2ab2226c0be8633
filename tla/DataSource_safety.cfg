\* The stream, two pollers and the listeners over two edits after the first.
SPECIFICATION Spec
CONSTANTS
    Flags = {f1}
    Segments = {s1}
    Runner = runner
    Pollers = {p1, p2}
    None = none
    All = all
    FallbackThreshold = 2
    BadEdits = {2}
    MaxEdits = 3
    f1 = f1
    s1 = s1
    p1 = p1
    p2 = p2
SYMMETRY PollerSymmetry
INVARIANTS
    TypeOK
    PollerFollowsStream
    ListenersCaughtUp
    SourcesDropUnevaluable
CHECK_DEADLOCK FALSE
