\* What the sources come to under the scheduler: they end, snapshots repair
\* what was lost, and the poller makes up for a stream. Four edits delete a flag,
\* create it again and let a fetch run ahead of a deletion. No symmetry.
SPECIFICATION FairSpec
CONSTANTS
    Flags = {f1}
    Segments = {}
    Runner = runner
    Pollers = {p1}
    None = none
    All = all
    FallbackThreshold = 2
    BadEdits = {}
    MaxEdits = 4
    f1 = f1
    p1 = p1
PROPERTIES
    SourcesEnd
    SnapshotsRepair
    LostStreamIsRepaired
CHECK_DEADLOCK FALSE
