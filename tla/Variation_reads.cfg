\* One reader beside every write, two handles that close, two inspectors.
SPECIFICATION VariationSpec
CONSTANTS
    Flags = {f1, f2}
    Segments = {s1}
    VariationKeys = {a, b, undefined}
    Variations = {a, b}
    Typed = {a}
    None = none
    Default = default
    NoBucket = noBucket
    MaxPrerequisiteDepth = 2
    MaxMoves = 1
    FlagDefs <- VariationDefs
    Readers = {r1}
    Clients = {c1, c2}
    Inspectors = 2
    MaxLanded = 1
    f1 = f1
    f2 = f2
    s1 = s1
    a = a
    b = b
    undefined = undefined
    r1 = r1
    c1 = c1
    c2 = c2
SYMMETRY Interchangeable
INVARIANTS
    OneReportPerRead
    DefaultIsNeverHealthy
PROPERTIES
    ReadsAreFresh
CHECK_DEADLOCK FALSE
