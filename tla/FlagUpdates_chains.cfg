\* Chains of three flags, one flag and any segment per snapshot.
SPECIFICATION Spec
CONSTANTS
    Flags = {f1, f2, f3}
    Segments = {s1}
    VariationKeys = {a, b, undefined}
    Variations = {a, b}
    None = none
    NoBucket = noBucket
    MaxPrerequisiteDepth = 2
    MaxMoves = 1
    FlagDefs <- PlainDefs
    f1 = f1
    f2 = f2
    f3 = f3
    s1 = s1
    a = a
    b = b
    undefined = undefined
SYMMETRY Interchangeable
INVARIANTS
    MemoChangesNothing
PROPERTIES
    ReportsWhatMoves
