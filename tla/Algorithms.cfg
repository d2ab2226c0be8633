\* Six-bit integers for the backoff, six buckets, operands of MCAlgorithms.
SPECIFICATION AlgorithmsSpec
CONSTANTS
    Half = 32
    MaxFailures = 8
    Buckets = 6
    MaxKeys = 2
    NoValue = noValue
    None = none
    FirstSecond = 0
    LastSecond = 3
    Regex <- MCRegex
    Texts <- MCTexts
    Probes <- MCProbes
    WarningKeys = {w1, w2, w3}
    k1 = k1
    k2 = k2
    k3 = k3
INVARIANTS
    WaitsGrowWithinBounds
    VersionsFit
    OperatorsFit
    NewNamesNeverOpen
    RolloutsAreFair
    
    SkipsAreToldOnce
CHECK_DEADLOCK FALSE
