\* Enqueues only, a healthy endpoint, batch size 1: is every event sent?
SPECIFICATION EnqueueOnlySpec
CONSTANTS
    Callers = {c1, c2}
    c1 = c1
    c2 = c2
    Ticker = ticker
    Stopper = stopper
    None = none
    BatchSize = 1
    MaxQueueSize = 2
    MaxEvents = 3
    Answers = {"accepted"}
SYMMETRY CallerSymmetry
INVARIANT FullBatchIsSent
CHECK_DEADLOCK FALSE
