\* The promises to the callers of enqueue(), flush() and stop(), with every
\* answer and the fairness of the Go scheduler; no symmetry.
SPECIFICATION FairPSpec
CONSTANTS
    Callers = {c1, c2}
    c1 = c1
    c2 = c2
    Ticker = ticker
    Stopper = stopper
    None = none
    BatchSize = 1
    MaxQueueSize = 2
    MaxEvents = 2
    Answers = {"accepted", "rejected", "retryable"}
INVARIANT StopFailsAtMostOnce
PROPERTIES
    OwnFlushKeepsPromise
    CallsReturn
    ShutdownSettlesAll
    EveryEventSettles
CHECK_DEADLOCK FALSE
