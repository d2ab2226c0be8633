\* Two callers, the ticker and stop(), every answer; the buffer holds two
\* batches and overflows.
SPECIFICATION Spec
CONSTANTS
    Callers = {c1, c2}
    c1 = c1
    c2 = c2
    Ticker = ticker
    Stopper = stopper
    None = none
    BatchSize = 2
    MaxQueueSize = 3
    MaxEvents = 5
    Answers = {"accepted", "rejected", "retryable"}
SYMMETRY CallerSymmetry
INVARIANTS
    TypeOK
    DrainsCoalesce
    BufferOrdered
    NothingVanishes
    BoundsHold
PROPERTY
    PipelineSpec
CHECK_DEADLOCK FALSE
