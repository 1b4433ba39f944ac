SPECIFICATION Spec
CONSTANTS
    Events = {e1}
    Workers = {w1}
    BatchSize = 1
    Lease = 2
    Fence = 4
    RetryBase = 1
    RetryMaximum = 4
    ExponentCap = 2
    MaxAttempts = 2
    Retention = 2
    MaxFailures = 1
    None = None
SYMMETRY Interchangeable
INVARIANTS
    ProcessedMeansApplied
