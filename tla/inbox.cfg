SPECIFICATION FairSpec
CONSTANTS
    Events = {e1, e2}
    Workers = {w1, w2}
    BatchSize = 2
    Lease = 1
    Fence = 2
    RetryBase = 1
    RetryMaximum = 1
    ExponentCap = 1
    MaxAttempts = 2
    Retention = 1
    MaxFailures = 1
    None = None
INVARIANTS
    TypeOK
    AppliedAgainOnlyAfterFailure
    OneHandlerPerEvent
    NoEventIsDropped
PROPERTIES
    SettledReceiptIsFinal
    EveryReceiptIsSettled
