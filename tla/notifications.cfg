SPECIFICATION FairSpec
CONSTANTS
    w1 = w1
    w2 = w2
    x1 = x1
    x2 = x2
    x3 = x3
    Deliveries = {d1, d2}
    Runs = {x1, x2, x3}
    Workers = {w1, w2}
    WorkerOf <- TwoInOneProcess
    BatchSize = 2
    Lease = 1
    RetryDelay = 1
    MaxAttempts = 4
    AttemptsCheck = 6
    MaxFailures = 2
    None = None
INVARIANTS
    TypeOK
    SentAgainOnlyAfterFailure
    AttemptsExplainTheRow
PROPERTIES
    SettledStaysSettled
    EveryDeliveryIsSettled
