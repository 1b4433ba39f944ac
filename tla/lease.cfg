SPECIFICATION FairSpec
CONSTANTS
    p1 = p1
    p2 = p2
    p3 = p3
    x1 = x1
    x2 = x2
    x3 = x3
    Processes = {p1, p2, p3}
    Executions = {x1, x2, x3}
    ProcessOf <- OneEach
    Lease = 3
    Interval = 2
    RetryInterval = 1
    RenewalsInTime = TRUE
    MaxFailures = 3
    None = None
INVARIANTS
    OneRunAtATime
PROPERTIES
    JobRunsAgain
