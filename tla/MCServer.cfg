SPECIFICATION FairServerSpec
CONSTANTS
    b1 = b1
    b2 = b2
    w1 = w1
    Batches = {b1, b2}
    NoBatch = NoBatch
    Workers = {w1}
    QueueCap = 1
    MaxItems = 2
    Total <- MCTotal
    ItemConc = 1
    RetryMax = 1
    WebhookRetries = 1
    Notified = {b2}
    Paged = b1
    Limits = {0, 1, 3}
    DefaultLimit = 2
    IntMax = 3
INVARIANTS
    GracefulExitLosesNothing
    StoresOutliveBatches
    PagesAssemble
PROPERTIES
    AcceptedFinishes
    RequestsEnd
    ShutdownEnds
