SPECIFICATION Spec
CONSTANTS
    b1 = b1
    b2 = b2
    b3 = b3
    w1 = w1
    w2 = w2
    Batches = {b1, b2, b3}
    NoBatch = NoBatch
    Workers = {w1, w2}
    QueueCap = 1
    MaxItems = 3
    Total <- MCTotal
    ItemConc = 2
    RetryMax = 1
    WebhookRetries = 1
    Notified = {b1}
SYMMETRY MCSymmetry
INVARIANT Custody
INVARIANT ResultsAppearWhole
INVARIANT RetriesExhausted
INVARIANT DrainKeepsAccepted
PROPERTY ImplementsService
