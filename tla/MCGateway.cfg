SPECIFICATION Spec
CONSTANTS
    r1 = r1
    r2 = r2
    r3 = r3
    r4 = r4
    c1 = c1
    c2 = c2
    Requests = {r1, r2, r3, r4}
    Clients = {c1, c2}
    ClientOf <- MCClientOf
    Emails <- MCEmails
    BatchMax = 2
    Concurrency = 2
    Burst = 2
    Refill = 2
    DailyLimit = 2
    DayLength = 3
    MaxTime = 3
SYMMETRY MCSymmetry
INVARIANTS
    TypeOK
    RateBounded
    QuotaHonest
    BatchWhole
