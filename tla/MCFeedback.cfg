SPECIFICATION Spec
CONSTANTS
    m1 = m1
    m2 = m2
    a1 = a1
    a2 = a2
    d1 = d1
    Mails = {m1, m2}
    Addresses = {a1, a2}
    To <- MCTo
    Via <- MCVia
    MaxDelays <- MCMaxDelays
    Noticed = {m2}
    Domains = {d1}
    NoDomain = NoDomain
    DomainOf <- MCDomainOf
    h1 = h1
    h2 = h2
    Scores = {35, 95}
    CatchAlls = {"confirmed", "not_catch_all"}
    Handlers = {h1, h2}
    MaxWire = 2
    MaxFaults = 1
SYMMETRY MCSymmetry
CHECK_DEADLOCK FALSE
INVARIANT HistoryIsFair
PROPERTY ScoreFollowsOutcomes
