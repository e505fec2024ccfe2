SPECIFICATION Spec
CONSTANTS
    p1 = p1
    p2 = p2
    i1 = i1
    key1 = key1
    Absent = Absent
    NoKey = NoKey
    Posts = {p1, p2}
    Items = {i1}
    Addresses = {"Ann", "ann", "bob"}
    Normal <- MCNormal
    AddressOf <- MCAddressOf
    KeyOf <- MCKeyOf
    MaxEntries = 1
    CacheTtl = 2
    UnknownTtl = 0
    Minute = 1
    IdemTtl = 2
    RetryMax = 1
    Lists <- MCLists
    MaxTime = 2
    MaxRestarts = 1
CHECK_DEADLOCK FALSE
INVARIANTS
    TypeOK
    ReplayRepeats
    ErasureEffective
PROPERTIES
    HitsAreFresh
    ListTakesEffect
