SPECIFICATION Spec
CONSTANTS
    k1 = k1
    k2 = k2
    k3 = k3
    v1 = v1
    v2 = v2
    Absent = Absent
    MapKeys = {k1, k2, k3}
    Values = {v1, v2}
    Ttls <- MCTtls
    MaxEntries = 2
    MaxTime = 4
SYMMETRY MCSymmetry
INVARIANTS
    TypeOK
    OrderMatchesMap
PROPERTIES
    LosesOnlyTheOldest
    ImplementsTtlMap
