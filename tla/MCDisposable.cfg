SPECIFICATION Spec
CONSTANTS
    v1 = v1
    v2 = v2
    steady = steady
    extra = extra
    Verifiers = {v1, v2}
    Domains = {steady, extra}
    BuiltIn = {steady}
    Extra = {extra}
    Lists <- MCLists
    MaxCalls <- MCCalls
INVARIANTS
    TypeOK
    SteadyNeverMissing
    AdditionalReturn
    OneScheduleEach
PROPERTY CallsEnd
