SPECIFICATION FairSpec
CONSTANTS
    t1 = t1
    k1 = k1
    a = a
    b = b
    g = g
    c1 = c1
    c2 = c2
    p1 = p1
    p2 = p2
    None = None
    Recoverer = Recoverer
    Tenants = {t1}
    Cases = {k1}
    TenantOf <- MCTenantOf
    Commands = {a}
    ScopeOf <- MCScopeOf
    KeyOf <- MCKeyOf
    Callers = {p1}
    Controls = {c1}
    RecoverLimit = 1
    MaxCalls = 1
    MaxCrashes = 1
PROPERTY
    StopsSettle
CHECK_DEADLOCK FALSE
