SPECIFICATION Spec
CONSTANTS
    t1 = t1
    k1 = k1
    a = a
    b = b
    g = g
    c1 = c1
    c2 = c2
    p1 = p1
    p2 = p2
    None = None
    Recoverer = Recoverer
    Tenants = {t1}
    Cases = {k1}
    TenantOf <- MCTenantOf
    Commands = {a, b, g}
    ScopeOf <- MCScopeOf
    KeyOf <- MCKeyOf
    Callers = {p1, p2}
    Controls = {c1, c2}
    RecoverLimit = 2
    MaxCalls = 2
    MaxCrashes = 1
CONSTRAINT Scenario
INVARIANTS
    TypeOK
    InvokedAtMostOnce
    AuditCoversStore
    CleanReturnMeansContained
PROPERTY
    ImplementsRegister
CHECK_DEADLOCK FALSE
