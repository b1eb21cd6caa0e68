SPECIFICATION FairSpec
CONSTANTS
    t1 = t1
    k1 = k1
    k2 = k2
    x1 = x1
    x2 = x2
    x3 = x3
    x4 = x4
    i1 = i1
    native = native
    oci = oci
    a1 = a1
    a2 = a2
    None = None
    Tenants = {t1}
    Cases = {k1, k2}
    TenantOf <- MCTenantOf
    Executors = {native, oci}
    Networked = {oci}
    Ids = {i1}
    ExecutorOf <- MCExecutorOf
    IdOf <- MCIdOf
    CaseOf <- MCCaseOf
    Calls = {x1, x2, x3, x4}
    Appliers = {a1, a2}
CONSTRAINT Scenario
INVARIANTS
    TypeOK
    Contained
    OneExecutionPerId
PROPERTIES
    ImplementsContainment
    WaitersReturn
CHECK_DEADLOCK FALSE
