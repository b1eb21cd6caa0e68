SPECIFICATION MCSpec
CHECK_DEADLOCK FALSE
CONSTANTS
    None = None
    t1 = t1
    k1 = k1
    k2 = k2
    i1 = i1
    i2 = i2
    w1 = w1
    Tenants = {t1}
    Cases = {k1, k2}
    TenantOf <- MCTenantOf
    Enrolls = {1, 2, 3}
    KeyOf <- MCKeyOf
    Expected <- MCExpected
    Issues = {1, 2}
    IssueCase <- MCIssueCase
    Uses = {1, 2, 3}
    LeaseOf <- MCLeaseOf
    Acquires = {1, 2}
    NetworkCaseOf <- MCNetworkCaseOf
    Ids = {i1, i2}
    IdOf <- MCIdOf
    Vacant = Vacant
    Workflows = {w1}
    EngineCaseOf <- MCEngineCaseOf
    Starts = {1, 2}
    WorkflowOf <- MCWorkflowOf
    SecretIssues = {1, 2}
    SecretKeyOf <- MCSecretKeyOf
    SecretUses = {1, 2, 3}
    SecretOf <- MCSecretOf
    TTL = 1
    MaxTime = 2
    MaxRevision = 1
INVARIANTS
    TypesOK
    LeasesCurrent
    NothingEscapes
PROPERTIES
    JobsContained
    StopsStand
    NoOrphans
