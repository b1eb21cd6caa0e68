SPECIFICATION MCSpec
CHECK_DEADLOCK FALSE
SYMMETRY Symmetry
CONSTANTS
    None = None
    Calls <- MCCalls
    CommandOf <- MCCommands
    Actors <- MCActors
    Approvers <- MCApprovers
    Leavers = {"a1"}
    Principals <- MCPrincipals
    PrincipalOf <- MCPrincipalOf
    Requestor = "r"
    Owner = "o"
    Service = "s"
    Required = 2
    MaximumUses = 2
    ValidFrom = 1
    ValidUntil = 2
    MaxTime = 2
    Submits = {s1, s2, s3}
    RouteUses = 2
    Absent = Absent
INVARIANTS
    TypesOK
    RevisionsAuthorized
    DispatchAuthorized
    EndedMeansEnded
PROPERTY
    ImplementsMachine
