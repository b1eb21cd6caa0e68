SPECIFICATION MCSpec
CHECK_DEADLOCK FALSE
CONSTANTS
    None = None
    Calls <- ExpiryCalls
    CommandOf <- ExpiryCommands
    Actors <- MCActors
    Approvers <- MCApprovers
    Leavers = {"a1"}
    Principals <- MCPrincipals
    PrincipalOf <- MCPrincipalOf
    Requestor = "r"
    Owner = "o"
    Service = "s"
    Required = 2
    MaximumUses = 2
    ValidFrom = 0
    ValidUntil = 1
    MaxTime = 1
    Submits = {}
    RouteUses = 2
    Absent = Absent
INVARIANT GrantedExpires
