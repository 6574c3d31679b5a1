CONSTANTS
    a = a
    b = b
    r1 = r1
    Agents = {a, b}
    Routes = {r1}
    From <- MCFrom
    To <- MCTo
    Policies <- MCPolicies
    MaxLength = 5
    Limit = 3
    RecordSize = 2
SPECIFICATION Spec
CHECK_DEADLOCK FALSE
INVARIANTS
    TypeOK
    SuccessMeansHandled
    FailureHasCause
PROPERTY RouteReturns
