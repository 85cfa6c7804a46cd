CONSTANTS
    UserIds = {u1}
    Logins = {l1, l2}
    Requests = {r1, r2}
    Operators = {a1, a2}
    MaxHash = 4
SPECIFICATION Spec
SYMMETRY HandlerSymmetry
INVARIANTS LiveSessionsAreCurrent
PROPERTIES AdminOnly ResetIsNotOvertaken NeverSilentlyAdmin RefinesRevocation
