SPECIFICATION Spec
CONSTANTS
    User = {u1}
    Request = {r1, r2, r3}
    Null = Null
    Logins = {}
    AccessTtl = 1
    RefreshTtl = 2
    Retention = 1
    MaxTime = 1
    MaxInFlight = 2
SYMMETRY Symmetry
INVARIANT SessionEndedByLogout
CHECK_DEADLOCK FALSE
