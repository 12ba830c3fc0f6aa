SPECIFICATION Spec
CONSTANTS
    User = {u1, u2}
    Request = {r1, r2, r3}
    Null = Null
    Logins = {}
    AccessTtl = 1
    RefreshTtl = 2
    Retention = 0
    MaxTime = 2
    MaxInFlight = 2
SYMMETRY Symmetry
INVARIANTS
    TypeOK
    RevokedNeverAccepted
    RefreshSpendsItsToken
    LogoutEndsEarlierAccess
    DeactivatedNeverServed
    OthersKeepTheirSession
    OneRefreshPerToken
    OnlyOverlapsOutliveLogout
\* Once its requests are used up and the clock has stopped, the model stops.
CHECK_DEADLOCK FALSE
