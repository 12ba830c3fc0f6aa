SPECIFICATION FairSpecAfterLogins
CONSTANTS
    User = {u1}
    Request = {r1, r2, r3}
    Null = Null
    Logins = {r1}
    AccessTtl = 1
    RefreshTtl = 2
    Retention = 1
    MaxTime = 3
    MaxInFlight = 2
VIEW PresentState
PROPERTIES
    ImplementsLifecycle
    EveryRequestEnds
    OldRowsArePurged
\* Once its requests are used up and the clock has stopped, the model stops.
CHECK_DEADLOCK FALSE
