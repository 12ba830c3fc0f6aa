SPECIFICATION Spec
CONSTANTS
    Token = {t1}
    Environment = {e1, e2}
    Request = {r1, r2, r3}
    MaxInFlight = 3
    Null = Null
SYMMETRY Symmetry
INVARIANTS
    TypeOK
    GuardAsDecided
    ShownSecretIsStored
    RemovalsAreRecorded
\* Once its requests are used up the model stops.
CHECK_DEADLOCK FALSE
