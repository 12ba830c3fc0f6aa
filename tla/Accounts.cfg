SPECIFICATION SmallSpec
CONSTANTS
    User = {u1, u2}
    Group = {g1, g2}
    Name = {n1, n2}
    Role = {ra}
    ra = ra
    Required <- OneRole
    Request = {r1, r2}
    MaxInFlight = 2
    Null = Null
    Bodies <- FewBodies
SYMMETRY Symmetry
INVARIANTS
    TypeOK
    OnlyStaleSavesUndo
    ServedAsDecided
    LoneChangesAreRecorded
    RemovalsAreRecorded
\* Once its requests are used up the model stops.
CHECK_DEADLOCK FALSE
