SPECIFICATION SmallSpec
CONSTANTS
    Flag = {f1, f2}
    Project = {p1}
    Environment = {e1, e2}
    Title = {t1, t2}
    Code = {c1, c2}
    Request = {r1, r2}
    MaxInFlight = 2
    Null = Null
    Bodies <- MixedBodies
SYMMETRY Symmetry
VIEW PresentState
INVARIANTS
    TypeOK
    OnlyStaleSavesUndo
    AcknowledgedIsWritten
    LoneSwitchesAreRecorded
    RemovalsAreRecorded
\* Once its requests are used up the model stops.
CHECK_DEADLOCK FALSE
