SPECIFICATION SmallSpec
CONSTANTS
    Project = {p1}
    Environment = {e1, e2}
    Code = {a, b}
    Flag = {f1}
    Token = {t1}
    Request = {r1, r2}
    Client = {c1}
    Null = Null
    Absent = Absent
    NotANumber = NotANumber
    MaxTime = 1
    MaxRequests = 2
    Bodies <- FewBodies
    FlagRows <- FewRows
    Filters <- OneField
SYMMETRY Symmetry
INVARIANTS
    TypeOK
    OneWriteIsSeenWholeOrNotAtAll
    EnvFilterSplitsTheList
    OnlyStaleSavesUndo
    ChangesAreRecorded
    ScopeRemovalsAreRecorded
\* Once its requests are used up the model stops.
CHECK_DEADLOCK FALSE
