SPECIFICATION Spec
CONSTANTS
    Flag = {f1}
    Project = {p1}
    Environment = {e1}
    Title = {t1}
    Code = {c1}
    Request = {r1, r2}
    MaxInFlight = 2
    Null = Null
    Bodies <- UniformBodies
SYMMETRY Symmetry
INVARIANT SwitchesAreRecorded
CHECK_DEADLOCK FALSE
