SPECIFICATION Spec
CONSTANTS
    Token = {t1}
    Environment = {e1, e2}
    Request = {r1, r2}
    MaxInFlight = 2
    Null = Null
SYMMETRY Symmetry
PROPERTIES
    UpdateKeepsSecret
\* Once its requests are used up the model stops.
CHECK_DEADLOCK FALSE
