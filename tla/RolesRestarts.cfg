SPECIFICATION Spec
CONSTANTS
    m1 = m1
    m2 = m2
    r1 = r1
    r2 = r2
    r3 = r3
    Server = {s1}
    ModuleName = {m1, m2}
    RoleName = {r1, r2, r3}
    ModuleOf <- TwoInOneOneInOther
    SeedAdmin = TRUE
    Copy = {c1, c2}
    Group = {g1, g2}
    User = {u1, u2}
    Null = Null
    Gone = Gone
    MaxSyncing = 1
    WithEdits = TRUE
SYMMETRY Symmetry
INVARIANTS
    TypeOK
    SyncedIsComplete
PROPERTIES
    NoDuplicates
    IdempotentOnRerun
