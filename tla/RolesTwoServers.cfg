SPECIFICATION Spec
CONSTANTS
    m1 = m1
    m2 = m2
    r1 = r1
    r2 = r2
    r3 = r3
    Server = {s1, s2}
    ModuleName = {m1}
    RoleName = {r1, r2}
    ModuleOf <- TwoInOneModule
    SeedAdmin = TRUE
    Copy = {c1, c2}
    Group = {g1, g2}
    User = {u1}
    Null = Null
    Gone = Gone
    MaxSyncing = 2
    WithEdits = FALSE
SYMMETRY Symmetry
INVARIANT
    SyncedIsComplete
