SPECIFICATION Spec
CONSTANTS
    r1 = r1
    r2 = r2
    r3 = r3
    m1 = m1
    p1 = p1
    p2 = p2
    x = x
    y = y
    None = None
    Runs = {r1, r2, r3}
    Keys = {k1}
    Docs <- SomeDocs
    MaxAttempts = 2
    MaxVersion = 2
    MaxWrites = 4
SYMMETRY Symmetry
CHECK_DEADLOCK FALSE
INVARIANTS
    SyncedIsOnBranch
    LinesInCausalOrder
    SequentialHistory
PROPERTY
    BranchOnlyGrows
