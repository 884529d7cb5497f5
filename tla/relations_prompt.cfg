CONSTANTS
    r1 = r1
    r2 = r2
    r3 = r3
    None = None
    Requests <- ThreeRequests
    Results <- ThreeRequests
    Keys <- ScopeKeys
    Fingerprints = {b1}
    Actors = {a1}
    Targets = {a1, t1}
    ClientIds = {c1}
    TTL = 2
    MaxWaits = 1
    MaxTime = 3
    MaxResets = 1
    Prompt = TRUE
SYMMETRY RequestSymmetry
SPECIFICATION Spec
INVARIANTS
    TypeOK
    ClearedWorldHasNoRows
PROPERTIES
    SetKept
    OneInsertPerWindow
CHECK_DEADLOCK FALSE
