CONSTANTS
    r1 = r1
    r2 = r2
    r3 = r3
    b1 = b1
    b2 = b2
    b3 = b3
    None = None
    Requests <- TwoRequests
    Results <- TwoRequests
    Keys = {k1}
    Fingerprints = {b1, b2}
    Parent <- RootPosts
    TTL = 2
    MaxWaits = 1
    MaxTime = 3
    MaxResets = 0
    Prompt = TRUE
SYMMETRY RequestSymmetry
SPECIFICATION Spec
INVARIANTS
    AnswerMatchesBody
CHECK_DEADLOCK FALSE
