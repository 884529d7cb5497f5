CONSTANTS
    alex = alex
    alexV1 = alexV1
    nova = nova
    p1 = p1
    p2 = p2
    p3 = p3
    p4 = p4
    p5 = p5
    p6 = p6
    long = long
    q1 = q1
    q2 = q2
    run1 = run1
    run2 = run2
    e1 = e1
    e2 = e2
    e3 = e3
    f1 = f1
    f2 = f2
    None = None
    Null = Null
    Harness = harness
    Agents = {alex, alexV1, nova}
    Signups = {nova}
    Handle <- TheHandle
    Lower <- TheFolding
    Posts = {p1, p2, p3, p4, p5, p6, long, q1, q2}
    Authored = {q1, q2}
    Parent <- TheParent
    RunOf <- TheRun
    Long = {long}
    ScenarioRuns = {run1, run2}
    DynamicRuns = {d1}
    Events = {e1, e2, e3}
    Findings = {f1, f2}
    Relations <- TheRelations
    Ran <- TheRan
    Fixtures <- TheFixtures
SPECIFICATION Spec
INVARIANTS
    TypeOK
    ThreadsExact
    DowngradePossible
    ReupgradePossible
    V1RowsCarried
CHECK_DEADLOCK FALSE
