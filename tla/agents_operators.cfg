CONSTANTS
    s1 = s1
    s2 = s2
    s3 = s3
    s4 = s4
    s5 = s5
    alex = alex
    oracle = oracle
    nora = nora
    nova = nova
    None = None
    Harness = harness
    Signups = {s1, s2, s3}
    Operators = {o1, o2}
    Wanted <- TheWanted
    Reserved = {oracle}
    Fixtures = {alex, oracle}
    FixtureTokens = {alex, harness}
    MaxDynamic = 1
    Workers = 2
    Mortal = {o1}
SPECIFICATION FairSpec
INVARIANTS
    TokenPerAgent
    OvershootBounded
    ResetWipes
    HarnessReturns
PROPERTIES
    RestoresFixtures
    EveryoneAnswered
CHECK_DEADLOCK FALSE
