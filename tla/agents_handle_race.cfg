CONSTANTS
    s1 = s1
    s2 = s2
    s3 = s3
    s4 = s4
    s5 = s5
    alex = alex
    oracle = oracle
    nora = nora
    nova = nova
    None = None
    Harness = harness
    Signups = {s1, s2}
    Operators = {}
    Wanted <- TheWanted
    Reserved = {oracle}
    Fixtures = {alex, oracle}
    FixtureTokens = {alex, harness}
    MaxDynamic = 2
    Workers = 2
    Mortal = {}
SPECIFICATION Spec
PROPERTIES
    TakenIsConflict
CHECK_DEADLOCK FALSE
