CONSTANTS
    fixtureRun = fixtureRun
    scenario = scenario
    event0 = event0
    w1 = w1
    None = None
    Writers = {w1, w2}
    Creates <- TheCreates
    Readers = {reader}
    Reads <- TheReads
    Resets = {reset1}
    Mortal = {w2}
    FixtureRuns = {fixtureRun}
    ScenarioOf <- TheScenarios
    FixtureItems <- TheItems
SPECIFICATION Spec
INVARIANTS
    TypeOK
    AnswersBracketed
    FailedWroteNothing
    ResetWipesEvidence
PROPERTY EveryoneAnswered
