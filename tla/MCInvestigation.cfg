SPECIFICATION FairSpec
CONSTANTS
    w1 = w1
    w2 = w2
    NoOne = NoOne
    Workers = {w1, w2}
    Tools <- MCTools
    Turns <- MCTurns
    MaxIterations = 3
    MaxToolCalls = 2
    MaxIdentical = 1
    MaxEvidence = 2
    MaxInvalidTurns = 2
    MaxToolFailures = 2
    ModelAttempts = 2
    MaxFaults = 1
INVARIANTS TypeOK BudgetsSurviveRestart
PROPERTIES ReadsAsOneRun OnlyLatestClaimWrites EventuallyEnds
