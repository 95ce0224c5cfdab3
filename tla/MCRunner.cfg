CONSTANTS
    bo = bo
    NoOne = NoOne
    Keys = {k1}
    Owners = {w1, w2}
    Humans = {bo}
    Services = {"api"}
    Incident <- MCIncident
    Proposals <- MCProposals
    Roster <- MCRoster
    HourlyLoads = {0}
    Switchable = {"global"}
    MaxCrashes = 2
SYMMETRY Symmetry
SPECIFICATION RunnerSpec
INVARIANTS
    RunnerTypeOK
    NeverActsTwice
    ActsOnlyWhenReady
    ExecutedMeansApplied
    OnlyLatestRuns
CHECK_DEADLOCK FALSE
