CONSTANTS
    bo = bo
    NoOne = NoOne
    Keys = {k1}
    Owners = {w1}
    Humans = {bo}
    Services = {"api"}
    Incident <- MCIncident
    Proposals <- MCProposals
    Roster <- MCRoster
    HourlyLoads = {0}
    Switchable = {"global"}
    MaxCrashes = 2
SPECIFICATION FairRunnerSpec

PROPERTIES
    ApprovedSettles
    ApprovalIsDecided
CHECK_DEADLOCK FALSE
