CONSTANTS
    ana = ana
    bo = bo
    NoOne = NoOne
    Keys = {k1}
    Owners = {w1}
    Humans = {ana, bo}
    Services = {"api"}
    Incident <- MCIncident
    Proposals <- MCProposals
    Roster <- MCRoster
    Switchable = {"global"}
    HourlyLoads = {0}
SPECIFICATION Spec
PROPERTY MovesOnlyAsDocumented
CHECK_DEADLOCK FALSE
