CONSTANTS
    ana = ana
    bo = bo
    NoOne = NoOne
    Keys = {k1, k2, k3}
    Owners = {w1}
    Humans = {ana, bo}
    Services = {"api"}
    Incident <- MCIncident
    Proposals <- MCProposals
    Roster <- MCRoster
    Switchable = {"global"}
    HourlyLoads = {0}
SYMMETRY Symmetry
SPECIFICATION Spec
INVARIANTS
    TypeOK
    IncidentMatchesRemediation
    OneLiveRemediation
    VerifyingHasVerification
    AttemptedRemediationsBounded
    OnlyApprovedExecutes
PROPERTIES
    SettledIsFinal
    LeavesTheTableOnlyToWithdraw
CHECK_DEADLOCK FALSE
