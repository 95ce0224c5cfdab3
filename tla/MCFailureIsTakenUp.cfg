CONSTANTS
    NoOne = NoOne
    Workers = {w1}
    Alerts = {a1}
    RequiredConsecutive = 1
    MaxInvestigationAttempts = 2
    MaxClaims = 2
SPECIFICATION FairSpec
PROPERTIES
    FailureIsTakenUp
CHECK_DEADLOCK FALSE
