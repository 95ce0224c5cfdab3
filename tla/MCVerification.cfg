CONSTANTS
    NoOne = NoOne
    Workers = {w1, w2}
    Alerts = {a1, a2}
    RequiredConsecutive = 2
    MaxInvestigationAttempts = 2
    MaxClaims = 3
SPECIFICATION FairSpec
INVARIANTS
    TypeOK
    ResolvedMeansVerified
    ClaimsRecordInOrder
    VerdictFromEvidence
    UnappliedOnlyWhenNewer
    AttemptsBounded
PROPERTIES
    VerdictIsFinal
    VerificationEnds
CHECK_DEADLOCK FALSE
