SPECIFICATION Spec
CONSTANTS
    Absent = Absent
    r1 = r1
    r2 = r2
    Requests = {r1, r2}
    Notices <- MCNotices
    RelatedAlertTypes <- MCRelatedAlertTypes
    TemporalWindow = 1
    CandidateLookback = 3
    DebounceSeconds = 2
    InvestigationDebounce = 1
    MaxAttempts = 2
    MaxTime = 4
    MaxReceived = 3
SYMMETRY Symmetry
INVARIANTS TypeOK AlertsDecideTriage CommandsApplyOnce
PROPERTY NewIncidentIsUnrelated
CHECK_DEADLOCK FALSE
