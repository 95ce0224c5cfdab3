SPECIFICATION Spec
CONSTANTS
    inv = inv
    Callers = {inv}
    Investigation = inv
    Services = {"orders", "mail"}
    Service = "orders"
    Dependencies <- MCDependencies
    CreatedAt = 10000
    Instants <- MCInstants
    Queries <- MCQueries
    e1 = e1
    e2 = e2
    e3 = e3
    EvidenceIds = {e1, e2, e3}
    Keys = {"H1", "H2"}
    MaxCited = 1
    MinHypothesesConsidered = 2
    MinSupportingEvidence = 2
    MinSupportingEvidenceTypes = 2
SYMMETRY Symmetry
INVARIANTS TypeOK ConclusionIsGrounded WindowsFitBounds
PROPERTY HistoryIsKept
