--------------------------- MODULE MCRemediation ---------------------------
(* A small instance of Remediation: one service whose restart is          *)
(* retry-safe and whose scaling is not, one approver of each kind.         *)
EXTENDS Remediation, TLC

CONSTANTS ana, bo

Planner == INSTANCE RemediationPlanner

\* The planner's restart, and an operator who wants more instances.
MCProposals ==
    LET planned == Planner!plan({"resource_memory", "dependency"}, "api", bo) IN
    planned \cup {[p EXCEPT !.action_id = "scale_service", !.increase_by = 3,
                            !.source = "operator", !.proposed_by = ana] : p \in planned}

MCIncident == [environment |-> "production", neighborhood |-> {"api"},
               rca_component |-> "api"]

MCRoster == [h \in Humans |->
    IF h = ana THEN {"service_owner"} ELSE {"on_call_engineer", "service_owner"}]

Symmetry == Permutations(Keys) \cup Permutations(Owners)

=============================================================================
