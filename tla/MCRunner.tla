------------------------------ MODULE MCRunner ------------------------------
(* A small instance of RemediationRunner: one remediation, two workers.    *)
EXTENDS RemediationRunner, TLC

CONSTANT bo

Planner == INSTANCE RemediationPlanner

MCProposals == Planner!plan({"resource_memory", "traffic"}, "api", bo)

MCIncident == [environment |-> "production", neighborhood |-> {"api"},
               rca_component |-> "api"]

MCRoster == [h \in Humans |-> {"service_owner"}]

Symmetry == Permutations(Owners)

=============================================================================
