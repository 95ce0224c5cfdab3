---------------------------- MODULE PolicyEngine ----------------------------
(***************************************************************************)
(* The action catalog and the pure policy decision: packages/remediation/  *)
(* catalog.py and packages/policy/engine.py.                               *)
(*                                                                         *)
(* A proposal is data: the action it names, whether its parameters satisfy *)
(* that action's parameter model (`valid`), how many instances a scaling   *)
(* adds (`increase_by`, 0 for the other actions), its target service, who  *)
(* proposed it and from where, and whether the investigation it rests on   *)
(* has an accepted RCA (`rca`).  Parameter values beyond these never       *)
(* change a decision.                                                      *)
(***************************************************************************)
EXTENDS Naturals, FiniteSets

CONSTANTS
    Humans,        \* people an approver roster or a proposal can name
    Services,      \* services of the topology
    Incident       \* facts of the one incident modelled: see IncidentFacts

Environments == {"production", "staging", "development"}

(* The facts of an incident that policy reads and nothing changes: where   *)
(* it is, which services its neighborhood holds, and the component its RCA *)
(* blames.                                                                 *)
IncidentFacts ==
    [environment : Environments, neighborhood : SUBSET Services,
     rca_component : Services]

ASSUME IncidentAssumption == Incident \in IncidentFacts

-----------------------------------------------------------------------------
(* CATALOG: the five reviewed entries, with the fields that decide         *)
(* something.  Every entry allows production and staging, needs an RCA     *)
(* whose component is the target, and forbids automatic execution.         *)

Entry(tier, top, attempts, retrysafe, baseline) ==
    [base_blast_radius |-> tier, max_blast_radius |-> top,
     max_attempts |-> attempts, retry_safe |-> retrysafe,
     baseline_required |-> baseline,
     allowed_environments |-> {"production", "staging"},
     approval_mandatory |-> TRUE, auto_execution_allowed |-> FALSE,
     requires_rca |-> TRUE, target_must_match_root_cause |-> TRUE]

ActionIds == {"restart_service", "scale_service", "rollback_deployment",
              "disable_feature_flag", "revert_configuration"}

\* A mistaken review, used by no specification: scaling may run twice.
Faulty_CATALOG ==
    [a \in ActionIds |->
        CASE a = "restart_service"      -> Entry(1, 1, 2, TRUE,  TRUE)
          [] a = "scale_service"        -> Entry(1, 2, 2, FALSE, TRUE)
          [] a = "rollback_deployment"  -> Entry(2, 2, 2, TRUE,  TRUE)
          [] a = "disable_feature_flag" -> Entry(1, 1, 2, TRUE,  FALSE)
          [] a = "revert_configuration" -> Entry(2, 2, 2, TRUE,  TRUE)]

CATALOG ==
    [a \in ActionIds |->
        CASE a = "restart_service"      -> Entry(1, 1, 2, TRUE,  TRUE)
          [] a = "scale_service"        -> Entry(1, 2, 1, FALSE, TRUE)
          [] a = "rollback_deployment"  -> Entry(2, 2, 2, TRUE,  TRUE)
          [] a = "disable_feature_flag" -> Entry(1, 1, 2, TRUE,  FALSE)
          [] a = "revert_configuration" -> Entry(2, 2, 2, TRUE,  TRUE)]

\* The largest max_attempts of any entry.
MaxAttempts == 2

Proposal ==
    [action_id : ActionIds \cup {"unknown"}, valid : BOOLEAN,
     increase_by : 0..5, target : Services \cup {"nowhere"}, rca : BOOLEAN,
     source : {"planner", "operator", "model"}, proposed_by : Humans]

\* get_entry(action_id) is not None
Known(p) == p.action_id \in DOMAIN CATALOG

\* Deterministic tier of one invocation: scaling by more than two is wider.
blast_radius(p) ==
    CATALOG[p.action_id].base_blast_radius
        + (IF p.action_id = "scale_service" /\ p.increase_by > 2 THEN 1 ELSE 0)

\* No tier (None) for an unknown action or for parameters that do not validate.
Tier(p) == IF Known(p) /\ p.valid THEN blast_radius(p) ELSE 0

-----------------------------------------------------------------------------
(* DEFAULT_POLICY, policy-2026.09-1 *)

prohibited_environments == {}
max_blast_radius_by_environment(env) ==
    IF env \in {"production", "staging"} THEN 2 ELSE 0
max_attempted_remediations_per_incident == 2
max_executions_per_service_per_hour == 3
auto_execution_environments == {}
\* A mistaken policy, used by no specification (see Remediation).
Faulty_remediable_incident_statuses == {"RCA_READY", "AWAITING_APPROVAL"}
remediable_incident_statuses == {"RCA_READY"}

approver_roles_by_tier(tier) ==
    CASE tier = 1 -> {"on_call_engineer", "service_owner"}
      [] tier = 2 -> {"service_owner"}
      [] OTHER    -> {}

Roles == {"on_call_engineer", "service_owner"}

(* PolicyEvaluationContext: every dynamic fact a rule may condition on. *)
Context ==
    [incident_status : STRING, rca_available : BOOLEAN,
     attempted : Nat, executions_last_hour : Nat,
     global_kill_switch_engaged : BOOLEAN, service_kill_switch_engaged : BOOLEAN]

(* The rules that deny, as the set of their identifiers.  Rules about the  *)
(* entry run only when there is one, and the blast-radius rules only when  *)
(* the parameters gave a tier.                                             *)
denying_rules(p, ctx) ==
    LET entry == CATALOG[p.action_id]
        env == Incident.environment
        tier == Tier(p)
        EntryRules ==
            {r \in {"action.parameters", "environment.allowed_for_action",
                    "rca.required", "rca.target_matches_root_cause"} :
                \/ r = "action.parameters" /\ ~p.valid
                \/ r = "environment.allowed_for_action"
                     /\ env \notin entry.allowed_environments
                \/ r = "rca.required" /\ entry.requires_rca /\ ~ctx.rca_available
                \/ r = "rca.target_matches_root_cause"
                     /\ entry.requires_rca /\ entry.target_must_match_root_cause
                     /\ ctx.rca_available /\ p.target # Incident.rca_component}
        TierRules ==
            {r \in {"blast_radius.action_max", "blast_radius.environment_max"} :
                \/ r = "blast_radius.action_max" /\ tier > entry.max_blast_radius
                \/ r = "blast_radius.environment_max"
                     /\ tier > max_blast_radius_by_environment(env)}
        AlwaysRules ==
            {r \in {"kill_switch.global", "kill_switch.service", "action.known",
                    "target.known", "target.in_incident_scope",
                    "environment.not_prohibited", "incident.remediable_status",
                    "attempts.per_incident", "attempts.per_service_per_hour",
                    "approval.eligible_role_exists"} :
                \/ r = "kill_switch.global" /\ ctx.global_kill_switch_engaged
                \/ r = "kill_switch.service" /\ ctx.service_kill_switch_engaged
                \/ r = "action.known" /\ ~Known(p)
                \/ r = "target.known" /\ p.target \notin Services
                \/ r = "target.in_incident_scope"
                     /\ p.target \notin Incident.neighborhood
                \/ r = "environment.not_prohibited"
                     /\ env \in prohibited_environments
                \/ r = "incident.remediable_status"
                     /\ ctx.incident_status \notin remediable_incident_statuses
                \/ r = "attempts.per_incident"
                     /\ ctx.attempted >= max_attempted_remediations_per_incident
                \/ r = "attempts.per_service_per_hour"
                     /\ ctx.executions_last_hour
                            >= max_executions_per_service_per_hour
                \/ r = "approval.eligible_role_exists"
                     /\ approver_roles_by_tier(tier) = {}}
    IN  AlwaysRules
          \cup (IF Known(p) THEN EntryRules ELSE {})
          \cup (IF Known(p) /\ p.valid THEN TierRules ELSE {})

\* Whether the approval rule passes without a human.
automatic(p) ==
    /\ Incident.environment \in auto_execution_environments
    /\ Known(p)
    /\ CATALOG[p.action_id].auto_execution_allowed
    /\ ~CATALOG[p.action_id].approval_mandatory

\* evaluate(): DENY if any rule denies, else whether a human must approve.
evaluate(p, ctx) ==
    CASE denying_rules(p, ctx) # {} -> "DENY"
      [] denying_rules(p, ctx) = {} /\ ~automatic(p) -> "REQUIRE_APPROVAL"
      [] OTHER -> "ALLOW"

required_approver_roles(p) == approver_roles_by_tier(Tier(p))

=============================================================================
