------------------------- MODULE RemediationPlanner -------------------------
(***************************************************************************)
(* The deterministic planner, packages/remediation/planner.py: from the    *)
(* cause an accepted RCA names and the records it cites about the blamed   *)
(* component to at most one proposal.                                      *)
(*                                                                         *)
(* Of the cited records only what the planner looks for is kept: whether   *)
(* the first deployment record names the running and the previous version, *)
(* and what the newest change of the first configuration record is.        *)
(***************************************************************************)
EXTENDS PolicyEngine

CauseCategory == {"deployment", "configuration", "code_change", "dependency", "database",
                  "resource_cpu", "resource_memory", "traffic", "infrastructure", "other"}

Cited ==
    [versions : {"both", "missing"},
     change : {"none", "feature_flag", "old_value_known", "old_value_unknown"}]

NoAction == "none"

action(category, cited) ==
    CASE category = "deployment" /\ cited.versions = "both" -> "rollback_deployment"
      [] category = "configuration" /\ cited.change = "feature_flag" -> "disable_feature_flag"
      [] category = "configuration" /\ cited.change = "old_value_known" -> "revert_configuration"
      [] category = "resource_memory" -> "restart_service"
      [] category \in {"resource_cpu", "traffic"} -> "scale_service"
      [] OTHER -> NoAction

(* The target is the component the RCA blames, here the name of a service. *)
(* Versions, keys and values are copied from the evidence: they need not   *)
(* fit the catalog's patterns.                                             *)
proposals(a, component, planner) ==
    [action_id : {a},
     valid : IF a \in {"restart_service", "scale_service"} THEN {TRUE} ELSE BOOLEAN,
     increase_by : {IF a = "scale_service" THEN 2 ELSE 0},
     target : {component}, rca : {TRUE}, source : {"planner"}, proposed_by : {planner}]

\* What the planner may propose for these causes, whatever the RCA cites.
plan(categories, component, planner) ==
    UNION {proposals(a, component, planner) :
             a \in {action(c, cited) : c \in categories \cap CauseCategory,
                                      cited \in Cited} \ {NoAction}}

=============================================================================
