-------------------------- MODULE CorrelationEngine --------------------------
(***************************************************************************)
(* The pure scoring of packages/domain/correlation_engine.py: how strongly *)
(* an alert belongs to an open incident, judged by the most recently       *)
(* received alert of that incident.  Scores are in hundredths; every sum   *)
(* the rules can produce is exact in the code's floats at the threshold.   *)
(* A label set is a record; Absent stands for a label that is missing.     *)
(***************************************************************************)
EXTENDS Integers, FiniteSets, FiniteSetsExt

CONSTANTS
    Absent,             \* the value of a missing label
    TemporalWindow,     \* DEFAULT_TEMPORAL_WINDOW_SECONDS
    RelatedAlertTypes   \* pairs of alert types configured as related

DEFAULT_THRESHOLD == 60

Weight(yes, weight) == IF yes THEN weight ELSE 0

SameServiceRule(alert, cand) == Weight(alert.service = cand.labels.service, 30)
SameEnvironmentRule(alert, cand) ==
    Weight(alert.environment = cand.labels.environment, 20)

\* A missing label is no evidence either way.
SameLabelValueRule(new, old, weight) == Weight(new # Absent /\ new = old, weight)

TemporalProximityRule(now, cand) ==
    LET delta == IF now >= cand.at THEN now - cand.at ELSE cand.at - now
    IN  Weight(delta <= TemporalWindow, 20)

RelatedAlertTypeRule(alert, cand) ==
    LET new == alert.alertname
        old == cand.labels.alertname
    IN  IF new = old THEN SameLabelValueRule(new, old, 20)
        ELSE Weight(<<new, old>> \in RelatedAlertTypes, 17)

DeploymentProximityRule == 0

score(alert, now, cand) ==
    LET total == SameServiceRule(alert, cand) + SameEnvironmentRule(alert, cand)
                 + SameLabelValueRule(alert.region, cand.labels.region, 10)
                 + SameLabelValueRule(alert.dependency, cand.labels.dependency, 10)
                 + TemporalProximityRule(now, cand)
                 + RelatedAlertTypeRule(alert, cand)
                 + DeploymentProximityRule
    IN  IF total > 100 THEN 100 ELSE total

(* The candidates the engine may choose: the first of the highest score in *)
(* the order of the query, which has no ORDER BY.  None: a new incident.   *)
decide(alert, now, candidates) ==
    LET best == Max({score(alert, now, c) : c \in candidates})
    IN  {c \in candidates : score(alert, now, c) = best /\ best >= DEFAULT_THRESHOLD}

=============================================================================
