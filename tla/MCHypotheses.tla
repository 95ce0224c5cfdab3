---------------------------- MODULE MCHypotheses ----------------------------
(* Instances of Hypotheses for TLC. *)
EXTENDS Hypotheses, TLC

\* A telemetry window with its baseline, a change window, and no window.
MCQueries == {"metric_window", "recent_deployments", "trace_by_id"}

(* The lookback limit, the end of the longest telemetry window from there, *)
(* and the opening of the incident.                                        *)
MCInstants == {earliest, earliest + MAX_WINDOW, CreatedAt}
MCDependencies == {}

Symmetry == Permutations(EvidenceIds)
=============================================================================
