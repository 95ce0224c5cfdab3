--------------------------- MODULE MCAlertIntake ---------------------------
(* Instances of AlertIntake for TLC. *)
EXTENDS AlertIntake, TLC

Labels(type, region) ==
    [service |-> "orders", environment |-> "prod", region |-> region,
     dependency |-> Absent, alertname |-> type]

(* An identified episode, and a source of another alert type that does not *)
(* identify its alerts.                                                    *)
MCNotices ==
    {[ext |-> "e1", labels |-> Labels("errors", "us")],
     [ext |-> Absent, labels |-> Labels("latency", "eu")]}
MCRelatedAlertTypes == {}

Symmetry == Permutations(Requests)
=============================================================================
