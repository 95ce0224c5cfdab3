--------------------------- MODULE MCEventDelivery ---------------------------
(* Instances of EventDelivery for TLC: the constants are all in the cfg.   *)
EXTENDS EventDelivery

=============================================================================
