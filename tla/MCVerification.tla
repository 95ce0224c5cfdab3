--------------------------- MODULE MCVerification ---------------------------
(* Instances of Verification for TLC: the constants are all in the cfg.    *)
EXTENDS Verification

=============================================================================
