---------------------------- MODULE MCValidation ----------------------------
(* Instances of Validation for TLC. *)
EXTENDS Validation

CONSTANTS good, better, bad

GoodConfigs == {good, better}
=============================================================================
