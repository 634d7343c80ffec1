----------------------------- MODULE MCGenerator -----------------------------
(* Instances of Generator for TLC: of three versions, the second cannot be    *)
(* scheduled.                                                                 *)
EXTENDS Generator

OddVersions == {1, 3}
=============================================================================
