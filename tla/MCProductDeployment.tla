------------------------ MODULE MCProductDeployment ------------------------
(* Instances of ProductDeployment for TLC. *)
EXTENDS ProductDeployment, FiniteSets

CONSTANTS v1, v2, pa, pb

\* An upgrade that adds a pipeline, and a rollback that drops it.
Upgrades == {[version |-> v1, pipes |-> {pa}], [version |-> v2, pipes |-> {pa, pb}]}

\* Upgrades that keep the pipelines.
KeptPipelines == [version : {v1, v2}, pipes : {{pa, pb}}]
=============================================================================
