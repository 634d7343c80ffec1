--------------------------- MODULE ConfigRollout ---------------------------
(* What a ProductDeployment promises about the values its pipelines are       *)
(* configured with.  Values are published as config maps and retired again;   *)
(* a pipeline adopts a published value.  Nothing else may happen to them: the *)
(* last published value is never retired, and no pipeline is ever pointed at  *)
(* a value that is not published at that moment.                              *)
CONSTANTS Names,    \* the pipelines of the product
          Values,   \* the values a config map can hold
          None      \* the value of a pipeline that does not exist yet

VARIABLES published,   \* the values that have a config map
          adopted      \* the value each pipeline was last pointed at

Init == /\ published = {}
        /\ adopted = [p \in Names |-> None]

Publish(v) == /\ published' = published \cup {v}
              /\ UNCHANGED adopted

Retire(v) == /\ published \ {v} # {}
             /\ published' = published \ {v}
             /\ UNCHANGED adopted

Adopt(p, v) == /\ v \in published
               /\ adopted' = [adopted EXCEPT ![p] = v]
               /\ UNCHANGED published

Next == \/ \E v \in Values : Publish(v) \/ Retire(v)
        \/ \E p \in Names, v \in Values : Adopt(p, v)

Spec == Init /\ [][Next]_<<published, adopted>>
=============================================================================
