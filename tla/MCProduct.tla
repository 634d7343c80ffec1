------------------------------ MODULE MCProduct ------------------------------
(* An instance of Product for TLC. *)
EXTENDS Product

CONSTANTS v1, v2, a, b, rules

TheTarget ==
    {[name |-> "far", ns |-> System, type |-> Kubernetes, labels |-> {"ingress"},
      access |-> "usable"]}

Upgrades == {[version |-> v, pipes |-> Names] : v \in Versions}

\* Both versions configure the pipeline and do not localize it.
Configured ==
    [v \in Versions |->
        [loc |-> None, rules |-> rules, role |-> [type |-> Kubernetes, labels |-> {"ingress"}]]]

\* Nothing tells the versions from each other, nor the values: v1 and a come first.
\* The target is there.
OrderedInit == Init /\ product.version = v1 /\ config # b /\ targets = TheTarget

OrderedSpec == OrderedInit /\ [][Next]_vars /\ Fairness
=============================================================================
