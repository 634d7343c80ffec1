----------------------------- MODULE MCPipeline -----------------------------
(* Instances of Pipeline for TLC. *)
EXTENDS Pipeline

CONSTANTS localize, rules, a, v1

role == [type |-> Kubernetes, labels |-> {"ingress"}]

\* A target that is found in the second place, with access and without.
FarTarget ==
    {[name |-> "far", ns |-> System, type |-> Kubernetes, labels |-> {"ingress"}, access |-> x] :
        x \in {"usable", "absent"}}

PipelineSpec(l, r, c, v) == [loc |-> l, rules |-> r, cfg |-> c, ver |-> v, role |-> role]

LocalizationOnly == PipelineSpec(localize, None, a, v1)

\* What the next spec may be: with a Configuration that builds on the Localization, or
\* with neither of the two.
Combinations == {LocalizationOnly, PipelineSpec(localize, rules, a, v1),
                 PipelineSpec(None, None, a, v1)}

LocalizedInit == Init /\ spec = Generation(1, LocalizationOnly)

LocalizedFirst == LocalizedInit /\ [][Next]_vars /\ Fairness
=============================================================================
