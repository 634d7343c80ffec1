---------------------------- MODULE SelectTarget ----------------------------
(* How the scheduler chooses the target of a pipeline.  A target is a record  *)
(* [name, ns, type, labels]; a target role asks for a type and for labels.    *)

\* searchForTargetsInNamespace: the targets of a namespace that the role's
\* label selector matches.
Search(targets, role, ns) ==
    {t \in targets : t.ns = ns /\ role.labels \subseteq t.labels}

\* The system namespace is searched only if the project's has no match.
Found(targets, role, ns, system) ==
    IF Search(targets, role, ns) # {} THEN Search(targets, role, ns)
                                      ELSE Search(targets, role, system)

\* The targets SelectTarget picks from, at random; an error if there are none.
Candidates(targets, role, ns, system) ==
    {t \in Found(targets, role, ns, system) : t.type = role.type}
=============================================================================
