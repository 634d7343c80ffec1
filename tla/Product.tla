------------------------------- MODULE Product -------------------------------
(* A ProductDeployment and its pipeline, from the values in Git to the        *)
(* FluxDeployer: the controllers of ProductDeployment and of Pipeline side by *)
(* side in one process.  The one writes the spec of the pipeline, which is an *)
(* event for the other two; these write its status, where the one reads Ready.*)
(*                                                                            *)
(* The steps are those of the two modules; what is defined here is where they *)
(* meet.  The targets are those of the start, every snapshot has one owner,   *)
(* and no spec makes the reconciler panic.                                    *)
EXTENDS Naturals

CONSTANTS
  \* of ProductDeployment
  Names, Versions, Values, Unusable, None, Products, MaxGen, MaxEdits, MaxFaults,
  \* of Pipeline
  TargetObjects, Namespace, System, Kubernetes,
  \* what each version of the product says of the pipeline: [loc, rules, role]
  Template,
  Name,          \* the pipeline
  MaxEvents      \* bound on the changes of the product and of its values, failed
                 \* requests and stops, all together

VARIABLES
  \* of ProductDeployment, whose pipes[Name] is what it reads and writes of the pipeline
  product, config, cv, maps, pipes, status, pc, obj, cfgName, updated, old, gcFailed, todo, edits,
  \* of Pipeline: spec, status and pc have a p in front, as these names are taken
  pspec, pstatus, lz, cf, snaps, fd, targets, queued, ppc, mem, err, found, panicked,
  \* what is bounded: failed requests and stops of the one and of the other
  faults, pfaults

D == INSTANCE ProductDeployment

\* The spec that the product gives the pipeline.
PipelineSpec(version, values) ==
    [loc |-> Template[version].loc, rules |-> Template[version].rules,
     cfg |-> values, ver |-> version, role |-> Template[version].role]

\* Each edit and each new generation of the product brings one of the pipeline.
P == INSTANCE Pipeline WITH
    spec <- pspec, status <- pstatus, pc <- ppc, faults <- pfaults,
    Specs <- {PipelineSpec(v, c) : v \in Versions, c \in Values},
    MaxGen <- MaxGen + MaxEdits

ASSUME ConstantsAssumption ==
    /\ D!ConstantsAssumption /\ P!ConstantsAssumption /\ MaxEvents \in Nat
    /\ Names = {Name} /\ Products \subseteq [version : Versions, pipes : {Names}]
    /\ \A v \in Versions : Template[v].rules # None
    /\ \A v, w \in Versions : (Template[v].loc = None) = (Template[w].loc = None)

vars == <<product, config, cv, maps, pipes, status, pc, obj, cfgName, updated, old, gcFailed,
          todo, edits, pspec, pstatus, lz, cf, snaps, fd, targets, queued, ppc, mem, err, found,
          panicked, faults, pfaults>>

\* What only the one or the other module changes.
controller == <<product, config, cv, maps, status, pc, obj, cfgName, updated, old, gcFailed,
                todo, edits, faults>>
pipeline == <<pspec, pstatus, lz, cf, snaps, fd, targets, queued, ppc, mem, err, found, panicked,
              pfaults>>

Exists == pipes[Name] # None

\* Another change, failure or stop.
MoreEvents == (product.gen - 1) + edits + faults + pfaults < MaxEvents

\* There is no pipeline at first, and no queue holds it.
Init ==
    /\ D!Init
    /\ pspec = None /\ pstatus = P!NewStatus
    /\ lz = None /\ cf = None /\ fd = None
    /\ snaps = [p \in P!Providers |-> "absent"] /\ targets \in P!TargetSets
    /\ queued = {}
    /\ ppc = [w \in P!Workers |-> "idle"] /\ mem = [w \in P!Workers |-> None]
    /\ err = [w \in P!Workers |-> FALSE]
    /\ found = None /\ panicked = FALSE /\ pfaults = 0

-----------------------------------------------------------------------------
(* Where the controllers meet *)

\* Mutant: a changed spec is an event for the reconciler only.
WriteForReconciler ==
    /\ D!CreateOrUpdatePipeline(Name)
    /\ LET desired == PipelineSpec(obj.spec.version, cfgName) IN
       \/ /\ ~(Exists /\ D!Equals(Name))
          /\ pspec' = P!Generation(IF Exists THEN pspec.gen + 1 ELSE 1, desired)
          /\ queued' = queued \cup {"reconciler"}
          /\ UNCHANGED <<pstatus, lz, cf, snaps, fd, targets, ppc, mem, err, found, panicked, pfaults>>
       \/ Exists /\ D!Equals(Name) /\ UNCHANGED pipeline

\* The pipeline that is created, or changed, is an event for its two controllers;
\* one that Equals what is desired is not written.
WritePipeline ==
    /\ D!CreateOrUpdatePipeline(Name)
    /\ LET desired == PipelineSpec(obj.spec.version, cfgName) IN
       \/ /\ ~Exists
          /\ pspec' = P!Generation(1, desired) /\ queued' = P!Workers
          /\ UNCHANGED <<pstatus, lz, cf, snaps, fd, targets, ppc, mem, err, found, panicked, pfaults>>
       \/ Exists /\ D!Equals(Name) /\ UNCHANGED pipeline
       \/ Exists /\ ~D!Equals(Name) /\ P!UpdateSpec(desired)

\* Ready of the pipeline as ProductDeployment reads it.
Reported == IF Exists THEN [pipes EXCEPT ![Name].ready = (pstatus'.ready = "True")] ELSE pipes

ReconcilePipeline ==
    /\ \/ P!BeginReconcile \/ P!CreateOrUpdateLocalization \/ P!CreateOrUpdateConfiguration
       \/ P!PatchStatus("reconciler") \/ P!PatchConditions("reconciler")
    /\ pipes' = Reported
    /\ UNCHANGED controller

SchedulePipeline ==
    /\ P!Scheduler
    /\ pipes' = Reported
    /\ UNCHANGED controller

ReconcileProduct ==
    \/ WritePipeline
    \/ /\ \/ D!Begin \/ D!CreateOrUpdateComponentVersion \/ D!RenderValues \/ D!GenerateConfigMap
          \/ \E m \in Values : D!DeleteOldMap(m)
          \/ D!EndCollection \/ D!ListPipelines \/ D!Finish \/ D!PatchStatus \/ D!PatchConditions
       /\ UNCHANGED pipeline

-----------------------------------------------------------------------------
(* What goes wrong *)

RequestFails ==
    /\ MoreEvents
    /\ \/ D!RequestFails /\ UNCHANGED pipeline
       \/ P!RequestFails /\ UNCHANGED <<controller, pipes>>

\* Mutant: the pass of the product goes on, without its variables.
RestartInPass ==
    /\ MoreEvents /\ Exists /\ P!Restart
    /\ cfgName' = None /\ updated' = FALSE /\ gcFailed' = FALSE /\ old' = {} /\ todo' = {}
    /\ UNCHANGED <<product, config, cv, maps, pipes, status, pc, obj, edits, faults>>

\* The one process stops, and with it all controllers; a new one queues what is there.
Restart ==
    /\ MoreEvents /\ (pc # "idle" \/ Exists)
    /\ IF pc # "idle" THEN D!Restart ELSE UNCHANGED <<controller, pipes>>
    /\ IF Exists THEN P!Restart ELSE UNCHANGED pipeline

-----------------------------------------------------------------------------
(* What others do *)

ProduceSnapshot(p) == P!ProduceSnapshot(p) /\ UNCHANGED <<controller, pipes>>

Environment ==
    \/ /\ MoreEvents
       /\ (\E s \in Products : D!UpdateProduct(s)) \/ (\E c \in Values \cup {Unusable} : D!EditConfig(c))
       /\ UNCHANGED pipeline
    \/ \E p \in P!Providers : ProduceSnapshot(p)

Next ==
    ReconcileProduct \/ ReconcilePipeline \/ SchedulePipeline \/ RequestFails \/ Restart \/ Environment

Spec == Init /\ [][Next]_vars

\* Each of the three controllers has a worker of its own, and ocm-controller does its part.
Fairness ==
    /\ WF_vars(ReconcileProduct) /\ WF_vars(ReconcilePipeline) /\ WF_vars(SchedulePipeline)
    /\ \A p \in P!Providers : WF_vars(ProduceSnapshot(p))

FairSpec == Spec /\ Fairness

-----------------------------------------------------------------------------
(* Safety *)

\* The product controller sees nothing but steps that it expects of its pipelines:
\* what is checked and proved of ProductDeployment holds here.
ImplementsProductDeployment == D!Spec

\* Once the pipeline exists its controllers are those of Pipeline.
StepsOfPipeline == [][Exists => P!Next]_P!vars

\* Nothing that the product writes gets past the pipeline's reconciler: when it is
\* neither queued nor running, the Configuration has the values and the rules of
\* the pipeline that the product sees.
SettledIsConfigured ==
    Exists /\ ~P!Busy("reconciler") =>
        /\ cf # None /\ cf.cfg = pipes[Name].values
        /\ cf.rules = Template[pipes[Name].version].rules

\* Old values are deleted before anything is pointed at the new ones.  A Configuration
\* whose values are gone is never left like that, unless a request fails.
DeletedValuesAreReplaced ==
    faults = 0 /\ cf # None /\ cf.cfg \notin maps =>
        updated \/ P!Busy("reconciler")

-----------------------------------------------------------------------------
(* Liveness *)

\* The pipeline, if there is one, has one target, which can be deployed into.
HasTarget == \E t \in targets : Exists => P!OnlyTarget(t)

\* When no request of the product's controller fails, the values in Git are what is
\* deployed in the end, if the version that stays has one usable target.
ValuesAreDeployed ==
    [](faults = 0) /\ <>[](config \in Values) /\ <>[]HasTarget =>
        <>[](/\ cf # None /\ cf.cfg = config /\ config \in maps
             /\ fd # None /\ pstatus.deployed = "True" /\ D!RolledOut)
=============================================================================
