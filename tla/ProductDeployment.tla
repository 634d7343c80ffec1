------------------------- MODULE ProductDeployment -------------------------
(* The ProductDeployment controller and the objects it owns.  One worker      *)
(* reconciles one ProductDeployment: every request it makes to the API server *)
(* is a step of its own, so that the product, the values file in Git and the  *)
(* pipelines change between two requests, a request can fail, and the process *)
(* can stop at any of them.                                                   *)
(*                                                                            *)
(* A config map is named after the hash of its values, so it is identified    *)
(* with them.  The resources a pipeline refers to are versioned with the      *)
(* product, so a pipeline's references are identified with that version.      *)
EXTENDS Naturals

CONSTANTS Names,      \* names of pipelines a product may list
          Versions,   \* versions of the product
          Values,     \* rendered values, valid against the schema
          Unusable,   \* a values file that is missing or does not validate
          None,       \* no object
          Products,   \* the specs users may write: [version, pipes]
          MaxGen,     \* bound on the generation of the product
          MaxEdits,   \* bound on the commits to the values file
          MaxFaults   \* bound on failed requests and process restarts

ASSUME ConstantsAssumption ==
    /\ Products \subseteq [version : Versions, pipes : SUBSET Names]
    /\ MaxGen \in Nat \ {0} /\ MaxEdits \in Nat /\ MaxFaults \in Nat
    /\ None \notin Values /\ None \notin Versions
    /\ None \notin [version : Versions, values : Values, ready : BOOLEAN]

VARIABLES
  \* the cluster
  product,    \* the ProductDeployment: its generation and spec
  config,     \* the values file in the project's Git repository
  cv,         \* the version in the ComponentVersion object
  maps,       \* the config maps of the product, by the values they hold
  pipes,      \* the ProductDeploymentPipeline objects
  status,     \* the status of the ProductDeployment on the API server
  \* the worker
  pc,         \* the request it makes next
  obj,        \* the ProductDeployment in memory: spec as read, status as edited
  cfgName,    \* the config map of this pass
  updated,    \* configUpdated: this pass created it
  old,        \* superseded config maps still to delete
  gcFailed,   \* a deletion of this pass failed
  todo,       \* the pipelines still to create or update
  \* what is bounded
  edits,      \* commits to the values file so far
  faults      \* failed requests and restarts so far

desired == <<product, config, edits>>
pass == <<cfgName, updated, old, gcFailed, todo>>
locals == <<obj, pass>>
vars == <<desired, cv, maps, pipes, status, pc, locals, faults>>

Stages == {"idle", "componentversion", "config", "configmap", "gc", "list",
           "pipelines", "patchStatus", "patchConditions"}

Product == [gen : 1..MaxGen, version : Versions, pipes : SUBSET Names]

\* ready: its Ready condition is true, whichever spec that was said of.
Pipeline == [version : Versions, values : Values, ready : BOOLEAN]

\* Ready is "Unknown" while the condition is absent, too.
Status == [ready : {"True", "False", "Unknown"}, reconciling : BOOLEAN,
           observed : 0..MaxGen, active : SUBSET Names]

\* The object a pass works on: its spec as read, its status as edited so far.
Object == [spec : Product, status : Status]

TypeOK ==
    /\ product \in Product
    /\ config \in Values \cup {Unusable}
    /\ cv \in Versions \cup {None}
    /\ maps \subseteq Values
    /\ pipes \in [Names -> Pipeline \cup {None}]
    /\ status \in Status
    /\ pc \in Stages
    /\ obj \in Object
    /\ cfgName \in Values \cup {None}
    /\ pc \in {"configmap", "gc", "list", "pipelines"} => cfgName \in Values
    /\ updated \in BOOLEAN /\ gcFailed \in BOOLEAN
    /\ old \subseteq Values /\ todo \subseteq Names
    /\ edits \in 0..MaxEdits /\ faults \in 0..MaxFaults

Existing == {p \in Names : pipes[p] # None}

Generation(g, s) == [gen |-> g, version |-> s.version, pipes |-> s.pipes]

Init ==
    /\ product \in {Generation(1, s) : s \in Products}
    /\ config \in Values \cup {Unusable}
    /\ cv = None /\ maps = {} /\ pipes = [p \in Names |-> None]
    /\ status = [ready |-> "Unknown", reconciling |-> FALSE, observed |-> 0, active |-> {}]
    /\ pc = "idle" /\ obj = [spec |-> product, status |-> status]
    /\ cfgName = None /\ updated = FALSE /\ gcFailed = FALSE /\ old = {} /\ todo = {}
    /\ edits = 0 /\ faults = 0

-----------------------------------------------------------------------------
(* Conditions, edited in memory and written back when the pass ends. *)

Progressing(s) == [s EXCEPT !.reconciling = TRUE]
MarkNotReady(s) == [s EXCEPT !.ready = "False", !.reconciling = FALSE]
MarkReady(s) == [s EXCEPT !.ready = "True", !.reconciling = FALSE]
IsReady(s) == s.ready = "True" /\ ~s.reconciling

\* Return an error after MarkNotReady: the deferred status update comes next.
Fail ==
    /\ pc' = "patchStatus"
    /\ obj' = [obj EXCEPT !.status = MarkNotReady(obj.status)]

\* The variables of a pass do not outlive it.
EndPass ==
    /\ pc' = "idle"
    /\ cfgName' = None /\ updated' = FALSE /\ gcFailed' = FALSE /\ old' = {} /\ todo' = {}
    /\ UNCHANGED obj

(* Reconcile: read the object and mark it progressing.  Every way out of a    *)
(* pass requeues the object: an error, or the interval.                       *)
Begin ==
    /\ pc = "idle"
    /\ pc' = "componentversion"
    /\ obj' = [spec |-> product, status |-> Progressing(status)]
    /\ UNCHANGED <<desired, cv, maps, pipes, status, pass, faults>>

\* Mutant: the version is written only when the object is created.
PinOnlyOnCreate ==
    /\ pc = "componentversion"
    /\ pc' = "config"
    /\ cv' = IF cv = None THEN obj.spec.version ELSE cv
    /\ UNCHANGED <<desired, maps, pipes, status, locals, faults>>

\* The version is written on every pass, to a new object and to an old one.
CreateOrUpdateComponentVersion ==
    /\ pc = "componentversion"
    /\ pc' = "config"
    /\ cv' = obj.spec.version
    /\ UNCHANGED <<desired, maps, pipes, status, locals, faults>>

\* Mutant: the values file is used without validating it.
RenderUnvalidated ==
    /\ pc = "config"
    /\ pc' = "configmap"
    /\ cfgName' = config
    /\ UNCHANGED <<desired, cv, maps, pipes, status, obj, updated, old, gcFailed, todo, faults>>

\* Fetch the values file, validate it and merge it with the schema.
RenderValues ==
    /\ pc = "config"
    /\ \/ /\ config \in Values
          /\ pc' = "configmap"
          /\ cfgName' = config
          /\ UNCHANGED obj
       \/ /\ config \notin Values
          /\ Fail
          /\ UNCHANGED cfgName
    /\ UNCHANGED <<desired, cv, maps, pipes, status, updated, old, gcFailed, todo, faults>>

\* Mutant: the maps to collect are listed after the new one is created.
ListedLate == maps \cup {cfgName}

\* The maps to collect are those listed before the new one is created.
Superseded == maps

\* generateConfigMap: nothing to do if the map is there, else create it and
\* collect the ones listed before.
GenerateConfigMap ==
    /\ pc = "configmap"
    /\ updated' = (cfgName \notin maps)
    /\ pc' = IF updated' THEN "gc" ELSE "list"
    /\ old' = IF updated' THEN Superseded ELSE {}
    /\ maps' = maps \cup {cfgName}
    /\ UNCHANGED <<desired, cv, pipes, status, obj, cfgName, gcFailed, todo, faults>>

DeleteOldMap(m) ==
    /\ pc = "gc" /\ m \in old
    /\ maps' = maps \ {m}
    /\ old' = old \ {m}
    /\ UNCHANGED <<desired, cv, pipes, status, pc, obj, cfgName, updated, gcFailed, todo, faults>>

\* Mutant: the errors of the deletions are dropped.
EndCollectionAnyway ==
    /\ pc = "gc" /\ old = {}
    /\ pc' = "list"
    /\ UNCHANGED <<desired, cv, maps, pipes, status, locals, faults>>

\* The errors of the deletions are joined; one is enough to end the pass.
EndCollection ==
    /\ pc = "gc" /\ old = {}
    /\ \/ gcFailed /\ Fail
       \/ ~gcFailed /\ pc' = "list" /\ UNCHANGED obj
    /\ UNCHANGED <<desired, cv, maps, pipes, status, cfgName, updated, old, gcFailed, todo, faults>>

\* An existing pipeline is active while it is not ready, and it is skipped
\* unless this pass has created the config map.
ListPipelines ==
    /\ pc = "list"
    /\ pc' = "pipelines"
    /\ obj' = [obj EXCEPT !.status.active = {p \in Existing : ~pipes[p].ready}]
    /\ todo' = obj.spec.pipes \ (IF updated THEN {} ELSE Existing)
    /\ UNCHANGED <<desired, cv, maps, pipes, status, cfgName, updated, old, gcFailed, faults>>

\* Equals is false: write the spec.  The status of the object stays.
Written(p) ==
    [version |-> obj.spec.version, values |-> cfgName,
     ready |-> IF pipes[p] = None THEN FALSE ELSE pipes[p].ready]

\* Mutant: the reference to the config map is not compared.
EqualsButValues(p) ==
    /\ pipes[p] # None
    /\ pipes[p].version = obj.spec.version

Equals(p) ==
    /\ pipes[p] # None
    /\ pipes[p].version = obj.spec.version /\ pipes[p].values = cfgName

CreateOrUpdatePipeline(p) ==
    /\ pc = "pipelines" /\ p \in todo
    /\ pipes' = [pipes EXCEPT ![p] = IF Equals(p) THEN @ ELSE Written(p)]
    /\ obj' = [obj EXCEPT !.status.active = @ \cup {p}]
    /\ todo' = todo \ {p}
    /\ UNCHANGED <<desired, cv, maps, status, pc, cfgName, updated, old, gcFailed, faults>>

Finish ==
    /\ pc = "pipelines" /\ todo = {}
    /\ pc' = "patchStatus"
    /\ obj' = [obj EXCEPT !.status = MarkReady(obj.status)]
    /\ UNCHANGED <<desired, cv, maps, pipes, status, cfgName, updated, old, gcFailed, todo, faults>>

\* Mutant: the generation is taken from the object on the server.
LatestGeneration == IF IsReady(obj.status) THEN product.gen ELSE status.observed

\* UpdateStatus: a ready object has observed the generation that was read.
\* The patch helper sends the status and the conditions in two requests.
ObservedGeneration == IF IsReady(obj.status) THEN obj.spec.gen ELSE status.observed

PatchStatus ==
    /\ pc = "patchStatus"
    /\ pc' = "patchConditions"
    /\ status' = [status EXCEPT !.active = obj.status.active, !.observed = ObservedGeneration]
    /\ UNCHANGED <<desired, cv, maps, pipes, locals, faults>>

PatchConditions ==
    /\ pc = "patchConditions"
    /\ status' = [status EXCEPT !.ready = obj.status.ready, !.reconciling = obj.status.reconciling]
    /\ EndPass
    /\ UNCHANGED <<desired, cv, maps, pipes, faults>>

-----------------------------------------------------------------------------
(* What goes wrong, at most MaxFaults times. *)

Fault == faults < MaxFaults /\ faults' = faults + 1

\* A request fails.  The error of a pipeline is returned without MarkNotReady;
\* a deletion that fails does not stop the others; a patch that fails does not
\* stop the other one.
RequestFails ==
    /\ Fault
    /\ \/ /\ pc \in {"componentversion", "config", "configmap", "list"}
          /\ Fail
          /\ UNCHANGED pass
       \/ /\ pc = "gc"
          /\ \E m \in old : old' = old \ {m}
          /\ gcFailed' = TRUE
          /\ UNCHANGED <<pc, obj, cfgName, updated, todo>>
       \/ /\ pc = "pipelines" /\ todo # {}
          /\ pc' = "patchStatus"
          /\ UNCHANGED locals
       \/ /\ pc = "patchStatus" /\ pc' = "patchConditions"
          /\ UNCHANGED locals
       \/ pc = "patchConditions" /\ EndPass
    /\ UNCHANGED <<desired, cv, maps, pipes, status>>

\* The process stops; a new one starts the object's pass from the beginning.
Restart ==
    /\ Fault
    /\ pc # "idle"
    /\ EndPass
    /\ UNCHANGED <<desired, cv, maps, pipes, status>>

-----------------------------------------------------------------------------
(* What others do. *)

\* A merged pull request changes the product that Flux applies.
UpdateProduct(s) ==
    /\ product.gen < MaxGen
    /\ product' = Generation(product.gen + 1, s)
    /\ UNCHANGED <<config, edits, cv, maps, pipes, status, pc, locals, faults>>

\* A commit changes the values file.
EditConfig(c) ==
    /\ edits < MaxEdits /\ c # config
    /\ config' = c /\ edits' = edits + 1
    /\ UNCHANGED <<product, cv, maps, pipes, status, pc, locals, faults>>

\* The pipeline's own controller has processed its spec, or failed to.
PipelineReports(p, r) ==
    /\ pipes[p] # None
    /\ pipes' = [pipes EXCEPT ![p].ready = r]
    /\ UNCHANGED <<desired, cv, maps, status, pc, locals, faults>>

-----------------------------------------------------------------------------
Reconcile ==
    \/ Begin \/ CreateOrUpdateComponentVersion \/ RenderValues \/ GenerateConfigMap
    \/ \E m \in Values : DeleteOldMap(m)
    \/ EndCollection \/ ListPipelines
    \/ \E p \in Names : CreateOrUpdatePipeline(p)
    \/ Finish \/ PatchStatus \/ PatchConditions

Environment ==
    \/ \E s \in Products : UpdateProduct(s)
    \/ \E c \in Values \cup {Unusable} : EditConfig(c)
    \/ \E p \in Names, r \in BOOLEAN : PipelineReports(p, r)

Next == Reconcile \/ RequestFails \/ Restart \/ Environment

Spec == Init /\ [][Next]_vars

\* The work queue always holds the object again after a pass.
FairSpec == Spec /\ WF_vars(Reconcile)

-----------------------------------------------------------------------------
(* Safety *)

\* The status says a generation is reconciled (observedGeneration is the
\* current one) only when that generation's component version is pinned and all
\* of its pipelines exist, whatever failed or restarted on the way and however
\* the spec changed during the pass.
ObservedMeansRolledOut ==
    status.observed = product.gen =>
        /\ cv = product.version
        /\ \A p \in product.pipes : pipes[p] # None

\* A pass that has published new values and gone on to the pipelines has left
\* no other config map behind: leftovers of failed passes are collected too.
PublishedAlone ==
    pc \in {"list", "pipelines"} /\ updated => maps = {cfgName}

\* The product implements ConfigRollout: the last config map is never deleted,
\* and a pipeline is only ever pointed at a config map that exists.
Rollout == INSTANCE ConfigRollout WITH
    published <- maps,
    adopted <- [p \in Names |-> IF pipes[p] = None THEN None ELSE pipes[p].values]

ImplementsRollout == Rollout!Spec

-----------------------------------------------------------------------------
(* Liveness *)

RolledOut ==
    /\ status.observed = product.gen /\ IsReady(status)
    /\ cv = product.version
    /\ \A p \in product.pipes : pipes[p] # None

\* However many requests failed before, a product whose values end up usable is
\* rolled out and reported ready in the end, and stays so.
Converges == <>[](config \in Values) => <>[]RolledOut

\* When no request fails and pipelines are never dropped from the product, its
\* pipelines end up configured with the values in Git.
ConfigReachesPipelines ==
    [](faults = 0 /\ Existing \subseteq product.pipes) /\ <>[](config \in Values) => <>[](\A p \in product.pipes :
                                     pipes[p] # None /\ pipes[p].values = config)

-----------------------------------------------------------------------------
(* What comments of the code claim and the code does not do *)

\* productdeployment_controller.go:213: an existing pipeline is skipped "only
\* if config was not updated due to the values not changing".  So when a pass
\* is about to go over its pipelines, one that it skips has the pass's values.
SkippedOnlyIfUnchanged ==
    pc = "pipelines" =>
        \A p \in obj.spec.pipes \ todo : pipes[p].values = cfgName
=============================================================================
