--------------------------- MODULE Product_proofs ---------------------------
(* Proofs about Product: that the controller of the product sees what         *)
(* ProductDeployment expects, and that no pipeline rests with a Configuration *)
(* that is not that of its spec, or whose values are gone.                    *)
EXTENDS Product, TLAPS

-----------------------------------------------------------------------------
(* Every step is one of ProductDeployment, or leaves its variables alone. *)

USE DEF D!vars, D!desired, D!pass, D!locals, controller

LEMMA ReportIsExpected ==
    ASSUME Reported # pipes, pipes' = Reported, UNCHANGED controller
    PROVE  D!Next
<1>1. Exists
  BY DEF Reported
<1>2. D!PipelineReports(Name, pstatus'.ready = "True")
  BY <1>1 DEF Reported, Exists, D!PipelineReports
<1>3. Name \in Names
  BY ConstantsAssumption
<1>4. D!Environment
  BY <1>2, <1>3 DEF D!Environment
<1> QED
  BY <1>4 DEF D!Next

LEMMA StepIsExpected ==
    ASSUME Next
    PROVE  D!Next \/ UNCHANGED D!vars
<1>1. CASE ReconcileProduct
  <2>1. ReconcileProduct => D!Reconcile
    BY ConstantsAssumption DEF ReconcileProduct, WritePipeline, D!Reconcile
  <2> QED
    BY <1>1, <2>1 DEF D!Next
<1>2. CASE ReconcilePipeline
  BY <1>2, ReportIsExpected DEF ReconcilePipeline
<1>3. CASE SchedulePipeline
  BY <1>3, ReportIsExpected DEF SchedulePipeline
<1>4. CASE RequestFails
  BY <1>4 DEF RequestFails, D!Next
<1>5. CASE Restart
  BY <1>5 DEF Restart, D!Next
<1>6. CASE Environment
  BY <1>6 DEF Environment, ProduceSnapshot, D!Next, D!Environment
<1> QED
  BY <1>1, <1>2, <1>3, <1>4, <1>5, <1>6 DEF Next

\* The steps of the pipeline, of its failures and of the shared process are steps of
\* ProductDeployment's environment: what is proved of it holds of the composition.
THEOREM RefinesProductDeployment == Spec => ImplementsProductDeployment
<1>1. Init => D!Init
  BY DEF Init
<1>2. [Next]_vars => [D!Next]_D!vars
  <2>1. ASSUME UNCHANGED vars PROVE UNCHANGED D!vars
    BY <2>1 DEF vars
  <2> QED
    BY <2>1, StepIsExpected
<1> QED
  BY <1>1, <1>2, PTL DEF Spec, ImplementsProductDeployment, D!Spec

-----------------------------------------------------------------------------
(* The product and the copy of a pass are of versions that there are, and what *)
(* a pass writes to the pipelines are values.                                  *)

Versioned ==
    /\ product.version \in Versions
    /\ "spec" \in DOMAIN obj /\ obj.spec.version \in Versions
    /\ pc \in {"configmap", "gc", "list", "pipelines"} => cfgName \in Values

LEMMA VersionedInit == Init => Versioned
  BY ConstantsAssumption DEF Init, Versioned, D!Init, D!Generation

LEMMA VersionedStep ==
    ASSUME Versioned, Next
    PROVE  Versioned'
<1> USE DEF Versioned
<1>1. ASSUME D!Next PROVE Versioned'
  <2>1. CASE D!Begin
    BY <2>1 DEF D!Begin
  <2>2. CASE D!RenderValues \/ D!EndCollection
    BY <2>2 DEF D!RenderValues, D!EndCollection, D!Fail
  <2>3. CASE D!CreateOrUpdateComponentVersion \/ D!GenerateConfigMap \/ D!PatchStatus
    BY <2>3 DEF D!CreateOrUpdateComponentVersion, D!GenerateConfigMap, D!PatchStatus
  <2>4. CASE \E m \in Values : D!DeleteOldMap(m)
    BY <2>4 DEF D!DeleteOldMap
  <2>5. CASE D!ListPipelines \/ D!Finish
    BY <2>5 DEF D!ListPipelines, D!Finish
  <2>6. CASE \E p \in Names : D!CreateOrUpdatePipeline(p)
    BY <2>6 DEF D!CreateOrUpdatePipeline
  <2>7. CASE D!PatchConditions
    BY <2>7 DEF D!PatchConditions, D!EndPass
  <2>8. CASE D!RequestFails
    BY <2>8 DEF D!RequestFails, D!Fail, D!EndPass
  <2>9. CASE D!Restart
    BY <2>9 DEF D!Restart, D!EndPass
  <2>10. CASE \E s \in Products : D!UpdateProduct(s)
    BY <2>10, ConstantsAssumption DEF D!UpdateProduct, D!Generation
  <2>11. CASE \E c \in Values \cup {Unusable} : D!EditConfig(c)
    BY <2>11 DEF D!EditConfig
  <2>12. CASE \E p \in Names, r \in BOOLEAN : D!PipelineReports(p, r)
    BY <2>12 DEF D!PipelineReports
  <2> QED
    BY <1>1, <2>1, <2>2, <2>3, <2>4, <2>5, <2>6, <2>7, <2>8, <2>9, <2>10, <2>11, <2>12
    DEF D!Next, D!Reconcile, D!Environment
<1>2. ASSUME UNCHANGED D!vars PROVE Versioned'
  BY <1>2
<1> QED
  BY <1>1, <1>2, StepIsExpected

LEMMA StepIsOfPipeline ==
    ASSUME Versioned, [Next]_vars
    PROVE  [Exists => P!Next]_P!vars
<1> SUFFICES ASSUME Exists PROVE P!Next \/ UNCHANGED P!vars
  OBVIOUS
<1>1. ASSUME UNCHANGED pipeline PROVE UNCHANGED P!vars
  BY <1>1 DEF pipeline, P!vars, P!external, P!objects, P!workers
<1>2. CASE WritePipeline
  <2>1. CASE P!UpdateSpec(PipelineSpec(obj.spec.version, cfgName))
    <3>1. PipelineSpec(obj.spec.version, cfgName)
            \in {PipelineSpec(v, c) : v \in Versions, c \in Values}
      BY <1>2 DEF WritePipeline, D!CreateOrUpdatePipeline, Versioned
    <3> QED
      BY <2>1, <3>1 DEF P!Next, P!Environment
  <2> QED
    BY <1>1, <1>2, <2>1 DEF WritePipeline
<1>3. CASE ReconcilePipeline
  BY <1>3 DEF ReconcilePipeline, P!Next, P!Reconciler
<1>4. CASE SchedulePipeline
  BY <1>4 DEF SchedulePipeline, P!Next
<1>5. CASE RequestFails
  BY <1>1, <1>5 DEF RequestFails, P!Next
<1>6. CASE Restart
  BY <1>6 DEF Restart, P!Next
<1>7. CASE Environment
  BY <1>1, <1>7 DEF Environment, ProduceSnapshot, P!Next, P!Environment
<1>8. CASE ReconcileProduct /\ ~WritePipeline
  BY <1>1, <1>8 DEF ReconcileProduct
<1>9. CASE UNCHANGED vars
  BY <1>1, <1>9 DEF vars, pipeline
<1> QED
  BY <1>2, <1>3, <1>4, <1>5, <1>6, <1>7, <1>8, <1>9 DEF Next, ReconcileProduct

\* The product writes to an existing pipeline only specs that Pipeline allows, and so
\* that both of its controllers are told.
THEOREM PipelineIsExpected == Spec => StepsOfPipeline
<1>1. Versioned /\ [Next]_vars => Versioned'
  <2>1. ASSUME Versioned, UNCHANGED vars PROVE Versioned'
    BY <2>1 DEF Versioned, vars
  <2> QED
    BY <2>1, VersionedStep
<1>2. Versioned /\ [Next]_vars => [Exists => P!Next]_P!vars
  BY StepIsOfPipeline
<1> QED
  BY <1>1, <1>2, VersionedInit, PTL DEF Spec, StepsOfPipeline

-----------------------------------------------------------------------------
(* The reconciler of the pipeline works for the spec that the product wrote    *)
(* last, or will run again.                                                    *)

Mine == mem["reconciler"]
Stage == ppc["reconciler"]

\* What the product writes: the values, and the path and the rules of the version.
IsWritten(s) ==
    /\ s.ver \in Versions /\ s.cfg \in Values
    /\ s.loc = Template[s.ver].loc /\ s.rules = Template[s.ver].rules

\* Both workers have a queue, a stage and a copy of the pipeline.
Shape ==
    /\ ppc = [w \in P!Workers |-> ppc[w]]
    /\ mem = [w \in P!Workers |-> mem[w]]
    /\ err = [w \in P!Workers |-> err[w]]
    /\ Stage # "idle" => {"spec", "st"} \subseteq DOMAIN Mine /\ IsWritten(Mine.spec)

\* The Configuration is that of spec s.
ConfiguredAs(s) == cf # None /\ cf.cfg = s.cfg /\ cf.rules = s.rules

\* The copy of the pass is current, and what it has configured is that of the copy,
\* unless the reconciler is queued or the pass will queue it.
Current ==
    \/ "reconciler" \in queued
    \/ /\ Stage \in {"localize", "configure"}
       /\ Mine.spec = pspec
    \/ /\ Stage \in {"patchStatus", "patchConditions"}
       /\ err["reconciler"] \/ ConfiguredAs(pspec)
    \/ /\ Stage = "idle"
       /\ ConfiguredAs(pspec)

\* The pipeline that the product sees is the one that its controllers have.
Agreed ==
    /\ pipes = [p \in Names |-> pipes[p]]
    /\ Exists => /\ {"version", "values"} \subseteq DOMAIN pipes[Name]
                 /\ pspec.ver = pipes[Name].version /\ pspec.cfg = pipes[Name].values

NotStarted ==
    /\ ~Exists /\ queued = {}
    /\ \A w \in P!Workers : ppc[w] = "idle"

IInv ==
    /\ Versioned /\ Agreed
    /\ Shape
    /\ NotStarted \/ (IsWritten(pspec) /\ Current)

Started == Shape /\ IsWritten(pspec) /\ Current

LEMMA IInvInit == Init => IInv
<1> SUFFICES ASSUME Init PROVE IInv
  OBVIOUS
<1>1. ~Exists
  BY ConstantsAssumption DEF Init, Exists, D!Init
<1>2. Shape
  BY DEF Init, Shape, Stage, P!Workers
<1>3. NotStarted
  BY <1>1 DEF Init, NotStarted, P!Workers
<1>4. Agreed
  BY <1>1 DEF Init, Agreed, D!Init
<1> QED
  BY <1>2, <1>3, <1>4, VersionedInit DEF IInv

LEMMA ReconcilerKeeps ==
    ASSUME Started,
           \/ P!BeginReconcile \/ P!CreateOrUpdateLocalization \/ P!CreateOrUpdateConfiguration
           \/ P!PatchStatus("reconciler") \/ P!PatchConditions("reconciler")
    PROVE  Started'
<1> USE DEF Started, Shape, Current, Mine, Stage, ConfiguredAs, P!Workers, P!external, P!objects
<1>1. CASE P!BeginReconcile
  BY <1>1 DEF P!BeginReconcile
<1>2. CASE P!CreateOrUpdateLocalization
  BY <1>2 DEF P!CreateOrUpdateLocalization
<1>3. CASE P!CreateOrUpdateConfiguration
  <2>1. Stage = "configure" /\ IsWritten(Mine.spec)
    BY <1>3 DEF P!CreateOrUpdateConfiguration
  <2>2. cf' = IF cf = None \/ P!Outdated(cf) THEN P!DesiredConfiguration ELSE cf
    BY <1>3, <2>1, ConstantsAssumption DEF P!CreateOrUpdateConfiguration, P!Mine, IsWritten
  <2>3. PICK s, e : P!Return("reconciler", s, e)
    BY <1>3 DEF P!CreateOrUpdateConfiguration, P!RecordSnapshot
  <2>4. cf'.cfg = Mine.spec.cfg /\ cf'.rules = Mine.spec.rules
    BY <2>2 DEF P!Outdated, P!DesiredConfiguration, P!Mine
  <2>5. cf' # None
    <3> DEFINE written == PipelineSpec(Mine.spec.ver, Mine.spec.cfg)
               viaLoc == Mine.spec.loc # None
    <3>1. /\ written \in {PipelineSpec(v, c) : v \in Versions, c \in Values}
          /\ written.rules = Mine.spec.rules /\ written.cfg = Mine.spec.cfg
          /\ written.ver = Mine.spec.ver
      BY <2>1 DEF IsWritten, PipelineSpec
    <3>2. P!DesiredConfiguration = [viaLoc |-> viaLoc, rules |-> Mine.spec.rules,
                                   cfg |-> Mine.spec.cfg, ver |-> Mine.spec.ver]
      BY DEF P!DesiredConfiguration, P!Mine
    <3>3. viaLoc \in BOOLEAN
      OBVIOUS
    <3> HIDE DEF written, viaLoc
    <3>4. P!DesiredConfiguration \in P!Configuration
      BY <3>1, <3>2, <3>3 DEF P!Configuration
    <3> QED
      BY <2>2, <3>4, ConstantsAssumption DEF P!ConstantsAssumption
  <2> QED
    BY <1>3, <2>1, <2>3, <2>4, <2>5 DEF P!CreateOrUpdateConfiguration, P!Return
<1>4. CASE P!PatchStatus("reconciler")
  BY <1>4 DEF P!PatchStatus
<1>5. CASE P!PatchConditions("reconciler")
  BY <1>5 DEF P!PatchConditions, P!EndPass
<1> QED
  BY <1>1, <1>2, <1>3, <1>4, <1>5

LEMMA SchedulerKeeps ==
    ASSUME Started, P!Scheduler
    PROVE  Started'
<1> USE DEF Started, Shape, Current, Mine, Stage, ConfiguredAs, P!Workers, P!external, P!objects
<1>1. CASE P!BeginSchedule
  BY <1>1 DEF P!BeginSchedule
<1>2. CASE P!CheckSnapshot
  BY <1>2 DEF P!CheckSnapshot, P!EndPass
<1>3. CASE P!Select
  BY <1>3 DEF P!Select, P!NotDeployed, P!Return
<1>4. CASE P!FindTarget
  BY <1>4 DEF P!FindTarget, P!NotDeployed, P!Return
<1>5. CASE P!CreateFluxDeployer
  BY <1>5 DEF P!CreateFluxDeployer, P!NotDeployed, P!Return
<1>6. CASE P!PatchStatus("scheduler")
  BY <1>6 DEF P!PatchStatus
<1>7. CASE P!PatchConditions("scheduler")
  BY <1>7 DEF P!PatchConditions, P!EndPass
<1> QED
  BY <1>1, <1>2, <1>3, <1>4, <1>5, <1>6, <1>7 DEF P!Scheduler

LEMMA FaultKeeps ==
    ASSUME Started, P!RequestFails \/ P!Restart
    PROVE  Started'
<1> USE DEF Started, Shape, Current, Mine, Stage, ConfiguredAs, P!Workers, P!external, P!objects,
            P!Return, P!EndPass, P!NotDeployed, P!Mine, P!Scheduled
<1>1. CASE P!Restart
  BY <1>1 DEF P!Restart, P!Stop
<1>2. CASE P!RequestFails
  BY <1>2 DEF P!RequestFails
<1> QED
  BY <1>1, <1>2

LEMMA ProductKeeps ==
    ASSUME Versioned, Shape, NotStarted \/ Started, WritePipeline
    PROVE  Started'
<1> USE DEF Started, Shape, Current, Mine, Stage, ConfiguredAs, P!Workers
<1>1. IsWritten(PipelineSpec(obj.spec.version, cfgName))
  BY DEF WritePipeline, D!CreateOrUpdatePipeline, Versioned, IsWritten, PipelineSpec
<1>2. \A g : IsWritten(P!Generation(g, PipelineSpec(obj.spec.version, cfgName)))
  BY <1>1 DEF IsWritten, P!Generation
<1>3. CASE Exists /\ D!Equals(Name) /\ UNCHANGED pipeline
  BY <1>3 DEF NotStarted, pipeline
<1>4. CASE Exists /\ P!UpdateSpec(PipelineSpec(obj.spec.version, cfgName))
  BY <1>2, <1>4 DEF P!UpdateSpec, P!objects
<1>5. CASE ~Exists /\ pspec' = P!Generation(1, PipelineSpec(obj.spec.version, cfgName))
           /\ queued' = P!Workers /\ UNCHANGED <<ppc, mem, err>>
  BY <1>2, <1>5
<1> QED
  BY <1>3, <1>4, <1>5 DEF WritePipeline

LEMMA AgreedStep ==
    ASSUME Agreed, Next
    PROVE  Agreed'
<1> USE ConstantsAssumption DEF Agreed, Exists
<1>1. CASE UNCHANGED <<pipes, pspec>>
  BY <1>1
<1>2. CASE pipes' = Reported /\ UNCHANGED pspec
  BY <1>2 DEF Reported
<1>3. CASE WritePipeline
  <2>1. CASE Exists /\ D!Equals(Name) /\ UNCHANGED pipeline
    <3>1. UNCHANGED <<pipes, pspec>>
      BY <1>3, <2>1 DEF WritePipeline, D!CreateOrUpdatePipeline, pipeline
    <3> QED
      BY <3>1
  <2>2. CASE ~D!Equals(Name) /\ \E g : pspec' = P!Generation(g, PipelineSpec(obj.spec.version, cfgName))
    <3>1. pipes' = [pipes EXCEPT ![Name] = D!Written(Name)]
      BY <1>3, <2>2 DEF WritePipeline, D!CreateOrUpdatePipeline
    <3>2. pipes' = [p \in Names |-> pipes'[p]] /\ pipes'[Name] = D!Written(Name)
      BY <3>1
    <3>3. pspec'.ver = obj.spec.version /\ pspec'.cfg = cfgName
      BY <2>2 DEF P!Generation, PipelineSpec
    <3> QED
      BY <3>2, <3>3 DEF D!Written
  <2> QED
    BY <1>3, <2>1, <2>2 DEF WritePipeline, P!UpdateSpec, D!Equals
<1>4. CASE ReconcileProduct /\ ~WritePipeline
  BY <1>1, <1>4 DEF ReconcileProduct, pipeline, D!Begin, D!CreateOrUpdateComponentVersion,
     D!RenderValues, D!GenerateConfigMap, D!DeleteOldMap, D!EndCollection, D!ListPipelines,
     D!Finish, D!PatchStatus, D!PatchConditions
<1>5. CASE ReconcilePipeline
  <2>1. UNCHANGED pspec
    BY <1>5 DEF ReconcilePipeline, P!BeginReconcile, P!CreateOrUpdateLocalization,
       P!CreateOrUpdateConfiguration, P!PatchStatus, P!PatchConditions, P!external
  <2> QED
    BY <1>2, <1>5, <2>1 DEF ReconcilePipeline
<1>6. CASE SchedulePipeline
  <2>1. UNCHANGED pspec
    BY <1>6 DEF SchedulePipeline, P!Scheduler, P!BeginSchedule, P!CheckSnapshot, P!Select,
       P!FindTarget, P!CreateFluxDeployer, P!PatchStatus, P!PatchConditions, P!external
  <2> QED
    BY <1>2, <1>6, <2>1 DEF SchedulePipeline
<1>7. CASE RequestFails
  BY <1>1, <1>7 DEF RequestFails, D!RequestFails, P!RequestFails, pipeline, P!external
<1>8. CASE Restart
  BY <1>1, <1>8 DEF Restart, D!Restart, P!Restart, P!Stop, pipeline, P!external
<1>9. CASE Environment
  BY <1>1, <1>9 DEF Environment, D!UpdateProduct, D!EditConfig, ProduceSnapshot,
     P!ProduceSnapshot, pipeline
<1> QED
  BY <1>3, <1>4, <1>5, <1>6, <1>7, <1>8, <1>9 DEF Next, ReconcileProduct

\* No controller does anything before the pipeline is there.
LEMMA NothingRuns ==
    ASSUME NotStarted
    PROVE  ~ReconcilePipeline /\ ~SchedulePipeline /\ ~P!RequestFails
BY DEF NotStarted, P!Workers, ReconcilePipeline, SchedulePipeline, P!Scheduler,
   P!BeginReconcile, P!CreateOrUpdateLocalization, P!CreateOrUpdateConfiguration,
   P!PatchStatus, P!PatchConditions, P!BeginSchedule, P!CheckSnapshot, P!Select, P!FindTarget,
   P!CreateFluxDeployer, P!RequestFails

LEMMA IInvStep ==
    ASSUME IInv, [Next]_vars
    PROVE  IInv'
<1> USE DEF IInv, Started
<1>1. Versioned' /\ Agreed'
  <2>1. CASE Next
    BY <2>1, VersionedStep, AgreedStep
  <2>2. CASE UNCHANGED vars
    BY <2>2 DEF Versioned, Agreed, Exists, vars
  <2> QED
    BY <2>1, <2>2
<1>2. ASSUME Started, UNCHANGED pipeline PROVE Started'
  BY <1>2 DEF pipeline, Shape, Current, Mine, Stage, ConfiguredAs
<1>3. ASSUME NotStarted, Shape, UNCHANGED pipes, UNCHANGED pipeline PROVE NotStarted' /\ Shape'
  BY <1>3 DEF pipeline, NotStarted, Exists, Shape, Mine, Stage
<1>4. CASE WritePipeline
  BY <1>1, <1>4, ProductKeeps
<1>5. CASE ReconcileProduct /\ ~WritePipeline
  <2>1. UNCHANGED pipes /\ UNCHANGED pipeline
    BY <1>5 DEF ReconcileProduct, D!Begin, D!CreateOrUpdateComponentVersion, D!RenderValues,
       D!GenerateConfigMap, D!DeleteOldMap, D!EndCollection, D!ListPipelines, D!Finish,
       D!PatchStatus, D!PatchConditions
  <2> QED
    BY <1>1, <1>2, <1>3, <2>1
<1>6. NotStarted => ~ReconcilePipeline /\ ~SchedulePipeline /\ ~P!RequestFails
  BY NothingRuns
<1>7. CASE ReconcilePipeline
  BY <1>1, <1>6, <1>7, ReconcilerKeeps DEF ReconcilePipeline
<1>8. CASE SchedulePipeline
  BY <1>1, <1>6, <1>8, SchedulerKeeps DEF SchedulePipeline
<1>9. CASE RequestFails
  <2>1. CASE D!RequestFails /\ UNCHANGED pipeline
    BY <1>1, <1>2, <1>3, <2>1 DEF D!RequestFails
  <2>2. CASE P!RequestFails
    BY <1>1, <1>6, <2>2, FaultKeeps
  <2> QED
    BY <1>9, <2>1, <2>2 DEF RequestFails
<1>10. CASE Restart
  <2>1. CASE Exists /\ P!Restart
    BY <1>1, <2>1, FaultKeeps DEF NotStarted
  <2>2. CASE ~Exists /\ UNCHANGED pipeline
    <3>1. UNCHANGED pipes
      BY <1>10 DEF Restart, D!Restart
    <3> QED
      BY <1>1, <1>2, <1>3, <2>2, <3>1
  <2> QED
    BY <1>10, <2>1, <2>2 DEF Restart
<1>11. CASE Environment
  <2>1. CASE UNCHANGED pipes /\ UNCHANGED pipeline
    BY <1>1, <1>2, <1>3, <2>1
  <2>2. ASSUME NEW p \in P!Providers, ProduceSnapshot(p) PROVE IInv'
    <3>1. UNCHANGED <<pipes, pspec, cf, queued, ppc, mem, err>>
      BY <2>2 DEF ProduceSnapshot, P!ProduceSnapshot, P!objects, P!workers
    <3> QED
      BY <1>1, <3>1 DEF NotStarted, Exists, Shape, Current, Mine, Stage, ConfiguredAs
  <2> QED
    BY <1>11, <2>1, <2>2 DEF Environment, D!UpdateProduct, D!EditConfig
<1>12. CASE UNCHANGED vars
  BY <1>1, <1>2, <1>3, <1>12 DEF vars, pipeline
<1> QED
  BY <1>4, <1>5, <1>7, <1>8, <1>9, <1>10, <1>11, <1>12 DEF Next, ReconcileProduct

\* A pipeline whose reconciler has nothing left to do has the Configuration of its spec,
\* whatever it read before the product wrote, failed to send, or lost with the process.
THEOREM RestIsConfigured == Spec => []SettledIsConfigured
<1>1. IInv => SettledIsConfigured
  BY DEF IInv, SettledIsConfigured, NotStarted, Agreed, IsWritten, Current, ConfiguredAs, Stage, P!Busy
<1> QED
  BY <1>1, IInvInit, IInvStep, PTL DEF Spec

-----------------------------------------------------------------------------
(* Old values are gone only while the pass that replaces them goes on. *)

\* As long as no request fails: the values of the pipeline are there, or the pass that
\* has published new ones is still going to write them to it.
Replaced ==
    /\ product.pipes = Names /\ obj.spec.pipes = Names /\ faults \in Nat
    /\ faults = 0 =>
        /\ gcFailed = FALSE
        /\ pc \in {"gc", "list", "pipelines"} => cfgName \in maps
        /\ pc = "gc" => updated = TRUE /\ cfgName \notin old
        /\ Exists /\ pipes[Name].values \notin maps =>
             /\ pc \in {"gc", "list", "pipelines"} /\ updated = TRUE
             /\ pc = "pipelines" => Name \in todo

LEMMA ReplacedInit == Init => Replaced
  BY ConstantsAssumption DEF Init, Replaced, Exists, D!Init, D!Generation

LEMMA ReplacedStep ==
    ASSUME Versioned, Agreed, Replaced, Next
    PROVE  Replaced'
<1> USE DEF Replaced, Exists
<1>0. Names = {Name} /\ "spec" \in DOMAIN obj
  BY ConstantsAssumption DEF Versioned
<1>1. ASSUME D!Next PROVE Replaced'
  <2>1. CASE D!Begin
    BY <2>1 DEF D!Begin
  <2>2. CASE D!CreateOrUpdateComponentVersion \/ D!PatchStatus
    BY <2>2 DEF D!CreateOrUpdateComponentVersion, D!PatchStatus
  <2>3. CASE D!RenderValues
    BY <1>0, <2>3 DEF D!RenderValues, D!Fail
  <2>4. CASE D!GenerateConfigMap
    BY <2>4 DEF D!GenerateConfigMap, D!Superseded
  <2>5. ASSUME NEW m \in Values, D!DeleteOldMap(m) PROVE Replaced'
    BY <2>5 DEF D!DeleteOldMap
  <2>6. CASE D!EndCollection
    BY <1>0, <2>6 DEF D!EndCollection, D!Fail
  <2>7. CASE D!ListPipelines
    <3>1. obj'.spec = obj.spec
      BY <1>0, <2>7 DEF D!ListPipelines
    <3>2. updated = TRUE => todo' = Names
      BY <2>7 DEF D!ListPipelines
    <3> QED
      BY <1>0, <2>7, <3>1, <3>2 DEF D!ListPipelines
  <2>8. ASSUME NEW p \in Names, D!CreateOrUpdatePipeline(p) PROVE Replaced'
    <3>1. obj'.spec = obj.spec
      BY <1>0, <2>8 DEF D!CreateOrUpdatePipeline
    <3>2. pipes'[Name].values = cfgName
      BY <1>0, <2>8 DEF Agreed, D!CreateOrUpdatePipeline, D!Equals, D!Written
    <3> QED
      BY <1>0, <2>8, <3>1, <3>2 DEF D!CreateOrUpdatePipeline
  <2>9. CASE D!Finish
    BY <1>0, <2>9 DEF D!Finish
  <2>10. CASE D!PatchConditions
    BY <2>10 DEF D!PatchConditions, D!EndPass
  <2>11. CASE D!RequestFails
    <3>1. faults' = faults + 1 /\ product' = product
      BY <2>11 DEF D!RequestFails, D!Fault
    <3>2. obj'.spec = obj.spec
      BY <1>0, <2>11 DEF D!RequestFails, D!Fail, D!EndPass
    <3> QED
      BY <3>1, <3>2
  <2>12. CASE D!Restart
    <3>1. faults' = faults + 1 /\ product' = product /\ obj' = obj
      BY <2>12 DEF D!Restart, D!Fault, D!EndPass
    <3> QED
      BY <3>1
  <2>13. ASSUME NEW s \in Products, D!UpdateProduct(s) PROVE Replaced'
    <3>1. s.pipes = Names
      BY ConstantsAssumption
    <3> QED
      BY <2>13, <3>1 DEF D!UpdateProduct, D!Generation
  <2>14. ASSUME NEW c \in Values \cup {Unusable}, D!EditConfig(c) PROVE Replaced'
    BY <2>14 DEF D!EditConfig
  <2>15. ASSUME NEW p \in Names, NEW r \in BOOLEAN, D!PipelineReports(p, r) PROVE Replaced'
    <3>1. pipes[Name] # None /\ pipes'[Name].values = pipes[Name].values
      BY <1>0, <2>15 DEF Agreed, D!PipelineReports
    <3> QED
      BY <2>15, <3>1 DEF D!PipelineReports
  <2> QED
    BY <1>1, <2>1, <2>2, <2>3, <2>4, <2>5, <2>6, <2>7, <2>8, <2>9, <2>10, <2>11, <2>12, <2>13,
       <2>14, <2>15 DEF D!Next, D!Reconcile, D!Environment
<1>2. ASSUME UNCHANGED D!vars PROVE Replaced'
  BY <1>2
<1> QED
  BY <1>1, <1>2, StepIsExpected

\* A pipeline is never deleted, and nothing is there of one that is not there yet.
Untouched ==
    /\ pstatus = P!NewStatus
    /\ lz = None /\ cf = None /\ fd = None
    /\ snaps = [p \in P!Providers |-> "absent"] /\ targets \in P!TargetSets
    /\ queued = {}
    /\ ppc = [w \in P!Workers |-> "idle"] /\ mem = [w \in P!Workers |-> None]
    /\ err = [w \in P!Workers |-> FALSE]
    /\ found = None /\ panicked = FALSE /\ pfaults = 0

Created ==
    IF Exists THEN pipes[Name] \in D!Pipeline ELSE Untouched

LEMMA CreatedInit == Init => Created
<1> SUFFICES ASSUME Init PROVE Created
  OBVIOUS
<1>1. ~Exists
  BY ConstantsAssumption DEF Init, Exists, D!Init
<1> QED
  BY <1>1 DEF Init, Created, Untouched

LEMMA CreatedStep ==
    ASSUME Versioned, Agreed, Created, [Next]_vars
    PROVE  Created'
<1>1. CASE Exists
  <2>1. pipes[Name] \in D!Pipeline
    BY <1>1 DEF Created
  <2>2. CASE UNCHANGED pipes
    BY <1>1, <2>1, <2>2 DEF Created, Exists
  <2>3. pipes'[Name] \in D!Pipeline => Created'
    BY ConstantsAssumption DEF Created, Exists, D!Pipeline
  <2>4. ASSUME NEW p \in Names, D!CreateOrUpdatePipeline(p) PROVE Created'
    <3>1. p = Name /\ pipes[p] # None
      BY <1>1, ConstantsAssumption DEF Exists
    <3>2. D!Written(p) \in D!Pipeline
      BY <2>1, <2>4, <3>1 DEF Versioned, D!CreateOrUpdatePipeline, D!Written, D!Pipeline
    <3>3. pipes' = [pipes EXCEPT ![Name] = IF D!Equals(p) THEN @ ELSE D!Written(p)]
      BY <2>4, <3>1 DEF D!CreateOrUpdatePipeline
    <3>4. pipes'[Name] \in {pipes[Name], D!Written(p)}
      BY <3>3, ConstantsAssumption DEF Agreed
    <3> QED
      BY <2>1, <2>3, <3>2, <3>4
  <2>5. ASSUME NEW p \in Names, NEW r \in BOOLEAN, D!PipelineReports(p, r) PROVE Created'
    <3>1. pipes'[Name] = [pipes[Name] EXCEPT !.ready = r]
      BY <2>5, ConstantsAssumption DEF Agreed, D!PipelineReports
    <3> QED
      BY <2>1, <2>3, <3>1 DEF D!Pipeline
  <2>6. D!Next => UNCHANGED pipes \/ \E p \in Names : D!CreateOrUpdatePipeline(p)
                  \/ \E q \in Names, r \in BOOLEAN : D!PipelineReports(q, r)
    BY DEF D!Next, D!Reconcile, D!Environment, D!Begin, D!CreateOrUpdateComponentVersion,
       D!RenderValues, D!GenerateConfigMap, D!DeleteOldMap, D!EndCollection, D!ListPipelines,
       D!Finish, D!PatchStatus, D!PatchConditions, D!RequestFails, D!Restart, D!UpdateProduct,
       D!EditConfig
  <2>7. D!Next \/ UNCHANGED pipes
    BY StepIsExpected DEF vars
  <2> QED
    BY <2>2, <2>4, <2>5, <2>6, <2>7
<1>2. CASE ~Exists
  <2>1. Untouched /\ NotStarted
    BY <1>2 DEF Created, Untouched, NotStarted
  <2>2. CASE WritePipeline
    <3>1. pipes'[Name] = D!Written(Name)
      BY <1>2, <2>2, ConstantsAssumption
      DEF Agreed, Exists, WritePipeline, D!CreateOrUpdatePipeline, D!Equals
    <3>2. D!Written(Name) \in D!Pipeline
      BY <1>2, <2>2
      DEF Exists, Versioned, WritePipeline, D!CreateOrUpdatePipeline, D!Written, D!Pipeline
    <3> QED
      BY <3>1, <3>2, ConstantsAssumption DEF Created, Exists, D!Pipeline
  <2>3. ASSUME NEW p \in P!Providers, ProduceSnapshot(p) PROVE FALSE
    BY <2>1, <2>3 DEF Untouched, ProduceSnapshot, P!ProduceSnapshot, P!Providers
  <2>4. CASE UNCHANGED <<pipes, pipeline>>
    BY <2>1, <2>4 DEF Created, Untouched, pipeline, Exists
  <2>5. CASE ReconcileProduct /\ ~WritePipeline
    BY <2>4, <2>5 DEF ReconcileProduct, D!Begin, D!CreateOrUpdateComponentVersion, D!RenderValues,
       D!GenerateConfigMap, D!DeleteOldMap, D!EndCollection, D!ListPipelines, D!Finish,
       D!PatchStatus, D!PatchConditions
  <2>6. CASE RequestFails
    BY <2>1, <2>4, <2>6, NothingRuns DEF RequestFails, D!RequestFails
  <2>7. CASE Restart
    BY <1>2, <2>4, <2>7 DEF Restart, D!Restart
  <2>8. CASE Environment
    BY <2>3, <2>4, <2>8 DEF Environment, D!UpdateProduct, D!EditConfig
  <2>9. CASE UNCHANGED vars
    BY <2>4, <2>9 DEF vars, pipeline
  <2> QED
    BY <2>1, <2>2, <2>5, <2>6, <2>7, <2>8, <2>9, NothingRuns DEF Next, ReconcileProduct
<1> QED
  BY <1>1, <1>2

\* No Configuration is left with values that are deleted, unless a request fails: what the
\* garbage collection of a pass takes away, the rest of that pass replaces.
THEOREM DeletedIsReplaced == Spec => []DeletedValuesAreReplaced
<1>1. Replaced /\ IInv /\ [Next]_vars => Replaced'
  <2>1. ASSUME Replaced, UNCHANGED vars PROVE Replaced'
    BY <2>1 DEF Replaced, Exists, vars
  <2> QED
    BY <2>1, ReplacedStep DEF IInv
<1>2. Created /\ IInv /\ [Next]_vars => Created'
  BY CreatedStep DEF IInv
<1>3. IInv /\ Replaced /\ Created => DeletedValuesAreReplaced
  <2> SUFFICES ASSUME IInv, Replaced, Created, faults = 0, cf # None, cf.cfg \notin maps,
                      ~P!Busy("reconciler")
               PROVE  updated
    BY DEF DeletedValuesAreReplaced
  <2>1. Exists
    BY DEF Created, Untouched
  <2>2. cf.cfg = pipes[Name].values
    BY <2>1 DEF IInv, NotStarted, Agreed, Current, ConfiguredAs, Stage, P!Busy
  <2> QED
    BY <2>1, <2>2 DEF Replaced
<1> QED
  BY <1>1, <1>2, <1>3, IInvInit, IInvStep, ReplacedInit, CreatedInit, PTL DEF Spec

-----------------------------------------------------------------------------
(* What is proved of the two modules holds of the composition.  The instances *)
(* with the proofs say the same as those that Product is made of.             *)

DP == INSTANCE ProductDeployment_proofs

PP == INSTANCE Pipeline_proofs WITH
    spec <- pspec, status <- pstatus, pc <- ppc, faults <- pfaults,
    Specs <- {PipelineSpec(v, c) : v \in Versions, c \in Values},
    MaxGen <- MaxGen + MaxEdits

\* What Product assumes is what the two modules assume.
LEMMA SameConstants == DP!ConstantsAssumption /\ PP!ConstantsAssumption
BY ConstantsAssumption DEF D!ConstantsAssumption, DP!ConstantsAssumption,
   P!ConstantsAssumption, PP!ConstantsAssumption, P!Localization, PP!Localization,
   P!Configuration, PP!Configuration, P!FluxDeployer, PP!FluxDeployer, P!Providers, PP!Providers,
   P!TargetRefs, PP!TargetRefs, P!Ref, PP!Ref

\* The steps of the one instance of ProductDeployment are those of the other.
LEMMA SameProductSteps ==
    ASSUME D!Next
    PROVE  DP!Next
<1>1. D!Begin => DP!Begin
  BY DEF D!Begin, DP!Begin, D!Progressing, DP!Progressing, D!desired, DP!desired, D!pass,
     DP!pass, D!locals, DP!locals
<1>2. D!CreateOrUpdateComponentVersion => DP!CreateOrUpdateComponentVersion
  BY DEF D!CreateOrUpdateComponentVersion, DP!CreateOrUpdateComponentVersion, D!desired,
     DP!desired, D!pass, DP!pass, D!locals, DP!locals
<1>3. D!RenderValues => DP!RenderValues
  BY DEF D!RenderValues, DP!RenderValues, D!Fail, DP!Fail, D!MarkNotReady, DP!MarkNotReady,
     D!desired, DP!desired, D!pass, DP!pass, D!locals, DP!locals
<1>4. D!GenerateConfigMap => DP!GenerateConfigMap
  BY DEF D!GenerateConfigMap, DP!GenerateConfigMap, D!Superseded, DP!Superseded, D!desired,
     DP!desired, D!pass, DP!pass, D!locals, DP!locals
<1>5. D!EndCollection => DP!EndCollection
  BY DEF D!EndCollection, DP!EndCollection, D!Fail, DP!Fail, D!MarkNotReady,
     DP!MarkNotReady, D!desired, DP!desired, D!pass, DP!pass, D!locals, DP!locals
<1>6. D!ListPipelines => DP!ListPipelines
  BY DEF D!ListPipelines, DP!ListPipelines, D!Existing, DP!Existing, D!desired, DP!desired,
     D!pass, DP!pass, D!locals, DP!locals
<1>7. D!Finish => DP!Finish
  BY DEF D!Finish, DP!Finish, D!MarkReady, DP!MarkReady, D!desired, DP!desired, D!pass,
     DP!pass, D!locals, DP!locals
<1>8. D!PatchStatus => DP!PatchStatus
  BY DEF D!PatchStatus, DP!PatchStatus, D!ObservedGeneration, DP!ObservedGeneration,
     D!IsReady, DP!IsReady, D!desired, DP!desired, D!pass, DP!pass, D!locals, DP!locals
<1>9. D!PatchConditions => DP!PatchConditions
  BY DEF D!PatchConditions, DP!PatchConditions, D!EndPass, DP!EndPass, D!desired,
     DP!desired, D!pass, DP!pass, D!locals, DP!locals
<1>10. D!RequestFails => DP!RequestFails
  BY DEF D!RequestFails, DP!RequestFails, D!Fault, DP!Fault, D!Fail, DP!Fail,
     D!MarkNotReady, DP!MarkNotReady, D!EndPass, DP!EndPass, D!desired, DP!desired, D!pass,
     DP!pass, D!locals, DP!locals
<1>11. D!Restart => DP!Restart
  BY DEF D!Restart, DP!Restart, D!Fault, DP!Fault, D!EndPass, DP!EndPass, D!desired,
     DP!desired, D!pass, DP!pass, D!locals, DP!locals
<1>12. ASSUME NEW x, D!DeleteOldMap(x) PROVE DP!DeleteOldMap(x)
  BY <1>12 DEF D!DeleteOldMap, DP!DeleteOldMap, D!desired, DP!desired, D!pass, DP!pass,
     D!locals, DP!locals
<1>13. ASSUME NEW x, D!CreateOrUpdatePipeline(x) PROVE DP!CreateOrUpdatePipeline(x)
  BY <1>13 DEF D!CreateOrUpdatePipeline, DP!CreateOrUpdatePipeline, D!Equals, DP!Equals,
     D!Written, DP!Written, D!desired, DP!desired, D!pass, DP!pass, D!locals, DP!locals
<1>14. D!Environment => DP!Environment
  BY DEF D!Environment, DP!Environment, D!UpdateProduct, DP!UpdateProduct, D!EditConfig,
     DP!EditConfig, D!PipelineReports, DP!PipelineReports, D!Generation, DP!Generation,
     D!desired, DP!desired, D!pass, DP!pass, D!locals, DP!locals
<1> QED
  BY <1>1, <1>2, <1>3, <1>4, <1>5, <1>6, <1>7, <1>8, <1>9, <1>10, <1>11, <1>12, <1>13, <1>14
  DEF D!Next, DP!Next, D!Reconcile, DP!Reconcile

\* The steps of the one instance of Pipeline are those of the other.
LEMMA SamePipelineSteps ==
    ASSUME P!Next
    PROVE  PP!Next
<1>1. P!BeginReconcile => PP!BeginReconcile
  BY DEF P!BeginReconcile, PP!BeginReconcile, P!Progressing, PP!Progressing, P!external,
     PP!external, P!objects, PP!objects, P!workers, PP!workers, P!Workers, PP!Workers
<1>2. P!CreateOrUpdateLocalization => PP!CreateOrUpdateLocalization
  BY DEF P!CreateOrUpdateLocalization, PP!CreateOrUpdateLocalization, P!Mine, PP!Mine,
     P!Named, PP!Named, P!external, PP!external, P!objects, PP!objects, P!workers,
     PP!workers, P!Workers, PP!Workers
<1>3. P!CreateOrUpdateConfiguration => PP!CreateOrUpdateConfiguration
  BY DEF P!CreateOrUpdateConfiguration, PP!CreateOrUpdateConfiguration, P!Mine, PP!Mine,
     P!Named, PP!Named, P!DesiredConfiguration, PP!DesiredConfiguration, P!Outdated,
     PP!Outdated, P!ComparesMissingReference, PP!ComparesMissingReference, P!NoProvider,
     PP!NoProvider, P!RecordSnapshot, PP!RecordSnapshot, P!Return, PP!Return, P!MarkReady,
     PP!MarkReady, P!external, PP!external, P!objects, PP!objects, P!workers, PP!workers,
     P!Workers, PP!Workers
<1>4. P!Panic => PP!Panic
  BY DEF P!Panic, PP!Panic, P!Mine, PP!Mine, P!ComparesMissingReference,
     PP!ComparesMissingReference, P!NoProvider, PP!NoProvider, P!Stop, PP!Stop, P!external,
     PP!external, P!objects, PP!objects, P!workers, PP!workers, P!Workers, PP!Workers
<1>5. P!BeginSchedule => PP!BeginSchedule
  BY DEF P!BeginSchedule, PP!BeginSchedule, P!external, PP!external, P!objects, PP!objects,
     P!workers, PP!workers, P!Workers, PP!Workers
<1>6. P!CheckSnapshot => PP!CheckSnapshot
  BY DEF P!CheckSnapshot, PP!CheckSnapshot, P!SnapshotReady, PP!SnapshotReady, P!Scheduled, PP!Scheduled, P!Progressing,
     PP!Progressing, P!EndPass, PP!EndPass, P!external, PP!external, P!objects, PP!objects,
     P!workers, PP!workers, P!Workers, PP!Workers
<1>7. P!Select => PP!Select
  BY DEF P!Select, PP!Select, P!Ref, PP!Ref, P!Scheduled, PP!Scheduled, P!NotDeployed, PP!NotDeployed,
     P!Return, PP!Return, P!Candidates, PP!Candidates, P!Found, PP!Found, P!Search,
     PP!Search, P!external, PP!external, P!objects, PP!objects, P!workers, PP!workers,
     P!Workers, PP!Workers
<1>8. P!FindTarget => PP!FindTarget
  BY DEF P!FindTarget, PP!FindTarget, P!Ref, PP!Ref, P!Deployable, PP!Deployable, P!Scheduled, PP!Scheduled, P!NotDeployed,
     PP!NotDeployed, P!Return, PP!Return, P!external, PP!external, P!objects, PP!objects,
     P!workers, PP!workers, P!Workers, PP!Workers
<1>9. P!CreateFluxDeployer => PP!CreateFluxDeployer
  BY DEF P!CreateFluxDeployer, PP!CreateFluxDeployer, P!NotDeployed, PP!NotDeployed,
     P!Scheduled, PP!Scheduled, P!Return,
     PP!Return, P!external, PP!external, P!objects, PP!objects, P!workers, PP!workers,
     P!Workers, PP!Workers
<1>10. P!RequestFails => PP!RequestFails
  BY DEF P!RequestFails, PP!RequestFails, P!Fault, PP!Fault, P!Scheduled, PP!Scheduled,
     P!Mine, PP!Mine, P!MarkNotReady, PP!MarkNotReady, P!NotDeployed, PP!NotDeployed,
     P!Return, PP!Return, P!EndPass, PP!EndPass, P!external, PP!external, P!objects,
     PP!objects, P!workers, PP!workers, P!Workers, PP!Workers
<1>11. P!Restart => PP!Restart
  BY DEF P!Restart, PP!Restart, P!Fault, PP!Fault, P!Stop, PP!Stop, P!external, PP!external,
     P!objects, PP!objects, P!workers, PP!workers, P!Workers, PP!Workers
<1>12. ASSUME NEW w, P!PatchStatus(w) PROVE PP!PatchStatus(w)
  BY <1>12 DEF P!PatchStatus, PP!PatchStatus, P!Observed, PP!Observed, P!IsReady,
     PP!IsReady, P!Changed, PP!Changed, P!external, PP!external, P!objects, PP!objects,
     P!workers, PP!workers, P!Workers, PP!Workers
<1>13. ASSUME NEW w, P!PatchConditions(w) PROVE PP!PatchConditions(w)
  BY <1>13 DEF P!PatchConditions, PP!PatchConditions, P!Conflicting, PP!Conflicting,
     P!Conditions, PP!Conditions, P!Changed, PP!Changed, P!EndPass, PP!EndPass, P!external,
     PP!external, P!objects, PP!objects, P!workers, PP!workers, P!Workers, PP!Workers
<1>14. P!Environment => PP!Environment
  BY DEF P!Environment, PP!Environment, P!UpdateSpec, PP!UpdateSpec, P!ProduceSnapshot,
     PP!ProduceSnapshot, P!ChangeOwners, PP!ChangeOwners, P!SnapshotReady, PP!SnapshotReady,
     P!TargetSets, PP!TargetSets, P!Ref, PP!Ref, P!ChangeTargets, PP!ChangeTargets, P!Generation, PP!Generation,
     P!Providers, PP!Providers, P!external, PP!external, P!objects, PP!objects, P!workers,
     PP!workers, P!Workers, PP!Workers
<1> QED
  BY <1>1, <1>2, <1>3, <1>4, <1>5, <1>6, <1>7, <1>8, <1>9, <1>10, <1>11, <1>12, <1>13, <1>14
  DEF P!Next, PP!Next, P!Reconciler, PP!Reconciler, P!Scheduler, PP!Scheduler

\* Everything that is proved of ProductDeployment holds of the product in the composition.
THEOREM ProductIsSafe ==
    Spec => /\ [](DP!TypeOK /\ DP!PublishedAlone /\ DP!ObservedMeansRolledOut)
            /\ DP!ImplementsRollout
<1>1. Init => DP!Init
  BY DEF Init, D!Init, DP!Init, D!Generation, DP!Generation
<1>2. [Next]_vars => [DP!Next]_DP!vars
  <2>1. ASSUME UNCHANGED D!vars PROVE UNCHANGED DP!vars
    BY <2>1 DEF DP!vars, DP!desired, DP!pass, DP!locals
  <2>2. ASSUME UNCHANGED vars PROVE UNCHANGED D!vars
    BY <2>2 DEF vars
  <2>3. CASE Next
    BY <2>1, <2>3, StepIsExpected, SameProductSteps
  <2> QED
    BY <2>1, <2>2, <2>3
<1>3. Spec => DP!Spec
  BY <1>1, <1>2, PTL DEF Spec, DP!Spec
<1> QED
  BY <1>3, SameConstants, DP!TypeCorrect, DP!NoLeftovers, DP!ObservedIsHonest,
     DP!RefinesRollout, PTL

\* What is proved of every step of Pipeline.
PipelineInv == PP!TypeInv /\ PP!SafetyInv

\* What the composition does to an existing pipeline are steps of the instance.
LEMMA PipelineStep ==
    ASSUME [P!Next]_P!vars
    PROVE  [PP!Next]_PP!vars
<1>1. ASSUME UNCHANGED P!vars PROVE UNCHANGED PP!vars
  BY <1>1 DEF P!vars, PP!vars, P!external, PP!external, P!objects, PP!objects, P!workers, PP!workers
<1> QED
  BY <1>1, SamePipelineSteps

\* Such steps keep what is proved of Pipeline.
LEMMA PipelineInvStep ==
    ASSUME PipelineInv, [P!Next]_P!vars
    PROVE  PipelineInv'
BY PipelineStep, SameConstants, PP!TypeStep, PP!SafetyStep DEF PipelineInv

\* Only the product writes a pipeline that is not there yet.
LEMMA NothingWrites ==
    ASSUME NotStarted, [Next]_vars, ~WritePipeline
    PROVE  UNCHANGED pipes
<1>1. CASE ReconcileProduct
  BY <1>1 DEF ReconcileProduct, D!Begin, D!CreateOrUpdateComponentVersion, D!RenderValues,
     D!GenerateConfigMap, D!DeleteOldMap, D!EndCollection, D!ListPipelines, D!Finish,
     D!PatchStatus, D!PatchConditions
<1>2. CASE RequestFails
  BY <1>2 DEF RequestFails, D!RequestFails
<1>3. CASE Restart
  BY <1>3 DEF Restart, D!Restart
<1>4. CASE Environment
  BY <1>4 DEF Environment, ProduceSnapshot, D!UpdateProduct, D!EditConfig
<1>5. CASE UNCHANGED vars
  BY <1>5 DEF vars
<1> QED
  BY <1>1, <1>2, <1>3, <1>4, <1>5, NothingRuns DEF Next

\* It holds of a new pipeline.
LEMMA PipelineInvInit == PP!Init => PipelineInv
BY SameConstants, PP!TypeInit, PP!SafetyInit DEF PipelineInv

\* The pipeline that the product creates is in an initial state of Pipeline.
LEMMA PipelineBegins ==
    ASSUME Versioned, Untouched, ~Exists, WritePipeline
    PROVE  PP!Init'
<1>1. PipelineSpec(obj.spec.version, cfgName) \in {PipelineSpec(v, c) : v \in Versions, c \in Values}
  BY DEF Versioned, WritePipeline, D!CreateOrUpdatePipeline
<1>2. /\ pspec' = P!Generation(1, PipelineSpec(obj.spec.version, cfgName)) /\ queued' = P!Workers
      /\ UNCHANGED <<pstatus, lz, cf, snaps, fd, targets, ppc, mem, err, found, panicked, pfaults>>
  BY DEF WritePipeline
<1> QED
  BY <1>1, <1>2 DEF Untouched, PP!Init, PP!Generation, P!Generation, PP!NewStatus, P!NewStatus,
     PP!TargetSets, P!TargetSets, PP!Ref, P!Ref, PP!Providers, P!Providers, PP!Workers, P!Workers

\* What the two controllers of the pipeline keep, from when it is there.
Composed == IInv /\ Created /\ (Exists => PipelineInv)

\* It holds when the product creates the pipeline, and is kept from then on.
LEMMA ComposedInvariant == Spec => []Composed
<1>1. Init => Composed
  BY IInvInit, CreatedInit, ConstantsAssumption DEF Composed, Init, Exists, D!Init
<1>2. PP!Init' => PipelineInv'
  BY PipelineInvInit, PTL
<1>3. Composed /\ [Next]_vars => Composed'
  <2> SUFFICES ASSUME Composed, [Next]_vars, Exists' PROVE PipelineInv'
    BY IInvStep, CreatedStep DEF Composed, IInv
  <2>1. CASE Exists
    BY <2>1, StepIsOfPipeline, PipelineInvStep DEF Composed, IInv
  <2>2. CASE ~Exists
    <3>1. CASE WritePipeline
      BY <1>2, <2>2, <3>1, PipelineBegins DEF Composed, IInv, Created
    <3>2. CASE ~WritePipeline
      <4>1. NotStarted
        BY <2>2 DEF Composed, Created, Untouched, NotStarted
      <4> QED
        BY <2>2, <3>2, <4>1, NothingWrites DEF Exists
    <3> QED
      BY <3>1, <3>2
  <2> QED
    BY <2>1, <2>2
<1> QED
  BY <1>1, <1>3, PTL DEF Spec

\* Everything that is proved of Pipeline holds of the pipeline in the composition,
\* from when the product creates it.
THEOREM PipelineIsSafe ==
    Spec => [](Exists => /\ PP!TypeOK /\ PP!DeployedIsReal /\ PP!StagesInOrder
                         /\ PP!TornStatusIsRetried)
<1>1. Composed =>
        (Exists => /\ PP!TypeOK /\ PP!DeployedIsReal /\ PP!StagesInOrder /\ PP!TornStatusIsRetried)
  BY DEF Composed, PipelineInv, PP!TypeInv, PP!SafetyInv
<1> QED
  BY <1>1, ComposedInvariant, PTL

\* Once the snapshot of the Configuration is recorded it stays so: no spec of the
\* product leads back to the localized one, and neither does a stale copy.
THEOREM SnapshotStays == Spec => [][pstatus.snap = "cfg" => pstatus'.snap = "cfg"]_pstatus
<1>1. Composed /\ [Next]_vars => [pstatus.snap = "cfg" => pstatus'.snap = "cfg"]_pstatus
  <2> SUFFICES ASSUME Composed, [Next]_vars, pstatus.snap = "cfg", pstatus'.snap # "cfg"
               PROVE  FALSE
    OBVIOUS
  <2>1. Exists
    BY ConstantsAssumption
    DEF Composed, Created, Untouched, P!NewStatus, P!ConstantsAssumption, P!Providers
  <2>2. [P!Next]_P!vars /\ PipelineInv /\ IInv
    BY <2>1, StepIsOfPipeline DEF Composed, IInv
  <2>3. [PP!Next]_PP!vars
    BY <2>2, PipelineStep
  <2>4. Stage = "patchStatus" /\ Mine.spec.rules = None
    BY <2>2, <2>3, SameConstants, PP!SnapshotStep DEF PipelineInv, Stage, Mine, PP!Mine
  <2>5. IsWritten(Mine.spec)
    BY <2>2, <2>4 DEF IInv, Shape
  <2> QED
    BY <2>4, <2>5, ConstantsAssumption DEF IsWritten
<1> QED
  BY <1>1, ComposedInvariant, PTL DEF Spec

-----------------------------------------------------------------------------
(* The reconciler of the pipeline does not panic. *)

\* A Configuration draws from a Localization when the versions of the product say so.
Routed == cf # None => \A v \in Versions : cf.viaLoc = (Template[v].loc # None)

\* The reconciler is the only one to write it, from a spec of the product.
LEMMA RoutedStep ==
    ASSUME Shape, Routed, [Next]_vars
    PROVE  Routed'
<1> USE DEF Routed
<1>1. CASE UNCHANGED cf
  BY <1>1
<1>2. CASE P!CreateOrUpdateConfiguration
  <2>1. IsWritten(Mine.spec)
    BY <1>2 DEF Shape, Stage, P!CreateOrUpdateConfiguration
  <2>2. P!DesiredConfiguration.viaLoc = (Mine.spec.loc # None)
    BY DEF P!DesiredConfiguration, P!Mine, Mine
  <2>3. cf' = cf \/ cf' = P!DesiredConfiguration
    BY <1>2 DEF P!CreateOrUpdateConfiguration
  <2> QED
    BY <2>1, <2>2, <2>3, ConstantsAssumption DEF IsWritten
<1>3. [Next]_vars => UNCHANGED cf \/ P!CreateOrUpdateConfiguration
  BY DEF Next, vars, ReconcileProduct, WritePipeline, ReconcilePipeline, SchedulePipeline,
     RequestFails, Restart, Environment, ProduceSnapshot, pipeline, P!UpdateSpec,
     P!BeginReconcile, P!CreateOrUpdateLocalization, P!PatchStatus, P!PatchConditions,
     P!Scheduler, P!BeginSchedule, P!CheckSnapshot, P!Select, P!FindTarget,
     P!CreateFluxDeployer, P!RequestFails, P!Restart, P!Stop, P!ProduceSnapshot, P!objects
<1> QED
  BY <1>1, <1>2, <1>3

\* Where no version of the product is without rules, and all agree on whether there is a
\* Localization, the reconciler never compares a missing reference nor calls a provider
\* that is not there: leaving Pipeline's panic out of the composition loses nothing.
THEOREM NeverPanics ==
    Spec => [](ppc["reconciler"] = "configure" => ~P!ComparesMissingReference /\ ~P!NoProvider)
<1>1. Init => Routed
  BY DEF Init, Routed
<1>2. IInv /\ Routed /\ [Next]_vars => Routed'
  BY RoutedStep DEF IInv
<1>3. IInv /\ Routed =>
        (ppc["reconciler"] = "configure" => ~P!ComparesMissingReference /\ ~P!NoProvider)
  <2> SUFFICES ASSUME IInv, Routed, Stage = "configure"
               PROVE  ~P!ComparesMissingReference /\ ~P!NoProvider
    BY DEF Stage
  <2>1. IsWritten(Mine.spec)
    BY DEF IInv, Shape
  <2>2. ~P!NoProvider
    BY <2>1, ConstantsAssumption DEF IsWritten, Mine, P!Mine, P!NoProvider
  <2>3. cf # None => cf.viaLoc = (Mine.spec.loc # None)
    BY <2>1 DEF Routed, IsWritten
  <2>4. ~P!ComparesMissingReference
    BY <2>3, Zenon DEF Mine, P!Mine, P!ComparesMissingReference
  <2> QED
    BY <2>2, <2>4
<1> QED
  BY <1>1, <1>2, <1>3, IInvInit, IInvStep, PTL DEF Spec
=============================================================================
