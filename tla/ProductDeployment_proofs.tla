---------------------- MODULE ProductDeployment_proofs ----------------------
(* Theorems about ProductDeployment, for every set of pipelines, versions,    *)
(* values and products, and for any bound on generations, edits and faults.   *)
EXTENDS ProductDeployment, TLAPS

\* The edits of a status in memory give a status.
LEMMA StatusEdits ==
    ASSUME NEW s \in Status
    PROVE  /\ Progressing(s) \in Status
           /\ MarkNotReady(s) \in Status
           /\ MarkReady(s) \in Status
BY DEF Progressing, MarkNotReady, MarkReady, Status

\* An object stays one when its status is replaced.
LEMMA ObjectEdits ==
    ASSUME NEW o \in Object, NEW s \in Status
    PROVE  [o EXCEPT !.status = s] \in Object
BY DEF Object

\* The type invariant holds.
THEOREM TypeCorrect == Spec => []TypeOK
<1>1. Init => TypeOK
  <2> SUFFICES ASSUME Init PROVE TypeOK
    OBVIOUS
  <2>1. product \in Product
    <3>1. PICK s \in Products : product = Generation(1, s)
      BY DEF Init
    <3>2. s.version \in Versions /\ s.pipes \in SUBSET Names
      BY ConstantsAssumption DEF ConstantsAssumption
    <3>3. 1 \in 1..MaxGen
      BY ConstantsAssumption DEF ConstantsAssumption
    <3> QED
      BY <3>1, <3>2, <3>3 DEF Generation, Product
  <2>2. status \in Status
    BY ConstantsAssumption DEF ConstantsAssumption, Init, Status
  <2>3. obj \in Object
    BY <2>1, <2>2 DEF Init, Object
  <2>4. pipes \in [Names -> Pipeline \cup {None}] /\ pc \in Stages
    BY DEF Init, Stages
  <2>5. edits \in 0..MaxEdits /\ faults \in 0..MaxFaults
    BY ConstantsAssumption DEF ConstantsAssumption, Init
  <2>6. config \in Values \cup {Unusable} /\ cv = None /\ maps = {} /\ pc = "idle"
    BY DEF Init
  <2>7. cfgName = None /\ updated = FALSE /\ gcFailed = FALSE /\ old = {} /\ todo = {}
    BY DEF Init
  <2> QED
    BY <2>1, <2>2, <2>3, <2>4, <2>5, <2>6, <2>7 DEF TypeOK
<1>2. TypeOK /\ [Next]_vars => TypeOK'
  <2> SUFFICES ASSUME TypeOK, [Next]_vars PROVE TypeOK'
    OBVIOUS
  <2> USE DEF TypeOK, desired, locals, pass
  <2>0. obj.spec \in Product /\ obj.status \in Status
    BY DEF Object
  <2>1. CASE Begin
    <3>1. obj' \in Object
      BY <2>1, StatusEdits DEF Begin, Object
    <3> QED
      BY <2>1, <3>1 DEF Begin, Stages
  <2>2. CASE CreateOrUpdateComponentVersion
    BY <2>0, <2>2 DEF CreateOrUpdateComponentVersion, Product, Stages
  <2>3. Fail => obj' \in Object /\ pc' = "patchStatus"
    BY <2>0, StatusEdits, ObjectEdits DEF Fail
  <2>4. CASE RenderValues
    BY <2>3, <2>4 DEF RenderValues, Stages
  <2>5. CASE GenerateConfigMap
    BY <2>5 DEF GenerateConfigMap, Superseded, Stages
  <2>6. ASSUME NEW m \in Values, DeleteOldMap(m) PROVE TypeOK'
    BY <2>6 DEF DeleteOldMap
  <2>7. CASE EndCollection
    BY <2>3, <2>7 DEF EndCollection, Stages
  <2>8. CASE ListPipelines
    <3>1. obj' \in Object
      BY <2>0, <2>8 DEF ListPipelines, Existing, Object, Status
    <3>2. todo' \subseteq Names
      BY <2>0, <2>8 DEF ListPipelines, Product
    <3> QED
      BY <2>8, <3>1, <3>2 DEF ListPipelines, Stages
  <2>9. ASSUME NEW p \in Names, CreateOrUpdatePipeline(p) PROVE TypeOK'
    <3>1. obj' \in Object
      BY <2>0, <2>9 DEF CreateOrUpdatePipeline, Object, Status
    <3>2. Written(p) \in Pipeline
      BY <2>0, <2>9 DEF CreateOrUpdatePipeline, Written, Product, Pipeline
    <3>3. pipes' \in [Names -> Pipeline \cup {None}]
      BY <2>9, <3>2 DEF CreateOrUpdatePipeline
    <3> QED
      BY <2>9, <3>1, <3>3 DEF CreateOrUpdatePipeline
  <2>10. CASE Finish
    <3>1. obj' \in Object
      BY <2>0, <2>10, StatusEdits, ObjectEdits DEF Finish
    <3> QED
      BY <2>10, <3>1 DEF Finish, Stages
  <2>11. CASE PatchStatus
    <3>1. ObservedGeneration \in 0..MaxGen
      BY <2>0, ConstantsAssumption DEF ConstantsAssumption, ObservedGeneration, Status, Product
    <3>2. status' \in Status
      BY <2>0, <2>11, <3>1 DEF PatchStatus, Status
    <3> QED
      BY <2>11, <3>2 DEF PatchStatus, Stages
  <2>12. CASE PatchConditions
    <3>1. status' \in Status
      BY <2>0, <2>12 DEF PatchConditions, Status
    <3> QED
      BY <2>12, <3>1 DEF PatchConditions, EndPass, Stages
  <2>13. CASE RequestFails
    <3>1. faults' \in 0..MaxFaults
      BY <2>13, ConstantsAssumption DEF ConstantsAssumption, RequestFails, Fault
    <3>2. /\ obj' \in Object /\ pc' \in Stages
          /\ old' \subseteq Values /\ gcFailed' \in BOOLEAN /\ todo' \subseteq Names
          /\ updated' \in BOOLEAN /\ cfgName' \in Values \cup {None}
      BY <2>3, <2>13 DEF RequestFails, EndPass, Stages
    <3>3. pc' \in {"configmap", "gc", "list", "pipelines"} => pc' = pc /\ cfgName' = cfgName
      BY <2>13 DEF RequestFails, Fail, EndPass
    <3> QED
      BY <2>13, <3>1, <3>2, <3>3 DEF RequestFails
  <2>14. CASE Restart
    <3>1. faults' \in 0..MaxFaults
      BY <2>14, ConstantsAssumption DEF ConstantsAssumption, Restart, Fault
    <3> QED
      BY <2>14, <3>1 DEF Restart, EndPass, Stages
  <2>15. ASSUME NEW s \in Products, UpdateProduct(s) PROVE TypeOK'
    <3>1. product' \in Product
      BY <2>15, ConstantsAssumption DEF ConstantsAssumption, UpdateProduct, Generation, Product
    <3> QED
      BY <2>15, <3>1 DEF UpdateProduct
  <2>16. ASSUME NEW c \in Values \cup {Unusable}, EditConfig(c) PROVE TypeOK'
    BY <2>16, ConstantsAssumption DEF ConstantsAssumption, EditConfig
  <2>17. ASSUME NEW p \in Names, NEW r \in BOOLEAN, PipelineReports(p, r) PROVE TypeOK'
    <3>1. pipes' \in [Names -> Pipeline \cup {None}]
      BY <2>17 DEF PipelineReports, Pipeline
    <3> QED
      BY <2>17, <3>1 DEF PipelineReports
  <2>18. CASE UNCHANGED vars
    BY <2>18 DEF vars
  <2> QED
    BY <2>1, <2>2, <2>4, <2>5, <2>6, <2>7, <2>8, <2>9, <2>10, <2>11, <2>12, <2>13,
       <2>14, <2>15, <2>16, <2>17, <2>18 DEF Next, Reconcile, Environment
<1> QED
  BY <1>1, <1>2, PTL DEF Spec

-----------------------------------------------------------------------------
(* Config maps.  A pass never loses the map it works with: the map is there   *)
(* from its creation on, is not among those to collect, and, as long as no    *)
(* deletion fails, every other map that exists is.                            *)

MapsInv ==
    /\ pc \in {"gc", "list", "pipelines"} => cfgName \in maps
    /\ pc \in {"idle", "componentversion", "config", "configmap"} => ~gcFailed
    /\ pc = "gc" => cfgName \notin old
    /\ pc = "gc" /\ ~gcFailed => maps = old \cup {cfgName}
    /\ PublishedAlone

\* The map a pass works with exists from its creation on and is not collected by it.
THEOREM MapsCorrect == Spec => []MapsInv
<1>1. Init => MapsInv
  BY DEF Init, MapsInv, PublishedAlone
<1>2. TypeOK /\ MapsInv /\ [Next]_vars => MapsInv'
  <2> SUFFICES ASSUME TypeOK, MapsInv, [Next]_vars PROVE MapsInv'
    OBVIOUS
  <2> USE DEF MapsInv, PublishedAlone, desired, locals, pass
  <2>1. CASE Begin
    BY <2>1 DEF Begin
  <2>2. CASE CreateOrUpdateComponentVersion
    BY <2>2 DEF CreateOrUpdateComponentVersion
  <2>3. CASE RenderValues
    BY <2>3 DEF RenderValues, Fail
  <2>4. CASE GenerateConfigMap
    BY <2>4 DEF GenerateConfigMap, Superseded
  <2>5. ASSUME NEW m \in Values, DeleteOldMap(m) PROVE MapsInv'
    BY <2>5 DEF DeleteOldMap
  <2>6. CASE EndCollection
    BY <2>6 DEF EndCollection, Fail
  <2>7. CASE ListPipelines
    BY <2>7 DEF ListPipelines
  <2>8. ASSUME NEW p \in Names, CreateOrUpdatePipeline(p) PROVE MapsInv'
    BY <2>8 DEF CreateOrUpdatePipeline
  <2>9. CASE Finish
    BY <2>9 DEF Finish
  <2>10. CASE PatchStatus
    BY <2>10 DEF PatchStatus
  <2>11. CASE PatchConditions
    BY <2>11 DEF PatchConditions, EndPass
  <2>12. CASE RequestFails
    BY <2>12 DEF RequestFails, Fail, EndPass
  <2>13. CASE Restart
    BY <2>13 DEF Restart, EndPass
  <2>14. CASE Environment
    <3>1. UNCHANGED <<maps, pc, cfgName, updated, old, gcFailed>>
      BY <2>14 DEF Environment, UpdateProduct, EditConfig, PipelineReports
    <3> QED
      BY <3>1
  <2>15. CASE UNCHANGED vars
    BY <2>15 DEF vars
  <2> QED
    BY <2>1, <2>2, <2>3, <2>4, <2>5, <2>6, <2>7, <2>8, <2>9, <2>10, <2>11, <2>12,
       <2>13, <2>14, <2>15 DEF Next, Reconcile
<1> QED
  BY <1>1, <1>2, TypeCorrect, PTL DEF Spec

\* Once a pass that created a config map goes on to the pipelines, that map is
\* the only one.
THEOREM NoLeftovers == Spec => []PublishedAlone
<1>1. MapsInv => PublishedAlone
  BY DEF MapsInv
<1> QED
  BY <1>1, MapsCorrect, PTL

\* Every step of the controller publishes, retires or adopts a value, as
\* ConfigRollout allows, or does none of these.
THEOREM RefinesRollout == Spec => ImplementsRollout
<1> DEFINE Adopted == [p \in Names |-> IF pipes[p] = None THEN None ELSE pipes[p].values]
<1>1. Init => Rollout!Init
  BY DEF Init, Rollout!Init
<1>2. TypeOK /\ MapsInv /\ [Next]_vars => [Rollout!Next]_<<maps, Adopted>>
  <2> SUFFICES ASSUME TypeOK, MapsInv, [Next]_vars
               PROVE  Rollout!Next \/ UNCHANGED <<maps, Adopted>>
    OBVIOUS
  <2> USE DEF desired, locals, pass
  <2>1. UNCHANGED <<maps, pipes>> => UNCHANGED <<maps, Adopted>>
    OBVIOUS
  <2>2. CASE GenerateConfigMap
    <3>1. cfgName \in Values
      BY <2>2 DEF GenerateConfigMap, TypeOK
    <3>2. Rollout!Publish(cfgName)
      BY <2>2 DEF GenerateConfigMap, Rollout!Publish
    <3> QED
      BY <3>1, <3>2 DEF Rollout!Next
  <2>3. ASSUME NEW m \in Values, DeleteOldMap(m)
        PROVE  Rollout!Next
    <3>1. cfgName \in maps \ {m}
      BY <2>3 DEF DeleteOldMap, MapsInv
    <3>2. Rollout!Retire(m)
      BY <2>3, <3>1 DEF DeleteOldMap, Rollout!Retire
    <3> QED
      BY <3>2 DEF Rollout!Next
  <2>4. ASSUME NEW p \in Names, CreateOrUpdatePipeline(p)
        PROVE  Rollout!Next \/ UNCHANGED <<maps, Adopted>>
    <3>1. CASE Equals(p)
      <4>1. pipes' = pipes
        BY <2>4, <3>1 DEF CreateOrUpdatePipeline, TypeOK
      <4> QED
        BY <2>1, <2>4, <4>1 DEF CreateOrUpdatePipeline
    <3>2. CASE ~Equals(p)
      <4>1. cfgName \in maps /\ cfgName \in Values /\ UNCHANGED maps
        BY <2>4 DEF CreateOrUpdatePipeline, MapsInv, TypeOK
      <4>2. Written(p) # None /\ Written(p).values = cfgName
        <5>1. Written(p) \in Pipeline
          BY <2>4, <4>1 DEF CreateOrUpdatePipeline, Written, TypeOK, Object, Product, Pipeline
        <5> QED
          BY <5>1, ConstantsAssumption DEF ConstantsAssumption, Pipeline, Written
      <4>3. pipes' = [pipes EXCEPT ![p] = Written(p)]
        BY <2>4, <3>2 DEF CreateOrUpdatePipeline
      <4>4. Adopted' = [Adopted EXCEPT ![p] = cfgName]
        BY <4>2, <4>3 DEF TypeOK
      <4>5. PICK v \in Values : v = cfgName
        BY <4>1
      <4>6. Rollout!Adopt(p, v)
        BY <4>1, <4>4, <4>5 DEF Rollout!Adopt
      <4> QED
        BY <4>6 DEF Rollout!Next
    <3> QED
      BY <3>1, <3>2
  <2>5. ASSUME NEW p \in Names, NEW r \in BOOLEAN, PipelineReports(p, r)
        PROVE  UNCHANGED <<maps, Adopted>>
    <3>1. pipes[p] \in Pipeline
      BY <2>5 DEF PipelineReports, TypeOK
    <3>2. /\ pipes'[p].values = pipes[p].values
          /\ pipes'[p] \in Pipeline
          /\ \A q \in Names \ {p} : pipes'[q] = pipes[q]
      BY <2>5, <3>1 DEF PipelineReports, TypeOK, Pipeline
    <3>3. pipes'[p] # None /\ pipes[p] # None
      BY <2>5, <3>2, ConstantsAssumption DEF ConstantsAssumption, Pipeline, PipelineReports
    <3>4. \A q \in Names : (IF pipes[q] = None THEN None ELSE pipes[q].values)
                            = (IF pipes'[q] = None THEN None ELSE pipes'[q].values)
      BY <3>2, <3>3
    <3> QED
      BY <2>5, <3>4 DEF PipelineReports
  <2>6. CASE RenderValues \/ EndCollection \/ RequestFails
    BY <2>1, <2>6 DEF RenderValues, EndCollection, RequestFails
  <2>7. CASE Begin \/ CreateOrUpdateComponentVersion \/ ListPipelines \/ Finish
    BY <2>1, <2>7 DEF Begin, CreateOrUpdateComponentVersion, ListPipelines, Finish
  <2>8. CASE PatchStatus \/ PatchConditions \/ Restart
    BY <2>1, <2>8 DEF PatchStatus, PatchConditions, Restart
  <2>9. ASSUME NEW s \in Products, UpdateProduct(s) PROVE UNCHANGED <<maps, Adopted>>
    BY <2>1, <2>9 DEF UpdateProduct
  <2>10. ASSUME NEW c \in Values \cup {Unusable}, EditConfig(c) PROVE UNCHANGED <<maps, Adopted>>
    BY <2>1, <2>10 DEF EditConfig
  <2>11. CASE UNCHANGED vars
    BY <2>1, <2>11 DEF vars
  <2> QED
    BY <2>2, <2>3, <2>4, <2>5, <2>6, <2>7, <2>8, <2>9, <2>10, <2>11
       DEF Next, Reconcile, Environment
<1> QED
  BY <1>1, <1>2, TypeCorrect, MapsCorrect, PTL DEF Spec, ImplementsRollout, Rollout!Spec

-----------------------------------------------------------------------------
(* The observed generation.  A pass works on the spec it has read, which is   *)
(* the current one unless the product changed since; a status that has        *)
(* observed the generation of that spec was written when the spec was rolled  *)
(* out, and nothing later takes that back.                                    *)

Covered(s) == cv = s.version /\ \A p \in s.pipes : pipes[p] # None

ReadInv ==
    /\ obj.spec.gen <= product.gen
    /\ obj.spec.gen = product.gen => obj.spec = product

ObservedInv ==
    /\ status.observed <= obj.spec.gen
    /\ status.observed = obj.spec.gen => Covered(obj.spec)

ProgressInv ==
    /\ pc \in Stages \ {"idle", "patchStatus", "patchConditions"} => obj.status.reconciling
    /\ pc \in {"config", "configmap", "gc", "list", "pipelines"} => cv = obj.spec.version
    /\ pc = "pipelines" => \A p \in obj.spec.pipes \ todo : pipes[p] # None
    /\ pc = "patchStatus" /\ IsReady(obj.status) => Covered(obj.spec)

RolloutInv == ReadInv /\ ObservedInv /\ ProgressInv

\* A pass that ends in an error does not report the object ready.
LEMMA FailingIsNotReady == ASSUME TypeOK, Fail PROVE ~IsReady(obj'.status)
BY DEF Fail, IsReady, MarkNotReady, TypeOK, Object, Status

\* A pipeline that exists is written or reported on, and never removed.
LEMMA PipelinesStay ==
    ASSUME TypeOK, [Next]_vars, NEW p \in Names, pipes[p] # None
    PROVE  pipes'[p] # None
<1> USE DEF desired, locals, pass, TypeOK
<1>1. ASSUME NEW q \in Names, CreateOrUpdatePipeline(q) PROVE pipes'[p] # None
  <2>1. Written(q) \in Pipeline
    BY <1>1 DEF CreateOrUpdatePipeline, Written, Object, Product, Pipeline
  <2>2. Written(q) # None
    BY <2>1, ConstantsAssumption DEF ConstantsAssumption, Pipeline
  <2> QED
    BY <1>1, <2>2 DEF CreateOrUpdatePipeline
<1>2. ASSUME NEW q \in Names, NEW r \in BOOLEAN, PipelineReports(q, r) PROVE pipes'[p] # None
  <2>1. pipes'[q] \in Pipeline
    BY <1>2 DEF PipelineReports, Pipeline
  <2>2. pipes'[q] # None
    BY <2>1, ConstantsAssumption DEF ConstantsAssumption, Pipeline
  <2> QED
    BY <1>2, <2>2 DEF PipelineReports
<1>3. CASE UNCHANGED pipes
  BY <1>3
<1> QED
  BY <1>1, <1>2, <1>3 DEF Next, Reconcile, Environment, Begin, CreateOrUpdateComponentVersion,
     RenderValues, GenerateConfigMap, DeleteOldMap, EndCollection, ListPipelines, Finish,
     PatchStatus, PatchConditions, RequestFails, Restart, UpdateProduct, EditConfig, vars

\* What a pass read is a spec the product has had, and a generation that is observed
\* has its component version and all of its pipelines.
THEOREM RolloutCorrect == Spec => []RolloutInv
<1>1. Init => RolloutInv
  <2> SUFFICES ASSUME Init PROVE RolloutInv
    OBVIOUS
  <2>1. obj.spec = product /\ obj.status = status /\ pc = "idle"
    BY DEF Init
  <2>2. product.gen = 1 /\ status.observed = 0
    BY DEF Init, Generation
  <2> QED
    BY <2>1, <2>2 DEF RolloutInv, ReadInv, ObservedInv, ProgressInv
<1>2. TypeOK /\ RolloutInv /\ [Next]_vars => RolloutInv'
  <2> SUFFICES ASSUME TypeOK, RolloutInv, [Next]_vars PROVE RolloutInv'
    OBVIOUS
  <2> USE DEF desired, locals, pass
  <2>0. /\ obj.spec \in Product /\ product \in Product /\ obj.status \in Status
        /\ status.observed \in Nat /\ obj.spec.gen \in Nat /\ product.gen \in Nat
        /\ obj.spec.pipes \subseteq Names
    BY DEF TypeOK, Object, Product, Status
  <2>1. \A p \in Names : pipes[p] # None => pipes'[p] # None
    BY PipelinesStay
  <2>2. ASSUME UNCHANGED <<product, obj, pc, todo, status, cv>> PROVE RolloutInv'
    BY <2>0, <2>1, <2>2 DEF RolloutInv, ReadInv, ObservedInv, ProgressInv, Covered
  <2>3. CASE Begin
    <3>1. obj'.spec = product /\ obj'.status.reconciling
      BY <2>3 DEF Begin, Progressing, TypeOK, Status
    <3>2. status.observed = product.gen => obj.spec = product
      BY <2>0 DEF RolloutInv, ReadInv, ObservedInv
    <3> QED
      BY <2>0, <2>3, <3>1, <3>2
         DEF Begin, RolloutInv, ReadInv, ObservedInv, ProgressInv, Covered, Stages
  <2>4. CASE CreateOrUpdateComponentVersion
    BY <2>0, <2>4
       DEF CreateOrUpdateComponentVersion, RolloutInv, ReadInv, ObservedInv, ProgressInv,
           Covered, Stages
  <2>5. ASSUME UNCHANGED <<product, cv, pipes, status, todo>>,
               \/ obj' = obj
               \/ obj'.spec = obj.spec /\ ~IsReady(obj'.status) /\ pc' = "patchStatus",
               obj' = obj => \/ pc' \in {pc, "idle", "patchConditions"}
                             \/ pc \in Stages \ {"idle", "patchStatus", "patchConditions"} /\ pc' = "patchStatus"
        PROVE  RolloutInv'
    BY <2>0, <2>5 DEF RolloutInv, ReadInv, ObservedInv, ProgressInv, Covered, IsReady, Stages
  <2>6. Fail => /\ ~IsReady(obj'.status) /\ pc' = "patchStatus"
                /\ obj'.spec = obj.spec
    BY FailingIsNotReady DEF Fail, TypeOK, Object
  <2>7. CASE RenderValues
    <3>1. CASE Fail
      BY <2>5, <2>6, <2>7, <3>1 DEF RenderValues, Stages
    <3>2. CASE pc' = "configmap" /\ UNCHANGED obj
      BY <2>0, <2>7, <3>2 DEF RenderValues, RolloutInv, ReadInv, ObservedInv, ProgressInv, Covered, Stages
    <3> QED
      BY <2>7, <3>1, <3>2 DEF RenderValues
  <2>8. CASE GenerateConfigMap
    BY <2>0, <2>8
       DEF GenerateConfigMap, RolloutInv, ReadInv, ObservedInv, ProgressInv, Covered, Stages
  <2>9. ASSUME NEW m \in Values, DeleteOldMap(m) PROVE RolloutInv'
    BY <2>2, <2>9 DEF DeleteOldMap
  <2>10. CASE EndCollection
    <3>1. CASE Fail
      BY <2>5, <2>6, <2>10, <3>1 DEF EndCollection, Stages
    <3>2. CASE pc' = "list" /\ UNCHANGED obj
      BY <2>0, <2>10, <3>2
         DEF EndCollection, RolloutInv, ReadInv, ObservedInv, ProgressInv, Covered, Stages
    <3> QED
      BY <2>10, <3>1, <3>2 DEF EndCollection
  <2>11. CASE ListPipelines
    <3>1. obj'.spec = obj.spec /\ obj'.status.reconciling = obj.status.reconciling
      BY <2>11 DEF ListPipelines, TypeOK, Object, Status
    <3>2. \A p \in obj.spec.pipes \ todo' : pipes[p] # None
      BY <2>0, <2>11 DEF ListPipelines, Existing
    <3> QED
      BY <2>0, <2>11, <3>1, <3>2
         DEF ListPipelines, RolloutInv, ReadInv, ObservedInv, ProgressInv, Covered, Stages
  <2>12. ASSUME NEW p \in Names, CreateOrUpdatePipeline(p) PROVE RolloutInv'
    <3>1. obj'.spec = obj.spec /\ obj'.status.reconciling = obj.status.reconciling
      BY <2>12 DEF CreateOrUpdatePipeline, TypeOK, Object, Status
    <3>2. pipes'[p] # None
      <4>1. Written(p) \in Pipeline
        BY <2>0, <2>12 DEF CreateOrUpdatePipeline, Written, TypeOK, Product, Pipeline
      <4>2. Written(p) # None
        BY <4>1, ConstantsAssumption DEF ConstantsAssumption, Pipeline
      <4> QED
        BY <2>12, <4>2 DEF CreateOrUpdatePipeline, Equals, TypeOK
    <3>3. pc = "pipelines" /\ pc' = "pipelines" /\ todo' = todo \ {p}
      BY <2>12 DEF CreateOrUpdatePipeline
    <3>4. \A q \in obj.spec.pipes \ todo' : pipes'[q] # None
      BY <2>0, <2>1, <3>2, <3>3 DEF RolloutInv, ProgressInv
    <3>5. UNCHANGED <<product, cv, status>>
      BY <2>12 DEF CreateOrUpdatePipeline
    <3> QED
      BY <2>0, <2>1, <3>1, <3>3, <3>4, <3>5
         DEF RolloutInv, ReadInv, ObservedInv, ProgressInv, Covered, Stages
  <2>13. CASE Finish
    <3>1. obj'.spec = obj.spec
      BY <2>13 DEF Finish, TypeOK, Object
    <3>2. Covered(obj.spec)
      BY <2>13 DEF Finish, RolloutInv, ProgressInv, Covered
    <3> QED
      BY <2>0, <2>13, <3>1, <3>2
         DEF Finish, RolloutInv, ReadInv, ObservedInv, ProgressInv, Covered, Stages
  <2>14. CASE PatchStatus
    <3>1. status'.observed = ObservedGeneration
      BY <2>14 DEF PatchStatus, TypeOK, Status
    <3>2. ObservedGeneration = obj.spec.gen => Covered(obj.spec)
      BY <2>14 DEF PatchStatus, ObservedGeneration, RolloutInv, ObservedInv, ProgressInv
    <3>3. ObservedGeneration <= obj.spec.gen
      BY <2>0 DEF ObservedGeneration, RolloutInv, ObservedInv
    <3> QED
      BY <2>0, <2>14, <3>1, <3>2, <3>3
         DEF PatchStatus, RolloutInv, ReadInv, ObservedInv, ProgressInv, Covered, Stages
  <2>15. CASE PatchConditions
    <3>1. status'.observed = status.observed
      BY <2>15 DEF PatchConditions, TypeOK, Status
    <3> QED
      BY <2>0, <2>15, <3>1
         DEF PatchConditions, EndPass, RolloutInv, ReadInv, ObservedInv, ProgressInv, Covered, Stages
  <2>16. CASE RequestFails
    <3>1. CASE pc \in {"componentversion", "config", "configmap", "list"} /\ Fail /\ UNCHANGED pass
      BY <2>5, <2>6, <2>16, <3>1 DEF RequestFails, Stages
    <3>2. CASE pc = "gc"
      BY <2>2, <2>16, <3>2 DEF RequestFails
    <3>3. CASE pc \in {"pipelines", "patchStatus"} /\ UNCHANGED locals
      BY <2>5, <2>16, <3>3 DEF RequestFails, Stages
    <3>4. CASE EndPass
      BY <2>0, <2>16, <3>4
         DEF RequestFails, EndPass, RolloutInv, ReadInv, ObservedInv, ProgressInv, Covered, Stages
    <3> QED
      BY <2>16, <3>1, <3>2, <3>3, <3>4 DEF RequestFails
  <2>17. CASE Restart
    BY <2>0, <2>17
       DEF Restart, EndPass, RolloutInv, ReadInv, ObservedInv, ProgressInv, Covered, Stages
  <2>18. ASSUME NEW s \in Products, UpdateProduct(s) PROVE RolloutInv'
    <3>1. product'.gen = product.gen + 1
      BY <2>18 DEF UpdateProduct, Generation
    <3> QED
      BY <2>0, <2>18, <3>1
         DEF UpdateProduct, RolloutInv, ReadInv, ObservedInv, ProgressInv, Covered
  <2>19. ASSUME NEW c \in Values \cup {Unusable}, EditConfig(c) PROVE RolloutInv'
    BY <2>2, <2>19 DEF EditConfig
  <2>20. ASSUME NEW p \in Names, NEW r \in BOOLEAN, PipelineReports(p, r) PROVE RolloutInv'
    BY <2>2, <2>20 DEF PipelineReports
  <2>21. CASE UNCHANGED vars
    BY <2>2, <2>21 DEF vars
  <2> QED
    BY <2>3, <2>4, <2>7, <2>8, <2>9, <2>10, <2>11, <2>12, <2>13, <2>14, <2>15, <2>16,
       <2>17, <2>18, <2>19, <2>20, <2>21 DEF Next, Reconcile, Environment
<1> QED
  BY <1>1, <1>2, TypeCorrect, PTL DEF Spec

\* A status that has observed the current generation speaks of a product that
\* is rolled out.
THEOREM ObservedIsHonest == Spec => []ObservedMeansRolledOut
<1>1. RolloutInv /\ TypeOK => ObservedMeansRolledOut
  BY DEF RolloutInv, ReadInv, ObservedInv, Covered, ObservedMeansRolledOut, TypeOK,
     Object, Product, Status
<1> QED
  BY <1>1, RolloutCorrect, TypeCorrect, PTL
=============================================================================
