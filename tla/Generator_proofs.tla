--------------------------- MODULE Generator_proofs ---------------------------
(* Theorems of the generator: its objects are complete, in order, and of      *)
(* versions that can be scheduled, for any number of versions and failures.   *)
EXTENDS Generator, TLAPS

\* A new generator has a status.
LEMMA NewStatusType == NewStatus \in Status
BY ConstantsAssumption DEF ConstantsAssumption, NewStatus, Status

\* A pass that ends leaves the memory of the worker as a new process has it.
LEMMA EndPassType ==
    ASSUME TypeOK, NEW e \in BOOLEAN, EndPass(e)
    PROVE  /\ queued' \in BOOLEAN
           /\ pc' = "idle" /\ st' \in Status /\ ver' \in 0..MaxVersion /\ again' = FALSE
<1>1. queued' \in BOOLEAN
  BY Zenon DEF EndPass
<1> QED
  BY <1>1, NewStatusType, ConstantsAssumption DEF EndPass, ConstantsAssumption

\* A pass that writes objects is about a version that can be scheduled, and makes the
\* Sync of a snapshot that was written.
Holds ==
    /\ pc \in {"snapshot", "sync", "validation"} => ver \in Schedulable
    /\ pc = "sync" => st.snap \in snapshots

TypeInv == TypeOK /\ Holds

\* The type invariant is inductive with what a pass holds.
LEMMA TypeInvariant == Spec => []TypeInv
<1>1. Init => TypeInv
  <2> SUFFICES ASSUME Init PROVE TypeInv
    OBVIOUS
  <2>1. syncs \in [Versions -> 0..names]
    BY DEF Init
  <2>2. st \in Status /\ status \in Status
    BY NewStatusType DEF Init
  <2>3. snapshots \subseteq 1..names /\ validations \subseteq Versions /\ names \in Nat
    BY DEF Init
  <2>4. /\ queued \in BOOLEAN /\ again \in BOOLEAN
        /\ pc \in Stages /\ ver \in 0..MaxVersion
    <3>1. queued = TRUE /\ again = FALSE
      BY DEF Init
    <3>2. pc \in Stages /\ ver \in 0..MaxVersion
      BY ConstantsAssumption DEF ConstantsAssumption, Init, Stages
    <3> QED
      BY <3>1, <3>2
  <2>5. failures \in 0..MaxFailures /\ restarts \in 0..MaxRestarts /\ changes \in 0..MaxChanges
    BY ConstantsAssumption DEF ConstantsAssumption, Init
  <2>6. sub \in [applied : 0..MaxVersion, ready : BOOLEAN] /\ project \in BOOLEAN
    BY DEF Init
  <2>7. TypeOK
    BY <2>1, <2>2, <2>3, <2>4, <2>5, <2>6 DEF TypeOK
  <2> QED
    BY <2>7 DEF Init, TypeInv, Holds
<1>2. TypeInv /\ [Next]_vars => TypeOK'
  <2> SUFFICES ASSUME TypeInv, [Next]_vars PROVE TypeOK'
    OBVIOUS
  <2> USE ConstantsAssumption
      DEF ConstantsAssumption, TypeInv, Holds, TypeOK, Stages, results, world, pass,
          MarkNotReady, MarkReady, Return, GoOn, NewSnapshot
  <2>1. CASE Begin
    BY <2>1 DEF Begin, Status, Versions
  <2>2. CASE ReadSubscription
    BY <2>2 DEF ReadSubscription, Status, Versions
  <2>3. CASE ReadProject
    BY <2>3 DEF ReadProject, Status, Versions
  <2>4. CASE CreateProductDeployment
    BY <2>4 DEF CreateProductDeployment, Status, Versions
  <2>5. CASE CreateSnapshot
    <3>1. names' \in Nat /\ names' \in 1..names' /\ snapshots' \subseteq 1..names'
      BY <2>5 DEF CreateSnapshot
    <3>2. st' \in Status
      BY <2>5, <3>1 DEF CreateSnapshot, Status
    <3>3. \A v \in Versions : syncs[v] \in 0..names'
      BY <2>5 DEF CreateSnapshot
    <3> QED
      BY <2>5, <3>1, <3>2, <3>3 DEF CreateSnapshot
  <2>6. CASE CreateSync
    <3>1. st' = st /\ again' = again /\ names' = names
      BY <2>6 DEF CreateSync
    <3>2. st.snap \in 1..names
      BY <2>6 DEF CreateSync
    <3>3. st.snap \in 0..names
      BY <3>2
    <3>4. \A v \in Versions : syncs'[v] \in 0..names
      BY <2>6, <3>3 DEF CreateSync
    <3>5. syncs' \in [Versions -> 0..names']
      BY <2>6, <3>1, <3>4 DEF CreateSync
    <3> QED
      BY <2>6, <3>1, <3>5 DEF CreateSync
  <2>7. CASE CreateValidation
    <3>1. st' \in Status
      BY <2>7 DEF CreateValidation, Status
    <3>2. validations' \subseteq Versions
      BY <2>7 DEF CreateValidation
    <3> QED
      BY <2>7, <3>1, <3>2 DEF CreateValidation
  <2>8. CASE PatchStatus
    BY <2>8 DEF PatchStatus, Status, Versions
  <2>9. CASE PatchConditions
    <3>1. status' \in Status
      BY <2>9 DEF PatchConditions, Status
    <3>2. EndPass(again)
      BY <2>9 DEF PatchConditions
    <3> QED
      BY <2>9, <3>1, <3>2, EndPassType DEF PatchConditions
  <2>10. CASE RequestFails
    <3>1. CASE pc \in {"subscription", "project", "component", "sync", "validation"}
      <4>1. st' \in Status
        BY <2>10, <3>1 DEF RequestFails, Status
      <4>2. failures' \in 0..MaxFailures
        BY <2>10 DEF RequestFails
      <4>3. again' = TRUE /\ pc' \in Stages /\ UNCHANGED <<queued, ver, names>>
        BY <2>10, <3>1 DEF RequestFails
      <4> QED
        BY <2>10, <4>1, <4>2, <4>3 DEF RequestFails
    <3>2. CASE pc = "snapshot"
      <4>1. names' \in Nat /\ snapshots' \subseteq 1..names' /\ syncs' = syncs
        BY <2>10, <3>2 DEF RequestFails
      <4>2. st' \in Status
        BY <2>10, <3>2, <4>1 DEF RequestFails, Status
      <4>3. \A v \in Versions : syncs[v] \in 0..names'
        BY <2>10, <3>2 DEF RequestFails
      <4>4. syncs' \in [Versions -> 0..names']
        BY <4>1, <4>3
      <4> QED
        BY <2>10, <3>2, <4>1, <4>2, <4>4 DEF RequestFails
    <3>3. CASE pc = "patchStatus"
      BY <2>10, <3>3 DEF RequestFails
    <3>4. CASE pc = "patchConditions"
      <4>1. EndPass(TRUE) /\ names' = names
        BY <2>10, <3>4 DEF RequestFails
      <4>2. /\ queued' \in BOOLEAN
            /\ pc' = "idle" /\ st' \in Status /\ ver' \in 0..MaxVersion /\ again' = FALSE
        BY <4>1, EndPassType
      <4>3. failures' \in 0..MaxFailures
        BY <2>10 DEF RequestFails
      <4> QED
        BY <2>10, <4>1, <4>2, <4>3 DEF RequestFails
    <3> QED
      BY <2>10, <3>1, <3>2, <3>3, <3>4 DEF RequestFails
  <2>11. CASE Restart
    <3>1. EndPass(TRUE)
      BY <2>11 DEF Restart
    <3> QED
      <4>1. /\ queued' \in BOOLEAN
            /\ pc' = "idle" /\ st' \in Status /\ ver' \in 0..MaxVersion /\ again' = FALSE
        BY <3>1, EndPassType
      <4>2. restarts' \in 0..MaxRestarts
        BY <2>11 DEF Restart
      <4> QED
        BY <2>11, <4>1, <4>2 DEF Restart
  <2>12. CASE ProjectBecomesReady
    BY <2>12 DEF ProjectBecomesReady
  <2>13. ASSUME NEW v \in 0..MaxVersion, NEW r \in BOOLEAN, UpdateSubscription(v, r)
         PROVE  TypeOK'
    BY <2>13 DEF UpdateSubscription
  <2>14. CASE UNCHANGED vars
    BY <2>14 DEF vars
  <2> QED
    BY <2>1, <2>2, <2>3, <2>4, <2>5, <2>6, <2>7, <2>8, <2>9, <2>10, <2>11, <2>12, <2>13, <2>14
    DEF Next, Reconcile, Environment
<1>3. TypeInv /\ [Next]_vars => Holds'
  <2> SUFFICES ASSUME TypeInv, [Next]_vars PROVE Holds'
    OBVIOUS
  <2> USE DEF TypeInv, TypeOK, Holds, Return, GoOn, EndPass, results, world, pass, NewSnapshot
  <2>1. CASE CreateProductDeployment
    BY <2>1 DEF CreateProductDeployment
  <2>2. CASE CreateSnapshot
    BY <2>2 DEF CreateSnapshot, Status
  <2>3. CASE UNCHANGED <<pc, ver, st, snapshots>>
    BY <2>3
  <2>4. CASE /\ pc' \notin {"snapshot", "sync", "validation"}
    BY <2>4
  <2>5. CASE CreateSync
    BY <2>5 DEF CreateSync
  <2> QED
    BY <2>1, <2>2, <2>3, <2>4, <2>5
    DEF Next, Reconcile, Environment, Begin, ReadSubscription, ReadProject, CreateValidation,
        PatchStatus, PatchConditions, RequestFails, Restart, ProjectBecomesReady,
        UpdateSubscription, vars
<1> QED
  BY <1>1, <1>2, <1>3, PTL DEF Spec, TypeInv

\* The type invariant.
THEOREM TypeCorrect == Spec => []TypeOK
<1>1. TypeInv => TypeOK
  BY DEF TypeInv
<1> QED
  BY <1>1, TypeInvariant, PTL

-----------------------------------------------------------------------------
(* A version that is being worked on is newer than the recorded one.  The     *)
(* status in memory is never behind the one on the server, and records only   *)
(* versions that have their Validation.                                       *)

PassInv ==
    /\ pc \in {"project", "component"} => ver = 0 \/ ver > st.last
    /\ pc \in {"snapshot", "sync", "validation"} => ver > st.last
    /\ pc = "validation" => syncs[ver] # 0

ObjectsInv ==
    /\ \A v \in Versions : syncs[v] # 0 => syncs[v] \in snapshots /\ v \in Schedulable
    /\ \A v \in validations : syncs[v] # 0

RecordInv ==
    /\ status.last # 0 => status.last \in validations
    /\ pc # "idle" => st.last >= status.last /\ (st.last # 0 => st.last \in validations)

Inv == PassInv /\ ObjectsInv /\ RecordInv

\* The invariant is inductive.
THEOREM InvCorrect == Spec => []Inv
<1>1. Init => Inv
  BY ConstantsAssumption
  DEF ConstantsAssumption, Init, Inv, PassInv, ObjectsInv, RecordInv, NewStatus, Versions
<1>2. TypeInv /\ TypeInv' /\ Inv /\ [Next]_vars => Inv'
  <2> SUFFICES ASSUME TypeInv, TypeInv', Inv, [Next]_vars PROVE Inv'
    OBVIOUS
  <2> USE ConstantsAssumption
      DEF ConstantsAssumption, TypeInv, Holds, TypeOK, Status, Versions, Inv, PassInv, ObjectsInv, RecordInv,
          results, world, pass, MarkNotReady, MarkReady, Return, GoOn, EndPass, NewSnapshot
  <2>1. CASE Begin
    BY <2>1 DEF Begin
  <2>2. CASE ReadSubscription
    <3>1. CASE ~sub.ready \/ UpToDate(sub.applied)
      <4>1. pc' = "patchStatus" /\ UNCHANGED <<snapshots, syncs, validations, status>>
        BY <2>2, <3>1 DEF ReadSubscription
      <4>2. pc = "subscription" /\ st'.last = st.last
        BY <2>2, <3>1 DEF ReadSubscription
      <4> HIDE DEF TypeInv
      <4> QED
        BY <4>1, <4>2
    <3>2. CASE ~(~sub.ready \/ UpToDate(sub.applied))
      <4>1. pc' = "project" /\ ver' = sub.applied /\ st' = st
        BY <2>2, <3>2 DEF ReadSubscription
      <4>2. sub.applied = 0 \/ sub.applied > st.last
        <5>1. st.last \in Nat /\ sub.applied \in Nat
          OBVIOUS
        <5> HIDE DEF TypeInv
        <5> QED
          BY <3>2, <5>1 DEF UpToDate
      <4> QED
        BY <2>2, <4>1, <4>2 DEF ReadSubscription
    <3> QED
      BY <3>1, <3>2
  <2>3. CASE ReadProject
    <3>1. pc = "project" /\ UNCHANGED <<snapshots, syncs, validations, status, ver>>
      BY <2>3 DEF ReadProject
    <3>2. pc' \in {"component", "patchStatus"} /\ st'.last = st.last
      BY <2>3 DEF ReadProject
    <3> HIDE DEF TypeInv
    <3> QED
      BY <3>1, <3>2
  <2>4. CASE CreateProductDeployment
    <3>1. CASE ver \in Schedulable /\ GoOn("snapshot")
      <4>1. ver # 0
        BY <3>1
      <4> QED
        BY <2>4, <3>1, <4>1 DEF CreateProductDeployment
    <3>2. CASE pc' = "patchStatus" /\ st' = MarkNotReady(st)
      BY <2>4, <3>2 DEF CreateProductDeployment
    <3> QED
      BY <2>4, <3>1, <3>2 DEF CreateProductDeployment
  <2>5. CASE CreateSnapshot
    <3>1. st'.last = st.last
      BY <2>5 DEF CreateSnapshot
    <3>2. /\ pc = "snapshot" /\ pc' = "sync" /\ snapshots \subseteq snapshots'
          /\ UNCHANGED <<syncs, validations, status, ver>>
      BY <2>5 DEF CreateSnapshot
    <3> HIDE DEF TypeInv
    <3> QED
      BY <3>1, <3>2
  <2>6. CASE CreateSync
    <3>1. /\ pc = "sync" /\ pc' = "validation"
          /\ UNCHANGED <<snapshots, validations, status, ver, st>>
          /\ syncs' = [syncs EXCEPT ![ver] = IF @ = 0 THEN st.snap ELSE @]
      BY <2>6 DEF CreateSync
    <3>2. ver \in Schedulable /\ ver \in Versions /\ st.snap \in snapshots /\ st.snap # 0
      BY <3>1
    <3>3. \A v \in Versions : syncs'[v] = IF v = ver /\ syncs[v] = 0 THEN st.snap ELSE syncs[v]
      BY <3>1
    <3>4. /\ \A v \in Versions : syncs'[v] # 0 => syncs'[v] \in snapshots /\ v \in Schedulable
          /\ \A v \in validations : v \in Versions
      BY <3>2, <3>3
    <3>5. ObjectsInv' /\ syncs'[ver] # 0
      BY <3>1, <3>2, <3>3, <3>4
    <3> HIDE DEF TypeInv, ObjectsInv
    <3> QED
      BY <3>1, <3>5
  <2>7. CASE CreateValidation
    <3>1. /\ pc = "validation" /\ pc' = "patchStatus" /\ st'.last = ver
          /\ UNCHANGED <<snapshots, syncs, status, ver>>
          /\ validations' = validations \cup {ver}
      BY <2>7 DEF CreateValidation
    <3>2. ver > st.last /\ st.last >= status.last /\ syncs[ver] # 0
      BY <3>1
    <3>3. ver \in Nat /\ st.last \in Nat /\ status.last \in Nat
      OBVIOUS
    <3> HIDE DEF TypeInv
    <3> QED
      BY <3>1, <3>2, <3>3
  <2>8. CASE PatchStatus
    BY <2>8 DEF PatchStatus
  <2>9. CASE PatchConditions
    BY <2>9 DEF PatchConditions
  <2>10. CASE RequestFails
    BY <2>10 DEF RequestFails
  <2>11. CASE Restart
    BY <2>11 DEF Restart
  <2>12. CASE ProjectBecomesReady
    BY <2>12 DEF ProjectBecomesReady
  <2>13. ASSUME NEW v \in 0..MaxVersion, NEW r \in BOOLEAN, UpdateSubscription(v, r)
         PROVE  Inv'
    BY <2>13 DEF UpdateSubscription
  <2>14. CASE UNCHANGED vars
    BY <2>14 DEF vars
  <2> QED
    BY <2>1, <2>2, <2>3, <2>4, <2>5, <2>6, <2>7, <2>8, <2>9, <2>10, <2>11, <2>12, <2>13, <2>14
    DEF Next, Reconcile, Environment
<1> QED
  BY <1>1, <1>2, TypeInvariant, PTL DEF Spec

\* A version that is recorded has its Validation, and every Validation a Sync of a
\* snapshot that was written; no Sync is made for a version that cannot be scheduled.
THEOREM Complete == Spec => []ReconciledIsComplete
<1>1. TypeOK /\ Inv => ReconciledIsComplete
  BY DEF TypeOK, Inv, ObjectsInv, RecordInv, ReconciledIsComplete
<1> QED
  BY <1>1, TypeCorrect, InvCorrect, PTL

\* The recorded version never decreases: it is written from memory, which is not
\* behind it.
THEOREM Monotone == Spec => NeverGoesBack
<1>1. TypeOK /\ Inv /\ [Next]_vars => [status'.last >= status.last]_vars
  <2> SUFFICES ASSUME TypeOK, Inv, Next PROVE status'.last >= status.last
    OBVIOUS
  <2>1. CASE PatchStatus
    BY <2>1 DEF PatchStatus, Inv, RecordInv, TypeOK, Status
  <2>2. CASE PatchConditions
    BY <2>2 DEF PatchConditions, TypeOK, Status
  <2>3. CASE UNCHANGED status
    BY <2>3 DEF TypeOK, Status
  <2> QED
    BY <2>1, <2>2, <2>3
    DEF Next, Reconcile, Environment, Begin, ReadSubscription, ReadProject, CreateProductDeployment,
        CreateSnapshot, CreateSync, CreateValidation, RequestFails, Restart, UpdateSubscription,
        ProjectBecomesReady, results
<1> QED
  BY <1>1, TypeCorrect, InvCorrect, PTL DEF Spec, NeverGoesBack
=============================================================================
