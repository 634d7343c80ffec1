--------------------------- MODULE Pipeline_proofs ---------------------------
(* Theorems about Pipeline, for every set of specs and targets, and for any   *)
(* bound on generations and faults.                                           *)
EXTENDS Pipeline, TLAPS

(* What TypeOK says of the two workers. *)
WorkersOK ==
    /\ queued \subseteq Workers
    /\ \A w \in Workers : pc[w] \in Stages[w]
    /\ \A w \in Workers : IF pc[w] = "idle" THEN mem[w] = None ELSE mem[w] \in Pass
    /\ DOMAIN pc = Workers /\ DOMAIN mem = Workers
    /\ err \in [Workers -> BOOLEAN]

\* The edits of a status in memory give a status.
LEMMA StatusEdits ==
    ASSUME NEW s \in Status
    PROVE  /\ Progressing(s) \in Status
           /\ MarkNotReady(s) \in Status
           /\ MarkReady(s) \in Status
           /\ \A v \in {"True", "False", "Unknown"} : [s EXCEPT !.deployed = v] \in Status
           /\ \A v \in Providers : [s EXCEPT !.snap = v] \in Status
           /\ \A v \in TargetRefs : [s EXCEPT !.target = v] \in Status
BY DEF Progressing, MarkNotReady, MarkReady, Status

\* A pass that returns holds a status, and waits for the status update.
LEMMA Returns ==
    ASSUME WorkersOK, NEW w \in Workers, pc[w] # "idle",
           NEW s \in Status, NEW e \in BOOLEAN, Return(w, s, e), UNCHANGED queued
    PROVE  WorkersOK'
<1>1. mem'[w] \in Pass
  <2>1. mem[w] \in Pass
    BY DEF WorkersOK
  <2> HIDE DEF Status, Generations
  <2> QED
    BY <2>1 DEF WorkersOK, Return, Pass
<1> QED
  BY <1>1 DEF WorkersOK, Return, Workers, Stages

\* A pass that ends leaves nothing in memory.
LEMMA Ends ==
    ASSUME WorkersOK, NEW w \in Workers, NEW e, EndPass(w, e)
    PROVE  WorkersOK'
BY DEF WorkersOK, EndPass, Workers, Stages

\* A new process starts with nothing in memory.
LEMMA Stops == ASSUME Stop PROVE WorkersOK'
BY DEF WorkersOK, Stop, Workers, Stages

\* A pass that is under way keeps a spec and two statuses.
LEMMA Holds ==
    ASSUME WorkersOK, NEW w \in Workers, pc[w] # "idle"
    PROVE  /\ mem[w].spec \in Generations
           /\ mem[w].base \in Status
           /\ mem[w].st \in Status
BY DEF WorkersOK, Pass

\* A pass that goes on to its next request keeps its memory well typed.
LEMMA GoesOn ==
    ASSUME WorkersOK, NEW w \in Workers, pc[w] # "idle",
           NEW next \in Stages[w], next # "idle", pc' = [pc EXCEPT ![w] = next],
           NEW s \in Status, mem' = [mem EXCEPT ![w].st = s],
           UNCHANGED <<queued, err>>
    PROVE  WorkersOK'
<1>1. mem'[w] \in Pass
  <2>1. mem[w] \in Pass
    BY DEF WorkersOK
  <2> HIDE DEF Status, Generations
  <2> QED
    BY <2>1 DEF WorkersOK, Pass
<1> QED
  BY <1>1 DEF WorkersOK, Workers, Stages

\* The generation of a pipeline in memory is one of the bounded ones.
LEMMA Observes ==
    ASSUME NEW m, m.spec \in Generations, m.st \in Status
    PROVE  Observed(m) \in 0..MaxGen
<1>1. m.spec.gen \in 1..MaxGen
  BY DEF Generations, Generation
<1>2. m.st.obs \in 0..MaxGen
  BY DEF Status
<1> QED
  BY <1>1, <1>2, ConstantsAssumption DEF ConstantsAssumption, Observed

\* What a Localization and a Configuration are made from.
LEMMA SpecFields ==
    ASSUME NEW g \in Generations
    PROVE  /\ [loc |-> g.loc, ver |-> g.ver] \in Localization
           /\ g.rules \in {s.rules : s \in Specs}
           /\ g.cfg \in {s.cfg : s \in Specs}
           /\ g.ver \in {s.ver : s \in Specs}
BY DEF Generations, Generation, Localization

(* The scheduler works on a pipeline with a snapshot, and deploys one with a  *)
(* target: what it writes into the FluxDeployer is there.                     *)
SchedulerHolds ==
    /\ pc["scheduler"] # "idle" => Scheduled.st.snap \in Providers
    /\ pc["scheduler"] \in {"find", "deploy"} => Scheduled.st.target \in TargetRefs

TypeInv == TypeOK /\ SchedulerHolds

\* What is there at first has its type.
LEMMA TypeInit == Init => TypeInv
<1> SUFFICES ASSUME Init PROVE TypeInv
  OBVIOUS
<1>1. spec \in Generations
  BY ConstantsAssumption DEF ConstantsAssumption, Init, Generations
<1>2. status \in Status
  BY ConstantsAssumption DEF ConstantsAssumption, Init, NewStatus, Status
<1>3. WorkersOK
  BY DEF Init, WorkersOK, Workers, Stages
<1>4. targets \in TargetSets /\ faults \in 0..MaxFaults
  BY ConstantsAssumption DEF ConstantsAssumption, Init
<1>5. TypeOK
  BY <1>1, <1>2, <1>3, <1>4 DEF Init, TypeOK, WorkersOK, Snapshots
<1>6. SchedulerHolds
  BY DEF Init, SchedulerHolds, Workers
<1> QED
  BY <1>5, <1>6 DEF TypeInv

\* The type invariant is inductive with what the scheduler holds.
LEMMA TypeStep ==
    ASSUME TypeInv, [Next]_vars
    PROVE  TypeInv'
<1>1. TypeInv /\ [Next]_vars => TypeOK'
  <2> SUFFICES ASSUME TypeInv, [Next]_vars PROVE TypeOK'
    OBVIOUS
  <2> DEFINE Rest == /\ spec \in Generations
                     /\ status \in Status
                     /\ lz \in Localization \cup {None}
                     /\ cf \in Configuration \cup {None}
                     /\ snaps \in Snapshots
                     /\ fd \in FluxDeployer \cup {None}
                     /\ targets \in TargetSets
                     /\ found \in Providers \cup {None}
                     /\ panicked \in BOOLEAN
                     /\ faults \in 0..MaxFaults
  <2>a. WorkersOK /\ Rest
    BY DEF TypeInv, TypeOK, WorkersOK
  <2>b. WorkersOK' /\ Rest' => TypeOK'
    BY DEF TypeOK, WorkersOK
  <2>c. /\ "scheduler" \in Workers /\ "reconciler" \in Workers
        /\ DOMAIN pc = Workers /\ DOMAIN mem = Workers
    BY <2>a DEF Workers, WorkersOK
  <2>d. SchedulerHolds
    BY DEF TypeInv
  <2> USE <2>a
  <2>1. CASE BeginReconcile
    <3>1. Progressing(status) \in Status
      BY StatusEdits
    <3>2. [spec |-> spec, base |-> status, st |-> Progressing(status)] \in Pass
      BY <3>1 DEF Pass
    <3>3. WorkersOK'
      BY <2>1, <3>2 DEF BeginReconcile, WorkersOK, Workers, Stages
    <3> QED
      BY <2>1, <2>b, <3>3 DEF BeginReconcile, external, objects
  <2>2. CASE CreateOrUpdateLocalization
    <3>1. Mine.spec \in Generations
      BY <2>2, Holds DEF CreateOrUpdateLocalization, Mine, Workers
    <3>2. WorkersOK'
      BY <2>2 DEF CreateOrUpdateLocalization, WorkersOK, Workers, Stages
    <3>3. lz' = lz \/ lz' = [loc |-> Mine.spec.loc, ver |-> Mine.spec.ver]
      BY <2>2 DEF CreateOrUpdateLocalization
    <3>4. found' \in Providers \cup {None}
      BY <2>2 DEF CreateOrUpdateLocalization, Named, Providers
    <3> QED
      BY <2>2, <2>b, <3>1, <3>2, <3>3, <3>4, SpecFields DEF CreateOrUpdateLocalization, external
  <2>3. CASE CreateOrUpdateConfiguration
    <3>1. /\ Mine.spec \in Generations /\ Mine.st \in Status
          /\ pc["reconciler"] # "idle" /\ "reconciler" \in Workers
      BY <2>3, Holds DEF CreateOrUpdateConfiguration, Mine, Workers
    <3>2. ASSUME NEW p \in Providers \cup {None}, RecordSnapshot(p), UNCHANGED queued
          PROVE  WorkersOK'
      <4>1. CASE p = None
        BY <3>1, <3>2, <4>1, Returns DEF RecordSnapshot
      <4>2. CASE p # None
        <5>1. [Mine.st EXCEPT !.snap = p] \in Status
          BY <3>1, <4>2, StatusEdits
        <5>2. MarkReady([Mine.st EXCEPT !.snap = p]) \in Status
          BY <5>1, StatusEdits
        <5> QED
          BY <3>1, <3>2, <4>2, <5>2, Returns DEF RecordSnapshot
      <4> QED
        BY <4>1, <4>2
    <3>3. Named("cfg") \in Providers \cup {None}
      BY DEF Named, Providers
    <3>4. WorkersOK'
      BY <2>3, <3>2, <3>3 DEF CreateOrUpdateConfiguration
    <3>5. DesiredConfiguration \in Configuration
      BY <3>1, SpecFields DEF DesiredConfiguration, Configuration
    <3>6. cf' = cf \/ cf' = DesiredConfiguration
      BY <2>3 DEF CreateOrUpdateConfiguration
    <3> QED
      BY <2>3, <2>b, <3>4, <3>5, <3>6 DEF CreateOrUpdateConfiguration, external
  <2>4. CASE Panic
    BY <2>4, <2>b, Stops DEF Panic, Stop, external, objects
  <2>5. ASSUME NEW w \in Workers, PatchStatus(w) PROVE TypeOK'
    <3>1. mem[w].spec \in Generations /\ mem[w].st \in Status
      BY <2>5, Holds DEF PatchStatus
    <3>2. Observed(mem[w]) \in 0..MaxGen
      BY <3>1, Observes
    <3>3. status' \in Status
      BY <2>5, <3>1, <3>2 DEF PatchStatus, Changed, Status
    <3>4. WorkersOK'
      BY <2>5 DEF PatchStatus, WorkersOK, Workers, Stages
    <3> QED
      BY <2>5, <2>b, <3>3, <3>4 DEF PatchStatus, external, objects
  <2>6. ASSUME NEW w \in Workers, PatchConditions(w) PROVE TypeOK'
    <3>1. mem[w].st \in Status
      BY <2>6, Holds DEF PatchConditions
    <3>2. status' \in Status
      BY <2>6, <3>1 DEF PatchConditions, Changed, Status
    <3>3. WorkersOK'
      BY <2>6, Ends DEF PatchConditions
    <3> QED
      BY <2>6, <2>b, <3>2, <3>3 DEF PatchConditions, external, objects
  <2>7. CASE BeginSchedule
    <3>1. [spec |-> spec, base |-> status, st |-> status] \in Pass
      BY DEF Pass
    <3>2. WorkersOK'
      BY <2>7, <3>1 DEF BeginSchedule, WorkersOK, Workers, Stages
    <3> QED
      BY <2>7, <2>b, <3>2 DEF BeginSchedule, external, objects
  <2>8. CASE CheckSnapshot
    <3>1. Progressing(Scheduled.st) \in Status
      BY <2>8, Holds, StatusEdits DEF CheckSnapshot, Scheduled, Workers
    <3>2. WorkersOK'
      <4>1. CASE mem' = [mem EXCEPT !["scheduler"].st = Progressing(@)]
                 /\ pc' = [pc EXCEPT !["scheduler"] = "select"] /\ UNCHANGED <<queued, err>>
        BY <2>8, <3>1, <4>1, GoesOn DEF CheckSnapshot, Scheduled, Workers, Stages
      <4>2. CASE EndPass("scheduler", TRUE)
        BY <4>2, Ends DEF Workers
      <4> QED
        BY <2>8, <4>1, <4>2 DEF CheckSnapshot
    <3> QED
      BY <2>8, <2>b, <3>2 DEF CheckSnapshot, external, objects
  <2>9. ASSUME NotDeployed, pc["scheduler"] # "idle", UNCHANGED queued PROVE WorkersOK'
    BY <2>9, Holds, StatusEdits, Returns DEF NotDeployed, Scheduled, Workers
  <2>10. CASE Select
    <3>1. ASSUME NEW t \in Candidates(targets, Scheduled.spec.role, Namespace, System),
                 mem' = [mem EXCEPT !["scheduler"].st.target = Ref(t)],
                 pc' = [pc EXCEPT !["scheduler"] = "find"], UNCHANGED err
          PROVE  WorkersOK'
      <4>1. Ref(t) \in TargetRefs
        BY DEF Candidates, Found, Search, TargetSets, TargetRefs
      <4>2. mem["scheduler"].st \in Status
        BY <2>10, Holds DEF Select, Workers
      <4>3. [mem["scheduler"].st EXCEPT !.target = Ref(t)] \in Status
        BY <4>1, <4>2, StatusEdits
      <4>4. mem' = [mem EXCEPT !["scheduler"].st = [mem["scheduler"].st EXCEPT !.target = Ref(t)]]
        BY <3>1
      <4> QED
        BY <2>10, <3>1, <4>3, <4>4, GoesOn DEF Select, Workers, Stages
    <3>2. WorkersOK'
      BY <2>9, <2>10, <3>1 DEF Select
    <3> QED
      BY <2>10, <2>b, <3>2 DEF Select, external, objects
  <2>11. CASE FindTarget
    <3>1. WorkersOK'
      BY <2>9, <2>11 DEF FindTarget, WorkersOK, Workers, Stages
    <3> QED
      BY <2>11, <2>b, <3>1 DEF FindTarget, external, objects
  <2>12. CASE CreateFluxDeployer
    <3>1. /\ Scheduled.st.snap \in Providers /\ Scheduled.st.target \in TargetRefs
          /\ Scheduled.st \in Status
      BY <2>12, <2>d, Holds DEF CreateFluxDeployer, SchedulerHolds, Scheduled, Workers
    <3>2. fd' \in FluxDeployer \cup {None}
      <4>1. [src |-> Scheduled.st.snap, target |-> Scheduled.st.target] \in FluxDeployer
        BY <3>1 DEF FluxDeployer
      <4>2. \/ fd' = fd
            \/ fd' = [src |-> Scheduled.st.snap, target |-> Scheduled.st.target]
        BY <2>12 DEF CreateFluxDeployer
      <4> QED
        BY <4>1, <4>2
    <3>3. [Scheduled.st EXCEPT !.deployed = "True", !.recon = FALSE] \in Status
      BY <3>1 DEF Status
    <3>4. WorkersOK'
      <4>1. CASE NotDeployed
        BY <2>9, <2>12, <4>1 DEF CreateFluxDeployer
      <4>2. CASE Return("scheduler", [Scheduled.st EXCEPT !.deployed = "True", !.recon = FALSE], FALSE)
        BY <2>12, <3>3, <4>2, Returns DEF CreateFluxDeployer, Workers
      <4> QED
        BY <2>12, <4>1, <4>2 DEF CreateFluxDeployer
    <3> QED
      BY <2>12, <2>b, <3>2, <3>4 DEF CreateFluxDeployer, external
  <2>13. CASE RequestFails
    <3>1. faults' \in 0..MaxFaults
      BY <2>13, ConstantsAssumption DEF ConstantsAssumption, RequestFails, Fault
    <3>2. ASSUME pc["reconciler"] \in {"localize", "configure"},
                 Return("reconciler", MarkNotReady(Mine.st), TRUE), UNCHANGED queued
          PROVE  WorkersOK'
      BY <3>2, Holds, StatusEdits, Returns DEF Mine, Workers
    <3>3. ASSUME pc["scheduler"] \in {"select", "find", "deploy"},
                 NotDeployed, UNCHANGED queued
          PROVE  WorkersOK'
      BY <2>9, <3>3
    <3>4. ASSUME NEW w \in Workers, pc[w] = "patchStatus",
                 pc' = [pc EXCEPT ![w] = "patchConditions"],
                 err' = [err EXCEPT ![w] = TRUE], UNCHANGED <<mem, queued>>
          PROVE  WorkersOK'
      BY <3>4 DEF WorkersOK, Workers, Stages
    <3>5. WorkersOK'
      BY <2>13, <3>2, <3>3, <3>4, Ends DEF RequestFails, Workers
    <3> QED
      BY <2>13, <2>b, <3>1, <3>5 DEF RequestFails, external, objects
  <2>14. CASE Restart
    <3>1. faults' \in 0..MaxFaults
      BY <2>14, ConstantsAssumption DEF ConstantsAssumption, Restart, Fault
    <3> QED
      BY <2>14, <2>b, <3>1, Stops DEF Restart, Stop, external, objects
  <2>15. ASSUME NEW s \in Specs, UpdateSpec(s) PROVE TypeOK'
    <3>1. spec' \in Generations
      <4>1. spec.gen + 1 \in 1..MaxGen
        BY <2>15, ConstantsAssumption DEF ConstantsAssumption, UpdateSpec, Generations, Generation
      <4> QED
        BY <2>15, <4>1 DEF UpdateSpec, Generations
    <3>2. WorkersOK'
      BY <2>15 DEF UpdateSpec, WorkersOK
    <3> QED
      BY <2>15, <2>b, <3>1, <3>2 DEF UpdateSpec, objects
  <2>16. ASSUME NEW p \in Providers, ProduceSnapshot(p) PROVE TypeOK'
    <3>1. WorkersOK'
      BY <2>16 DEF ProduceSnapshot, workers, WorkersOK
    <3>2. snaps' \in Snapshots
      BY <2>16 DEF ProduceSnapshot, Snapshots
    <3> QED
      BY <2>16, <2>b, <3>1, <3>2 DEF ProduceSnapshot, objects, workers
  <2>19. ASSUME NEW p \in Providers, ChangeOwners(p) PROVE TypeOK'
    <3>1. WorkersOK'
      BY <2>19 DEF ChangeOwners, workers, WorkersOK
    <3>2. snaps' \in Snapshots
      BY <2>19 DEF ChangeOwners, Snapshots
    <3> QED
      BY <2>19, <2>b, <3>1, <3>2 DEF ChangeOwners, objects, workers
  <2>17. ASSUME NEW ts \in TargetSets, ChangeTargets(ts) PROVE TypeOK'
    <3>1. WorkersOK'
      BY <2>17 DEF ChangeTargets, workers, WorkersOK
    <3> QED
      BY <2>17, <2>b, <3>1 DEF ChangeTargets, objects, workers
  <2>18. CASE UNCHANGED vars
    <3>1. WorkersOK'
      BY <2>18 DEF vars, workers, WorkersOK
    <3> QED
      BY <2>18, <2>b, <3>1 DEF vars, objects, workers, external
  <2> QED
    BY <2>1, <2>2, <2>3, <2>4, <2>5, <2>6, <2>7, <2>8, <2>10, <2>11, <2>12, <2>13,
       <2>14, <2>15, <2>16, <2>17, <2>18, <2>19
       DEF Next, Reconciler, Scheduler, Environment, Workers
<1>2. TypeInv /\ [Next]_vars => SchedulerHolds'
  <2> SUFFICES ASSUME TypeInv, [Next]_vars PROVE SchedulerHolds'
    OBVIOUS
  <2>a. WorkersOK /\ SchedulerHolds /\ status.snap \in Providers \cup {None}
    BY DEF TypeInv, TypeOK, WorkersOK, Status
  <2>b. /\ "scheduler" \in Workers /\ "reconciler" \in Workers
        /\ DOMAIN pc = Workers /\ DOMAIN mem = Workers
    BY <2>a DEF Workers, WorkersOK
  <2>c. pc["scheduler"] # "idle" => mem["scheduler"] \in Pass
    BY <2>a DEF Workers, WorkersOK
  <2> USE <2>a, <2>b DEF SchedulerHolds, Scheduled
  <2>1. CASE BeginReconcile \/ CreateOrUpdateLocalization
    BY <2>1 DEF BeginReconcile, CreateOrUpdateLocalization
  <2>2. CASE CreateOrUpdateConfiguration
    BY <2>2 DEF CreateOrUpdateConfiguration, RecordSnapshot, Return
  <2>3. CASE Panic \/ Restart
    BY <2>3 DEF Panic, Restart, Stop
  <2>4. ASSUME NEW w \in Workers, PatchStatus(w) PROVE SchedulerHolds'
    BY <2>4 DEF PatchStatus
  <2>5. ASSUME NEW w \in Workers, NEW e, EndPass(w, e) PROVE SchedulerHolds'
    BY <2>5 DEF EndPass
  <2>6. ASSUME NEW w \in Workers, PatchConditions(w) PROVE SchedulerHolds'
    BY <2>5, <2>6 DEF PatchConditions
  <2>7. CASE BeginSchedule
    BY <2>7 DEF BeginSchedule
  <2>8. CASE CheckSnapshot
    <3>1. CASE /\ mem' = [mem EXCEPT !["scheduler"].st = Progressing(@)]
               /\ pc' = [pc EXCEPT !["scheduler"] = "select"]
      BY <2>8, <2>c, <3>1 DEF CheckSnapshot, Progressing, Pass, Status
    <3> QED
      BY <2>5, <2>8, <3>1 DEF CheckSnapshot
  <2>9. ASSUME NotDeployed, pc["scheduler"] # "idle" PROVE SchedulerHolds'
    BY <2>9, <2>c DEF NotDeployed, Return, Pass, Status
  <2>10. CASE Select
    <3>1. ASSUME NEW t \in Candidates(targets, Scheduled.spec.role, Namespace, System),
                 mem' = [mem EXCEPT !["scheduler"].st.target = Ref(t)],
                 pc' = [pc EXCEPT !["scheduler"] = "find"]
          PROVE  SchedulerHolds'
      <4>1. Ref(t) \in TargetRefs
        BY DEF TypeInv, TypeOK, Candidates, Found, Search, TargetSets, TargetRefs
      <4> QED
        BY <2>10, <2>c, <3>1, <4>1 DEF Select, Pass, Status
    <3> QED
      BY <2>9, <2>10, <3>1 DEF Select
  <2>11. CASE FindTarget
    BY <2>9, <2>11 DEF FindTarget
  <2>12. CASE CreateFluxDeployer
    <3>1. CASE Return("scheduler", [Scheduled.st EXCEPT !.deployed = "True", !.recon = FALSE], FALSE)
      BY <2>12, <2>c, <3>1 DEF CreateFluxDeployer, Return, Pass, Status
    <3> QED
      BY <2>9, <2>12, <3>1 DEF CreateFluxDeployer
  <2>13. CASE RequestFails
    <3>1. CASE Return("reconciler", MarkNotReady(Mine.st), TRUE)
      BY <3>1 DEF Return
    <3> QED
      BY <2>5, <2>9, <2>13, <3>1 DEF RequestFails
  <2>14. CASE Environment
    BY <2>14 DEF Environment, UpdateSpec, ProduceSnapshot, ChangeOwners, ChangeTargets, workers
  <2>15. CASE UNCHANGED vars
    BY <2>15 DEF vars, workers
  <2> QED
    BY <2>1, <2>2, <2>3, <2>4, <2>6, <2>7, <2>8, <2>10, <2>11, <2>12, <2>13, <2>14, <2>15
       DEF Next, Reconciler, Scheduler
<1> QED
  BY <1>1, <1>2 DEF TypeInv

\* The type invariant holds.
LEMMA TypeInvariant == Spec => []TypeInv
<1>1. TypeInv /\ [Next]_vars => TypeInv'
  BY TypeStep
<1> QED
  BY <1>1, TypeInit, PTL DEF Spec

\* Every variable keeps its type, for all specs and targets.
THEOREM TypeCorrect == Spec => []TypeOK
BY TypeInvariant, PTL DEF TypeInv

-----------------------------------------------------------------------------
(* The safety properties.  The status is written by two workers from copies   *)
(* that grow stale; what makes it right is what those copies may hold.        *)

(* What a worker holds never takes away what the status has.                  *)
MemoryInv == \A w \in Workers : pc[w] # "idle" =>
    /\ mem[w].base.snap # None => status.snap # None
    /\ mem[w].base.target # None => status.target # None
    /\ mem[w].st.snap = None => mem[w].base.snap = None
    /\ mem[w].st.target = None => mem[w].base.target = None
    /\ mem[w].st.deployed = "True" => fd # None /\ status.snap # None

(* A pass of the reconciler edits the snapshot and readiness only, and one    *)
(* that ends without error has written a snapshot.                            *)
ReconcilerInv == pc["reconciler"] # "idle" =>
    /\ Mine.st.target = Mine.base.target
    /\ Mine.st.deployed = Mine.base.deployed
    /\ pc["reconciler"] \in {"localize", "configure"} => Mine.st.snap = Mine.base.snap
    /\ pc["reconciler"] = "configure" /\ Mine.spec.loc # None => lz # None
    /\ Mine.st.snap \notin {Mine.base.snap, "cfg"} => Mine.spec.rules = None
    /\ pc["reconciler"] = "patchStatus" /\ ~err["reconciler"] => Mine.st.snap # None
    /\ pc["reconciler"] = "patchConditions" /\ ~err["reconciler"] => status.snap # None

(* A pass of the scheduler edits the target and the deployment only, holds a  *)
(* snapshot that is ready, and if it ends without error has written a target. *)
SchedulerInv == pc["scheduler"] # "idle" =>
    /\ Scheduled.st.snap = Scheduled.base.snap
    /\ Scheduled.st.ready = Scheduled.base.ready
    /\ pc["scheduler"] \in {"select", "find", "deploy"} => SnapshotReady(Scheduled.st.snap)
    /\ pc["scheduler"] = "patchStatus" /\ ~err["scheduler"] => Scheduled.st.target # None
    /\ pc["scheduler"] = "patchConditions" /\ ~err["scheduler"] => status.target # None

SafetyInv ==
    /\ MemoryInv /\ ReconcilerInv /\ SchedulerInv
    /\ DeployedIsReal /\ StagesInOrder /\ TornStatusIsRetried

\* What Return changes and what it leaves alone.
LEMMA ReturnFrame ==
    ASSUME WorkersOK, NEW w \in Workers, pc[w] # "idle", NEW s, NEW e, Return(w, s, e)
    PROVE  /\ pc'[w] = "patchStatus" /\ err'[w] = e
           /\ mem'[w].spec = mem[w].spec /\ mem'[w].base = mem[w].base /\ mem'[w].st = s
           /\ \A o \in Workers \ {w} : pc'[o] = pc[o] /\ mem'[o] = mem[o] /\ err'[o] = err[o]
<1>1. mem[w] \in Pass /\ DOMAIN mem = Workers /\ DOMAIN pc = Workers
  BY DEF WorkersOK
<1> HIDE DEF Status, Generations
<1> QED
  BY <1>1 DEF WorkersOK, Return, Pass

\* What the end of a pass changes and what it leaves alone.
LEMMA EndFrame ==
    ASSUME WorkersOK, NEW w \in Workers, NEW e \in BOOLEAN, EndPass(w, e)
    PROVE  /\ pc'[w] = "idle" /\ queued \subseteq queued' /\ (e => w \in queued')
           /\ \A o \in Workers \ {w} : pc'[o] = pc[o] /\ mem'[o] = mem[o] /\ err'[o] = err[o]
BY DEF WorkersOK, EndPass

\* At first no worker holds anything.
LEMMA SafetyInit == Init => SafetyInv
BY DEF Init, SafetyInv, MemoryInv, ReconcilerInv, SchedulerInv, DeployedIsReal,
       StagesInOrder, TornStatusIsRetried, NewStatus, Workers

\* Whatever the two workers read and write, no step breaks the safety invariant.
LEMMA SafetyStep ==
    ASSUME TypeInv, SafetyInv, [Next]_vars
    PROVE  SafetyInv'
<1>a. WorkersOK /\ SchedulerHolds
  BY DEF TypeInv, TypeOK, WorkersOK
<1>b. /\ "scheduler" \in Workers /\ "reconciler" \in Workers
      /\ \A w \in Workers : w = "scheduler" \/ w = "reconciler"
      /\ DOMAIN pc = Workers /\ DOMAIN mem = Workers
  BY <1>a DEF Workers, WorkersOK
<1>c. /\ None \notin Providers /\ None \notin TargetRefs /\ None \notin Localization
      /\ None \notin Configuration /\ None \notin FluxDeployer
  BY ConstantsAssumption DEF ConstantsAssumption
<1>d. \A w \in Workers : pc[w] # "idle" => mem[w] \in Pass /\ mem[w].st \in Status
  BY <1>a DEF WorkersOK, Pass
<1>e. status \in Status
  BY DEF TypeInv, TypeOK
<1> USE <1>a, <1>b, <1>c
<1> USE DEF SafetyInv, MemoryInv, ReconcilerInv, SchedulerInv, DeployedIsReal,
            StagesInOrder, SnapshotReady, TornStatusIsRetried, Busy, Mine, Scheduled
<1>1. CASE BeginReconcile
  <2>1. mem'["reconciler"] = [spec |-> spec, base |-> status, st |-> Progressing(status)]
    BY <1>1 DEF BeginReconcile
  <2>2. /\ Progressing(status).snap = status.snap /\ Progressing(status).target = status.target
        /\ Progressing(status).deployed = status.deployed
    BY <1>e DEF Progressing, Status
  <2> QED
    BY <1>1, <2>1, <2>2 DEF BeginReconcile, external, objects
<1>2. CASE CreateOrUpdateLocalization
  <2>1. Mine.spec \in Generations
    BY <1>2, Holds DEF CreateOrUpdateLocalization
  <2>2. [loc |-> Mine.spec.loc, ver |-> Mine.spec.ver] # None
    BY <2>1, SpecFields
  <2>3. Mine.spec.loc # None => lz' # None
    BY <1>2, <2>2 DEF CreateOrUpdateLocalization
  <2>4. lz # None => lz' # None
    BY <1>2, <2>2 DEF CreateOrUpdateLocalization
  <2> QED
    BY <1>2, <2>3, <2>4 DEF CreateOrUpdateLocalization, external
<1>3. CASE CreateOrUpdateConfiguration
  <2>1. /\ pc["reconciler"] = "configure" /\ Mine \in Pass /\ Mine.st \in Status
        /\ Mine.st.snap = Mine.base.snap
    BY <1>3, <1>d DEF CreateOrUpdateConfiguration
  <2>2. cf' # None /\ cf'.viaLoc => lz' # None
    <3>1. cf' \in {cf, DesiredConfiguration} /\ lz' = lz
      BY <1>3 DEF CreateOrUpdateConfiguration
    <3>2. DesiredConfiguration.viaLoc => lz # None
      BY <2>1 DEF DesiredConfiguration
    <3> QED
      BY <3>1, <3>2
  <2>3. PICK p \in Providers \cup {None} :
          RecordSnapshot(p) /\ (p # None /\ p # "cfg" => Mine.spec.rules = None)
    BY <1>3 DEF CreateOrUpdateConfiguration, Named, Providers, TypeInv, TypeOK
  <2>4. PICK st, e : /\ Return("reconciler", st, e)
                     /\ st.target = Mine.st.target /\ st.deployed = Mine.st.deployed
                     /\ st.snap = Mine.st.snap \/ (st.snap = p /\ p # None)
                     /\ ~e => st.snap = p /\ p # None
                     /\ e \in BOOLEAN
    BY <2>1, <2>3 DEF RecordSnapshot, MarkReady, Status
  <2>5. /\ pc'["reconciler"] = "patchStatus" /\ err'["reconciler"] = e
        /\ Mine'.spec = Mine.spec /\ Mine'.base = Mine.base /\ Mine'.st = st
        /\ pc'["scheduler"] = pc["scheduler"] /\ mem'["scheduler"] = mem["scheduler"]
        /\ err'["scheduler"] = err["scheduler"]
    BY <2>1, <2>4, ReturnFrame DEF Workers
  <2> QED
    BY <1>3, <2>1, <2>2, <2>3, <2>4, <2>5 DEF CreateOrUpdateConfiguration, external
<1>4. CASE Panic \/ Restart
  BY <1>4 DEF Panic, Restart, Stop, external, objects
<1>5. CASE PatchStatus("reconciler")
  <2>1. /\ pc["reconciler"] = "patchStatus" /\ Mine \in Pass
        /\ pc' = [pc EXCEPT !["reconciler"] = "patchConditions"]
        /\ UNCHANGED <<lz, cf, fd, snaps, queued, mem, err>>
    BY <1>5, <1>d DEF PatchStatus, objects, external
  <2>2. /\ status'.snap = IF Mine.st.snap # Mine.base.snap THEN Mine.st.snap ELSE status.snap
        /\ status'.target = status.target
        /\ status'.ready = status.ready /\ status'.deployed = status.deployed
    BY <1>5, <1>e, <2>1 DEF PatchStatus, Changed, Status
  <2> QED
    BY <2>1, <2>2
<1>6. CASE PatchStatus("scheduler")
  <2>1. /\ pc["scheduler"] = "patchStatus" /\ Scheduled \in Pass
        /\ pc' = [pc EXCEPT !["scheduler"] = "patchConditions"]
        /\ UNCHANGED <<lz, cf, fd, snaps, queued, mem, err>>
    BY <1>6, <1>d DEF PatchStatus, objects, external
  <2>2. /\ status'.target = IF Scheduled.st.target # Scheduled.base.target
                             THEN Scheduled.st.target ELSE status.target
        /\ status'.snap = status.snap
        /\ status'.ready = status.ready /\ status'.deployed = status.deployed
    BY <1>6, <1>e, <2>1 DEF PatchStatus, Changed, Status
  <2> QED
    BY <2>1, <2>2
<1>7. CASE PatchConditions("reconciler")
  <2>1. /\ pc["reconciler"] = "patchConditions" /\ Mine \in Pass
        /\ UNCHANGED <<lz, cf, fd, snaps>>
    BY <1>7, <1>d DEF PatchConditions, objects, external
  <2>2. /\ status'.snap = status.snap /\ status'.target = status.target
        /\ status'.deployed = status.deployed
    <3>1. CASE status' = status
      BY <3>1
    <3>2. CASE status' = [status EXCEPT
                  !.ready = Changed(Mine, "ready", Mine.st.ready),
                  !.recon = Changed(Mine, "recon", Mine.st.recon),
                  !.deployed = Changed(Mine, "deployed", Mine.st.deployed)]
      <4>1. Changed(Mine, "deployed", Mine.st.deployed) = status.deployed
        BY <2>1 DEF Changed
      <4> QED
        BY <1>e, <3>2, <4>1 DEF Status
    <3> QED
      BY <1>7, <3>1, <3>2 DEF PatchConditions
  <2>3. PICK e \in BOOLEAN : EndPass("reconciler", e) /\ (err["reconciler"] => e)
    <3>1. EndPass("reconciler", TRUE) \/ EndPass("reconciler", err["reconciler"])
      BY <1>7 DEF PatchConditions
    <3>2. err["reconciler"] \in BOOLEAN
      BY <1>b DEF TypeInv, TypeOK
    <3> QED
      BY <3>1, <3>2, Zenon
  <2> QED
    BY <2>1, <2>2, <2>3, EndFrame
<1>8. CASE PatchConditions("scheduler")
  <2>1. /\ pc["scheduler"] = "patchConditions" /\ Scheduled \in Pass
        /\ UNCHANGED <<lz, cf, fd, snaps>>
    BY <1>8, <1>d DEF PatchConditions, objects, external
  <2>2. /\ status'.snap = status.snap /\ status'.target = status.target
        /\ status'.ready = status.ready
        /\ status'.deployed \in {status.deployed, Scheduled.st.deployed}
    <3>1. CASE status' = status
      BY <3>1
    <3>2. CASE status' = [status EXCEPT
                  !.ready = Changed(Scheduled, "ready", Scheduled.st.ready),
                  !.recon = Changed(Scheduled, "recon", Scheduled.st.recon),
                  !.deployed = Changed(Scheduled, "deployed", Scheduled.st.deployed)]
      <4>1. Changed(Scheduled, "ready", Scheduled.st.ready) = status.ready
        BY <2>1 DEF Changed
      <4>2. Changed(Scheduled, "deployed", Scheduled.st.deployed)
              \in {status.deployed, Scheduled.st.deployed}
        BY DEF Changed
      <4> QED
        BY <1>e, <3>2, <4>1, <4>2 DEF Status
    <3> QED
      BY <1>8, <3>1, <3>2 DEF PatchConditions
  <2>3. PICK e \in BOOLEAN : EndPass("scheduler", e) /\ (err["scheduler"] => e)
    BY <1>8 DEF PatchConditions, TypeInv, TypeOK
  <2> QED
    BY <2>1, <2>2, <2>3, EndFrame
<1>9. CASE BeginSchedule
  <2>1. mem'["scheduler"] = [spec |-> spec, base |-> status, st |-> status]
    BY <1>9 DEF BeginSchedule
  <2> QED
    BY <1>9, <2>1 DEF BeginSchedule, external, objects
<1>10. ASSUME EndPass("scheduler", TRUE), UNCHANGED <<status, lz, cf, fd, snaps>>
       PROVE  SafetyInv'
  <2>1. /\ pc'["scheduler"] = "idle" /\ "scheduler" \in queued' /\ queued \subseteq queued'
        /\ pc'["reconciler"] = pc["reconciler"] /\ mem'["reconciler"] = mem["reconciler"]
        /\ err'["reconciler"] = err["reconciler"]
    BY <1>10 DEF EndPass, WorkersOK
  <2> QED
    BY <1>10, <2>1
<1>11. ASSUME pc["scheduler"] \in {"select", "find", "deploy"}, NotDeployed,
              UNCHANGED <<status, lz, cf, fd, snaps, queued>>
       PROVE  SafetyInv'
  <2> DEFINE st == [Scheduled.st EXCEPT !.deployed = "False"]
  <2>1. Return("scheduler", st, TRUE) /\ Scheduled \in Pass /\ Scheduled.st \in Status
    BY <1>11, <1>d DEF NotDeployed
  <2>2. /\ st.snap = Scheduled.st.snap /\ st.ready = Scheduled.st.ready
        /\ st.target = Scheduled.st.target /\ st.deployed = "False"
    BY <2>1 DEF Status
  <2> HIDE DEF st
  <2>3. /\ pc'["scheduler"] = "patchStatus" /\ err'["scheduler"]
        /\ Scheduled'.base = Scheduled.base /\ Scheduled'.st = st
        /\ pc'["reconciler"] = pc["reconciler"] /\ mem'["reconciler"] = mem["reconciler"]
        /\ err'["reconciler"] = err["reconciler"]
    BY <1>11, <2>1 DEF Return, WorkersOK, Pass
  <2> QED
    BY <1>11, <2>2, <2>3
<1>12. CASE CheckSnapshot
  <2>1. CASE /\ SnapshotReady(Scheduled.st.snap)
             /\ pc' = [pc EXCEPT !["scheduler"] = "select"]
             /\ mem' = [mem EXCEPT !["scheduler"].st = Progressing(@)]
             /\ UNCHANGED <<queued, err>>
    <3>1. Scheduled \in Pass /\ Scheduled.st \in Status
      BY <1>12, <1>d DEF CheckSnapshot
    <3>2. LET st == Progressing(Scheduled.st) IN
            /\ st.snap = Scheduled.st.snap /\ st.ready = Scheduled.st.ready
            /\ st.target = Scheduled.st.target /\ st.deployed = Scheduled.st.deployed
      BY <3>1 DEF Progressing, Status
    <3>3. /\ Scheduled'.st = Progressing(Scheduled.st) /\ Scheduled'.base = Scheduled.base
          /\ mem'["reconciler"] = mem["reconciler"]
      BY <2>1, <3>1 DEF Pass
    <3> QED
      BY <1>12, <2>1, <3>2, <3>3 DEF CheckSnapshot, objects, external
  <2> QED
    BY <1>10, <1>12, <2>1 DEF CheckSnapshot, objects, external
<1>13. CASE Select
  <2>1. ASSUME NEW t \in Candidates(targets, Scheduled.spec.role, Namespace, System),
               mem' = [mem EXCEPT !["scheduler"].st.target = Ref(t)],
               pc' = [pc EXCEPT !["scheduler"] = "find"], UNCHANGED err
        PROVE  SafetyInv'
    <3>1. Ref(t) \in TargetRefs
      BY DEF TypeInv, TypeOK, Candidates, Found, Search, TargetSets, TargetRefs
    <3>2. Scheduled \in Pass /\ Scheduled.st \in Status
      BY <1>13, <1>d DEF Select
    <3>3. /\ Scheduled'.st.snap = Scheduled.st.snap /\ Scheduled'.st.ready = Scheduled.st.ready
          /\ Scheduled'.st.target = Ref(t) /\ Scheduled'.st.deployed = Scheduled.st.deployed
          /\ Scheduled'.base = Scheduled.base /\ mem'["reconciler"] = mem["reconciler"]
      BY <2>1, <3>2 DEF Pass, Status
    <3> QED
      BY <1>13, <2>1, <3>1, <3>3 DEF Select, objects, external
  <2> QED
    BY <1>11, <1>13, <2>1 DEF Select, objects, external
<1>14. CASE FindTarget
  <2>1. CASE UNCHANGED mem /\ UNCHANGED err /\ pc' = [pc EXCEPT !["scheduler"] = "deploy"]
    BY <1>14, <2>1 DEF FindTarget, objects, external
  <2> QED
    BY <1>11, <1>14, <2>1 DEF FindTarget, objects, external
<1>15. CASE CreateFluxDeployer
  <2>1. /\ pc["scheduler"] = "deploy" /\ Scheduled \in Pass /\ Scheduled.st \in Status
        /\ Scheduled.st.snap \in Providers /\ Scheduled.st.target \in TargetRefs
    BY <1>15, <1>d DEF CreateFluxDeployer, SchedulerHolds
  <2>2. CASE NotDeployed /\ UNCHANGED fd
    BY <1>11, <1>15, <2>2 DEF CreateFluxDeployer, external
  <2>3. CASE /\ fd' = IF fd = None THEN [src |-> Scheduled.st.snap, target |-> Scheduled.st.target]
                                   ELSE fd
             /\ Return("scheduler", [Scheduled.st EXCEPT !.deployed = "True", !.recon = FALSE], FALSE)
    <3> DEFINE st == [Scheduled.st EXCEPT !.deployed = "True", !.recon = FALSE]
               new == [src |-> Scheduled.st.snap, target |-> Scheduled.st.target]
    <3>2. /\ st.snap = Scheduled.st.snap /\ st.ready = Scheduled.st.ready
          /\ st.target = Scheduled.st.target
      BY <2>1 DEF Status
    <3>3. new # None
      BY <2>1 DEF FluxDeployer
    <3>4. fd' = (IF fd = None THEN new ELSE fd) /\ Return("scheduler", st, FALSE)
      BY <2>3 DEF CreateFluxDeployer
    <3>5. status.snap # None /\ SnapshotReady(Scheduled.st.snap)
      BY <2>1
    <3>6. fd' # None /\ SnapshotReady(fd'.src)
      BY <3>3, <3>4, <3>5
    <3> HIDE DEF st, new
    <3>7. /\ pc'["scheduler"] = "patchStatus" /\ err'["scheduler"] = FALSE
          /\ Scheduled'.base = Scheduled.base /\ Scheduled'.st = st
          /\ pc'["reconciler"] = pc["reconciler"] /\ mem'["reconciler"] = mem["reconciler"]
          /\ err'["reconciler"] = err["reconciler"]
      BY <2>1, <3>4 DEF Return, WorkersOK, Pass
    <3>8. UNCHANGED <<status, lz, cf, snaps, queued>>
      BY <1>15 DEF CreateFluxDeployer, external
    <3> QED
      BY <2>1, <3>2, <3>5, <3>6, <3>7, <3>8
  <2> QED
    BY <1>15, <2>2, <2>3 DEF CreateFluxDeployer
<1>16. CASE RequestFails
  <2>1. UNCHANGED <<status, lz, cf, fd, snaps>>
    BY <1>16 DEF RequestFails, objects, external
  <2>2. ASSUME pc["reconciler"] \in {"localize", "configure"},
               Return("reconciler", MarkNotReady(Mine.st), TRUE), UNCHANGED queued
        PROVE  SafetyInv'
    <3>1. Mine \in Pass /\ Mine.st \in Status
      BY <1>d, <2>2
    <3>2. LET st == MarkNotReady(Mine.st) IN
            st.snap = Mine.st.snap /\ st.target = Mine.st.target /\ st.deployed = Mine.st.deployed
      BY <3>1 DEF MarkNotReady, Status
    <3>3. /\ pc'["reconciler"] = "patchStatus" /\ err'["reconciler"] = TRUE
          /\ Mine'.base = Mine.base /\ Mine'.st = MarkNotReady(Mine.st) /\ Mine'.spec = Mine.spec
          /\ pc'["scheduler"] = pc["scheduler"] /\ mem'["scheduler"] = mem["scheduler"]
          /\ err'["scheduler"] = err["scheduler"]
      BY <2>2, <3>1 DEF Return, WorkersOK, Pass
    <3> QED
      BY <2>1, <2>2, <3>2, <3>3
  <2>3. ASSUME NEW w \in Workers, pc[w] = "patchStatus",
               pc' = [pc EXCEPT ![w] = "patchConditions"],
               err' = [err EXCEPT ![w] = TRUE], UNCHANGED <<mem, queued>>
        PROVE  SafetyInv'
    <3>1. err'[w] = TRUE /\ \A o \in Workers \ {w} : err'[o] = err[o]
      BY <2>3 DEF TypeInv, TypeOK
    <3> QED
      BY <2>1, <2>3, <3>1
  <2>4. ASSUME EndPass("reconciler", TRUE) PROVE SafetyInv'
    <3>1. /\ pc'["reconciler"] = "idle" /\ "reconciler" \in queued' /\ queued \subseteq queued'
          /\ pc'["scheduler"] = pc["scheduler"] /\ mem'["scheduler"] = mem["scheduler"]
          /\ err'["scheduler"] = err["scheduler"]
      BY <2>4 DEF EndPass, WorkersOK
    <3> QED
      BY <2>1, <3>1
  <2> QED
    BY <1>10, <1>11, <1>16, <2>1, <2>2, <2>3, <2>4 DEF RequestFails
<1>17. CASE \E s \in Specs : UpdateSpec(s)
  BY <1>17 DEF UpdateSpec, objects
<1>19. CASE \E p \in Providers : ProduceSnapshot(p)
  BY <1>19 DEF ProduceSnapshot, objects, workers, TypeInv, TypeOK, Snapshots, FluxDeployer
<1>21. CASE \E p \in Providers : ChangeOwners(p)
  BY <1>21 DEF ChangeOwners, objects, workers, TypeInv, TypeOK, Snapshots, FluxDeployer
<1>20. CASE \E ts \in TargetSets : ChangeTargets(ts)
  BY <1>20 DEF ChangeTargets, objects, workers
<1>18. CASE UNCHANGED vars
  BY <1>18 DEF vars, objects, workers, external
<1> QED
  BY <1>1, <1>2, <1>3, <1>4, <1>5, <1>6, <1>7, <1>8, <1>9, <1>12, <1>13, <1>14, <1>15, <1>16,
     <1>17, <1>18, <1>19, <1>20, <1>21 DEF Next, Reconciler, Scheduler, Environment

\* The safety invariant holds.
LEMMA SafetyInvariant == Spec => []SafetyInv
<1>1. TypeInv /\ SafetyInv /\ [Next]_vars => SafetyInv'
  BY SafetyStep
<1> QED
  BY <1>1, SafetyInit, TypeInvariant, PTL DEF Spec

\* A deployed pipeline has its FluxDeployer and its snapshot.
THEOREM DeploymentIsReal == Spec => []DeployedIsReal
BY SafetyInvariant, PTL DEF SafetyInv

\* Nothing is deployed before its snapshot is ready, nor configured from a
\* Localization that is not there.
THEOREM StagesFollow == Spec => []StagesInOrder
BY SafetyInvariant, PTL DEF SafetyInv

\* A status of which one patch was lost is repaired: its worker is busy.
THEOREM TornIsRetried == Spec => []TornStatusIsRetried
BY SafetyInvariant, PTL DEF SafetyInv

\* Only the reconciler replaces the configured snapshot, at the end of a pass whose spec
\* has no configuration.
LEMMA SnapshotStep ==
    ASSUME TypeInv, SafetyInv, [Next]_vars, status.snap = "cfg", status'.snap # "cfg"
    PROVE  pc["reconciler"] = "patchStatus" /\ Mine.spec.rules = None
<1>a. status \in Status /\ WorkersOK
  BY DEF TypeInv, TypeOK, WorkersOK
<1>1. ASSUME NEW w \in Workers, PatchStatus(w)
      PROVE  pc["reconciler"] = "patchStatus" /\ Mine.spec.rules = None
  <2>1. pc[w] = "patchStatus"
    BY <1>1 DEF PatchStatus
  <2>2. status'.snap = Changed(mem[w], "snap", mem[w].st.snap)
    BY <1>a, <1>1 DEF PatchStatus, Status
  <2>3. mem[w].st.snap # mem[w].base.snap /\ mem[w].st.snap # "cfg"
    BY <2>2 DEF Changed
  <2>4. w = "reconciler"
    BY <2>1, <2>3 DEF Workers, SafetyInv, SchedulerInv, Scheduled
  <2> QED
    BY <2>1, <2>3, <2>4 DEF SafetyInv, ReconcilerInv, Mine
<1>2. ASSUME NEW w \in Workers, PatchConditions(w) PROVE status'.snap = status.snap
  BY <1>a, <1>2 DEF PatchConditions, Status
<1>3. CASE UNCHANGED status
  BY <1>3
<1>4. CASE Reconciler \/ Scheduler
  BY <1>1, <1>2, <1>3, <1>4
     DEF Reconciler, Scheduler, Workers, BeginReconcile, CreateOrUpdateLocalization,
         CreateOrUpdateConfiguration, Panic, Stop, BeginSchedule, CheckSnapshot, Select,
         FindTarget, CreateFluxDeployer
<1>5. CASE RequestFails \/ Restart \/ Environment \/ UNCHANGED vars
  BY <1>3, <1>5
     DEF RequestFails, Restart, Stop, Environment, UpdateSpec, ProduceSnapshot,
         ChangeOwners, ChangeTargets, vars
<1> QED
  BY <1>4, <1>5 DEF Next

\* The stale copy of the scheduler never undoes the snapshot the reconciler has
\* recorded.
THEOREM SnapshotKept == Spec => SnapshotNeverGoesBack
<1>1. TypeInv /\ SafetyInv /\ [Next]_vars =>
        [status.snap = "cfg" /\ status'.snap # "cfg" =>
           pc["reconciler"] = "patchStatus" /\ Mine.spec.rules = None]_vars
  BY SnapshotStep
<1> QED
  BY <1>1, TypeInvariant, SafetyInvariant, PTL DEF Spec, SnapshotNeverGoesBack
=============================================================================
