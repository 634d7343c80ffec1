------------------------------ MODULE Pipeline ------------------------------
(* One ProductDeploymentPipeline and the two controllers that reconcile it    *)
(* side by side: the reconciler turns the pipeline into a Localization and a  *)
(* Configuration and records the snapshot they produce, the scheduler waits   *)
(* for that snapshot, selects a target and deploys into it.  Each has its own *)
(* work queue and one worker; each reads the pipeline when it starts and      *)
(* sends back the part of the status it has changed when it ends, so that     *)
(* both work on copies that grow stale.                                       *)
EXTENDS Naturals, SelectTarget

CONSTANTS None,          \* no object, no name
          Specs,         \* specs the product controller may write:
                         \*   [loc, rules, cfg, ver, role]
          TargetObjects, \* targets that may be there: [name, ns, type, labels,
                         \*   access], access being absent, malformed or usable
          Namespace,     \* the namespace of the pipeline
          System,        \* the mpas-system namespace
          Kubernetes,    \* the one target type that has a deployer
          MaxGen,        \* bound on the generation of the pipeline
          MaxFaults      \* bound on failed requests and process restarts

Workers == {"reconciler", "scheduler"}

\* The objects that produce a snapshot: the Localization and the Configuration.
Providers == {"loc", "cfg"}

\* The objects the workers create.
Localization == {[loc |-> s.loc, ver |-> s.ver] : s \in Specs}

Configuration == [viaLoc : BOOLEAN, rules : {s.rules : s \in Specs},
                  cfg : {s.cfg : s \in Specs}, ver : {s.ver : s \in Specs}]

\* A pipeline and a FluxDeployer know a target by its name.
Ref(t) == [name |-> t.name, ns |-> t.ns]

TargetRefs == {Ref(t) : t \in TargetObjects}

FluxDeployer == [src : Providers, target : TargetRefs]

\* Specs and targets are records of these fields; None is something else.
ASSUME ConstantsAssumption ==
    /\ MaxGen \in Nat \ {0} /\ MaxFaults \in Nat
    /\ \A s \in Specs : s = [loc |-> s.loc, rules |-> s.rules, cfg |-> s.cfg,
                             ver |-> s.ver, role |-> [type |-> s.role.type, labels |-> s.role.labels]]
    /\ \A t \in TargetObjects :
         t = [name |-> t.name, ns |-> t.ns, type |-> t.type, labels |-> t.labels,
              access |-> t.access]
    /\ None \notin Providers /\ None \notin TargetRefs
    /\ None \notin Localization /\ None \notin Configuration /\ None \notin FluxDeployer

VARIABLES
  \* the cluster
  spec,       \* the pipeline's generation and spec
  status,     \* its status on the API server
  lz,         \* the Localization: [loc, ver]
  cf,         \* the Configuration: [viaLoc, rules, cfg, ver]
  snaps,      \* the snapshot of each provider: absent, named, ready, or shared:
              \* ready with another number of owners than one
  fd,         \* the FluxDeployer: [src, target]
  targets,    \* the targets that exist
  \* the workers
  queued,     \* the workers whose queue holds the pipeline
  pc,         \* the request each worker makes next
  mem,        \* the pipeline each worker has in memory during a pass
  err,        \* the pass of the worker ends in an error, or asks to be requeued
  found,      \* the provider whose snapshot name the reconciler has read
  panicked,   \* the process has panicked
  faults      \* failed requests and restarts so far

objects == <<lz, cf, fd>>
external == <<spec, snaps, targets>>
workers == <<queued, pc, mem, err, found>>
vars == <<external, objects, status, workers, panicked, faults>>

Status == [ready : {"True", "False", "Unknown"}, recon : BOOLEAN,
           deployed : {"True", "False", "Unknown"}, obs : 0..MaxGen,
           snap : Providers \cup {None}, target : TargetRefs \cup {None}]

Generation(g, s) ==
    [gen |-> g, loc |-> s.loc, rules |-> s.rules, cfg |-> s.cfg, ver |-> s.ver, role |-> s.role]

Generations == {Generation(g, s) : g \in 1..MaxGen, s \in Specs}

Snapshots == [Providers -> {"absent", "named", "ready", "shared"}]

\* The sets of targets that can be there together: no two have one name.
TargetSets == {ts \in SUBSET TargetObjects : \A t, u \in ts : Ref(t) = Ref(u) => t = u}

Stages == [reconciler |-> {"idle", "localize", "configure", "patchStatus", "patchConditions"},
           scheduler |-> {"idle", "check", "select", "find", "deploy", "patchStatus", "patchConditions"}]

\* What a pass holds: the spec and the status as read, and the status as edited.
Pass == [spec : Generations, base : Status, st : Status]

TypeOK ==
    /\ spec \in Generations
    /\ status \in Status
    /\ lz \in Localization \cup {None}
    /\ cf \in Configuration \cup {None}
    /\ snaps \in Snapshots
    /\ fd \in FluxDeployer \cup {None}
    /\ targets \in TargetSets
    /\ queued \subseteq Workers
    /\ \A w \in Workers : pc[w] \in Stages[w]
    /\ \A w \in Workers : IF pc[w] = "idle" THEN mem[w] = None ELSE mem[w] \in Pass
    /\ DOMAIN pc = Workers /\ DOMAIN mem = Workers
    /\ err \in [Workers -> BOOLEAN]
    /\ found \in Providers \cup {None}
    /\ panicked \in BOOLEAN
    /\ faults \in 0..MaxFaults

NewStatus == [ready |-> "Unknown", recon |-> FALSE, deployed |-> "Unknown", obs |-> 0,
              snap |-> None, target |-> None]

Init ==
    /\ spec \in {Generation(1, s) : s \in Specs}
    /\ status = NewStatus
    /\ lz = None /\ cf = None /\ fd = None
    /\ snaps = [p \in Providers |-> "absent"]
    /\ targets \in TargetSets
    /\ queued = Workers
    /\ pc = [w \in Workers |-> "idle"]
    /\ mem = [w \in Workers |-> None]
    /\ err = [w \in Workers |-> FALSE]
    /\ found = None /\ panicked = FALSE /\ faults = 0

-----------------------------------------------------------------------------
(* The status in memory, and how it is sent back. *)

IsReady(s) == s.ready = "True" /\ ~s.recon
MarkNotReady(s) == [s EXCEPT !.ready = "False", !.recon = FALSE]
MarkReady(s) == [s EXCEPT !.ready = "True", !.recon = FALSE]
Progressing(s) == [s EXCEPT !.recon = TRUE]

\* Leave the pass for the deferred status update; e: the pipeline comes back.
Return(w, s, e) ==
    /\ mem' = [mem EXCEPT ![w].st = s]
    /\ err' = [err EXCEPT ![w] = e]
    /\ pc' = [pc EXCEPT ![w] = "patchStatus"]

\* Mutant: every ready pass counts one generation.
ObservedCounts(m) == IF IsReady(m.st) THEN m.st.obs + 1 ELSE m.st.obs

\* UpdateStatus: a ready pipeline has observed the generation that was read.
Observed(m) == IF IsReady(m.st) THEN m.spec.gen ELSE m.st.obs

\* Mutant: the whole status is sent.
SendsAll(m, field, new) == new

\* Only what differs from the status as read is sent.
Changed(m, field, new) == IF new # m.base[field] THEN new ELSE status[field]

PatchStatus(w) ==
    /\ pc[w] = "patchStatus"
    /\ pc' = [pc EXCEPT ![w] = "patchConditions"]
    /\ status' = [status EXCEPT !.obs = Changed(mem[w], "obs", Observed(mem[w])),
                                !.snap = Changed(mem[w], "snap", mem[w].st.snap),
                                !.target = Changed(mem[w], "target", mem[w].st.target)]
    /\ UNCHANGED <<external, objects, queued, mem, err, found, panicked, faults>>

Conditions == {"ready", "recon", "deployed"}

\* A condition changed here and, to something else, on the server.
Conflicting(m) == \E c \in Conditions :
    m.st[c] # m.base[c] /\ status[c] # m.base[c] /\ status[c] # m.st[c]

\* Mutant: a pipeline that is ready does not come back, whatever failed.
EndReadyPass(w, e) ==
    /\ pc' = [pc EXCEPT ![w] = "idle"]
    /\ queued' = IF e /\ ~IsReady(mem[w].st) THEN queued \cup {w} ELSE queued
    /\ err' = [err EXCEPT ![w] = FALSE]
    /\ mem' = [mem EXCEPT ![w] = None]

\* The pass is over; an error puts the pipeline back into the worker's queue.
EndPass(w, e) ==
    /\ pc' = [pc EXCEPT ![w] = "idle"]
    /\ queued' = IF e THEN queued \cup {w} ELSE queued
    /\ err' = [err EXCEPT ![w] = FALSE]
    /\ mem' = [mem EXCEPT ![w] = None]

PatchConditions(w) ==
    /\ pc[w] = "patchConditions"
    /\ LET m == mem[w] IN
       \/ /\ Conflicting(m)
          /\ EndPass(w, TRUE)
          /\ UNCHANGED status
       \/ /\ ~Conflicting(m)
          /\ status' = [status EXCEPT !.ready = Changed(m, "ready", m.st.ready),
                                      !.recon = Changed(m, "recon", m.st.recon),
                                      !.deployed = Changed(m, "deployed", m.st.deployed)]
          /\ EndPass(w, err[w])
    /\ UNCHANGED <<external, objects, found, panicked, faults>>

-----------------------------------------------------------------------------
(* The reconciler *)

\* Read the pipeline and mark it progressing.
BeginReconcile ==
    /\ "reconciler" \in queued /\ pc["reconciler"] = "idle"
    /\ queued' = queued \ {"reconciler"}
    /\ pc' = [pc EXCEPT !["reconciler"] = "localize"]
    /\ mem' = [mem EXCEPT !["reconciler"] =
                 [spec |-> spec, base |-> status, st |-> Progressing(status)]]
    /\ found' = None
    /\ UNCHANGED <<external, objects, status, err, panicked, faults>>

Mine == mem["reconciler"]

\* The provider whose snapshot name is set by now, if any.
Named(p) == IF snaps[p] = "absent" THEN None ELSE p

\* createOrUpdateLocalization: an existing Localization is left as it is.
CreateOrUpdateLocalization ==
    /\ pc["reconciler"] = "localize"
    /\ pc' = [pc EXCEPT !["reconciler"] = "configure"]
    /\ \/ /\ Mine.spec.loc = None
          /\ UNCHANGED <<lz, found>>
       \/ /\ Mine.spec.loc # None
          /\ lz' = IF lz = None THEN [loc |-> Mine.spec.loc, ver |-> Mine.spec.ver] ELSE lz
          /\ found' = Named("loc")
    /\ UNCHANGED <<external, cf, fd, status, queued, mem, err, panicked, faults>>

DesiredConfiguration ==
    [viaLoc |-> Mine.spec.loc # None, rules |-> Mine.spec.rules,
     cfg |-> Mine.spec.cfg, ver |-> Mine.spec.ver]

\* Mutant: the reference to the config map is not compared.
OutdatedRules(c) == c.viaLoc \/ c.rules # Mine.spec.rules

\* What the mutate function overwrites: a Configuration without a resource
\* reference, or one whose rules or config map have another name.
Outdated(c) == c.viaLoc \/ c.rules # Mine.spec.rules \/ c.cfg # Mine.spec.cfg

\* It dereferences the resource reference of the desired source, and a desired
\* Configuration that builds on a Localization has none.
ComparesMissingReference ==
    Mine.spec.rules # None /\ cf # None /\ ~cf.viaLoc /\ Mine.spec.loc # None

\* An interface that holds a nil *Localization is not nil: its method is called.
NoProvider == Mine.spec.loc = None /\ Mine.spec.rules = None

\* Mutant: a snapshot that is not there yet is not waited for.
RecordOrGiveUp(provider) ==
    IF provider = None
      THEN Return("reconciler", Mine.st, FALSE)
      ELSE Return("reconciler", MarkReady([Mine.st EXCEPT !.snap = provider]), FALSE)

\* Record the snapshot of the last provider, or come back in ten seconds.
RecordSnapshot(provider) ==
    IF provider = None
      THEN Return("reconciler", Mine.st, TRUE)
      ELSE Return("reconciler", MarkReady([Mine.st EXCEPT !.snap = provider]), FALSE)

CreateOrUpdateConfiguration ==
    /\ pc["reconciler"] = "configure"
    /\ ~ComparesMissingReference /\ ~NoProvider
    /\ \/ /\ Mine.spec.rules = None
          /\ UNCHANGED cf
          /\ RecordSnapshot(found)
       \/ /\ Mine.spec.rules # None
          /\ cf' = IF cf = None \/ Outdated(cf) THEN DesiredConfiguration ELSE cf
          /\ RecordSnapshot(Named("cfg"))
    /\ found' = None
    /\ UNCHANGED <<external, lz, fd, status, queued, panicked, faults>>

\* Both controllers run in one process, which the manager does not recover; a
\* new process lists every pipeline and queues it for both.
Stop ==
    /\ pc' = [w \in Workers |-> "idle"]
    /\ err' = [w \in Workers |-> FALSE]
    /\ queued' = Workers
    /\ mem' = [w \in Workers |-> None]
    /\ found' = None
    /\ UNCHANGED <<external, objects, status>>

Panic ==
    /\ pc["reconciler"] = "configure"
    /\ ComparesMissingReference \/ NoProvider
    /\ Stop
    /\ panicked' = TRUE
    /\ UNCHANGED faults

Reconciler ==
    \/ BeginReconcile \/ CreateOrUpdateLocalization \/ CreateOrUpdateConfiguration \/ Panic
    \/ PatchStatus("reconciler") \/ PatchConditions("reconciler")

-----------------------------------------------------------------------------
(* The scheduler *)

Scheduled == mem["scheduler"]

\* Read the pipeline.  While it has no snapshot it comes back in five seconds
\* and nothing changes.
BeginSchedule ==
    /\ "scheduler" \in queued /\ pc["scheduler"] = "idle"
    /\ status.snap # None
    /\ queued' = queued \ {"scheduler"}
    /\ pc' = [pc EXCEPT !["scheduler"] = "check"]
    /\ mem' = [mem EXCEPT !["scheduler"] = [spec |-> spec, base |-> status, st |-> status]]
    /\ UNCHANGED <<external, objects, status, err, found, panicked, faults>>

\* Mutant: a snapshot that exists will do.
CheckSnapshotName ==
    /\ pc["scheduler"] = "check"
    /\ snaps[Scheduled.st.snap] # "absent"
    /\ pc' = [pc EXCEPT !["scheduler"] = "select"]
    /\ mem' = [mem EXCEPT !["scheduler"].st = Progressing(@)]
    /\ UNCHANGED <<external, objects, status, queued, err, found, panicked, faults>>

SnapshotReady(p) == snaps[p] \in {"ready", "shared"}

\* The snapshot must exist and be ready.
CheckSnapshot ==
    /\ pc["scheduler"] = "check"
    /\ \/ /\ SnapshotReady(Scheduled.st.snap)
          /\ pc' = [pc EXCEPT !["scheduler"] = "select"]
          /\ mem' = [mem EXCEPT !["scheduler"].st = Progressing(@)]
          /\ UNCHANGED <<queued, err>>
       \/ /\ ~SnapshotReady(Scheduled.st.snap)
          /\ EndPass("scheduler", TRUE)
    /\ UNCHANGED <<external, objects, status, found, panicked, faults>>

\* Mutants: the failure is not recorded; it is recorded and not returned.
DeployedAnyway == Return("scheduler", [Scheduled.st EXCEPT !.deployed = "True"], TRUE)
NotDeployedNorRetried == Return("scheduler", [Scheduled.st EXCEPT !.deployed = "False"], FALSE)

NotDeployed == Return("scheduler", [Scheduled.st EXCEPT !.deployed = "False"], TRUE)

Select ==
    /\ pc["scheduler"] = "select"
    /\ LET ts == Candidates(targets, Scheduled.spec.role, Namespace, System) IN
       \/ ts = {} /\ NotDeployed
       \/ \E t \in ts :
            /\ mem' = [mem EXCEPT !["scheduler"].st.target = Ref(t)]
            /\ pc' = [pc EXCEPT !["scheduler"] = "find"]
            /\ UNCHANGED err
    /\ UNCHANGED <<external, objects, status, queued, found, panicked, faults>>

\* What Deploy asks of a target: a type with a deployer, and access that is
\* given and can be parsed.
Deployable(t) == t.type = Kubernetes /\ t.access = "usable"

\* Deploy: the selected target must still be there, as it is by now.
FindTarget ==
    /\ pc["scheduler"] = "find"
    /\ LET deployable == {t \in targets : Ref(t) = Scheduled.st.target /\ Deployable(t)} IN
       \/ deployable = {} /\ NotDeployed
       \/ /\ deployable # {}
          /\ pc' = [pc EXCEPT !["scheduler"] = "deploy"]
          /\ UNCHANGED <<mem, err>>
    /\ UNCHANGED <<external, objects, status, queued, found, panicked, faults>>

\* The snapshot must have one owner: a new FluxDeployer draws from it.  An existing
\* one is left as it is.
CreateFluxDeployer ==
    /\ pc["scheduler"] = "deploy"
    /\ \/ /\ snaps[Scheduled.st.snap] = "shared"
          /\ NotDeployed
          /\ UNCHANGED fd
       \/ /\ snaps[Scheduled.st.snap] # "shared"
          /\ fd' = IF fd = None THEN [src |-> Scheduled.st.snap, target |-> Scheduled.st.target]
                               ELSE fd
          /\ Return("scheduler", [Scheduled.st EXCEPT !.deployed = "True", !.recon = FALSE], FALSE)
    /\ UNCHANGED <<external, lz, cf, status, queued, found, panicked, faults>>

Scheduler ==
    \/ BeginSchedule \/ CheckSnapshot \/ Select \/ FindTarget \/ CreateFluxDeployer
    \/ PatchStatus("scheduler") \/ PatchConditions("scheduler")

-----------------------------------------------------------------------------
(* What goes wrong, at most MaxFaults times. *)

Fault == faults < MaxFaults /\ faults' = faults + 1

RequestFails ==
    /\ Fault
    /\ \/ /\ pc["reconciler"] \in {"localize", "configure"}
          /\ Return("reconciler", MarkNotReady(Mine.st), TRUE)
          /\ UNCHANGED queued
       \/ /\ pc["scheduler"] = "check"
          /\ EndPass("scheduler", TRUE)
       \/ /\ pc["scheduler"] \in {"select", "find", "deploy"}
          /\ NotDeployed
          /\ UNCHANGED queued
       \/ \E w \in Workers : \* the other patch is sent all the same
          /\ pc[w] = "patchStatus"
          /\ pc' = [pc EXCEPT ![w] = "patchConditions"]
          /\ err' = [err EXCEPT ![w] = TRUE]
          /\ UNCHANGED <<mem, queued>>
       \/ \E w \in Workers : pc[w] = "patchConditions" /\ EndPass(w, TRUE)
    /\ UNCHANGED <<external, objects, status, found, panicked>>

Restart == Fault /\ Stop /\ UNCHANGED panicked

-----------------------------------------------------------------------------
(* What others do. *)

\* The product controller writes the spec; both queues get the pipeline.
UpdateSpec(s) ==
    /\ spec.gen < MaxGen /\ Generation(spec.gen, s) # spec
    /\ spec' = Generation(spec.gen + 1, s)
    /\ queued' = Workers
    /\ UNCHANGED <<snaps, targets, objects, status, pc, mem, err, found, panicked, faults>>

\* ocm-controller names the snapshot of an object it finds, and produces it.
ProduceSnapshot(p) ==
    /\ ~SnapshotReady(p)
    /\ p = "loc" => lz # None
    /\ p = "cfg" => cf # None
    /\ snaps' = [snaps EXCEPT ![p] = IF @ = "absent" THEN "named" ELSE "ready"]
    /\ UNCHANGED <<spec, targets, objects, status, workers, panicked, faults>>

\* Someone gives a snapshot another owner, or takes it away again.
ChangeOwners(p) ==
    /\ SnapshotReady(p)
    /\ snaps' = [snaps EXCEPT ![p] = IF @ = "ready" THEN "shared" ELSE "ready"]
    /\ UNCHANGED <<spec, targets, objects, status, workers, panicked, faults>>

\* Targets come and go, and their access is repaired or broken.
ChangeTargets(ts) ==
    /\ targets' = ts
    /\ UNCHANGED <<spec, snaps, objects, status, workers, panicked, faults>>

Environment ==
    \/ \E s \in Specs : UpdateSpec(s)
    \/ \E p \in Providers : ProduceSnapshot(p) \/ ChangeOwners(p)
    \/ \E ts \in TargetSets : ChangeTargets(ts)

Next == Reconciler \/ Scheduler \/ RequestFails \/ Restart \/ Environment

Spec == Init /\ [][Next]_vars

\* Each controller's worker runs while its queue is not empty, and
\* ocm-controller does its part.
Fairness ==
    /\ WF_vars(Reconciler) /\ WF_vars(Scheduler)
    /\ \A p \in Providers : WF_vars(ProduceSnapshot(p))

FairSpec == Spec /\ Fairness

-----------------------------------------------------------------------------
(* Safety *)

Busy(w) == w \in queued \/ pc[w] # "idle"

\* The two patches of a pass are independent: one may be lost and the other not.
\* A pipeline that is ready and has no snapshot, or is deployed and has no selected
\* target, is never left like that: the worker that has to repair it will run.
TornStatusIsRetried ==
    /\ status.ready = "True" /\ status.snap = None => Busy("reconciler")
    /\ status.deployed = "True" /\ status.target = None => Busy("scheduler")

\* Deployed is true only of a pipeline that has a snapshot and a FluxDeployer,
\* although two controllers write that status, in several requests.
DeployedIsReal == status.deployed = "True" => fd # None /\ status.snap # None

\* The stages are in order: nothing is deployed before its snapshot is ready, and
\* nothing is configured from a Localization that is not there.
StagesInOrder ==
    /\ fd # None => SnapshotReady(fd.src)
    /\ cf # None /\ cf.viaLoc => lz # None

\* The status of a pipeline goes back from the configured snapshot to the
\* localized one only when the reconciler has read a spec without configuration:
\* the scheduler, which has read an older status, does not write it back.
SnapshotNeverGoesBack ==
    [][status.snap = "cfg" /\ status'.snap # "cfg" =>
         pc["reconciler"] = "patchStatus" /\ Mine.spec.rules = None]_vars

-----------------------------------------------------------------------------
(* Liveness *)

OnlyTarget(t) ==
    Deployable(t) /\ Candidates(targets, spec.role, Namespace, System) = {t}

OneOwner == \A p \in Providers : snaps[p] # "shared"

\* Once its role has one target and keeps it, with usable access, and its snapshots
\* have one owner, a pipeline is ready and deployed in the end, whatever failed
\* before and however its two controllers interleave.
GetsDeployed ==
    <>[]~panicked /\ <>[]OneOwner /\ (\E t \in TargetObjects : <>[]OnlyTarget(t)) =>
        <>[](fd # None /\ status.deployed = "True" /\ IsReady(status))
=============================================================================
