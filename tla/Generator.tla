------------------------------ MODULE Generator ------------------------------
(* One ProductDeploymentGenerator: for each new version of a component that   *)
(* its subscription applies, the controller writes a snapshot with the        *)
(* ProductDeployment, a Sync that turns the snapshot into a pull request, and *)
(* a Validation of that pull request.  replication-controller updates the     *)
(* subscription at any time.                                                  *)
EXTENDS Naturals

CONSTANTS MaxVersion,  \* bound on the versions of the component
          Schedulable, \* those whose pipelines all name a target role
          MaxFailures, \* bound on failed requests
          MaxRestarts, \* bound on process restarts
          MaxChanges   \* bound on the changes to the subscription

Versions == 1..MaxVersion

ASSUME ConstantsAssumption ==
    /\ MaxVersion \in Nat /\ Schedulable \subseteq Versions
    /\ MaxFailures \in Nat /\ MaxRestarts \in Nat /\ MaxChanges \in Nat

VARIABLES
  \* the cluster
  sub,         \* the subscription: the applied version, 0 at first, and readiness
  project,     \* the project is ready and has a repository
  snapshots,   \* the names of the snapshots written
  syncs,       \* the snapshot of the Sync of each version, 0 if there is no Sync
  validations, \* the versions that have a Validation
  status,      \* the status of the generator on the API server
  \* the controller
  queued,      \* the generator is in the work queue
  pc,          \* the request the pass makes next
  st,          \* the status in memory
  ver,         \* the component version of the pass
  again,       \* the pass ends in an error or asks to be requeued
  names,       \* the snapshot names drawn so far
  failures, restarts, changes

results == <<snapshots, syncs, validations>>
world == <<sub, project, changes>>
pass == <<queued, pc, st, ver, again>>
vars == <<world, results, status, pass, names, failures, restarts>>

Status == [last : 0..MaxVersion, snap : Nat, digest : Nat,
           ready : {"True", "False", "Unknown"}, recon : BOOLEAN]

Stages == {"idle", "subscription", "project", "component", "snapshot", "sync",
           "validation", "patchStatus", "patchConditions"}

TypeOK ==
    /\ sub \in [applied : 0..MaxVersion, ready : BOOLEAN] /\ project \in BOOLEAN
    /\ names \in Nat /\ snapshots \subseteq 1..names
    /\ syncs \in [Versions -> 0..names] /\ validations \subseteq Versions
    /\ status \in Status /\ st \in Status
    /\ queued \in BOOLEAN /\ again \in BOOLEAN /\ pc \in Stages
    /\ ver \in 0..MaxVersion
    /\ failures \in 0..MaxFailures /\ restarts \in 0..MaxRestarts /\ changes \in 0..MaxChanges

NewStatus == [last |-> 0, snap |-> 0, digest |-> 0, ready |-> "Unknown", recon |-> FALSE]

Init ==
    /\ sub \in [applied : 0..MaxVersion, ready : BOOLEAN] /\ project \in BOOLEAN
    /\ snapshots = {} /\ syncs = [v \in Versions |-> 0] /\ validations = {}
    /\ status = NewStatus /\ st = NewStatus
    /\ queued = TRUE /\ again = FALSE /\ pc = "idle" /\ ver = 0 /\ names = 0
    /\ failures = 0 /\ restarts = 0 /\ changes = 0

-----------------------------------------------------------------------------
(* Reconcile *)

MarkNotReady(s) == [s EXCEPT !.ready = "False", !.recon = FALSE]
MarkReady(s) == [s EXCEPT !.ready = "True", !.recon = FALSE]

\* Leave the pass for the deferred status update; e: the generator comes back.
Return(s, e) == pc' = "patchStatus" /\ st' = s /\ again' = e

GoOn(stage) == pc' = stage /\ UNCHANGED <<st, again>>

Begin ==
    /\ pc = "idle" /\ queued
    /\ pc' = "subscription" /\ queued' = FALSE /\ again' = FALSE
    /\ st' = [status EXCEPT !.recon = TRUE]
    /\ UNCHANGED <<world, results, status, ver, names, failures, restarts>>

\* Mutant: only the version that was reconciled last is up to date.
SameVersion(v) == st.last # 0 /\ v = st.last

\* shouldRun: a version that is not newer than the last one is left alone.
UpToDate(v) == st.last # 0 /\ v <= st.last

\* A subscription that is not ready makes the generator ready, too, and does not
\* bring it back.
ReadSubscription ==
    /\ pc = "subscription"
    /\ ver' = sub.applied
    /\ IF ~sub.ready \/ UpToDate(sub.applied) THEN Return(MarkReady(st), FALSE)
                                              ELSE GoOn("project")
    /\ UNCHANGED <<world, results, status, queued, names, failures, restarts>>

ReadProject ==
    /\ pc = "project"
    /\ IF project THEN GoOn("component") ELSE Return(MarkNotReady(st), TRUE)
    /\ UNCHANGED <<world, results, status, queued, ver, names, failures, restarts>>

\* Mutant: an empty version is taken for the latest one.
AnyVersion ==
    /\ pc = "component"
    /\ GoOn("snapshot")
    /\ UNCHANGED <<world, results, status, queued, ver, names, failures, restarts>>

\* createProductDeployment: without an applied version there is no component; a
\* product that cannot be scheduled stops the generator without an error.
CreateProductDeployment ==
    /\ pc = "component"
    /\ \/ ver = 0 /\ Return(MarkNotReady(st), TRUE)
       \/ ver \notin Schedulable \cup {0} /\ Return(MarkNotReady(st), FALSE)
       \/ ver \in Schedulable /\ GoOn("snapshot")
    /\ UNCHANGED <<world, results, status, queued, ver, names, failures, restarts>>

\* Each pass draws a new name, which is in the status before it is written.
NewSnapshot == names' = names + 1

CreateSnapshot ==
    /\ pc = "snapshot"
    /\ NewSnapshot
    /\ snapshots' = snapshots \cup {names'}
    /\ st' = [st EXCEPT !.snap = names', !.digest = names']
    /\ pc' = "sync"
    /\ UNCHANGED <<world, syncs, validations, status, queued, ver, again, failures, restarts>>

\* Mutant: the Sync is made from the status on the server.
CreateSyncFromStatus ==
    /\ pc = "sync"
    /\ syncs' = [syncs EXCEPT ![ver] = IF @ = 0 THEN status.snap ELSE @]
    /\ GoOn("validation")
    /\ UNCHANGED <<world, snapshots, validations, status, queued, ver, names, failures, restarts>>

\* createSync: the Sync of a version is left as it is once it exists.
CreateSync ==
    /\ pc = "sync"
    /\ syncs' = [syncs EXCEPT ![ver] = IF @ = 0 THEN st.snap ELSE @]
    /\ GoOn("validation")
    /\ UNCHANGED <<world, snapshots, validations, status, queued, ver, names, failures, restarts>>

CreateValidation ==
    /\ pc = "validation"
    /\ validations' = validations \cup {ver}
    /\ Return(MarkReady([st EXCEPT !.last = ver]), FALSE)
    /\ UNCHANGED <<world, snapshots, syncs, status, queued, ver, names, failures, restarts>>

\* The deferred update: the status, then the conditions.
PatchStatus ==
    /\ pc = "patchStatus"
    /\ status' = [st EXCEPT !.ready = status.ready, !.recon = status.recon]
    /\ GoOn("patchConditions")
    /\ UNCHANGED <<world, results, queued, ver, names, failures, restarts>>

EndPass(e) ==
    /\ pc' = "idle" /\ queued' = (queued \/ e)
    /\ st' = NewStatus /\ ver' = 0 /\ again' = FALSE

PatchConditions ==
    /\ pc = "patchConditions"
    /\ status' = [status EXCEPT !.ready = st.ready, !.recon = st.recon]
    /\ EndPass(again)
    /\ UNCHANGED <<world, results, names, failures, restarts>>

Reconcile ==
    \/ Begin \/ ReadSubscription \/ ReadProject \/ CreateProductDeployment
    \/ CreateSnapshot \/ CreateSync \/ CreateValidation \/ PatchStatus \/ PatchConditions

-----------------------------------------------------------------------------
(* What goes wrong *)

\* A failed write of the snapshot has drawn its name already.
RequestFails ==
    /\ failures < MaxFailures /\ failures' = failures + 1
    /\ \/ /\ pc \in {"subscription", "project", "component", "sync", "validation"}
          /\ Return(MarkNotReady(st), TRUE)
          /\ UNCHANGED <<queued, ver, names>>
       \/ /\ pc = "snapshot"
          /\ NewSnapshot
          /\ Return(MarkNotReady([st EXCEPT !.snap = names']), TRUE)
          /\ UNCHANGED <<queued, ver>>
       \/ /\ pc = "patchStatus"
          /\ pc' = "patchConditions" /\ again' = TRUE
          /\ UNCHANGED <<queued, st, ver, names>>
       \/ pc = "patchConditions" /\ EndPass(TRUE) /\ UNCHANGED names
    /\ UNCHANGED <<world, results, status, restarts>>

\* A new process lists every generator.
Restart ==
    /\ restarts < MaxRestarts /\ restarts' = restarts + 1
    /\ EndPass(TRUE)
    /\ UNCHANGED <<world, results, status, names, failures>>

-----------------------------------------------------------------------------
(* What others do *)

\* Mutant: only the first version is news.
FirstVersion(old, new) == old = 0 /\ new # 0

\* The predicate on the subscription's updates.
VersionChanged(old, new) == new # 0 /\ old # new

\* replication-controller applies versions, higher or lower, and is ready or not.
UpdateSubscription(v, r) ==
    /\ changes < MaxChanges /\ changes' = changes + 1
    /\ v # 0 \/ v = sub.applied
    /\ sub' = [applied |-> v, ready |-> r]
    /\ queued' = (queued \/ VersionChanged(sub.applied, v))
    /\ UNCHANGED <<project, results, status, pc, st, ver, again, names, failures, restarts>>

ProjectBecomesReady ==
    /\ project' = TRUE
    /\ UNCHANGED <<sub, changes, results, status, pass, names, failures, restarts>>

Environment ==
    \/ ProjectBecomesReady
    \/ \E v \in 0..MaxVersion, r \in BOOLEAN : UpdateSubscription(v, r)

Next == Reconcile \/ RequestFails \/ Restart \/ Environment

Spec == Init /\ [][Next]_vars

\* The worker runs while its queue is not empty, and the project becomes ready.
FairSpec == Spec /\ WF_vars(Reconcile) /\ WF_vars(ProjectBecomesReady)

-----------------------------------------------------------------------------
(* Safety *)

\* The objects of a version are complete when it is recorded as reconciled, and a
\* Validation has a Sync whose snapshot was written, whatever failed on the way
\* and however often it was tried.  A version that cannot be scheduled never gets one.
ReconciledIsComplete ==
    /\ status.last # 0 => status.last \in validations
    /\ \A v \in validations : syncs[v] \in snapshots
    /\ \A v \in Versions : syncs[v] # 0 => v \in Schedulable

\* The recorded version never goes back, although the subscription may.
NeverGoesBack == [][status'.last >= status.last]_vars

-----------------------------------------------------------------------------
(* Liveness *)

\* The version that is applied in the end is generated, if it can be scheduled, whatever
\* failed, whatever was applied before, and although updates during a pass or of readiness
\* alone may not wake the generator: as long as the subscription is ready whenever a pass
\* reads it.
GeneratesNewest ==
    [](pc = "subscription" => sub.ready) /\ <>[](sub.applied \in Schedulable)
      => <>[](status.last >= sub.applied)

-----------------------------------------------------------------------------
(* What comments of the code claim and the code does not do *)

\* productdeploymentgenerator_types.go:17: the interval "is used to requeue objects
\* for reconciliation in case the related subscription hasn't been finished yet":
\* a subscription that becomes ready later is reconciled.
WaitsForSubscription ==
    <>[](sub.ready /\ sub.applied \in Schedulable) => <>(status.last >= sub.applied)
=============================================================================
