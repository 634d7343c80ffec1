# A TLA+ verification of mpas-product-controller

This directory specifies the controllers of mpas-product-controller in TLA+,
checks them on small instances with TLC, and proves some of their properties
for every instance with TLAPS. `PROJECT.json` lists the components, the runs,
the mutants (a plausible bug for every property of a passing run), the source
lines of each definition, the findings, the hazards and the theorems.

## 1. The system

All controllers run in one process under controller-runtime. Each has a work
queue and one worker, keeps no state of its own between two passes and talks to
the others through objects on the API server only.

| Component | State | Operations | Talks to |
|---|---|---|---|
| ProductDeploymentGenerator controller (`controllers/productdeploymentgenerator_controller.go`) | the generator's status: last reconciled version, snapshot name and digest, conditions | on a new version of the subscription: read the component, build the ProductDeployment, write it into a snapshot, create a Sync and a Validation | replication-controller (subscription), git-controller (Sync), Validation |
| Validation controller (`validation_controller.go`, `pkg/validators`) | GitRepository reference, last validated digest and its outcome, conditions | track the configuration of the pull request, fetch, validate, post a commit check, clean up after the merge | source-controller, the Git provider |
| ProductDeployment controller (`productdeployment_controller.go`) | observed generation, active pipelines, conditions | write the ComponentVersion, render the values into a config map, collect the old ones, create or update the pipelines | Flux (spec), the project's Git repository (values), pipelines |
| Pipeline controller (`productdeploymentpipeline_controller.go`) | snapshot reference, observed generation, conditions | create Localization and Configuration, record the snapshot they produce | ocm-controller, the scheduler |
| Pipeline scheduler (`productdeploymentpipeline_scheduler.go`, `select_target.go`, `pkg/deployers`) | selected target, Deployed condition, in the same status | wait for the snapshot, select a target, create the FluxDeployer | targets, ocm-controller |
| Target controller (`target_controller.go`) | conditions, observed generation | create the target's namespace and a service account with the selected secrets | Kubernetes |
| CUE helpers (`internal/cue`) | none | parse, merge, validate, remove private fields | generator, product, validation |
| OCM client, artifact download, wiring, CRDs | none | input and output | registries |

What is hard about it:

- **Interleaving.** The specs, the values in Git, the pull request, the snapshots
  and the targets change between two requests of a pass. Two controllers work on
  one pipeline, each on a copy of its status.
- **Partial failure and crashes.** A pass makes up to a dozen requests. It may
  fail or the process may stop at each; the next pass must notice what is left
  to do from what it finds on the server. The final update of the status is two
  patches, and each may fail without the other.
- **Wake-ups.** Some passes end without a requeue and rely on an event to come.
- **Freshness.** A condition, a name or a digest is used after what it was said
  of has changed.

`hazards` in `PROJECT.json` gives each one's line and the properties that cover
it, or why none does.

## 2. Modules

| Module | Models |
|---|---|
| `ConfigRollout` | abstract: values are published, adopted by pipelines and retired; the last one is never retired, and what is adopted is published |
| `ProductDeployment` | one ProductDeployment and the objects it owns; implements `ConfigRollout` |
| `SelectTarget` | the selection of a target, as operators |
| `Pipeline` | one pipeline with its two controllers |
| `Validation` | one Validation with its pull request |
| `Generator` | one generator with its subscription |
| `Target` | one target |
| `PrivateFields` | the loop that deletes private CUE fields from the slice it ranges over |
| `RemovedFields` | what that loop does to the fields of one struct, in closed form, as operators |
| `Product` | composition: `ProductDeployment` with the two controllers of `Pipeline`, in one process |
| `ConfigFile` | the CUE helpers, and what generator, people and ProductDeployment make of `config.cue` over the versions of a product |
| `MC*` | the instances that TLC checks |
| `*_proofs` | theorems, with proofs |

### Conventions of all controller modules

`pc` is the request a worker makes next: one action is one request together with
the code up to the next one. What a pass has in memory is in `obj`, `mem` or
`st`; `status` is the status on the API server. An early return is the operator
`Return` (or `Fail`), which leads to the deferred update of the status:
`PatchStatus`, then `PatchConditions`. `RequestFails` makes the request that is
next fail; `Restart` stops the process at any point and forgets what was in
memory. `Environment` is what users and other controllers do.

Of the libraries the modules assume:

- *Conditions.* ProgressiveStatus sets Reconciling; MarkReady and MarkNotReady
  set Ready and delete Reconciling; an object is ready if Ready is true and it is
  not reconciling (and not stalled). UpdateStatus records the generation that was
  read as observed if the object is ready.
- *Patch helper.* It sends the fields of the status that changed as one merge
  patch, and merges the conditions in another request, which is refused if a
  condition was changed on both sides to different values. Both are attempted.
  The modules send the status first; `Target` sends them in any order.
- *Reads* return the current object. CreateOrUpdate is one step.
- *Queue.* An error or a requeue brings the object back, an event that a
  controller watches does as well, and a new process queues every object. The
  periodic resync of the caches, every ten hours, is left out; the predicates of
  the generator's controller drop it anyway.
- *Panics* are not recovered in this version of controller-runtime: the process
  stops and a new one starts.

### ProductDeployment

`product` is the spec with its generation, `config` the values file in Git,
`cv`, `maps` and `pipes` the objects the controller owns. A config map is named
after the hash of its values, and so it is identified with them; a pipeline's
references carry the product's version. `Begin`,
`CreateOrUpdateComponentVersion`, `RenderValues`, `GenerateConfigMap`,
`DeleteOldMap`, `EndCollection`, `ListPipelines`, `CreateOrUpdatePipeline`,
`Finish`, `PatchStatus` and `PatchConditions` follow `reconcile` from top to
bottom. The deletions and the pipelines come in any order, as a list's order
carries no meaning. `updated` is `configUpdated`.

### Pipeline

The reconciler goes through `localize` and `configure`, the scheduler through
`check`, `select`, `find` and `deploy`. Each holds a `mem` of the spec and the
status as read (`base`) and as edited (`st`); `Changed` and `Conflicting` are the
merge patch and the three-way merge of conditions. A snapshot is `absent`,
`named` (its name is in the owner's status), `ready`, or `shared`: ready, and with
another number of owners than one, which anyone can change (`ChangeOwners`). A
target has a type and `access`, which is optional in its spec and may not parse:
`FindTarget` and `CreateFluxDeployer` have every error return of `Deploy`, those that
come again in each pass until somebody changes the target or the owners included.
`found` is the provider
of the snapshot after the Localization. `Panic` stands for the two nil
dereferences of the reconciler.

### Validation

`commits` is the configuration in each commit of the pull request; `checks` are
the commits that carry the success status. `LookUp` to `TrackGitRepository` are
`shouldRun`; `FetchAndValidate`, `ReadHead` and `PostCheck` are the rest of
`Reconcile` and `PassValidation`, whose two requests to the Git provider are
steps of their own. The GitHub and the Gitea validator make the same requests.

### Generator

`sub` is what the generator reads of the subscription. `CreateProductDeployment`
stands for reading the component and building the product, which either works,
or finds no component (no version was applied yet), or finds that a pipeline
names no target role (`errUnschedulable`). `names` counts the random snapshot
names drawn, which never repeat. `VersionChanged` is the predicate on updates of
the subscription.

### Target

`due` tells a pass that comes at once from one that comes after the interval:
`EndPass` and `Successful` show why the interval matters, for `setStatus`
receives the error as it was when the function was deferred, which is nil.

### PrivateFields

The `range` reads from the array as it was counted at first; `Remove` is
`append((*values)[:i], (*values)[i+1:]...)`, which shifts that array and shortens
the slice. `Visit` panics when it would slice behind the slice's end. `visits` counts
how often the loop comes to a field: each time it goes over the field's own fields, if it
is a struct.

`RemovedFields` is the outcome in closed form. Of private neighbours every second one
stays, for a deletion moves the next field to where the loop has been (`Row`, `Removed`).
Behind the end of the slice the deletions leave copies of the last field, to which the
loop comes again: it goes over that one once more, or panics if it is private
(`PanicsOn`, `Visits`). `OutcomeOfLoop` says that the two agree.

### Product

`D` is an instance of `ProductDeployment` and `P` one of `Pipeline`; the variables
of the latter that would have the same name have a `p` in front. The actions are
those of the two modules. `Product` defines where they meet: `WritePipeline` gives
the pipeline its spec and puts it into the queues of both controllers (`For` in
their `SetupWithManager`), unless `Equals` finds nothing to change; `Reported` is
the Ready condition that the product reads; `Restart` stops all three
controllers. Where `ProductDeployment` let a pipeline report anything
(`PipelineReports`), the pipeline's own controllers now do. The targets stay, as
`Pipeline` is there for changing ones, and every snapshot has one owner. Any set of
targets may be there at the start, also none that can be deployed into.

### ConfigFile

A CUE file is a function from paths to fields, and a field the set of values it
allows with its default: this is as much of CUE's lattice as the helpers tell
apart. `UnifyFiles`, `Validate`, `Vet`, `Eval`, `EvalWithoutPrivateFields`,
`FieldsDelta`, `MakeValues` and `Merge` follow `internal/cue/cue.go`.
`fieldsDelta` calls itself with the value it has reached and with the path from
the root, and looks the one up in the other. `Place` is where that leads for the
struct at a path: with every level the whole path is appended once more, so that
nothing is there from the second level on. `FieldsDelta` says in closed form
what the recursion returns. `Unified` is the schema of several files, unified from the
first to the last. A contradiction has no fields below it, and people edit only in
structs that are there.
`EvalWithoutPrivateFields` removes what the loop removes and not what it is meant to:
`LeftAfter` is what is left of a struct that the loop has gone over a number of times,
`Rounds` is that number, which for a struct at the end may be more than one, and
`Left` the outcome. A version of which it panics is never generated.
`Generated` is the part of `createProductDeployment` that makes the configuration,
`Publish` is `createOrUpdatedValuesConfigMap`. `main` is what is merged,
`fetched` the artifact of the branch and `applied` the schema of the
ProductDeployment in the cluster; the last two follow `main` independently. Two
schemas that refuse each other, a configuration that is refused or values that are
not concrete end the pass with an error, so that the action is not enabled.

What the operators show of the code, besides the properties: a field that is missing
in a struct that is there is found by `fieldsDelta` and not filled in by
`makeValues`; fields at the third level are never found; an optional field without
default becomes a regular one that is never concrete, and the version that brings
it is refused until people set it; a private field that was left in `config.cue` keeps
its attribute until the next merge, and then stays as a public one; and `fieldsDelta`
skips private fields, so that what completes the values in the ProductDeployment lacks
them, although `testdata/schema.cue:20` calls them part of the final values.

## 3. What is checked

### Runs that pass

| Run | Properties | Bounds | States |
|---|---|---|---|
| `ProductDeployment` | `TypeOK` `ObservedMeansRolledOut` `PublishedAlone` `ImplementsRollout` `Converges` `ConfigReachesPipelines` | two pipelines, two versions, two values and an unusable file; 2 generations, 2 commits, 1 fault | 495 000 |
| `Pipeline` | `TypeOK` `TornStatusIsRetried` `DeployedIsReal` `StagesInOrder` `SnapshotNeverGoesBack` `GetsDeployed` | a Localization first, then perhaps with a Configuration that builds on it, or neither of the two; no target, or one in mpas-system, with access or without; 2 generations, 1 fault | 948 000 |
| `Validation` | `TypeOK` `ReadyHasGitRepository` `CheckedAfterValid` `ReadyIsPosted` `OpenIsTracked` `HeadGetsChecked` `ReadyIsCleanedUp` | 3 commits of three configurations, one not valid; 2 failures, 1 restart | 502 000 |
| `Generator` | `TypeOK` `ReconciledIsComplete` `NeverGoesBack` `GeneratesNewest` | 3 versions, the second not schedulable; 2 failures, 1 restart, 3 changes of the subscription | 625 000 |
| `Target` | `TypeOK` `SettledIsProvisioned` `FollowsSecrets` | seven specs over two namespaces; 2 generations, 1 change of secrets, 1 fault | 302 000 |
| `PrivateFields` | `PublicKept` `SparseIsClean` `OutcomeOfLoop` | every file of up to 8 fields | 3 800 |
| `Product` | `SettledIsConfigured` `DeletedValuesAreReplaced` `ImplementsProductDeployment` `StepsOfPipeline` `ValuesAreDeployed` | one pipeline, configured and not localized, two versions, two values and an unusable file, one target; 2 of: a commit (at most 2), an upgrade (1), a failed request or a stop (1 for each module) | 781 000 |
| `ConfigFile` | `TypeOK` `PrivateStaysOut` `MergeAddsMissing` `ReviewedIsPublished` `UpgradeKeepsSeen` `PublishedInTheEnd` | 15 products of up to two versions, with one schema or two, up to three levels, private, optional, narrowed and required fields, private neighbours and private fields at the end; 2 edits | 69 000 |

Why these bounds are enough to be interesting: two generations allow the spec to
change during a pass and between two passes; two values allow going forth and
back; one fault is enough to tear a pass apart at each of its requests, and a
second one (`Validation`, `Generator`) to fail while recovering. `MaxGen`,
`MaxEdits`, `MaxCommits`, `MaxVersion`, `MaxChanges` and `MaxFaults` (or
`MaxFailures` and `MaxRestarts`) and `MaxEvents` are the only bounds; they
stand in the guards of the actions they bound. A fault, a restart or a change
that the bound forbids only shortens a behaviour, so that safety is checked for
every behaviour with no more of them.

`Product` starts with the one version and the one value (`OrderedSpec`), as the
others only have other names. `MaxEvents` bounds commits, upgrades, failures and
stops together: any two of them, in any order and at any request of the three
controllers, make every pair that the single modules cannot have.

`Pipeline` starts with a Localization (`LocalizedFirst`), so that the snapshot that the
status refers to changes when the Configuration comes. Every stage of both controllers is
reached; a Configuration without a Localization is what `Product` has, and its runs
change the values, and with them the Configuration, as well. The proofs of the
invariants have any specs.

Deadlock is checked everywhere but in three places. `ConfigFile` stops when
all edits are made and everything has arrived. A target without an interval
is not requeued, and so `Target` really stops; the loop of `PrivateFields` ends.

What the properties say, beyond types:

- `ObservedMeansRolledOut`: the product's observed generation never runs ahead of
  what exists, although the spec changes while a pass is under way.
- `PublishedAlone`: when deletions fail, a later pass still leaves one map.
- `ImplementsRollout`: no order of crashes, edits and passes deletes the map that
  a pipeline is about to adopt, or the last one.
- `Converges`: whatever failed, a product with usable values is rolled out and
  stays ready.
- `ConfigReachesPipelines`: as long as nothing fails and no pipeline is dropped,
  the pipelines end up with the values in Git. `ProductDeploymentSkipped` shows
  why a failure has to be excluded.
- `TornStatusIsRetried`, `DeployedIsReal`, `SnapshotNeverGoesBack`: the two
  controllers of a pipeline overwrite parts of one status with stale copies, and
  what it says stays true or is about to be repaired.
- `StagesInOrder`: the scheduler never deploys what is not ready.
- `GetsDeployed`: whatever failed and whatever was missing before, a pipeline is ready
  and deployed in the end once its role has one target that stays and has usable access,
  and its snapshots have one owner each; unless the process panics, which two of its spec
  changes make it do. Without usable access, or with a snapshot of several owners,
  `Deploy` fails in every pass, and nothing is promised.
- `ReadyHasGitRepository`: the pointer that a ready Validation follows is set,
  even if one of the two patches of a pass was lost.
- `CheckedAfterValid`, `ReadyIsPosted`, `OpenIsTracked`: no check without a valid
  configuration at or before that commit, no readiness without a check, no open
  pull request without its GitRepository.
- `HeadGetsChecked`: the last commit of an open pull request is checked, although
  others arrive during a validation. It holds without failures and restarts and
  for commits with different configurations only: a commit that brings back the
  configuration validated last has no new digest and is never checked, and after
  a restart between creating the GitRepository and saving its reference no event
  may be left to wake the Validation.
- `ReadyIsCleanedUp`: without failures, a ready Validation removes its
  GitRepository after the merge. One that is not ready never does.
- `ReconciledIsComplete`, `NeverGoesBack`: retries draw new
  snapshots while the Sync keeps its first, the subscription moves back and
  forth, and the record is still complete and monotone, and no version that cannot be
  scheduled has a Sync.
- `GeneratesNewest`: the predicate drops updates and the subscription changes
  during passes, and still the version applied in the end is generated if it can be
  scheduled, also after none or after one that cannot. The one premise is that a pass
  finds the subscription ready whenever it reads it; `GeneratorWaits` shows why.
- `SettledIsProvisioned`: a target is not left alone and ready before it has what
  it asks for. It does not forbid that a target says ready for the time until its pass is
  repeated.
- `FollowsSecrets`: secrets are not watched and change between being listed and
  being used, and the account of a target with an interval follows them.
- `PublicKept`, `SparseIsClean`: what the deleting loop does get right.
- `OutcomeOfLoop`: what it does to any file, right or not: what stays, what it goes
  over, and when it panics, by the closed form that `ConfigFile` uses.
- `SettledIsConfigured`: a product that writes a spec while the reconciler is
  in a pass with the one before, a crash of both, a failed patch: when the
  reconciler rests, the Configuration has the values and rules of the pipeline that
  the product sees.
- `DeletedValuesAreReplaced`: old config maps are deleted before any pipeline is
  pointed at the new one; a Configuration whose values are gone is always about to
  be changed, unless a request of the product fails.
- `ImplementsProductDeployment`, `StepsOfPipeline`: each controller does to the
  other only what the other's module allows for, so that what is checked and proved
  of the two holds of the whole.
- `ValuesAreDeployed`: from the commit in Git to the FluxDeployer, while requests
  of the pipeline's controllers may fail, if the version that stays has one target with
  usable access.
- `PrivateStaysOut`: fields become private or are private from the start, and
  configurations meet schemas of other versions. What is private in every version that has
  it, in schemas whose private fields are apart (`Apart`), is neither in the proposed nor
  in the merged `config.cue`. Where private fields are neighbours, every field of
  that version may be exposed (`Exposed`), and nothing is claimed of them.
- `MergeAddsMissing`: `fieldsDelta`, which looks for paths where they are not, and
  `makeValues`, which goes down only through what is missing, together add exactly
  what a short account of the two says (`Added`).
- `ReviewedIsPublished`: merging a second time, in the ProductDeployment, changes
  nothing of a configuration as it was generated.
- `UpgradeKeepsSeen`: an upgrade keeps every value of the artifact that was read,
  whether people have set it or an earlier version. An edit that was merged and not yet
  fetched when the upgrade is generated is not among them, and the pull request
  reverts it.
- `PublishedInTheEnd`: configuration and schema arrive in any order, values of mixed
  versions are published for a while, and in the end those of the merged version.

### Runs that find a disagreement

Each of these runs states what a comment of the code says, and TLC shows a
behaviour of the code that contradicts it. `findings` quotes the line.

| Run | What happens |
|---|---|
| `ProductDeploymentSkipped` | a pass creates the config map and fails; the next one skips pipelines that have the old values |
| `ValidationDigest` | a digest whose download failed counts as validated and is never fetched again |
| `GeneratorWaits` | a subscription that becomes ready later is not noticed |
| `ConfigFileEdits` | the first version's schema was evaluated in place and refuses every value but the defaults |

Other behaviours of the code that the modules contain, and of which no property
is stated: the scheduler ends with `UpdateStatus` and may record a generation as
observed that the reconciler has not seen (`Observed`); `setStatus` of a target
without an interval takes a failure for a success (`Successful`), so that such a
target may say ready while its pass is repeated, and `SettledIsProvisioned` speaks
of targets whose pass is not; of two private fields that are neighbours one is left, and
a private field at the end may make the loop panic, although `cue.go:103` says that any
private fields are removed (`OutcomeOfLoop`). More are in the notes of
`hazards`: an upgrade with unchanged values does
not reach existing pipelines; Localizations and FluxDeployers are never updated;
a pipeline with neither Localization nor Configuration panics.

### Fairness

`FairSpec` always has weak fairness of the whole pass (`Reconcile`, or
`Reconciler` and `Scheduler`): a worker runs while its queue is not empty, and
each of its requests returns an answer or an error. That a pass comes back is not
assumed; it is the `queued` or `due` of the model, except in `ProductDeployment`,
where every way out of a pass requeues the object. Of other controllers, weak
fairness is assumed only where a controller waits for them: ocm-controller
produces snapshots, source-controller polls, a project becomes ready. `Product`
has weak fairness for each of the three controllers, and `ConfigFile` for the
product's passes and for what brings the merged files to it. Nothing is
assumed of people, and failures are never forced to happen or to stop; only
their number is bounded.

## 4. What is proved

The proofs hold for every value of the constants that satisfies
`ConstantsAssumption` of the module: any sets of names, versions, values, targets
and specs, and any bounds.

**`ProductDeployment_proofs`.** `TypeCorrect`; `NoLeftovers` (`PublishedAlone`);
`RefinesRollout` (`ImplementsRollout`); `ObservedIsHonest`
(`ObservedMeansRolledOut`). `PublishedAlone` is not inductive: `MapsInv` adds that
the map of a pass exists from its creation on and is not among those to collect,
and that while no deletion has failed the maps are exactly that one and those to
collect. The refinement follows: a deletion leaves at least `cfgName`, and a
pipeline adopts `cfgName`, which exists. `RolloutInv` adds, for the observed
generation, that the spec in memory is the current one whenever its generation
is, that pipelines already gone over exist, and that a status that is ready in
memory belongs to a pass that has gone over all of them.

**`Pipeline_proofs`.** `TypeCorrect`; `DeploymentIsReal` (`DeployedIsReal`);
`StagesFollow` (`StagesInOrder`); `TornIsRetried` (`TornStatusIsRetried`);
`SnapshotKept` (`SnapshotNeverGoesBack`). The type invariant needs
`SchedulerHolds`: the scheduler works with a snapshot and a target. `SafetyInv`
relates each worker's copy to the server: what it has read was true when it was
read and cannot have become false, because snapshots are never lost and a
FluxDeployer is never deleted, and the reconciler never edits what the scheduler
writes, or the other way round. Initial states and steps have lemmas of their own
(`TypeInit`, `TypeStep`, `SafetyInit`, `SafetyStep`, `SnapshotStep`), which `Product_proofs` uses.

**`Generator_proofs`.** `TypeCorrect`; `Complete` (`ReconciledIsComplete`);
`Monotone` (`NeverGoesBack`). `TypeOK` is not
inductive: the version of a pass that writes objects must be schedulable, and the
snapshot it makes a Sync of written (`Holds`). `Inv` adds that this version is
newer than the recorded one (`PassInv`), that every Sync has a snapshot that was
written and every Validation a Sync (`ObjectsInv`), and that the status in
memory is not behind the one on the server (`RecordInv`).

**`PrivateFields_proofs`.** `TypeCorrect`; `NothingLost` (`PublicKept`);
`SparseRemoved` (`SparseIsClean`), for files of any length. The invariant `Ahead`
says how far the part of the array not yet visited has been shifted: by the
number of deletions, with the last field repeated behind the slice's end. `ClosedForm`
(`OutcomeOfLoop`) rests on `OnTheWay`: the deletions so far are those of `Removed` before
the field that the loop comes to next, the array is what these leave, and the visits are
those of `Visits` up to there. `EverySecond` is the step from one field to the next: a
private field goes exactly if the one before it has not.

**`Validation_proofs`.** `TypeCorrect`; `ReadyHasReference`
(`ReadyHasGitRepository`); `OpenStaysTracked` (`OpenIsTracked`); `ReadyWasPosted`
(`ReadyIsPosted`); `ChecksFollowValid` (`CheckedAfterValid`). None is inductive
alone: a status in memory that is ready was ready on the server or belongs to a
pass that has posted its check, a pass that posts has validated a commit no later
than the head it read, and a pass that deletes has seen the pull request merged or
closed, which it stays.

**`Target_proofs`.** `TypeCorrect`; `SettledWasProvisioned`
(`SettledIsProvisioned`). The invariant says for every stage what the pass has
provided so far for the spec it has read, that a change of the target during the
pass leaves it due at once, and that a pass which ends well has nothing left to
send.

**`Product_proofs`.** `RefinesProductDeployment` (`ImplementsProductDeployment`)
maps each step: the product's own to itself, those of the pipeline's controllers to
`PipelineReports` or a stutter, a stop to `Restart` or a stutter.
`PipelineIsExpected` (`StepsOfPipeline`) does the same on the other side, and needs
that a pass that writes has a version and values that exist (`Versioned`).
`RestIsConfigured` (`SettledIsConfigured`) rests on `Current`: the reconciler's copy
is the current spec and what it has configured is that of its copy, or it is
queued, or its pass ends in an error and will queue it; and on `Agreed`: the two
modules have the same pipeline. The wake-up of `WritePipeline`
is what makes this inductive.

`DeletedIsReplaced` (`DeletedValuesAreReplaced`) needs two more invariants.
`Replaced`: as long as no request has failed, the values of the pipeline are there, or a
pass of the product is between deleting them and writing the pipeline, has changed
the config map and still has the pipeline to do. `Created`: of a pipeline
that is not there yet there is no Configuration, and one that is there has been
written by the product. With `Current` they give the property: a
reconciler at rest has configured what the pipeline says, and if that is
deleted the product is about to change it.

The rest of the module brings what is proved of the parts to the whole. `DP` and `PP`
are instances of `ProductDeployment_proofs` and `Pipeline_proofs` with the
variables of `Product`. `ProductIsSafe`: the composition satisfies the specification of
the product, and so its type invariant, `PublishedAlone`, `ObservedMeansRolledOut`
and the refinement of `ConfigRollout`. `PipelineIsSafe`: once the pipeline exists,
`TypeOK`, `DeployedIsReal`, `StagesInOrder` and `TornStatusIsRetried` hold of it.
This cannot be taken from `THEOREM Spec => ...` of `Pipeline`, as a pipeline
begins in the middle of a behaviour; its inductive invariant holds from that step
(`PipelineBegins`) and is kept by each later one (`StepIsOfPipeline`,
`PipelineInvStep`). `SnapshotStays`: a recorded snapshot of the Configuration is
never replaced, which `SnapshotNeverGoesBack` allows only for specs without
rules. `NeverPanics`: the two nil dereferences of the reconciler
are unreachable under what `Product` assumes of the versions, so that it is no
omission that `ReconcilePipeline` leaves `Panic` out.

`Product` assumes what its two parts assume, one pipeline, which every version has,
and that no version is without rules and all or none of them have a Localization.
The last is what its specs are meant to show, not what the code enforces: where
versions differ in this, the reconciler may panic (`Panic` of `Pipeline`).

**`ConfigFile_proofs`.** `TypeCorrect`; `NothingPrivate` (`PrivateStaysOut`);
`AddsMissing` (`MergeAddsMissing`); `ReviewedStays` (`ReviewedIsPublished`);
`SeenIsKept` (`UpgradeKeepsSeen`), for schemas of any depth and number, any
values and any edits. Lemmas say what the helpers return: `Delta` what
`FieldsDelta` finds, `ValuesAreAdded` and `Merged` what `Merge` adds,
`UnifiedFile`, `EvalOfFile`, `PublicOfFile`, `SetField` and `UnsetField`
that files stay files. Some go by induction over a number,
the length of a path (`PlaceOfPath`, `RoundsOverStruct`), the number of schemas
(`UnifiedFiles`) or of rounds (`LeftOfStruct`); this is
done with a counterexample of least size (`Least`), so that no theorem with an
operator as its parameter is needed. The inductive `Inv` says that every
configuration, proposed, merged or fetched, is `Plain` (no field has a default
left or is optional) and has no path of `Secret`, and that a proposal which nobody has
edited is complete with respect to its schema and keeps what was read when it was made. `Plain` is what makes evaluating
and merging a second time change nothing.

`NothingPrivate` does not take the removal for what it is meant to be.
`RemovedIsPrivate` says of the closed form that only private fields are removed, and all
of them where they are apart; `RoundsOverStruct` that every struct in which something
has to be removed is gone over at least once, if the fields behind private ones have
nothing private below them, and `EvaluatedIsNotSecret` puts the two together: of a schema
that is `Apart` no private path is left. `ConstantsAssumption` has finitely many field
names, which are numbers in the order of the file.

Only model-checked: the liveness properties (`Converges`,
`ConfigReachesPipelines`, `GetsDeployed`, `HeadGetsChecked`, `ReadyIsCleanedUp`,
`GeneratesNewest`, `FollowsSecrets`, `PublishedInTheEnd`, `ValuesAreDeployed`), for
which the prover has no rules for ENABLED; and the disagreements, which are
single behaviours.

## 5. What is not modelled

- The deletion of the top-level objects and the garbage collection of what they
  own: owner references and Kubernetes do it, the controllers return when they
  find a deletion timestamp.
- The text of README files and instructions, comments, manifests, and the CUE
  evaluator beyond sets of values and defaults: references, expressions,
  definitions and lists.
- Several products, generators or targets at once. They share no object except the
  namespaces and service accounts of targets, which nothing in the code keeps apart.
- In `Product`, targets that change and snapshots with several owners.
- Stale reads from the informer cache, and the resync every ten hours. The resync would not
  end the waiting in `GeneratorWaits`: it comes as an update, and both predicates of that
  controller, `GenerationChangedPredicate` on the generator and
  `ComponentSubscriptionVersionChangedPredicate` on the subscription, drop updates that
  change neither generation nor version. Only another version, a change of the
  generator's spec or a new process ends it.
- The OCM client, downloads, URLs and tokens, flags and leader election: input and
  output, without state between two passes. Their failures are `RequestFails`.
- Generated code (deep copies, CRDs, RBAC), and fakes for tests.

## 6. Order of work and extensions

`ConfigRollout` and `ProductDeployment`; `SelectTarget` and `Pipeline`;
`Validation`; `Generator`; `Target`; `PrivateFields`, each with its proofs; then
`ConfigFile` and `Product`.

What would come next: reads of `ProductDeployment` from a cache that lags behind;
several targets in one namespace, once the code says what is meant to happen; a
product whose pipelines are localized or have changing targets in `Product`, for
which the state space is too large for one run today.
