# A verification of the SiteConfig operator

The SiteConfig operator installs OpenShift clusters from `ClusterInstance` (CI) resources: it
renders templates into Kubernetes objects, applies them in sync-waves, deletes them again, and
can reinstall a cluster while keeping its identity data. This directory holds TLA+ modules that
model the operator's control loops, the TLC configurations that check them on small instances,
and proofs that TLAPS checks. `PROJECT.json` maps each definition to the lines it models and
lists runs, mutants, findings, hazards and theorems.

## The system

| Part | State | Operations | What makes it correct |
|---|---|---|---|
| ClusterInstance reconciler (`clusterinstance_controller.go`) | `Status.ObservedGeneration`, `ManifestsRendered`, conditions, finalizer, annotations | finalize, handle a Velero restore, validate, render, prune, suppress, dry-run, apply, observe | what it applied can be found and deleted again; an observed generation was applied; an edit takes effect |
| DeletionHandler (`deletion/`) | none between passes; writes `ManifestsRendered` at the end of one | `DeleteRenderedObjects`, `DeleteObjects`, `DeleteObject` | waves go in descending order; completion means gone; foreign objects are left alone |
| Pausing (`clusterinstance/pause.go`) | paused annotation, `Status.Paused` | `ApplyPause`; cleared by `Reconcile` | an object that does not go ends in a pause and not in a silent wait |
| ReinstallHandler (`reinstall/reinstall.go`, `helper.go`) | `Status.Reinstall` | `ProcessRequest` and its tasks | the old installation is gone first, the request ends |
| Preservation (`preservation/`) | backups kept as Secrets | `Backup`, `Restore`, `Cleanup` | labelled data has its old content afterwards |
| Reimport (`reinstall/reimport.go`) | the condition `ReinstallClusterReimported` | `EnsureClusterIsReimported`: wait, trigger, wait again, report | completion means the new cluster; an installed cluster comes to be reimported |
| ClusterDeployment reconciler (`clusterdeployment_reconciler.go`) | `Provisioned` and the deployment conditions of the CI | maps Hive's conditions to the CI | the report is true, and comes to stay although two reconcilers write one list |
| Webhook (`api/v1alpha1`) | none | which specs and which changes of them are admitted | no sequence of admitted updates changes what must not change |
| Template engine, rendered objects | none | render, sync-waves, prune and suppress lists | *an input of the models* |
| Configuration store and monitor, start-up (`configuration/`, `configuration_monitor.go`, `cmd/main.go`) | `allowReinstalls`, `maxConcurrentReconciles` | `UpdateConfiguration`, re-creation of the ConfigMap | the store comes to follow the ConfigMap |

The parts share one thing: the CI on the API server (and, for reinstalls, the configuration
store). The ClusterInstance reconciler handles one CI at a time (the work queue sees to that), calls the reinstall and deletion handlers
synchronously, and learns of its own progress only by requeueing itself: most of its writes are
status or annotation patches that the event predicates filter. Everything else happens
concurrently: the ClusterDeployment reconciler patches the same status from its own copy, the
webhook decides on edits by a status that lags behind, the user edits, deletes and un-pauses, other controllers delete objects and
release their finalizers at any time, the clock runs, API calls fail, and the process crashes.

What is hard here, and where each hazard bites, is the list `hazards` of `PROJECT.json`. The
main ones: multi-step protocols cut off by a crash between two patches (apply and list; the two
Velero patches; finalizing and reporting a reinstallation; annotation and status of a pause);
copies of the CI replaced by patch responses in the middle of a reconcile; wake-ups that exist
only as an explicit requeue; deadlines that race with the object's disappearance; and state an
unsuccessful attempt leaves for the next one (failed conditions, old backups).

## Modules

**`Deletion`** models `DeletionHandler` with one step per API call. The server's side is the
life cycle of every object (`absent`, `live`, `terminating`, `overdue`), the list
(`manifests`), the CI's `deletionTimestamp`, `finalizer` and pause. The operator's side is what
a pass has in memory: its copy of the list (`mem`), the objects of the current wave still to
handle (`todo`) and of the later waves (`pending`), the entries to remove (`removed`), the errors.
`BeginFinalize`, `BeginPrune` and `BeginReinstall` are the three callers; `SkipObject`,
`DropObject`, `VerifyObject`/`InitiateDeletion` (the Get and the Delete call), `AwaitObject`,
`TimeOut` and `ObjectError` are the ways one object is handled; `EndWave`, `PatchManifests`
(the deferred patch) and `HandleResult` end the pass. `Crash` forgets the memory and keeps the
server. Objects of a wave are handled in any order: the code sorts them by kind, which is neither
total nor stable. Which objects the templates list for pruning is a constant (`PruneSets`), and
so is ownership: an owned-by label that changes between the Get and the Delete is not covered.

**`ClusterInstanceReconciler`** models `Reconcile` for a CI without a reinstall request. The
copy of the CI the operator works on is explicit (`mem`: spec and generation) because the code
lets the response of every patch replace it. `plan` is the revision the templates were rendered
from. A revision renders, prunes and suppresses sets of objects given as constants. A deletion
pass is one step (`DeletionPass`), whose outcomes are those `Deletion` has: everything gone, an
overdue object, or some objects asked to go and some entries dropped. `queued` is the work queue:
it is set by events that pass the predicates of `SetupWithManager` and by results that requeue.
A behaviour starts in one of the `Scenarios`: with or without a finalizer of someone else, as a
new CI or one that Velero has restored with or without its status, with edits at any moment or
between reconciles only, with its own bound on faults and set of invalid revisions.

**`Reinstall`** models `ProcessRequest`, the preservation it drives and the rest of `Reconcile`
as one step (`Render`). Each pass runs the tasks from the first; a task that changes its
condition ends the pass (`Report`). The data is one resource with the user's preservation label
and one of the operator's own, each with a content, so that restored content can be compared with
the content when the request was taken up. Abstractions: condition messages are reduced to
reasons; `ClusterIdentityDataDetected` and `DataBackedup` are one condition; `DataUnavailable` is
part of `Completed`; the patch of a task's condition and the deferred patch of
`ReinstallRequestProcessed` are one step when the pass ends in a requeue (both only repeat), and
two steps at the end of a request, where the order matters; all rendered objects are one object.
Data that the deletion left behind by an earlier failed request is still removing is not promised
to survive (`ToPreserve`).

**`Teardown`** is what the deletion of a CI promises, over all passes, waits, errors and
restarts: owned objects go one by one and never come back, an entry leaves the list only when its
object is gone, and the finalizer is removed only after the user deleted the CI and nothing is
left. `Deletion` implements it (`Promise == INSTANCE Teardown WITH ...`, property
`ImplementsTeardown`): `there` is the set of owned objects that exist, `listed` the objects
with an entry in `ManifestsRendered`.

**`Provisioning`** has both reconcilers at work on one CI, each with its copy (`ciCopy`,
`cdCopy`), reading a cache that lags behind the API server (`CacheSync` is the informer; it also
delivers the events, by the predicates and by `mapClusterInstanceToCD`). A patch made with
`client.MergeFrom` replaces the whole list of conditions if it differs from the copy it was
computed from, and leaves it alone otherwise (`PatchConditions`). The ClusterDeployment goes
through the phases of an installation (`Install`, external). Only the template of the assisted
installer renders `holdInstallation`: whether the installer waits while it is set is a constant
(`WaitsOnHold`).
The user edits a held CI, and releases it, as far as `determineSpecChangePermission` allows.
The rest of a reconcile is reduced to validating, applying, reporting and observing.

**`Configuration`** has the ConfigMap, the store, the monitor and the start of the process.
`UpdateConfiguration` takes the keys in the order of a Go map and stops at the first bad one, so
any subset of the good ones may have been set. **`Reimport`** extends it: it begins where
`finalizeReinstallRequest` has recorded the request, has the rest of that reconcile (the patch
of `ReinstallRequestProcessed`, render, apply, report, observe), the reimport check at the head
of every later one, the report of the ClusterDeployment reconciler as one step, and the process
that crashes and fills its store again. External: the installer, the lease of the old cluster, one
import by the hub that may fail, the klusterlet. The ManagedCluster is there, or was deleted
with the rest (`reinstall/helper.go:47`). Timing assumption: the lease of the old cluster runs
out before the new installation is complete (minutes against the better part of an hour).

**`Admission`** has `ValidateCreate` and `ValidateUpdate` with all that they call, as predicates
named after the functions, and lets a user submit any spec of a small set, in any order, while
the status moves on as the reconcilers write it. The fields of a spec are reduced to classes: of a
node its host name, its hardware (fields a reinstall may change), its labels (fields that may
always change) and its role, which stands for everything else; of the cluster its type, for
every field that may not change, and whether it is well-formed. `Provisioned` becomes `Completed`
or `Failed` whatever the hold says. A spec is on hold (`OnHold`) while `holdInstallation` is set
and `Provisioned` is not `Completed`: the webhook then admits every valid edit, also during a
reinstall of a cluster whose hold was never released. An edit on hold that changes the request
itself is remembered (`unchecked`).

**`MCDeletion`, `MCReconciler`, `MCReinstall`, `MCReimport`, `MCAdmission`** and
**`MCProvisioning`** give the constants their values for TLC. The proofs are in modules
of their own: **`DeletionProofs`**, **`TeardownProofs`**, **`ReconcilerProofs`**,
**`ReinstallProofs`**, **`ProvisioningProofs`**, **`ReimportProofs`** and **`AdmissionProofs`**.

## Runs

| Run | Instance | Shows |
|---|---|---|
| `deletion_teardown` | two owned objects in two waves, a foreign one beside the upper; 1 fault | `NoOrphans`, `FinalizerGoesLast`, `CompletionMeansGone`, `WavesDescend`, `OthersUntouched`, `FinalizationEnds`, `ImplementsTeardown` |
| `reconciler_all` | 3 revisions; edits between reconciles with 2 faults, another finalizer with edits at any time and 1 fault, a restored CI with 1 fault | `Accounted`, `PrunedFirst`, `ObservedBetweenEdits`, `ObservedAfterApply`, `EditTakesEffect`, `DeletionEnds`, `RestoredNotRerendered`, `RestoreHandled` |
| `reinstall_safety` | 2 requests in every mode, 1 crash, 1 failing task | `CleanSlate`, `PreservedDataSurvives`, `BackupFirst` |
| `reinstall_live` | 2 requests that preserve the identity, 1 crash, 1 failing task, deletion calls too | `RequestEnds` |
| `provisioning_install` | a held or free CI, 2 edits, or 1 edit and 1 fault | `InstallsCurrentSpec`, `ProvisionedIsReal`, `ProvisionedFollows` |
| `reimport_config` | 2 writes of the ConfigMap (6 contents), 1 fault, 1 edit | `ReimportedIsReal`, `Reimports`, `ConfigurationFollows` |
| `admission_updates` | lists of up to 2 nodes out of 6, 4 lists of 3, all cluster types, 2 requests | `ControlPlaneFits`, `FrozenWhileActive`, `ImmutableKept`, `RequestsFresh` |

One run per module also checks its type invariant.
Five runs expect a violation; each shows that the code does not do what a comment or a document
of the repository says:

- `reconciler_midedit`: an edit that arrives during a reconcile can be marked observed without
  having been rendered. The generation recorded is that of a copy the patches have refreshed
  (`clusterinstance_controller.go:307`). Which edits are admitted at that time is up to the
  webhook: those of a CI with `holdInstallation`, and after provisioning the fields it leaves
  open. `InstallsCurrentSpec` shows that the hosts are not touched with the old spec, because
  releasing the hold is itself an edit.
- `reconciler_otherfinalizer`: with somebody else's finalizer on the CI, `Reconcile` renders
  again after it has removed its own (`:469`).
- `reinstall_unpaused`: a failed deletion is skipped once the pause is lifted, and the request
  completes over the old installation (`reinstall.go:336`).
- `provisioning_lost`: the ClusterDeployment reconciler writes back an old list of conditions,
  and `RenderedTemplatesApplied` of an observed generation is gone for good
  (`clusterdeployment_reconciler.go:105`). `ProvisionedFollows` shows why its own condition
  does not suffer the same: every change of the CI brings that reconciler back.
- `reimport_rerender`: a rendering that fails once after a finalised request is not repeated: the
  reimport check, which comes first, mistakes the old `Provisioned` for the new one and returns
  without a requeue (`reimport.go:193`).

`ObservedBetweenEdits` is `ObservedMeansApplied` where edits fall between reconciles, and
`reinstall_safety` checks `CleanSlate` and `PreservedDataSurvives` without failing deletion calls
and without a reused generation: the violation runs and the list below show that these
restrictions are needed, and the passing runs that nothing else is.

**Bounds.** Every fault (a failed call, a crash) is counted; one or two of them suffice to cut a
protocol between any two of its steps, and to do so again during the recovery. Two waves are
enough for an order, two revisions for an edit, a third for an object that comes back after it
was pruned; two requests for anything one leaves to the next. Users may delete or un-pause at any
time, without a bound. Two edits are enough for one that
overtakes the rendering of another, two writes of the ConfigMap for a bad one followed by a good
one; one import by the hub is allowed, so that it cannot fail for ever. `admission_updates` stops
where an edit on hold has changed the request (`NotUnchecked`); of what `TypeOK`, `ControlPlaneFits` and
`ImmutableKept` say beyond that there are the theorems. Deadlock
checking is off in all runs: a settled CI has nothing left to do.

**Fairness.** Weak fairness of the operator's own steps: controller-runtime hands over what the
work queue holds, and a reconcile that has begun goes on. Weak fairness of `DeadlinePasses`: the
clock runs. Nothing is assumed of users or of other controllers; where they may stay away, the
liveness properties have the pause as their alternative. In `Provisioning` and `Reimport` the
informer catches up, a stopped process is restarted, the grace period and the old lease end, an
import ends either way, and a klusterlet that was applied in full joins; the installer need not
make progress. A fault never has to happen.

**Mutants.** Every property of a passing run has a mutant: a variant of one mapped definition
(named `<definition>_<fault>`, marked "Fault:" above it) under which TLC finds the property
violated, for example a wave that is not waited for, or a requeue that is forgotten.

## Proofs

Every invariant, every action property and the refinement that the passing runs check on a small
instance is a theorem, proved for every value of the constants. The assumptions are the `ASSUME` of each model,
which TLC evaluates on every run: constants have their types, bounds are natural numbers, the
objects a revision renders, prunes and suppresses are disjoint. Each proof module has an inductive
invariant `IInv`, a conjunction of named parts, that `Init` establishes and every action
preserves; the comment at its head gives the idea. TLC checks `IInv` without error on the
instances of the runs that check these properties.

**`DeletionProofs`**: `NeverOrphans`, `FinalizerLast`, `CompletionSound`, `DescendingWaves`,
`ForeignUntouched`. `NoOrphans` is nearly inductive by itself: an entry is dropped only for an
object that is gone or foreign, and neither is ever undone while the operator does not create
objects (`GoneStays`). What a pass remembers has to be tied to it:

- `MemoryInv`: the copy of the list has the same entries as the list, and `removed` contains only
  objects that are gone. Without it the deferred patch could drop anything.
- `WaveInv`: the objects of `todo` share one wave and lie above `pending`; a target already
  handled is clear, or belongs to the current wave and then the pass is not clear. This is what
  orders the deletions, and what makes `completed` mean that all targets are gone.
- `CurInv`: the object between its Get and its Delete has passed the ownership and exclusion
  checks. It is all that `ForeignUntouched` needs.
- `CompletedInv` carries the result through the patch; `FinalizerInv` adds that a pass of the
  finalizer excludes nothing and has all owned objects among its targets, because `NoOrphans`
  held when it began.

**`TeardownProofs`**: `TeardownImplemented`, that `Deletion` implements `Teardown`. `IInv` is not
enough: the abstract `Release` wants the list empty, and `handleFinalizer` does not look at it
again after the pass. `EntryInv` follows the entries: the pass has the whole list for its
targets, each one it handled without waiting or error is to leave the list, and a patch that
succeeds empties it.

**`ReconcilerProofs`**: `ObjectsAccounted`, `PruningFirst`, `ObservedWasApplied`,
`ObservedMovesLast`, `RestoreKept`, for all scenarios. The copy of the CI may be older than the
CI and the rendering older than the copy (`CopyInv`, `PlanInv`), and equal to them if nobody
edits during a reconcile. The steps hand on what they made sure of: every object is listed before
it is applied and applied before the reconcile goes on (`ApplyInv`, `ListedInv`), pruned objects
are gone before the first is applied (`GoneInv`). `FinalizerInv` says that, without another
finalizer, the operator works only on a CI that has its own; `RestoredInv` that a restore which is
handled, or about to be, is observed already, so that a crash between the two patches renders
nothing. `ObservedInv` strengthens `ObservedMeansApplied` to the states in the middle of a
reconcile. The proof has a lemma per part, over lemmas on the shape of a step (`PassShape`,
`ReconcileShape`, `EnvironmentShape` and others). It also showed that `RestoredNotRerendered`
needs to exclude another finalizer, which no scenario of the run combines with a restore: the
reason is the one `reconciler_otherfinalizer` shows.

**`ReinstallProofs`**: `BacksUpFirst` without any hypothesis; `ReinstallsFromScratch` if no call
of a deletion pass fails (`~DeletionErrors`); `DataSurvives` if moreover no generation is used
twice (`~Reuse`). These are constants of the model, and both values can occur: the run
`reinstall_unpaused` and the list below show what happens otherwise. A task may rely on the
earlier tasks of its own pass, and across passes on the conditions only: `DeletedInv` (nothing is
restored before `Deleted` is `Completed`, which then stays true until the request is done) and
`BackupInv`. `KeptInv` is the heart of `DataSurvives`: at every moment of a request what it is to
preserve is untouched and still selected, or in the request's own backup, and in the backup
before its deletion begins; `FreshInv` keeps older backups out of it.

**`ProvisioningProofs`**: `ReportsAreReal`, and `CurrentSpecInstalled` for installers that wait on
hold, for any number of edits and faults. `RealInv`: a list of conditions that says `Completed`, in whichever copy and however
stale, was made after the installation ended, and that is final. `RenderInv`: a release of the
hold freezes the spec, so that whoever has read a spec without hold has read the last one until
the cluster is installed.

**`ReimportProofs`**: `ReimportReportsAreReal`, and that the store holds only values that parse
(part of `TypeCorrect`). The check of the ManagedCluster's health runs only after the
installation, unless it misread the old condition, and the old lease has run out by then
(`AssessInv`).

**`AdmissionProofs`**: `ControlPlaneAlwaysFits`, `Frozen`, `AlwaysFresh`, `ImmutableFieldsKept`, for
lists of nodes of any length. The webhook decides by a status that lags behind: `RequestInv` relates
the generations in the spec, in flight and in the status, and survives edits on hold as long as
they leave the request alone (`unchecked`). `Frozen` excludes a spec on hold; `ImmutableFieldsKept`
does too and includes that a released hold is never set again, so that what it says holds for
the rest of the cluster's life. It needs that a host name listed once is matched with itself. The proof uncovered two branches of a CASE in `determineSpecChangePermission` that
overlapped, in `Admission` and in `Provisioning`; both now follow the order of the code's early
returns.

**Only model-checked.** Liveness: `FinalizationEnds`, `EditTakesEffect`, `DeletionEnds`,
`RestoreHandled`, `RequestEnds`, `ProvisionedFollows`, `Reimports` and `ConfigurationFollows` rest
on fairness, hence on ENABLED, which the prover does not treat. The properties of the violation
runs are false of the code.

## Divergences without a run of their own

Met while modelling; the properties are stated so that they say what the code does guarantee.

- A reused generation (`Reuse`) makes `PreservedDataSurvives` fail: the webhook's check of used
  generations looks only at those that completed, and `createResource` keeps the old backup.
  Failing deletion calls (`DeletionErrors`) do too.
- Backups a failed request left behind fail the restoration of the next one after it has
  restored its own data (`preservation/helper.go:440`).
- A crash between the patch that finalises a request and the deferred one leaves
  `ReinstallRequestProcessed` in progress for good; the reimport then never runs (`Held`).
- A restart, or an edit, between the rendering of the new cluster and its first report lets the
  reimport check read the old cluster's conditions and report `Completed` (`misread`).
- `allowReinstalls` switched off skips the reimport check without a requeue; switching it on
  wakes nobody. A klusterlet manifest that is refused is logged, the reimport counts as initiated,
  and it is not tried again (`Held` names both).
- A key that is missing in the ConfigMap keeps its value while the operator runs, and is zero
  after a restart: `InSync` speaks of the keys that are there. An empty ConfigMap prevents a start.
- The ClusterDeployment reconciler drops a request whose read of the CI failed (`lost`).
- On hold, `spec.reinstall` is admitted unchecked (`unchecked`), although
  `clusterinstance_validation.go:898` says that a reinstall can only be requested after
  provisioning; a second request is admitted while `Provisioned` still speaks of the installation
  before the first.
- A cluster that was installed with `holdInstallation` still set (only the assisted installer waits
  for its release) is on hold again as soon as a reinstall takes `Provisioned` away from
  `Completed`: cluster type and roles may change then, although `clusterinstance_validation.go:787`
  says that the hold no longer has effect. With a second request, admitted while `Provisioned` is
  still that of the old installation, this happens under an active reinstall, contrary to the test
  "should block changes during reinstall InProgress regardless of HoldInstallation"
  (`clusterinstance_webhook_test.go:596`), which has `Provisioned` at `Completed`. `FrozenWhileActive`
  and `ImmutableKept` exclude `OnHold` for this reason. For the same installers
  `InstallsCurrentSpec` is not claimed: they install while every edit is admitted.
- Between the ownership check and the Delete call an object may be replaced by one of another owner:
  the call has no precondition (`deletion.go:246`). Ownership is a constant of `Deletion`.
- The generation of a failed request still counts as requested and permits changes of hardware.
  Nodes of the same host name collapse into one, nodes without one are matched by their BMC
  address, and a host that is removed and added again in two edits may change anything.

## Not modelled

The labelling of template ConfigMaps for ACM backups (its failure is a reconcile that fails before
it validates); edits of a CI that is being deleted, which the webhook admits unseen; the JSON
paths by which the webhook tells the classes of fields apart; the controller's own checks of
references, which are one failing step. The text of templates, install-config overrides and field
validation are string processing without state. The lag of the informer cache is in
`Provisioning` only: the lists of manifests that a stale copy could lose are not covered. The
default templates, generated code and most of `cmd/main.go` have no control of their own.
`RemovePause` is called by tests only.

## Plan

Done: the deletion handler and its abstract specification, the reconciler, reinstall, the
second reconciler, reimport with the configuration, the webhook; theorems for all their safety
properties.

1. A theorem that the reconciler's one-step `DeletionPass` allows what a pass of `Deletion` does,
   which is argued in comments only.
2. A cache that lags behind in `ClusterInstanceReconciler`.
