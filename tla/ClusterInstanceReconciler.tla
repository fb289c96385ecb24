---------------------- MODULE ClusterInstanceReconciler ----------------------
(***************************************************************************)
(* Reconcile of the SiteConfig operator for one ClusterInstance without a  *)
(* reinstall request: the finalizer, the handling of a Velero restore, and *)
(* the path from validation to the update of ObservedGeneration.           *)
(*                                                                         *)
(* Every write to the API server is a step of its own.  The operator works *)
(* on a copy of the ClusterInstance (mem), and the response to each of its *)
(* patches replaces that copy, spec and generation included, by what the   *)
(* server holds at that moment.  The fields only this reconciler writes    *)
(* (the list of manifests, ObservedGeneration, finalizer, annotations) are *)
(* the same in the copy and on the server and are kept once.               *)
(*                                                                         *)
(* A deletion pass is one step here: module Deletion has the detail.       *)
(***************************************************************************)
EXTENDS Integers, FiniteSets

CONSTANTS
  Objects,         \* identities of the objects the templates may produce
  MaxRevision,     \* bound on the revisions of the spec the user writes
  Render,          \* the objects each revision renders,
  Prune,           \* ... lists for pruning
  Suppress,        \* ... and suppresses
  Scenarios        \* the circumstances of a ClusterInstance, one of which holds throughout

Revisions == 1..MaxRevision

(***************************************************************************)
(* A scenario says whether the ClusterInstance carries a finalizer of      *)
(* someone else, whether Velero restored it, whether the user edits its    *)
(* spec while a reconcile is under way as well as between two, which       *)
(* revisions of the spec ci.Validate rejects, and how many API calls fail  *)
(* or crashes happen at most.                                              *)
(***************************************************************************)
Scenario == [otherFinalizer : BOOLEAN, restored : BOOLEAN, midEdits : BOOLEAN,
             invalid : SUBSET Revisions, maxFaults : Nat]

ASSUME ReconcilerAssumption ==
  /\ MaxRevision \in Nat \ {0}
  /\ Render \in [Revisions -> SUBSET Objects]
  /\ Prune \in [Revisions -> SUBSET Objects]
  /\ Suppress \in [Revisions -> SUBSET Objects]
  /\ \A r \in Revisions : /\ Render[r] \cap Prune[r] = {}
                          /\ Render[r] \cap Suppress[r] = {}
                          /\ Prune[r] \cap Suppress[r] = {}
  /\ Scenarios \subseteq Scenario

VARIABLES
  scenario,           \* one of Scenarios
  \* the ClusterInstance, held by the API server
  exists,             \* it has not been removed
  spec,               \* the revision of its spec
  generation,         \* ObjectMeta.Generation
  observed,           \* Status.ObservedGeneration
  deletionTimestamp,  \* is it being deleted?
  finalizer,          \* the operator's finalizer
  otherFinalizer,     \* somebody else's finalizer
  paused,             \* the paused annotation
  pausedStatus,       \* Status.Paused # nil
  restoreStatus,      \* the velero.io/restore-status annotation
  restoring,          \* isBeingRestored: a restore label that is not marked handled
  lastSpec,           \* the last-observed-spec annotation
  conds,              \* Status.Conditions, those of this reconciler
  manifests,          \* Status.ManifestsRendered
  \* the rendered objects, held by the API server
  obj,
  \* the operator
  queued,             \* the work queue holds the ClusterInstance
  pc,                 \* the next step of the reconcile
  mem,                \* spec and generation of the operator's copy
  plan,               \* the revision the templates were rendered from
  todo,               \* the objects still to apply
  failed,             \* the objects whose apply has failed
  faults,             \* failed calls and crashes so far
  \* history, for the properties
  seen,               \* the revision that the current reconcile has read first
  applied             \* the revision each object was last applied from

ciVars == <<scenario, exists, spec, generation, observed, deletionTimestamp, finalizer,
            otherFinalizer, paused, pausedStatus, restoreStatus, restoring, lastSpec,
            conds, manifests>>
opVars == <<queued, pc, mem, plan, todo, failed, faults, seen>>
vars == <<ciVars, obj, opVars, applied>>

ObjectState == {"absent", "live", "terminating", "overdue"}

\* "none": the list has no entry for the object.  "deleting" stands for the statuses a
\* deletion pass sets.
ManifestStatus ==
  {"none", "validated", "rendered", "failed", "suppressed", "deleting"}

ConditionTypes == {"Validated", "Rendered", "RenderedValidated", "Applied"}

Exists(o) == obj[o] # "absent"
Listed == {o \in Objects : manifests[o] # "none"}

\* No revision: nothing rendered, nothing read.
NoRevision == 0
NoCopy == [spec |-> NoRevision, generation |-> 0]

\* A restored ObservedGeneration is that of another life of the ClusterInstance.
Generations == 0..(MaxRevision + 2)

\* The type of the reconciler's state: an update of Status.ManifestsRendered, for one, keeps
\* the entries it does not touch.
TypeOK ==
  /\ scenario \in Scenarios
  /\ exists \in BOOLEAN
  /\ spec \in Revisions
  /\ generation \in Generations
  /\ observed \in Generations
  /\ deletionTimestamp \in BOOLEAN
  /\ finalizer \in BOOLEAN
  /\ otherFinalizer \in BOOLEAN
  /\ paused \in BOOLEAN
  /\ pausedStatus \in BOOLEAN
  /\ restoreStatus \in BOOLEAN
  /\ restoring \in BOOLEAN
  /\ lastSpec \in 0..MaxRevision
  /\ conds \in [ConditionTypes -> {"unset", "Completed", "Failed"}]
  /\ manifests \in [Objects -> ManifestStatus]
  /\ obj \in [Objects -> ObjectState]
  /\ queued \in BOOLEAN
  /\ pc \in {"idle", "clearPaused", "addFinalizer", "finalize", "removeFinalizer",
             "velero", "restored", "markHandled", "validate", "render", "prune",
             "suppress", "dryRun", "apply", "annotate", "observe", "pause",
             "pauseStatus"}
  /\ mem \in [spec : 0..MaxRevision, generation : Generations]
  /\ plan \in 0..MaxRevision
  /\ todo \in SUBSET Objects
  /\ failed \in SUBSET Objects
  /\ faults \in 0..scenario.maxFaults
  /\ seen \in 0..MaxRevision
  /\ applied \in [Objects -> 0..MaxRevision]

(***************************************************************************)
(* A new ClusterInstance, or one that Velero has restored together with    *)
(* the objects of the cluster it had installed: its generation starts      *)
(* again at 1, its ObservedGeneration is the one of the backup, or zero if *)
(* the status was not restored.                                            *)
(***************************************************************************)
Init ==
  /\ scenario \in Scenarios
  /\ exists = TRUE
  /\ spec = 1
  /\ generation = 1
  /\ deletionTimestamp = FALSE
  /\ otherFinalizer = scenario.otherFinalizer
  /\ paused = FALSE
  /\ pausedStatus = FALSE
  /\ restoring = scenario.restored
  /\ lastSpec = NoRevision
  /\ conds = [t \in ConditionTypes |-> "unset"]
  /\ \/ /\ ~scenario.restored
        /\ observed = 0
        /\ finalizer = FALSE
        /\ restoreStatus = FALSE
        /\ manifests = [o \in Objects |-> "none"]
        /\ obj = [o \in Objects |-> "absent"]
     \/ /\ scenario.restored
        /\ finalizer \in BOOLEAN
        /\ restoreStatus \in BOOLEAN
        /\ obj = [o \in Objects |-> IF o \in Render[1] THEN "live" ELSE "absent"]
        /\ \/ /\ observed = 0
              /\ manifests = [o \in Objects |-> "none"]
           \/ /\ observed \in {1, 2}
              /\ manifests = [o \in Objects |-> IF o \in Render[1] THEN "rendered" ELSE "none"]
  /\ queued = TRUE
  /\ pc = "idle"
  /\ mem = NoCopy
  /\ plan = NoRevision
  /\ todo = {}
  /\ failed = {}
  /\ faults = 0
  /\ seen = NoRevision
  /\ applied = [o \in Objects |-> NoRevision]

-----------------------------------------------------------------------------
(***************************************************************************)
(* The reconcile's own bookkeeping.                                        *)
(***************************************************************************)

\* The response to a patch replaces the operator's copy.
Refresh == mem' = [spec |-> spec, generation |-> generation]

\* Reconcile returns; the work queue holds the ClusterInstance again if the result asks for
\* it, or if an event arrived in the meantime.
Return(requeue) ==
  /\ pc' = "idle"
  /\ queued' = (queued \/ requeue)
  /\ mem' = NoCopy
  /\ plan' = NoRevision
  /\ todo' = {}
  /\ failed' = {}
  /\ seen' = NoRevision

\* Reconcile goes on to another step, with its copy refreshed.
GoOn(step) == pc' = step /\ Refresh /\ UNCHANGED <<queued, seen>>

Fault == faults < scenario.maxFaults /\ faults' = faults + 1

SetCondition(t, ok) == conds' = [conds EXCEPT ![t] = IF ok THEN "Completed" ELSE "Failed"]

\* Fault: the list is rebuilt from the new entries alone.
UpdateManifests_Rebuild(entries) == manifests' = entries

\* New statuses for the objects in the domain of entries; the other entries stay.
UpdateManifests(entries) ==
  manifests' = [o \in Objects |-> IF o \in DOMAIN entries THEN entries[o] ELSE manifests[o]]

\* The list is patched only if an entry changes.
PatchManifests(entries, step) ==
  /\ UpdateManifests(entries)
  /\ \/ /\ manifests' # manifests /\ exists
        /\ GoOn(step)
     \/ /\ manifests' = manifests
        /\ pc' = step
        /\ UNCHANGED <<queued, mem, seen>>

\* handleFinalizer's cases; the last one has nothing to do.
HandleFinalizer ==
  CASE ~deletionTimestamp /\ ~finalizer -> "addFinalizer"
    [] deletionTimestamp /\ finalizer   -> "finalize"
    [] OTHER                            -> "velero"

\* Reconcile reads the ClusterInstance, and its pause and deletion decide where to start.
Start ==
  /\ pc = "idle" /\ queued
  /\ queued' = FALSE
  /\ \/ /\ ~exists \/ paused
        /\ UNCHANGED <<pc, mem, seen>>
     \/ /\ exists /\ ~paused
        /\ Refresh
        /\ seen' = spec
        /\ pc' = IF pausedStatus THEN "clearPaused" ELSE HandleFinalizer
  /\ UNCHANGED <<ciVars, obj, plan, todo, failed, faults, applied>>

ClearPaused ==
  /\ pc = "clearPaused" /\ exists
  /\ pausedStatus' = FALSE
  /\ Return(TRUE)
  /\ UNCHANGED <<exists, spec, generation, observed, deletionTimestamp, finalizer,
                 otherFinalizer, paused, restoreStatus, restoring, lastSpec, conds,
                 manifests, obj, faults, applied, scenario>>

\* Fault: the addition of the finalizer does not put the ClusterInstance back in the queue.
EnsureFinalizer_NoRequeue ==
  /\ pc = "addFinalizer" /\ exists
  /\ finalizer' = ~deletionTimestamp
  /\ Return(FALSE)
  /\ UNCHANGED <<exists, spec, generation, observed, deletionTimestamp, otherFinalizer,
                 paused, pausedStatus, restoreStatus, restoring, lastSpec, conds,
                 manifests, obj, faults, applied, scenario>>

\* ensureFinalizer; the API server takes no new finalizer once a deletion has begun.
EnsureFinalizer ==
  /\ pc = "addFinalizer" /\ exists
  /\ finalizer' = ~deletionTimestamp
  /\ Return(TRUE)
  /\ UNCHANGED <<exists, spec, generation, observed, deletionTimestamp, otherFinalizer,
                 paused, pausedStatus, restoreStatus, restoring, lastSpec, conds,
                 manifests, obj, faults, applied, scenario>>

-----------------------------------------------------------------------------
(***************************************************************************)
(* Deletion passes.                                                        *)
(***************************************************************************)

\* Fault: a pass is complete when every object has been asked to go.
DeletionPass_NoWait(S, step) ==
  LET remaining == {o \in S : obj[o] = "live"}
  IN
  \/ /\ remaining = {}
     /\ PatchManifests([o \in S |-> "none"], step)
     /\ UNCHANGED <<obj, plan, todo, failed, faults>>
  \/ /\ remaining # {}
     /\ obj' = [o \in Objects |-> IF o \in remaining THEN "terminating" ELSE obj[o]]
     /\ UpdateManifests([o \in remaining |-> "deleting"])
     /\ Return(TRUE)
     /\ UNCHANGED faults

\* Fault: an object past its deadline is waited for like any other.
DeletionPass_NoTimeout(S, step) ==
  LET remaining == {o \in S : Exists(o)}
  IN
  \/ /\ remaining = {}
     /\ PatchManifests([o \in S |-> "none"], step)
     /\ UNCHANGED <<obj, plan, todo, failed, faults>>
  \/ /\ remaining # {}
     /\ obj' = [o \in Objects |-> IF o \in remaining /\ obj[o] = "live"
                                  THEN "terminating" ELSE obj[o]]
     /\ UpdateManifests([o \in remaining |-> "deleting"])
     /\ Return(TRUE)
     /\ UNCHANGED faults

\* A pass over the objects S of the list.  It completes when all of them are gone, and
\* then the reconcile goes on to the next step; it is stopped by an object past its
\* deadline; otherwise it asks some objects to go (which ones is up to the waves), drops
\* entries of objects that are gone and is retried.
DeletionPass(S, step) ==
  LET remaining == {o \in S : Exists(o)}
      overdue == {o \in S : obj[o] = "overdue"}
  IN
  \/ /\ remaining = {}
     /\ PatchManifests([o \in S |-> "none"], step)
     /\ UNCHANGED <<obj, plan, todo, failed, faults>>
  \/ /\ overdue # {}
     /\ PatchManifests([o \in overdue |-> "deleting"], "pause")
     /\ UNCHANGED <<obj, plan, todo, failed, faults>>
  \/ \E W \in SUBSET (remaining \ overdue), D \in SUBSET (S \ remaining) :
     /\ W # {}
     /\ obj' = [o \in Objects |-> IF o \in W THEN "terminating" ELSE obj[o]]
     /\ UpdateManifests([o \in W \cup D |-> IF o \in D THEN "none" ELSE "deleting"])
     /\ Return(TRUE)
     /\ UNCHANGED faults

\* handleFinalizer of a ClusterInstance that is being deleted.
Finalize ==
  /\ pc = "finalize" /\ exists
  /\ DeletionPass(Listed, "removeFinalizer")
  /\ UNCHANGED <<exists, spec, generation, observed, deletionTimestamp, finalizer,
                 otherFinalizer, paused, pausedStatus, restoreStatus, restoring, lastSpec,
                 conds, applied, scenario>>

\* The operator's finalizer goes, and with the last finalizer the ClusterInstance.  The
\* result of handleFinalizer is zero: Reconcile does not stop here.
RemoveFinalizer ==
  /\ pc = "removeFinalizer" /\ exists
  /\ finalizer' = FALSE
  /\ exists' = otherFinalizer
  /\ GoOn("velero")
  /\ UNCHANGED <<spec, generation, observed, deletionTimestamp, otherFinalizer,
                 paused, pausedStatus, restoreStatus, restoring, lastSpec, conds,
                 manifests, obj, plan, todo, failed, faults, applied, scenario>>

\* ApplyPause: first the annotation, which is an event, then the status.
ApplyPauseAnnotation ==
  /\ pc = "pause" /\ exists
  /\ paused' = TRUE
  /\ queued' = TRUE
  /\ pc' = "pauseStatus"
  /\ Refresh
  /\ UNCHANGED <<exists, spec, generation, observed, deletionTimestamp, finalizer,
                 otherFinalizer, pausedStatus, restoreStatus, restoring, lastSpec, conds,
                 manifests, obj, plan, todo, failed, faults, seen, applied, scenario>>

ApplyPauseStatus ==
  /\ pc = "pauseStatus" /\ exists
  /\ pausedStatus' = TRUE
  /\ Return(TRUE)
  /\ UNCHANGED <<exists, spec, generation, observed, deletionTimestamp, finalizer,
                 otherFinalizer, paused, restoreStatus, restoring, lastSpec, conds,
                 manifests, obj, faults, applied, scenario>>

-----------------------------------------------------------------------------
(***************************************************************************)
(* Velero.                                                                 *)
(***************************************************************************)

\* Fault: the reconcile ends here and is not repeated.
AddRestoreStatusAnnotation_NoRequeue ==
  /\ pc = "velero" /\ ~restoreStatus /\ exists
  /\ restoreStatus' = TRUE
  /\ Return(FALSE)
  /\ UNCHANGED <<exists, spec, generation, observed, deletionTimestamp, finalizer,
                 otherFinalizer, paused, pausedStatus, restoring, lastSpec, conds,
                 manifests, obj, faults, applied, scenario>>

\* ensureVeleroRestoreStatusAnnotation, when the annotation is missing.
AddRestoreStatusAnnotation ==
  /\ pc = "velero" /\ ~restoreStatus /\ exists
  /\ restoreStatus' = TRUE
  /\ Return(TRUE)
  /\ UNCHANGED <<exists, spec, generation, observed, deletionTimestamp, finalizer,
                 otherFinalizer, paused, pausedStatus, restoring, lastSpec, conds,
                 manifests, obj, faults, applied, scenario>>

\* The annotation is there.  A restore still has to be handled, or the generation has been
\* observed already and there is nothing to do, or Reconcile goes on.
CheckObserved ==
  /\ pc = "velero" /\ restoreStatus
  /\ \/ /\ restoring
        /\ pc' = "restored"
        /\ UNCHANGED <<queued, mem, plan, todo, failed, seen>>
     \/ /\ ~restoring /\ observed = mem.generation
        /\ Return(FALSE)
     \/ /\ ~restoring /\ observed # mem.generation
        /\ pc' = "validate"
        /\ UNCHANGED <<queued, mem, plan, todo, failed, seen>>
  /\ UNCHANGED <<ciVars, obj, faults, applied>>

\* Fault: the restore is marked handled before its generation counts as observed.
ObserveRestored_HandledFirst ==
  /\ pc = "restored" /\ exists
  /\ restoring' = FALSE
  /\ Return(TRUE)
  /\ UNCHANGED <<exists, spec, generation, observed, deletionTimestamp, finalizer,
                 otherFinalizer, paused, pausedStatus, restoreStatus, lastSpec, conds,
                 manifests, obj, faults, applied, scenario>>

\* The generation of a restored ClusterInstance counts as observed ...
ObserveRestored ==
  /\ pc = "restored" /\ exists
  /\ observed' = mem.generation
  /\ GoOn("markHandled")
  /\ UNCHANGED <<exists, spec, generation, deletionTimestamp, finalizer, otherFinalizer,
                 paused, pausedStatus, restoreStatus, restoring, lastSpec, conds,
                 manifests, obj, plan, todo, failed, faults, applied, scenario>>

\* ... and then the restore is marked as handled.
MarkHandled ==
  /\ pc = "markHandled" /\ exists
  /\ restoring' = FALSE
  /\ Return(FALSE)
  /\ UNCHANGED <<exists, spec, generation, observed, deletionTimestamp, finalizer,
                 otherFinalizer, paused, pausedStatus, restoreStatus, lastSpec, conds,
                 manifests, obj, faults, applied, scenario>>

-----------------------------------------------------------------------------
(***************************************************************************)
(* From validation to ObservedGeneration.                                  *)
(***************************************************************************)

\* handleValidate: it validates the copy, and the response to its status patch then
\* replaces the copy.
Validate ==
  /\ pc = "validate" /\ exists
  /\ SetCondition("Validated", mem.spec \notin scenario.invalid)
  /\ \/ /\ mem.spec \notin scenario.invalid
        /\ GoOn("render")
        /\ UNCHANGED <<plan, todo, failed>>
     \/ /\ mem.spec \in scenario.invalid
        /\ Return(TRUE)
  /\ UNCHANGED <<exists, spec, generation, observed, deletionTimestamp, finalizer,
                 otherFinalizer, paused, pausedStatus, restoreStatus, restoring, lastSpec,
                 manifests, obj, faults, applied, scenario>>

\* renderManifests; a template that is missing or broken is a fault.
RenderManifests ==
  /\ pc = "render" /\ exists
  /\ \/ /\ SetCondition("Rendered", TRUE)
        /\ plan' = mem.spec
        /\ GoOn("prune")
        /\ UNCHANGED <<todo, failed, faults>>
     \/ /\ Fault
        /\ SetCondition("Rendered", FALSE)
        /\ Return(TRUE)
  /\ UNCHANGED <<exists, spec, generation, observed, deletionTimestamp, finalizer,
                 otherFinalizer, paused, pausedStatus, restoreStatus, restoring, lastSpec,
                 manifests, obj, applied, scenario>>

\* pruneManifests; objects without an entry are skipped.
PruneManifests ==
  /\ pc = "prune"
  /\ DeletionPass(Prune[plan] \cap Listed, "suppress")
  /\ UNCHANGED <<exists, spec, generation, observed, deletionTimestamp, finalizer,
                 otherFinalizer, paused, pausedStatus, restoreStatus, restoring, lastSpec,
                 conds, applied, scenario>>

\* updateSuppressedManifestsStatus: the objects themselves stay.
UpdateSuppressed ==
  /\ pc = "suppress"
  /\ PatchManifests([o \in Suppress[plan] |-> "suppressed"], "dryRun")
  /\ UNCHANGED <<exists, spec, generation, observed, deletionTimestamp, finalizer,
                 otherFinalizer, paused, pausedStatus, restoreStatus, restoring, lastSpec,
                 conds, obj, plan, todo, failed, faults, applied, scenario>>

\* Fault: the dry run sets its condition but leaves the list alone.
ValidateRendered_NoList ==
  /\ pc = "dryRun" /\ exists
  /\ SetCondition("RenderedValidated", TRUE)
  /\ todo' = Render[plan]
  /\ failed' = {}
  /\ GoOn("apply")
  /\ UNCHANGED <<exists, spec, generation, observed, deletionTimestamp, finalizer,
                 otherFinalizer, paused, pausedStatus, restoreStatus, restoring, lastSpec,
                 manifests, obj, plan, faults, applied, scenario>>

\* validateRenderedManifests: every object is sent as a dry run, and all of them are in
\* the list before any of them is applied.
ValidateRendered ==
  /\ pc = "dryRun" /\ exists
  /\ \/ /\ UpdateManifests([o \in Render[plan] |-> "validated"])
        /\ SetCondition("RenderedValidated", TRUE)
        /\ todo' = Render[plan]
        /\ failed' = {}
        /\ GoOn("apply")
        /\ UNCHANGED <<plan, faults>>
     \/ /\ Fault
        /\ \E F \in SUBSET Render[plan] \ {{}} :
             UpdateManifests([o \in Render[plan] |-> IF o \in F THEN "failed" ELSE "validated"])
        /\ SetCondition("RenderedValidated", FALSE)
        /\ Return(TRUE)
  /\ UNCHANGED <<exists, spec, generation, observed, deletionTimestamp, finalizer,
                 otherFinalizer, paused, pausedStatus, restoreStatus, restoring, lastSpec,
                 obj, applied, scenario>>

\* applyObject by server-side apply: it creates or updates the object.
ApplyObject(o) ==
  /\ pc = "apply" /\ o \in todo
  /\ todo' = todo \ {o}
  /\ \/ /\ obj' = [obj EXCEPT ![o] = IF @ = "absent" THEN "live" ELSE @]
        /\ applied' = [applied EXCEPT ![o] = plan]
        /\ UNCHANGED <<failed, faults>>
     \/ /\ Fault
        /\ failed' = failed \cup {o}
        /\ UNCHANGED <<obj, applied>>
  /\ UNCHANGED <<ciVars, queued, pc, mem, plan, seen>>

\* Fault: an object that could not be applied does not stop the reconcile.
ApplyStatus_IgnoreFailures ==
  /\ pc = "apply" /\ todo = {} /\ exists
  /\ UpdateManifests([o \in Render[plan] |-> IF o \in failed THEN "failed" ELSE "rendered"])
  /\ SetCondition("Applied", failed = {})
  /\ GoOn("annotate")
  /\ UNCHANGED <<exists, spec, generation, observed, deletionTimestamp, finalizer,
                 otherFinalizer, paused, pausedStatus, restoreStatus, restoring, lastSpec,
                 obj, plan, todo, failed, faults, applied, scenario>>

\* applyRenderedManifests, once all objects have been sent.
ApplyStatus ==
  /\ pc = "apply" /\ todo = {} /\ exists
  /\ UpdateManifests([o \in Render[plan] |-> IF o \in failed THEN "failed" ELSE "rendered"])
  /\ SetCondition("Applied", failed = {})
  /\ \/ /\ failed = {}
        /\ GoOn("annotate")
        /\ UNCHANGED <<plan, todo, failed>>
     \/ /\ failed # {}
        /\ Return(TRUE)
  /\ UNCHANGED <<exists, spec, generation, observed, deletionTimestamp, finalizer,
                 otherFinalizer, paused, pausedStatus, restoreStatus, restoring, lastSpec,
                 obj, faults, applied, scenario>>

\* Fault: an annotation that exists is not updated.
AnnotateSpec_Once ==
  /\ pc = "annotate" /\ exists
  /\ lastSpec' = IF lastSpec = NoRevision THEN mem.spec ELSE lastSpec
  /\ GoOn("observe")
  /\ UNCHANGED <<exists, spec, generation, observed, deletionTimestamp, finalizer,
                 otherFinalizer, paused, pausedStatus, restoreStatus, restoring, conds,
                 manifests, obj, plan, todo, failed, faults, applied, scenario>>

\* updateObservedStatus: the annotation takes the spec of the copy, and the copy is read
\* again ...
AnnotateSpec ==
  /\ pc = "annotate" /\ exists
  /\ lastSpec' = mem.spec
  /\ GoOn("observe")
  /\ UNCHANGED <<exists, spec, generation, observed, deletionTimestamp, finalizer,
                 otherFinalizer, paused, pausedStatus, restoreStatus, restoring, conds,
                 manifests, obj, plan, todo, failed, faults, applied, scenario>>

\* ... then its generation counts as observed.
UpdateObserved ==
  /\ pc = "observe" /\ exists
  /\ observed' = mem.generation
  /\ Return(FALSE)
  /\ UNCHANGED <<exists, spec, generation, deletionTimestamp, finalizer, otherFinalizer,
                 paused, pausedStatus, restoreStatus, restoring, lastSpec, conds,
                 manifests, obj, faults, applied, scenario>>

-----------------------------------------------------------------------------
(***************************************************************************)
(* Failures: the operator crashes and restarts with every ClusterInstance  *)
(* in its queue; a call fails and Reconcile returns the error; a patch     *)
(* finds the ClusterInstance gone.                                         *)
(***************************************************************************)
Abort ==
  /\ pc # "idle"
  /\ \/ Fault
     \/ /\ ~exists
        /\ ~(pc = "apply" /\ todo # {})
        /\ UNCHANGED faults
  /\ Return(TRUE)
  /\ UNCHANGED <<ciVars, obj, applied>>

-----------------------------------------------------------------------------
(***************************************************************************)
(* The environment.                                                        *)
(***************************************************************************)

UserEdits ==
  /\ exists /\ ~deletionTimestamp
  /\ spec < MaxRevision
  /\ scenario.midEdits \/ pc = "idle"
  /\ spec' = spec + 1
  /\ generation' = generation + 1
  /\ queued' = TRUE
  /\ UNCHANGED <<exists, observed, deletionTimestamp, finalizer, otherFinalizer, paused,
                 pausedStatus, restoreStatus, restoring, lastSpec, conds, manifests, obj,
                 pc, mem, plan, todo, failed, faults, seen, applied, scenario>>

\* A deletion sets the timestamp and increments the generation; without a finalizer the
\* ClusterInstance is gone at once.
UserDeletes ==
  /\ exists /\ ~deletionTimestamp
  /\ deletionTimestamp' = TRUE
  /\ generation' = generation + 1
  /\ exists' = (finalizer \/ otherFinalizer)
  /\ queued' = TRUE
  /\ UNCHANGED <<spec, observed, finalizer, otherFinalizer, paused, pausedStatus,
                 restoreStatus, restoring, lastSpec, conds, manifests, obj, pc, mem, plan,
                 todo, failed, faults, seen, applied, scenario>>

UserUnpauses ==
  /\ exists /\ paused
  /\ paused' = FALSE
  /\ queued' = TRUE
  /\ UNCHANGED <<exists, spec, generation, observed, deletionTimestamp, finalizer,
                 otherFinalizer, pausedStatus, restoreStatus, restoring, lastSpec, conds,
                 manifests, obj, pc, mem, plan, todo, failed, faults, seen, applied, scenario>>

OtherFinalizerRemoved ==
  /\ exists /\ deletionTimestamp /\ otherFinalizer
  /\ otherFinalizer' = FALSE
  /\ exists' = finalizer
  /\ UNCHANGED <<spec, generation, observed, deletionTimestamp, finalizer, paused,
                 pausedStatus, restoreStatus, restoring, lastSpec, conds, manifests, obj,
                 opVars, applied, scenario>>

\* The life of an object that is being deleted.
ObjectMoves(o, from, to) ==
  /\ obj[o] \in from
  /\ obj' = [obj EXCEPT ![o] = to]
  /\ UNCHANGED <<ciVars, opVars, applied>>

ObjectGone(o) == ObjectMoves(o, {"terminating", "overdue"}, "absent")
DeadlinePasses(o) == ObjectMoves(o, {"terminating"}, "overdue")
ExternalDelete(o) == ObjectMoves(o, {"live"}, "terminating")

-----------------------------------------------------------------------------
\* The steps of a reconcile.
Reconcile ==
  \/ Start \/ ClearPaused \/ EnsureFinalizer \/ Finalize \/ RemoveFinalizer
  \/ ApplyPauseAnnotation \/ ApplyPauseStatus
  \/ AddRestoreStatusAnnotation \/ CheckObserved \/ ObserveRestored \/ MarkHandled
  \/ Validate \/ RenderManifests \/ PruneManifests \/ UpdateSuppressed
  \/ ValidateRendered \/ \E o \in Objects : ApplyObject(o)
  \/ ApplyStatus \/ AnnotateSpec \/ UpdateObserved
  \/ Abort

Environment ==
  \/ UserEdits \/ UserDeletes \/ UserUnpauses \/ OtherFinalizerRemoved
  \/ \E o \in Objects : ObjectGone(o) \/ DeadlinePasses(o) \/ ExternalDelete(o)

Next == Reconcile \/ Environment

Spec == Init /\ [][Next]_vars

\* The work queue hands over what it holds, a reconcile that has begun goes on, and the
\* clock does not stop.  Nothing is assumed of users and other controllers.
FairSpec ==
  /\ Spec
  /\ WF_vars(Reconcile)
  /\ \A o \in Objects : WF_vars(DeadlinePasses(o))

-----------------------------------------------------------------------------
(***************************************************************************)
(* Properties                                                              *)
(***************************************************************************)

\* An object the operator has applied and that exists is in Status.ManifestsRendered of a
\* ClusterInstance that still has the operator's finalizer: wherever a reconcile is cut
\* off, the objects it leaves behind can be found and will be deleted.  (Another finalizer
\* keeps the ClusterInstance alive after the operator has let go: see
\* NothingCreatedUnfinalized.)
Accounted ==
  ~scenario.otherFinalizer =>
    \A o \in Objects : applied[o] # NoRevision /\ Exists(o) =>
      exists /\ finalizer /\ manifests[o] # "none"

\* ObservedGeneration moves only when every object of a revision has been applied, one at
\* least as recent as the revision the reconcile read; a Velero restore is the exception.
ObservedAfterApply ==
  [][observed' # observed =>
       \/ restoring
       \/ plan >= seen /\ \A o \in Render[plan] : applied[o] = plan]_vars

\* An object that a revision lists for pruning, and that the operator had applied, is gone
\* before any object of that revision is applied.
PrunedFirst ==
  pc = "apply" => \A o \in Prune[plan] : applied[o] # NoRevision => ~Exists(o)

\* "Only update the ObservedGeneration when all the above processes have been successfully
\* executed": a generation that counts as observed has had its objects applied, and is
\* the one in the annotation.  Reconcile pre-empts itself on that basis.
ObservedMeansApplied ==
  pc = "idle" /\ observed = generation /\ ~scenario.restored =>
    /\ \A o \in Render[spec] : applied[o] = spec
    /\ lastSpec = spec

\* As long as the user edits the spec between reconciles only, the pre-emption is right:
\* an observed generation has been applied, through requeues, faults and deletions.
ObservedBetweenEdits == ~scenario.midEdits => ObservedMeansApplied

\* "Finalizer already removed; no action needed": once the operator has removed its
\* finalizer (it had one if a generation was ever observed), nothing is created again.
NothingCreatedUnfinalized ==
  [][deletionTimestamp /\ ~finalizer /\ lastSpec # NoRevision =>
       \A o \in Objects : ~Exists(o) => obj'[o] = "absent"]_vars

\* The objects of a restored ClusterInstance are not applied again, whatever fails between
\* the two patches that handle the restore, until the user edits the spec.  (With another
\* finalizer a deletion makes Reconcile go on: see NothingCreatedUnfinalized.)
RestoredNotRerendered ==
  scenario.restored /\ ~scenario.otherFinalizer /\ spec = 1 =>
    \A o \in Objects : applied[o] = NoRevision

\* An edit between reconciles takes effect: every object of the new revision is applied,
\* unless the revision is superseded or invalid, the ClusterInstance is deleted, or
\* reconciliation is paused.
EditTakesEffect ==
  \A r \in Revisions :
    spec = r /\ ~scenario.midEdits /\ ~scenario.restored ~>
      \/ spec # r \/ deletionTimestamp \/ paused
      \/ conds["Validated"] = "Failed"
      \/ \A o \in Render[r] : applied[o] = r

\* A deleted ClusterInstance goes, or is paused because an object does not.
DeletionEnds == deletionTimestamp /\ ~scenario.otherFinalizer ~> (~exists \/ paused)

\* A restore is handled, or reconciliation is paused.
RestoreHandled == restoring ~> (~restoring \/ paused \/ ~exists)
=============================================================================
