------------------------------ MODULE Deletion ------------------------------
(***************************************************************************)
(* The DeletionHandler of the SiteConfig operator: the wave-by-wave        *)
(* teardown of the objects a ClusterInstance has rendered, as its three    *)
(* callers run it: the finalizer, the pruning of manifests and the         *)
(* reinstall handler.                                                      *)
(*                                                                         *)
(* Every call to the API server is a step of its own, so the objects'      *)
(* other controllers, the clock, the user and a crash of the operator      *)
(* interleave with a pass at each of them.  A pass keeps its work in       *)
(* memory (mem, removed, errs, ...) and writes Status.ManifestsRendered    *)
(* once, in the deferred patch at its end; a crash loses the memory and    *)
(* keeps what the API server holds.                                        *)
(***************************************************************************)
EXTENDS Integers, FiniteSets

CONSTANTS
  Objects,         \* identities of the objects a ClusterInstance may render
  Wave,            \* the sync-wave of each object
  Owned,           \* the objects whose owned-by label names this ClusterInstance
  ManagedCluster,  \* the object whose kind is ManagedCluster
  PruneSets,       \* the sets of objects the templates may list for pruning
  MaxFaults        \* bound on failed API calls and crashes

ASSUME DeletionAssumption ==
  /\ Wave \in [Objects -> Int]
  /\ Owned \subseteq Objects
  /\ ManagedCluster \in Objects
  /\ PruneSets \subseteq SUBSET Objects
  /\ MaxFaults \in Nat

VARIABLES
  \* held by the API server
  obj,                \* life cycle of each object
  manifests,          \* Status.ManifestsRendered: the status of each entry
  deletionTimestamp,  \* is the ClusterInstance being deleted?
  finalizer,          \* does it carry the operator's finalizer?
  paused,             \* the paused annotation
  pausedStatus,       \* Status.Paused # nil
  \* held by the operator
  pc,                 \* the next step of the reconcile
  caller,             \* who asked for the pass
  exclude,            \* excludeObjects
  mem,                \* manifestsRendered, the pass's copy of the list
  targets,            \* the objects of the pass
  pending,            \* the targets of the waves that have not been started
  todo,               \* the objects of the current wave still to handle
  cur,                \* the object whose Get has been answered
  removed,            \* manifestsDeleted
  waveClear,          \* syncWaveGroupDeleted
  errs,               \* kinds of the errors collected
  completed,          \* deletionCompleted
  faults              \* failed calls and crashes so far

serverVars == <<obj, manifests, deletionTimestamp, finalizer, paused, pausedStatus>>
passVars == <<caller, exclude, mem, targets, pending, todo, cur, removed, waveClear,
              errs, completed>>
vars == <<serverVars, pc, passVars, faults>>

(***************************************************************************)
(* "overdue" is terminating for longer than DefaultDeletionTimeout.        *)
(***************************************************************************)
ObjectState == {"absent", "live", "terminating", "overdue"}

Exists(o) == obj[o] # "absent"

(***************************************************************************)
(* "none": the list has no entry for the object.  "unapplied" stands for   *)
(* the statuses of an entry that was not applied by the last render:       *)
(* validated, failed and suppressed.                                       *)
(***************************************************************************)
ManifestStatus ==
  {"none", "rendered", "unapplied", "deletion-in-progress", "deletion-failed",
   "deletion-attempt-timed-out"}

Listed(list) == {o \in Objects : list[o] # "none"}

Callers == {"finalizer", "prune", "reinstall"}

\* The type of the handler's state: among others, the list keeps one entry or none for
\* every object, and the faults stay within their bound.
TypeOK ==
  /\ obj \in [Objects -> ObjectState]
  /\ manifests \in [Objects -> ManifestStatus]
  /\ deletionTimestamp \in BOOLEAN
  /\ finalizer \in BOOLEAN
  /\ paused \in BOOLEAN
  /\ pausedStatus \in BOOLEAN
  /\ pc \in {"idle", "waves", "delete", "patch", "result", "pause", "pauseStatus",
             "removeFinalizer"}
  /\ caller \in Callers
  /\ exclude \in SUBSET Objects
  /\ mem \in [Objects -> ManifestStatus]
  /\ targets \in SUBSET Objects
  /\ pending \in SUBSET Objects
  /\ todo \in SUBSET Objects
  /\ cur \in Objects
  /\ removed \in SUBSET Objects
  /\ waveClear \in BOOLEAN
  /\ errs \in SUBSET {"timeout", "other"}
  /\ completed \in BOOLEAN
  /\ faults \in 0..MaxFaults

\* No pass is under way: the operator remembers nothing of an earlier one.
NoPass ==
  /\ caller = "finalizer"
  /\ exclude = {}
  /\ mem = [o \in Objects |-> "none"]
  /\ targets = {}
  /\ pending = {}
  /\ todo = {}
  /\ cur = ManagedCluster
  /\ removed = {}
  /\ waveClear = TRUE
  /\ errs = {}
  /\ completed = FALSE

\* The operator forgets the pass, when it ends and when it crashes.
ForgetPass ==
  /\ caller' = "finalizer"
  /\ exclude' = {}
  /\ mem' = [o \in Objects |-> "none"]
  /\ targets' = {}
  /\ pending' = {}
  /\ todo' = {}
  /\ cur' = ManagedCluster
  /\ removed' = {}
  /\ waveClear' = TRUE
  /\ errs' = {}
  /\ completed' = FALSE

(***************************************************************************)
(* Rendering lists an object before it applies it, so an owned object that *)
(* exists has an entry; an entry need not have an object (a failed apply,  *)
(* an object somebody removed), and a foreign object may have one too (it  *)
(* carried another owner's label when it was applied).                     *)
(***************************************************************************)
Init ==
  /\ obj \in [Objects -> {"absent", "live"}]
  /\ manifests \in [Objects -> {"none", "rendered", "unapplied"}]
  /\ \A o \in Objects : Exists(o) /\ o \in Owned => manifests[o] # "none"
  /\ deletionTimestamp = FALSE
  /\ finalizer = TRUE
  /\ paused = FALSE
  /\ pausedStatus = FALSE
  /\ pc = "idle"
  /\ NoPass
  /\ faults = 0

-----------------------------------------------------------------------------
(***************************************************************************)
(* Starting a pass.                                                        *)
(***************************************************************************)

\* Reconcile gets past its pause checks.
Reconciling == pc = "idle" /\ ~paused /\ ~pausedStatus

\* Fault: the waves are taken in ascending order.
TopWave_Ascending(S) == {o \in S : \A p \in S : Wave[p] >= Wave[o]}

\* The highest sync-wave among the objects of S (GetDescendingSyncWaves).
TopWave(S) == {o \in S : \A p \in S : Wave[p] <= Wave[o]}

\* DeleteObjects, up to its first wave.
DeleteObjects(who, objects, excludeObjects) ==
  /\ caller' = who
  /\ exclude' = excludeObjects
  /\ mem' = manifests
  /\ targets' = objects
  /\ todo' = TopWave(objects)
  /\ pending' = objects \ TopWave(objects)
  /\ removed' = {}
  /\ waveClear' = TRUE
  /\ errs' = {}
  /\ completed' = FALSE
  /\ pc' = "waves"
  /\ UNCHANGED <<serverVars, cur, faults>>

\* DeleteRenderedObjects: an empty list completes at once.
DeleteRenderedObjects(who, excludeObjects) ==
  \/ /\ Listed(manifests) # {}
     /\ DeleteObjects(who, Listed(manifests), excludeObjects)
  \/ /\ Listed(manifests) = {}
     /\ caller' = who
     /\ exclude' = excludeObjects
     /\ targets' = {}
     /\ errs' = {}
     /\ completed' = TRUE
     /\ pc' = "result"
     /\ UNCHANGED <<serverVars, mem, pending, todo, cur, removed, waveClear, faults>>

\* handleFinalizer of a ClusterInstance that is being deleted.
BeginFinalize ==
  /\ Reconciling
  /\ deletionTimestamp /\ finalizer
  /\ DeleteRenderedObjects("finalizer", {})

\* pruneManifests: the templates name the objects to prune, if any.
BeginPrune ==
  /\ Reconciling
  /\ ~deletionTimestamp
  /\ \E S \in PruneSets \ {{}} : DeleteObjects("prune", S, {})

\* The ManagedCluster is kept only if its entry says that it was applied.
KeptByReinstall ==
  IF manifests[ManagedCluster] = "rendered" THEN {ManagedCluster} ELSE {}

\* ensureRenderedManifestsAreDeleted, its call of DeleteRenderedObjects.
BeginReinstall ==
  /\ Reconciling
  /\ ~deletionTimestamp
  /\ DeleteRenderedObjects("reinstall", KeptByReinstall)

-----------------------------------------------------------------------------
(***************************************************************************)
(* The objects of a wave.  They are handled in an order the model leaves   *)
(* open: the code sorts them by kind, which is neither total nor stable.   *)
(***************************************************************************)

\* The object is excluded, or has no entry in the list.
Skipped(o) == o \in exclude \/ mem[o] = "none"

SkipObject(o) ==
  /\ pc = "waves" /\ o \in todo
  /\ Skipped(o)
  /\ todo' = todo \ {o}
  /\ UNCHANGED <<serverVars, pc, caller, exclude, mem, targets, pending, cur, removed,
                 waveClear, errs, completed, faults>>

\* Fault: an object with a deletionTimestamp counts as deleted.
DropObject_Terminating(o) ==
  /\ pc = "waves" /\ o \in todo
  /\ ~Skipped(o)
  /\ obj[o] # "live" \/ o \notin Owned
  /\ removed' = removed \cup {o}
  /\ todo' = todo \ {o}
  /\ UNCHANGED <<serverVars, pc, caller, exclude, mem, targets, pending, cur,
                 waveClear, errs, completed, faults>>

\* DeleteObject finds the object gone, or finds that it belongs to another owner:
\* its entry is to leave the list.
DropObject(o) ==
  /\ pc = "waves" /\ o \in todo
  /\ ~Skipped(o)
  /\ ~Exists(o) \/ o \notin Owned
  /\ removed' = removed \cup {o}
  /\ todo' = todo \ {o}
  /\ UNCHANGED <<serverVars, pc, caller, exclude, mem, targets, pending, cur,
                 waveClear, errs, completed, faults>>

\* Fault: the owner label is not checked before the Delete call.
VerifyObject_AnyOwner(o) ==
  /\ pc = "waves" /\ o \in todo
  /\ ~Skipped(o)
  /\ obj[o] = "live"
  /\ cur' = o
  /\ pc' = "delete"
  /\ UNCHANGED <<serverVars, caller, exclude, mem, targets, pending, todo, removed,
                 waveClear, errs, completed, faults>>

\* An owned object that nobody is deleting: DeleteObject goes on to its Delete call.
VerifyObject(o) ==
  /\ pc = "waves" /\ o \in todo
  /\ ~Skipped(o)
  /\ o \in Owned /\ obj[o] = "live"
  /\ cur' = o
  /\ pc' = "delete"
  /\ UNCHANGED <<serverVars, caller, exclude, mem, targets, pending, todo, removed,
                 waveClear, errs, completed, faults>>

\* The entry of an object that is still there.
MarkInProgress(o) ==
  /\ mem' = [mem EXCEPT ![o] = "deletion-in-progress"]
  /\ waveClear' = FALSE
  /\ todo' = todo \ {o}

\* The Delete call succeeds; it ignores an object that is gone by now and leaves one
\* alone that is already terminating.
InitiateDeletion ==
  /\ pc = "delete"
  /\ obj' = [obj EXCEPT ![cur] = IF @ = "live" THEN "terminating" ELSE @]
  /\ MarkInProgress(cur)
  /\ pc' = "waves"
  /\ UNCHANGED <<manifests, deletionTimestamp, finalizer, paused, pausedStatus,
                 caller, exclude, targets, pending, cur, removed, errs, completed, faults>>

\* An owned object that is terminating, within the deadline.
AwaitObject(o) ==
  /\ pc = "waves" /\ o \in todo
  /\ ~Skipped(o)
  /\ o \in Owned /\ obj[o] = "terminating"
  /\ MarkInProgress(o)
  /\ UNCHANGED <<serverVars, pc, caller, exclude, targets, pending, cur, removed,
                 errs, completed, faults>>

\* An owned object past the deadline ends the pass.
TimeOut(o) ==
  /\ pc = "waves" /\ o \in todo
  /\ ~Skipped(o)
  /\ o \in Owned /\ obj[o] = "overdue"
  /\ mem' = [mem EXCEPT ![o] = "deletion-attempt-timed-out"]
  /\ errs' = errs \cup {"timeout"}
  /\ pc' = "patch"
  /\ UNCHANGED <<serverVars, caller, exclude, targets, pending, todo, cur, removed,
                 waveClear, completed, faults>>

Fault == faults < MaxFaults /\ faults' = faults + 1

\* A Get or a Delete fails: the wave goes on with its other objects.
ObjectError(o) ==
  /\ \/ pc = "waves" /\ o \in todo /\ ~Skipped(o)
     \/ pc = "delete" /\ o = cur
  /\ Fault
  /\ mem' = [mem EXCEPT ![o] = "deletion-failed"]
  /\ errs' = errs \cup {"other"}
  /\ todo' = todo \ {o}
  /\ pc' = "waves"
  /\ UNCHANGED <<serverVars, caller, exclude, targets, pending, cur, removed,
                 waveClear, completed>>

\* Fault: the pass goes on to the next wave while objects of this one still exist.
EndWave_NoWait ==
  /\ pc = "waves" /\ todo = {}
  /\ \/ /\ errs # {}
        /\ pc' = "patch"
        /\ UNCHANGED <<pending, todo, waveClear, completed>>
     \/ /\ errs = {} /\ pending = {}
        /\ completed' = TRUE
        /\ pc' = "patch"
        /\ UNCHANGED <<pending, todo, waveClear>>
     \/ /\ errs = {} /\ pending # {}
        /\ todo' = TopWave(pending)
        /\ pending' = pending \ TopWave(pending)
        /\ waveClear' = TRUE
        /\ UNCHANGED <<pc, completed>>
  /\ UNCHANGED <<serverVars, caller, exclude, mem, targets, cur, removed, errs, faults>>

\* The wave is done: on to the next one, or to the end of the pass.
EndWave ==
  /\ pc = "waves" /\ todo = {}
  /\ \/ /\ errs # {} \/ ~waveClear
        /\ pc' = "patch"
        /\ UNCHANGED <<pending, todo, waveClear, completed>>
     \/ /\ errs = {} /\ waveClear /\ pending = {}
        /\ completed' = TRUE
        /\ pc' = "patch"
        /\ UNCHANGED <<pending, todo, waveClear>>
     \/ /\ errs = {} /\ waveClear /\ pending # {}
        /\ todo' = TopWave(pending)
        /\ pending' = pending \ TopWave(pending)
        /\ waveClear' = TRUE
        /\ UNCHANGED <<pc, completed>>
  /\ UNCHANGED <<serverVars, caller, exclude, mem, targets, cur, removed, errs, faults>>

-----------------------------------------------------------------------------
(***************************************************************************)
(* The end of a pass.                                                      *)
(***************************************************************************)

\* Fault: only the removed entries are kept track of, the others lose theirs.
FilterOutDeleted_Shrink(list, deleted) == [o \in Objects \ deleted |-> list[o]]

\* filterOutDeletedManifests
FilterOutDeleted(list, deleted) ==
  [o \in Objects |-> IF o \in deleted THEN "none" ELSE list[o]]

\* Fault: a patch that fails is only logged.
PatchManifests_LogFailure ==
  /\ pc = "patch"
  /\ pc' = "result"
  /\ \/ /\ manifests' = FilterOutDeleted(mem, removed)
        /\ UNCHANGED faults
     \/ /\ FilterOutDeleted(mem, removed) # manifests
        /\ Fault
        /\ UNCHANGED manifests
  /\ UNCHANGED <<obj, deletionTimestamp, finalizer, paused, pausedStatus,
                 caller, exclude, mem, targets, pending, todo, cur, removed, waveClear,
                 errs, completed>>

\* The deferred patch of Status.ManifestsRendered.
PatchManifests ==
  /\ pc = "patch"
  /\ pc' = "result"
  /\ \/ /\ manifests' = FilterOutDeleted(mem, removed)
        /\ UNCHANGED <<errs, faults>>
     \/ /\ FilterOutDeleted(mem, removed) # manifests
        /\ Fault
        /\ errs' = errs \cup {"other"}
        /\ UNCHANGED manifests
  /\ UNCHANGED <<obj, deletionTimestamp, finalizer, paused, pausedStatus,
                 caller, exclude, mem, targets, pending, todo, cur, removed, waveClear,
                 completed>>

\* Fault: a timeout outside a reinstall is an error like any other.
PausesOn_ReinstallOnly(e) == caller = "reinstall" /\ e # {}

\* Only a reinstall pauses on errors that are not a timeout.
PausesOn(e) == "timeout" \in e \/ (caller = "reinstall" /\ e # {})

\* Fault: the finalizer goes as soon as a pass ends without an error.
HandleResult_AnyEnd ==
  /\ pc = "result"
  /\ pc' = CASE PausesOn(errs)                        -> "pause"
             [] errs = {} /\ caller = "finalizer"      -> "removeFinalizer"
             [] OTHER                                 -> "idle"
  /\ ForgetPass
  /\ UNCHANGED <<serverVars, faults>>

\* What the caller makes of the pass: pause, retry later, wait, or go on.
HandleResult ==
  /\ pc = "result"
  /\ pc' = CASE PausesOn(errs)                                          -> "pause"
             [] errs = {} /\ completed /\ caller = "finalizer"          -> "removeFinalizer"
             [] OTHER                                                   -> "idle"
  /\ ForgetPass
  /\ UNCHANGED <<serverVars, faults>>

\* ApplyPause: first the annotation, then the status.
ApplyPauseAnnotation ==
  /\ pc = "pause"
  /\ paused' = TRUE
  /\ pc' = "pauseStatus"
  /\ UNCHANGED <<obj, manifests, deletionTimestamp, finalizer, pausedStatus,
                 passVars, faults>>

ApplyPauseStatus ==
  /\ pc = "pauseStatus"
  /\ pausedStatus' = TRUE
  /\ pc' = "idle"
  /\ UNCHANGED <<obj, manifests, deletionTimestamp, finalizer, paused,
                 passVars, faults>>

\* The pause is gone: Reconcile clears Status.Paused and starts over.
ClearPausedStatus ==
  /\ pc = "idle" /\ ~paused /\ pausedStatus
  /\ pausedStatus' = FALSE
  /\ UNCHANGED <<obj, manifests, deletionTimestamp, finalizer, paused, pc,
                 passVars, faults>>

RemoveFinalizer ==
  /\ pc = "removeFinalizer"
  /\ finalizer' = FALSE
  /\ pc' = "idle"
  /\ UNCHANGED <<obj, manifests, deletionTimestamp, paused, pausedStatus,
                 passVars, faults>>

\* The operator crashes, or a call that ends the reconcile fails.
Crash ==
  /\ pc # "idle"
  /\ Fault
  /\ pc' = "idle"
  /\ ForgetPass
  /\ UNCHANGED serverVars

-----------------------------------------------------------------------------
(***************************************************************************)
(* The environment.                                                        *)
(***************************************************************************)

\* The last finalizer of an object that is being deleted is removed.
ObjectGone(o) ==
  /\ obj[o] \in {"terminating", "overdue"}
  /\ obj' = [obj EXCEPT ![o] = "absent"]
  /\ UNCHANGED <<manifests, deletionTimestamp, finalizer, paused, pausedStatus,
                 pc, passVars, faults>>

DeadlinePasses(o) ==
  /\ obj[o] = "terminating"
  /\ obj' = [obj EXCEPT ![o] = "overdue"]
  /\ UNCHANGED <<manifests, deletionTimestamp, finalizer, paused, pausedStatus,
                 pc, passVars, faults>>

\* Somebody else deletes an object.
ExternalDelete(o) ==
  /\ obj[o] = "live"
  /\ obj' = [obj EXCEPT ![o] = "terminating"]
  /\ UNCHANGED <<manifests, deletionTimestamp, finalizer, paused, pausedStatus,
                 pc, passVars, faults>>

UserDeletes ==
  /\ ~deletionTimestamp
  /\ deletionTimestamp' = TRUE
  /\ UNCHANGED <<obj, manifests, finalizer, paused, pausedStatus, pc, passVars,
                 faults>>

UserUnpauses ==
  /\ paused
  /\ paused' = FALSE
  /\ UNCHANGED <<obj, manifests, deletionTimestamp, finalizer, pausedStatus, pc,
                 passVars, faults>>

-----------------------------------------------------------------------------
ObjectStep(o) ==
  \/ SkipObject(o) \/ DropObject(o) \/ VerifyObject(o) \/ AwaitObject(o) \/ TimeOut(o)

\* The steps the operator takes unless it crashes or the API server refuses a call.
Operator ==
  \/ BeginFinalize \/ EndWave \/ InitiateDeletion \/ PatchManifests \/ HandleResult
  \/ ApplyPauseAnnotation \/ ApplyPauseStatus \/ ClearPausedStatus \/ RemoveFinalizer
  \/ \E o \in Objects : ObjectStep(o)

Environment ==
  \/ UserDeletes \/ UserUnpauses
  \/ \E o \in Objects : ObjectGone(o) \/ DeadlinePasses(o) \/ ExternalDelete(o)

Next ==
  \/ Operator
  \/ BeginPrune \/ BeginReinstall
  \/ \E o \in Objects : ObjectError(o)
  \/ Crash
  \/ Environment

Spec == Init /\ [][Next]_vars

(***************************************************************************)
(* The work queue keeps the operator going; the clock does not stop.       *)
(* Nothing obliges other controllers to finish, or the user to act.        *)
(***************************************************************************)
Fairness ==
  /\ WF_vars(Operator)
  /\ \A o \in Objects : WF_vars(DeadlinePasses(o))

FairSpec == Spec /\ Fairness

-----------------------------------------------------------------------------
(***************************************************************************)
(* Properties                                                              *)
(***************************************************************************)

\* Every owned object that exists has an entry in Status.ManifestsRendered, whatever
\* passes, failed patches and crashes came before: the list is all the operator knows,
\* so an object it loses is never deleted.
NoOrphans ==
  \A o \in Objects : Exists(o) /\ o \in Owned => manifests[o] # "none"

\* The operator's finalizer goes last: once it is removed no owned object exists.
FinalizerGoesLast ==
  ~finalizer => \A o \in Objects : Exists(o) => o \notin Owned

\* A pass that reports completion to its caller without an error has seen every owned
\* object it was asked to delete disappear, apart from the excluded ones.
CompletionMeansGone ==
  pc = "result" /\ completed /\ errs = {} =>
    \A o \in targets \ exclude : Exists(o) => o \notin Owned

\* DeleteObjects deletes the waves in descending order: it calls Delete on an object
\* only when the owned targets of every higher wave are gone.
WavesDescend ==
  [][\A o \in Objects : InitiateDeletion /\ o = cur =>
       \A p \in targets \ exclude :
         Wave[p] > Wave[o] /\ p \in Owned => obj[p] = "absent"]_vars

\* Objects that another owner has labelled are never deleted by the operator, and neither
\* are the objects the caller excluded: only other clients and controllers touch them.
OthersUntouched ==
  [][\A o \in Objects : obj'[o] # obj[o] /\ (o \notin Owned \/ (pc # "idle" /\ o \in exclude)) =>
       ObjectGone(o) \/ DeadlinePasses(o) \/ ExternalDelete(o)]_vars

\* The finalization of a deleted ClusterInstance ends or asks for help: the finalizer is
\* removed, or reconciliation is paused because an object outlives its deadline.
FinalizationEnds == deletionTimestamp ~> (~finalizer \/ paused)

Promise == INSTANCE Teardown WITH
  there <- {o \in Owned : Exists(o)},
  listed <- Listed(manifests),
  asked <- deletionTimestamp,
  released <- ~finalizer

\* The handler, its callers, the faults and the environment together implement Teardown:
\* every step leaves its state alone or is one of its steps.
ImplementsTeardown == Promise!Spec
=============================================================================
