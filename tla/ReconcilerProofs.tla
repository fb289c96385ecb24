-------------------------- MODULE ReconcilerProofs --------------------------
(***************************************************************************)
(* What holds of Reconcile for every set of objects, every sequence of     *)
(* revisions, every scenario and any number of faults.                     *)
(*                                                                         *)
(* The operator's copy of the ClusterInstance may be older than the one at *)
(* the API server, but not newer, and what it has rendered may be older    *)
(* than the copy; the steps of a reconcile pass on what they have made     *)
(* sure of: that the pruned objects are gone, that every object is listed  *)
(* before it is applied, that every one of them was applied.               *)
(***************************************************************************)
EXTENDS ClusterInstanceReconciler, TLAPS

\* The steps after the rendering, and those with a rendering and before it.
Rendering == {"prune", "suppress", "dryRun", "apply", "annotate", "observe"}
Working == Rendering \cup {"render"}

\* The generation counts the edits and the deletion.
GenerationInv == generation = IF deletionTimestamp THEN spec + 1 ELSE spec

\* The copy is of an earlier moment, not before the first read, and it is up to date if
\* nobody edits the spec during a reconcile.
CopyInv ==
  pc # "idle" =>
    /\ seen <= mem.spec /\ 1 <= mem.spec /\ mem.spec <= spec
    /\ mem.generation <= generation
    /\ ~scenario.midEdits => mem.spec = spec

\* So is the rendering.
PlanInv ==
  pc \in Rendering =>
    /\ plan \in Revisions
    /\ seen <= plan
    /\ ~scenario.midEdits => plan = spec

\* Every object of a rendering is listed before it is applied, and applied before the
\* reconcile goes on.
ApplyInv ==
  /\ pc = "apply" =>
       /\ todo \subseteq Render[plan]
       /\ \A o \in Render[plan] :
            /\ manifests[o] # "none"
            /\ o \in todo \/ o \in failed \/ applied[o] = plan
  /\ pc \in {"annotate", "observe"} => \A o \in Render[plan] : applied[o] = plan
  /\ pc = "observe" /\ ~scenario.midEdits => lastSpec = spec

\* Nothing is left of the objects that the operator has applied, in S.
Gone(S) == \A o \in S : applied[o] # NoRevision => ~Exists(o)

\* What was applied and exists is listed, whatever other finalizers there are.
ListedInv == \A o \in Objects : applied[o] # NoRevision /\ Exists(o) => manifests[o] # "none"

\* The pruned objects are gone before anything is applied, and all objects before the
\* finalizer is removed.
GoneInv ==
  /\ pc \in {"suppress", "dryRun", "apply"} => Gone(Prune[plan])
  /\ pc = "removeFinalizer" => Gone(Objects)

\* Without another finalizer: the operator works only on a ClusterInstance that has its
\* finalizer, and that therefore stays.
FinalizerInv ==
  ~scenario.otherFinalizer =>
    /\ ~otherFinalizer
    /\ deletionTimestamp /\ exists => finalizer
    /\ finalizer => exists
    /\ pc = "addFinalizer" => ~finalizer
    /\ pc \in {"velero", "restored", "validate"} /\ exists => finalizer
    /\ pc \in Working => finalizer

\* ... and a copy that decides about a restore is not one of a deleted ClusterInstance.
RestoreInv ==
  /\ restoring => scenario.restored
  /\ pc \in {"restored", "markHandled"} => restoring
  /\ ~scenario.otherFinalizer /\ pc \in {"velero", "restored"} /\ exists =>
       mem.generation = mem.spec

\* A restore that is handled, or about to be, counts as observed; so nothing is rendered.
RestoredInv ==
  scenario.restored /\ ~scenario.otherFinalizer /\ spec = 1 =>
    /\ ~restoring \/ pc = "markHandled" => observed = 1
    /\ pc = "validate" => ~exists
    /\ pc \notin Working

\* A generation that counts as observed was applied.
ObservedInv ==
  ~scenario.restored =>
    /\ observed <= generation
    /\ ~scenario.midEdits /\ observed = generation =>
         /\ \A o \in Render[spec] : applied[o] = spec
         /\ lastSpec = spec

IInv ==
  /\ TypeOK
  /\ GenerationInv /\ CopyInv /\ PlanInv
  /\ ApplyInv /\ ListedInv /\ GoneInv
  /\ FinalizerInv /\ Accounted
  /\ RestoreInv /\ RestoredInv /\ RestoredNotRerendered
  /\ ObservedInv

-----------------------------------------------------------------------------
(***************************************************************************)
(* The operators                                                           *)
(***************************************************************************)

\* What a patch is answered with.
Answer == [spec |-> spec, generation |-> generation]

\* The fault counter stays within its bound.
LEMMA FaultType == TypeOK /\ Fault => faults' \in 0..scenario.maxFaults
<1>1. TypeOK => scenario.maxFaults \in Nat
  BY ReconcilerAssumption DEF TypeOK, Scenario
<1>2. QED
  BY <1>1 DEF TypeOK, Fault

\* New entries are laid over the list.
LEMMA UpdateShape ==
  ASSUME TypeOK, NEW entries, \A o \in DOMAIN entries : entries[o] \in ManifestStatus,
         UpdateManifests(entries)
  PROVE  /\ manifests' \in [Objects -> ManifestStatus]
         /\ \A o \in Objects :
              manifests'[o] = IF o \in DOMAIN entries THEN entries[o] ELSE manifests[o]
  BY DEF UpdateManifests, TypeOK

\* A step with a patch of the list goes on, with its copy as it was or refreshed.
LEMMA PatchShape ==
  ASSUME TypeOK, NEW entries, NEW step, PatchManifests(entries, step)
  PROVE  /\ UpdateManifests(entries)
         /\ pc' = step /\ UNCHANGED <<queued, seen>>
         /\ mem' = mem \/ mem' = Answer
  BY DEF PatchManifests, GoOn, Refresh, Answer

\* A deletion pass makes no object appear or disappear, drops only entries of objects that
\* are gone, and goes on to the caller's next step only if all of its objects are.
LEMMA PassShape ==
  ASSUME TypeOK, NEW S \in SUBSET Objects, NEW step, DeletionPass(S, step)
  PROVE  /\ obj' \in [Objects -> ObjectState] /\ manifests' \in [Objects -> ManifestStatus]
         /\ \A o \in Objects : obj'[o] = "absent" <=> obj[o] = "absent"
         /\ \A o \in Objects : manifests'[o] = "none" =>
              manifests[o] = "none" \/ (o \in S /\ ~Exists(o))
         /\ faults' = faults
         /\ \/ /\ pc' = step \/ pc' = "pause"
               /\ pc' = step /\ step # "pause" => \A o \in S : ~Exists(o)
               /\ UNCHANGED <<obj, plan, todo, failed, queued, seen>>
               /\ mem' = mem \/ mem' = Answer
            \/ Return(TRUE)
<1> DEFINE remaining == {o \in S : Exists(o)}
           overdue == {o \in S : obj[o] = "overdue"}
<1>1. CASE /\ remaining = {}
           /\ PatchManifests([o \in S |-> "none"], step)
           /\ UNCHANGED <<obj, plan, todo, failed, faults>>
  <2> DEFINE e == [o \in S |-> "none"]
  <2>1. \A o \in DOMAIN e : e[o] \in ManifestStatus
    BY DEF ManifestStatus
  <2>2. UpdateManifests(e) /\ pc' = step /\ UNCHANGED <<queued, seen>>
        /\ (mem' = mem \/ mem' = Answer)
    BY <1>1, PatchShape
  <2>3. /\ manifests' \in [Objects -> ManifestStatus]
        /\ \A o \in Objects : manifests'[o] = IF o \in S THEN "none" ELSE manifests[o]
    BY <2>1, <2>2, UpdateShape
  <2>4. QED
    BY <1>1, <2>2, <2>3 DEF TypeOK
<1>2. CASE /\ overdue # {}
           /\ PatchManifests([o \in overdue |-> "deleting"], "pause")
           /\ UNCHANGED <<obj, plan, todo, failed, faults>>
  <2> DEFINE e == [o \in overdue |-> "deleting"]
  <2>1. \A o \in DOMAIN e : e[o] \in ManifestStatus
    BY DEF ManifestStatus
  <2>2. UpdateManifests(e) /\ pc' = "pause" /\ UNCHANGED <<queued, seen>>
        /\ (mem' = mem \/ mem' = Answer)
    BY <1>2, PatchShape
  <2>3. /\ manifests' \in [Objects -> ManifestStatus]
        /\ \A o \in Objects : manifests'[o] = IF o \in overdue THEN "deleting" ELSE manifests[o]
    BY <2>1, <2>2, UpdateShape
  <2>4. QED
    BY <1>2, <2>2, <2>3 DEF TypeOK
<1>3. ASSUME NEW W \in SUBSET (remaining \ overdue), NEW D \in SUBSET (S \ remaining),
             obj' = [o \in Objects |-> IF o \in W THEN "terminating" ELSE obj[o]],
             UpdateManifests([o \in W \cup D |-> IF o \in D THEN "none" ELSE "deleting"]),
             Return(TRUE), UNCHANGED faults
      PROVE  /\ obj' \in [Objects -> ObjectState] /\ manifests' \in [Objects -> ManifestStatus]
             /\ \A o \in Objects : obj'[o] = "absent" <=> obj[o] = "absent"
             /\ \A o \in Objects : manifests'[o] = "none" =>
                  manifests[o] = "none" \/ (o \in S /\ ~Exists(o))
             /\ faults' = faults
  <2> DEFINE e == [o \in W \cup D |-> IF o \in D THEN "none" ELSE "deleting"]
  <2>1. \A o \in DOMAIN e : e[o] \in ManifestStatus
    BY DEF ManifestStatus
  <2>2. /\ manifests' \in [Objects -> ManifestStatus]
        /\ \A o \in Objects : manifests'[o] =
             IF o \in W \cup D THEN (IF o \in D THEN "none" ELSE "deleting") ELSE manifests[o]
    BY <1>3, <2>1, UpdateShape
  <2>3. \A o \in Objects : obj'[o] = "absent" <=> obj[o] = "absent"
    BY <1>3 DEF TypeOK, Exists
  <2>4. obj' \in [Objects -> ObjectState]
    BY <1>3 DEF TypeOK, ObjectState
  <2>5. QED
    BY <1>3, <2>2, <2>3, <2>4
<1>4. QED
  BY <1>1, <1>2, <1>3 DEF DeletionPass

\* What every step of a reconcile but the first leaves alone, and what it makes of the copy.
LEMMA ReconcileShape ==
  ASSUME TypeOK, Reconcile, ~Start
  PROVE  /\ UNCHANGED <<scenario, spec, generation, deletionTimestamp, otherFinalizer>>
         /\ pc # "idle"
         /\ \/ pc' = "idle" /\ Return(TRUE)
            \/ pc' = "idle" /\ Return(FALSE)
            \/ seen' = seen /\ (mem' = mem \/ mem' = Answer)
<1>1. CASE Finalize \/ PruneManifests
  <2>1. PICK S \in SUBSET Objects, step \in {"removeFinalizer", "suppress"} :
          DeletionPass(S, step)
    <3>1. CASE Finalize
      <4>1. Listed \in SUBSET Objects
        BY DEF Listed
      <4>2. QED
        BY <3>1, <4>1 DEF Finalize
    <3>2. CASE PruneManifests
      <4>1. (Prune[plan] \cap Listed) \in SUBSET Objects
        BY DEF Listed
      <4>2. QED
        BY <3>2, <4>1 DEF PruneManifests
    <3>3. QED
      BY <1>1, <3>1, <3>2
  <2>2. \/ Return(TRUE)
        \/ UNCHANGED seen /\ (mem' = mem \/ mem' = Answer)
    BY <2>1, PassShape
  <2>3. QED
    BY <1>1, <2>2 DEF Finalize, PruneManifests, Return
<1>2. CASE UpdateSuppressed
  BY <1>2, PatchShape DEF UpdateSuppressed
<1>3. CASE ClearPaused \/ EnsureFinalizer \/ ApplyPauseStatus \/ AddRestoreStatusAnnotation
           \/ MarkHandled \/ UpdateObserved
  BY <1>3 DEF ClearPaused, EnsureFinalizer, ApplyPauseStatus, AddRestoreStatusAnnotation,
              MarkHandled, UpdateObserved, Return
<1>4. CASE RemoveFinalizer \/ ApplyPauseAnnotation \/ ObserveRestored \/ AnnotateSpec
  BY <1>4 DEF RemoveFinalizer, ApplyPauseAnnotation, ObserveRestored, AnnotateSpec, GoOn,
              Refresh, Answer
<1>5. CASE CheckObserved
  BY <1>5 DEF CheckObserved, ciVars, Return
<1>6. CASE Validate
  BY <1>6 DEF Validate, GoOn, Refresh, Answer, Return
<1>7. CASE RenderManifests
  BY <1>7 DEF RenderManifests, GoOn, Refresh, Answer, Return
<1>8. CASE ValidateRendered
  BY <1>8 DEF ValidateRendered, GoOn, Refresh, Answer, Return
<1>9. ASSUME NEW o \in Objects, ApplyObject(o)
      PROVE  /\ UNCHANGED <<scenario, spec, generation, deletionTimestamp, otherFinalizer>>
             /\ pc # "idle" /\ seen' = seen /\ mem' = mem
  BY <1>9 DEF ApplyObject, ciVars
<1>10. CASE ApplyStatus
  BY <1>10 DEF ApplyStatus, GoOn, Refresh, Answer, Return
<1>11. CASE Abort
  BY <1>11 DEF Abort, ciVars, Return
<1>12. QED
  BY <1>1, <1>2, <1>3, <1>4, <1>5, <1>6, <1>7, <1>8, <1>9, <1>10, <1>11 DEF Reconcile
-----------------------------------------------------------------------------
(***************************************************************************)
(* Type correctness                                                        *)
(***************************************************************************)

\* A copy, refreshed or dropped, is a copy.
LEMMA CopyTypes ==
  ASSUME TypeOK
  PROVE  /\ Answer \in [spec : 0..MaxRevision, generation : Generations]
         /\ NoCopy \in [spec : 0..MaxRevision, generation : Generations]
         /\ NoRevision \in 0..MaxRevision
  BY ReconcilerAssumption DEF TypeOK, Answer, NoCopy, NoRevision, Generations, Revisions

\* What Return leaves behind has its type.
LEMMA ReturnType ==
  ASSUME TypeOK, Return(TRUE) \/ Return(FALSE)
  PROVE  /\ queued' \in BOOLEAN /\ pc' = "idle"
         /\ mem' \in [spec : 0..MaxRevision, generation : Generations]
         /\ plan' \in 0..MaxRevision /\ todo' \in SUBSET Objects /\ failed' \in SUBSET Objects
         /\ seen' \in 0..MaxRevision
<1>1. queued' \in BOOLEAN
  BY DEF TypeOK, Return
<1>2. mem' \in [spec : 0..MaxRevision, generation : Generations]
      /\ plan' \in 0..MaxRevision /\ seen' \in 0..MaxRevision
  BY CopyTypes DEF Return
<1>3. QED
  BY <1>1, <1>2 DEF Return

\* A condition gets one of its two statuses.
LEMMA ConditionType ==
  ASSUME TypeOK, NEW t \in ConditionTypes, NEW ok, SetCondition(t, ok)
  PROVE  conds' \in [ConditionTypes -> {"unset", "Completed", "Failed"}]
  BY DEF TypeOK, SetCondition

\* The part of the type invariant about the operator, and about the rest.
OperatorType ==
  /\ queued \in BOOLEAN
  /\ pc \in {"idle", "clearPaused", "addFinalizer", "finalize", "removeFinalizer",
             "velero", "restored", "markHandled", "validate", "render", "prune",
             "suppress", "dryRun", "apply", "annotate", "observe", "pause",
             "pauseStatus"}
  /\ mem \in [spec : 0..MaxRevision, generation : Generations]
  /\ plan \in 0..MaxRevision
  /\ todo \in SUBSET Objects
  /\ failed \in SUBSET Objects
  /\ seen \in 0..MaxRevision

ServerType ==
  /\ scenario \in Scenarios
  /\ exists \in BOOLEAN
  /\ spec \in Revisions
  /\ generation \in Generations
  /\ observed \in Generations
  /\ deletionTimestamp \in BOOLEAN
  /\ finalizer \in BOOLEAN
  /\ otherFinalizer \in BOOLEAN
  /\ paused \in BOOLEAN
  /\ pausedStatus \in BOOLEAN
  /\ restoreStatus \in BOOLEAN
  /\ restoring \in BOOLEAN
  /\ lastSpec \in 0..MaxRevision
  /\ conds \in [ConditionTypes -> {"unset", "Completed", "Failed"}]
  /\ manifests \in [Objects -> ManifestStatus]
  /\ obj \in [Objects -> ObjectState]
  /\ faults \in 0..scenario.maxFaults
  /\ applied \in [Objects -> 0..MaxRevision]

\* A step of a reconcile preserves the types of the operator's state ...
LEMMA OperatorTypeStep ==
  ASSUME TypeOK, PlanInv, Reconcile
  PROVE  OperatorType'
<1> USE CopyTypes
<1>1. CASE Start
  <2>1. queued' \in BOOLEAN
    BY <1>1 DEF Start
  <2>2. HandleFinalizer \in {"addFinalizer", "finalize", "velero"}
    BY DEF HandleFinalizer
  <2>3. (pc' = pc \/ pc' \in {"clearPaused", "addFinalizer", "finalize", "velero"})
        /\ (mem' = mem \/ mem' = Answer) /\ (seen' = seen \/ seen' = spec)
        /\ UNCHANGED <<plan, todo, failed>>
    BY <1>1, <2>2 DEF Start, Refresh, Answer
  <2>4. QED
    BY <2>1, <2>3 DEF TypeOK, OperatorType, Revisions
<1>2. CASE Return(TRUE) \/ Return(FALSE)
  BY <1>2, ReturnType DEF OperatorType
<1>3. CASE /\ UNCHANGED <<queued, seen, todo, failed>>
           /\ mem' = mem \/ mem' = Answer
           /\ plan' = plan \/ plan' = mem.spec
           /\ pc' \in {"removeFinalizer", "velero", "restored", "markHandled", "validate",
                       "render", "prune", "suppress", "dryRun", "annotate", "observe", "pause"}
  BY <1>3 DEF TypeOK, OperatorType
<1>4. CASE Finalize \/ PruneManifests
  <2>1. PICK S \in SUBSET Objects, step \in {"removeFinalizer", "suppress"} :
          DeletionPass(S, step)
    BY <1>4 DEF Finalize, PruneManifests, Listed
  <2>2. QED
    BY <1>2, <1>3, <2>1, PassShape
<1>5. CASE UpdateSuppressed
  BY <1>3, <1>5, PatchShape DEF UpdateSuppressed
<1>6. CASE RemoveFinalizer \/ ObserveRestored \/ AnnotateSpec
  BY <1>3, <1>6 DEF RemoveFinalizer, ObserveRestored, AnnotateSpec, GoOn, Refresh, Answer
<1>7. CASE CheckObserved
  BY <1>2, <1>3, <1>7 DEF CheckObserved
<1>8. CASE Validate
  BY <1>2, <1>3, <1>8 DEF Validate, GoOn, Refresh, Answer
<1>9. CASE RenderManifests
  BY <1>2, <1>3, <1>9 DEF RenderManifests, GoOn, Refresh, Answer
<1>10. CASE ApplyStatus
  BY <1>2, <1>3, <1>10 DEF ApplyStatus, GoOn, Refresh, Answer
<1>11. CASE ClearPaused \/ EnsureFinalizer \/ ApplyPauseStatus \/ AddRestoreStatusAnnotation
            \/ MarkHandled \/ UpdateObserved \/ Abort
  BY <1>2, <1>11 DEF ClearPaused, EnsureFinalizer, ApplyPauseStatus,
                     AddRestoreStatusAnnotation, MarkHandled, UpdateObserved, Abort
<1>12. CASE ApplyPauseAnnotation
  <2>1. queued' \in BOOLEAN /\ pc' = "pauseStatus" /\ mem' = Answer
        /\ UNCHANGED <<plan, todo, failed, seen>>
    BY <1>12 DEF ApplyPauseAnnotation, Refresh, Answer
  <2>2. QED
    BY <2>1 DEF TypeOK, OperatorType
<1>13. CASE ValidateRendered
  <2>1. \/ Return(TRUE)
        \/ /\ UNCHANGED <<queued, seen, plan>> /\ mem' = Answer /\ pc' = "apply"
           /\ todo' = Render[plan] /\ failed' = {}
    BY <1>13 DEF ValidateRendered, GoOn, Refresh, Answer
  <2>2. Render[plan] \in SUBSET Objects
    BY <1>13, ReconcilerAssumption DEF ValidateRendered, PlanInv, Rendering
  <2>3. QED
    BY <1>2, <2>1, <2>2 DEF TypeOK, OperatorType
<1>14. ASSUME NEW o \in Objects, ApplyObject(o)
       PROVE  OperatorType'
  <2>1. UNCHANGED <<queued, pc, mem, plan, seen>> /\ todo' \in SUBSET Objects
        /\ failed' \in SUBSET Objects
    BY <1>14 DEF TypeOK, ApplyObject
  <2>2. QED
    BY <2>1 DEF TypeOK, OperatorType
<1>15. QED
  BY <1>1, <1>4, <1>5, <1>6, <1>7, <1>8, <1>9, <1>10, <1>11, <1>12, <1>13, <1>14 DEF Reconcile

\* ... and of the rest ...
LEMMA ServerTypeStep ==
  ASSUME TypeOK, PlanInv, Reconcile
  PROVE  ServerType'
<1>1. CASE UNCHANGED <<ciVars, obj, applied>> /\ (UNCHANGED faults \/ Fault)
  <2>1. scenario' = scenario /\ faults' \in 0..scenario.maxFaults
    BY <1>1, FaultType DEF TypeOK, ciVars
  <2>2. QED
    BY <1>1, <2>1 DEF TypeOK, ServerType, ciVars
<1>2. CASE Start \/ CheckObserved \/ Abort
  BY <1>1, <1>2 DEF Start, CheckObserved, Abort
<1>3. CASE ClearPaused \/ ApplyPauseStatus \/ ApplyPauseAnnotation
  <2>1. pausedStatus' \in BOOLEAN /\ paused' \in BOOLEAN
    BY <1>3 DEF TypeOK, ClearPaused, ApplyPauseStatus, ApplyPauseAnnotation
  <2>2. QED
    BY <1>3, <2>1 DEF TypeOK, ServerType, ClearPaused, ApplyPauseStatus, ApplyPauseAnnotation
<1>4. CASE EnsureFinalizer
  <2>1. finalizer' \in BOOLEAN
    BY <1>4 DEF TypeOK, EnsureFinalizer
  <2>2. QED
    BY <1>4, <2>1 DEF TypeOK, ServerType, EnsureFinalizer
<1>5. CASE RemoveFinalizer
  <2>1. finalizer' \in BOOLEAN /\ exists' \in BOOLEAN
    BY <1>5 DEF TypeOK, RemoveFinalizer
  <2>2. QED
    BY <1>5, <2>1 DEF TypeOK, ServerType, RemoveFinalizer
<1>6. CASE Finalize \/ PruneManifests
  <2>1. PICK S \in SUBSET Objects, step \in {"removeFinalizer", "suppress"} :
          DeletionPass(S, step)
    BY <1>6 DEF Finalize, PruneManifests, Listed
  <2>2. /\ obj' \in [Objects -> ObjectState] /\ manifests' \in [Objects -> ManifestStatus]
        /\ faults' = faults
    BY <2>1, PassShape
  <2>3. QED
    BY <1>6, <2>2 DEF TypeOK, ServerType, Finalize, PruneManifests
<1>7. CASE AddRestoreStatusAnnotation \/ MarkHandled
  <2>1. restoreStatus' \in BOOLEAN /\ restoring' \in BOOLEAN
    BY <1>7 DEF TypeOK, AddRestoreStatusAnnotation, MarkHandled
  <2>2. QED
    BY <1>7, <2>1 DEF TypeOK, ServerType, AddRestoreStatusAnnotation, MarkHandled
<1>8. CASE ObserveRestored \/ UpdateObserved
  <2>1. observed' \in Generations
    BY <1>8 DEF TypeOK, ObserveRestored, UpdateObserved
  <2>2. UNCHANGED <<scenario, exists, spec, generation, deletionTimestamp, finalizer,
                    otherFinalizer, paused, pausedStatus, restoreStatus, restoring, lastSpec,
                    conds, manifests, obj, faults, applied>>
    BY <1>8 DEF ObserveRestored, UpdateObserved
  <2>3. QED
    BY <2>1, <2>2 DEF TypeOK, ServerType
<1>9. CASE Validate
  <2>1. conds' \in [ConditionTypes -> {"unset", "Completed", "Failed"}]
    BY <1>9, ConditionType DEF Validate, ConditionTypes
  <2>2. QED
    BY <1>9, <2>1 DEF TypeOK, ServerType, Validate
<1>10. CASE RenderManifests
  <2>1. conds' \in [ConditionTypes -> {"unset", "Completed", "Failed"}]
    BY <1>10, ConditionType DEF RenderManifests, ConditionTypes
  <2>2. scenario' = scenario /\ faults' \in 0..scenario.maxFaults
    BY <1>10, FaultType DEF TypeOK, RenderManifests
  <2>3. QED
    BY <1>10, <2>1, <2>2 DEF TypeOK, ServerType, RenderManifests
<1>11. CASE UpdateSuppressed
  <2>1. \A o \in DOMAIN [x \in Suppress[plan] |-> "suppressed"] :
          [x \in Suppress[plan] |-> "suppressed"][o] \in ManifestStatus
    BY DEF ManifestStatus
  <2>2. manifests' \in [Objects -> ManifestStatus]
    BY <1>11, <2>1, UpdateShape, PatchShape DEF UpdateSuppressed
  <2>3. QED
    BY <1>11, <2>2 DEF TypeOK, ServerType, UpdateSuppressed
<1>12. CASE ValidateRendered
  <2>1. manifests' \in [Objects -> ManifestStatus]
    BY <1>12 DEF ValidateRendered, UpdateManifests, ManifestStatus, TypeOK
  <2>2. conds' \in [ConditionTypes -> {"unset", "Completed", "Failed"}]
    BY <1>12, ConditionType DEF ValidateRendered, ConditionTypes
  <2>3. scenario' = scenario /\ faults' \in 0..scenario.maxFaults
    BY <1>12, FaultType DEF TypeOK, ValidateRendered
  <2>4. QED
    BY <1>12, <2>1, <2>2, <2>3 DEF TypeOK, ServerType, ValidateRendered
<1>13. ASSUME NEW o \in Objects, ApplyObject(o)
       PROVE  ServerType'
  <2>1. obj' \in [Objects -> ObjectState] /\ applied' \in [Objects -> 0..MaxRevision]
    BY <1>13 DEF TypeOK, ApplyObject, ObjectState
  <2>2. scenario' = scenario /\ faults' \in 0..scenario.maxFaults
    BY <1>13, FaultType DEF TypeOK, ApplyObject, ciVars
  <2>3. QED
    BY <1>13, <2>1, <2>2 DEF TypeOK, ServerType, ApplyObject, ciVars
<1>14. CASE ApplyStatus
  <2>1. manifests' \in [Objects -> ManifestStatus]
    BY <1>14 DEF ApplyStatus, UpdateManifests, ManifestStatus, TypeOK
  <2>2. conds' \in [ConditionTypes -> {"unset", "Completed", "Failed"}]
    BY <1>14, ConditionType DEF ApplyStatus, ConditionTypes
  <2>3. QED
    BY <1>14, <2>1, <2>2 DEF TypeOK, ServerType, ApplyStatus
<1>15. CASE AnnotateSpec
  <2>1. lastSpec' \in 0..MaxRevision
    BY <1>15 DEF TypeOK, AnnotateSpec
  <2>2. QED
    BY <1>15, <2>1 DEF TypeOK, ServerType, AnnotateSpec
<1>16. QED
  BY <1>2, <1>3, <1>4, <1>5, <1>6, <1>7, <1>8, <1>9, <1>10, <1>11, <1>12, <1>13, <1>14,
     <1>15 DEF Reconcile

\* ... and so does every step.
LEMMA TypeStep ==
  ASSUME TypeOK, GenerationInv, PlanInv, [Next]_vars
  PROVE  TypeOK'
<1>1. CASE Reconcile
  BY <1>1, OperatorTypeStep, ServerTypeStep DEF OperatorType, ServerType, TypeOK
<1>2. CASE UserEdits
  <2>1. spec' \in Revisions /\ generation' \in Generations
    BY <1>2, ReconcilerAssumption DEF UserEdits, TypeOK, GenerationInv, Revisions, Generations
  <2>2. queued' \in BOOLEAN
    BY <1>2 DEF UserEdits
  <2>3. QED
    BY <1>2, <2>1, <2>2 DEF UserEdits, TypeOK
<1>3. CASE UserDeletes
  <2>1. generation' \in Generations
    BY <1>3, ReconcilerAssumption DEF UserDeletes, TypeOK, GenerationInv, Revisions, Generations
  <2>2. exists' \in BOOLEAN /\ deletionTimestamp' \in BOOLEAN /\ queued' \in BOOLEAN
    BY <1>3 DEF UserDeletes, TypeOK
  <2>3. QED
    BY <1>3, <2>1, <2>2 DEF UserDeletes, TypeOK
<1>4. CASE UserUnpauses
  <2>1. paused' \in BOOLEAN /\ queued' \in BOOLEAN
    BY <1>4 DEF UserUnpauses
  <2>2. QED
    BY <1>4, <2>1 DEF UserUnpauses, TypeOK
<1>5. CASE OtherFinalizerRemoved
  <2>1. exists' \in BOOLEAN /\ otherFinalizer' \in BOOLEAN
    BY <1>5 DEF OtherFinalizerRemoved, TypeOK
  <2>2. QED
    BY <1>5, <2>1 DEF OtherFinalizerRemoved, TypeOK, opVars
<1>6. ASSUME NEW o \in Objects, ObjectGone(o) \/ DeadlinePasses(o) \/ ExternalDelete(o)
      PROVE  TypeOK'
  <2>1. obj' \in [Objects -> ObjectState]
    BY <1>6 DEF ObjectGone, DeadlinePasses, ExternalDelete, ObjectMoves, TypeOK, ObjectState
  <2>2. UNCHANGED <<ciVars, opVars, applied>>
    BY <1>6 DEF ObjectGone, DeadlinePasses, ExternalDelete, ObjectMoves
  <2>3. QED
    BY <2>1, <2>2 DEF TypeOK, ciVars, opVars
<1>7. CASE UNCHANGED vars
  BY <1>7 DEF TypeOK, vars, ciVars, opVars
<1>8. QED
  BY <1>1, <1>2, <1>3, <1>4, <1>5, <1>6, <1>7 DEF Next, Environment

-----------------------------------------------------------------------------
(***************************************************************************)
(* The age of the copy and of the rendering                                *)
(***************************************************************************)

\* A rendering is that of the copy at the time, and stays until the reconcile returns.
LEMMA RenderingShape ==
  ASSUME TypeOK, Reconcile, pc' \in Rendering
  PROVE  \/ pc \in Rendering /\ plan' = plan
         \/ pc = "render" /\ plan' = mem.spec
<1>1. pc' # "idle" /\ ~Return(TRUE) /\ ~Return(FALSE)
  BY DEF Rendering, Return
<1>2. CASE Start
  <2>1. HandleFinalizer \in {"addFinalizer", "finalize", "velero"}
    BY DEF HandleFinalizer
  <2>2. QED
    BY <1>1, <1>2, <2>1 DEF Start, Rendering
<1>3. CASE Finalize \/ PruneManifests
  <2>1. CASE Finalize
    <3>1. DeletionPass(Listed, "removeFinalizer") /\ Listed \in SUBSET Objects
      BY <2>1 DEF Finalize, Listed
    <3>2. pc' \in {"removeFinalizer", "pause"}
      BY <1>1, <3>1, PassShape
    <3>3. QED
      BY <3>2 DEF Rendering
  <2>2. CASE PruneManifests
    <3>1. DeletionPass(Prune[plan] \cap Listed, "suppress")
          /\ Prune[plan] \cap Listed \in SUBSET Objects
      BY <2>2 DEF PruneManifests, Listed
    <3>2. plan' = plan
      BY <1>1, <3>1, PassShape
    <3>3. QED
      BY <2>2, <3>2 DEF PruneManifests, Rendering
  <2>3. QED
    BY <1>3, <2>1, <2>2
<1>4. CASE \E o \in Objects : ApplyObject(o)
  BY <1>4 DEF ApplyObject, Rendering
<1>5. CASE RemoveFinalizer \/ ApplyPauseAnnotation \/ CheckObserved \/ ObserveRestored \/ Validate
  BY <1>1, <1>5 DEF RemoveFinalizer, ApplyPauseAnnotation, CheckObserved, ObserveRestored,
                    Validate, GoOn, Rendering
<1>6. CASE UpdateSuppressed
  BY <1>6 DEF UpdateSuppressed, Rendering
<1>7. CASE RenderManifests
  BY <1>1, <1>7 DEF RenderManifests
<1>8. CASE ValidateRendered \/ ApplyStatus \/ AnnotateSpec
  BY <1>1, <1>8 DEF ValidateRendered, ApplyStatus, AnnotateSpec, Rendering
<1>9. QED
  BY <1>1, <1>2, <1>3, <1>4, <1>5, <1>6, <1>7, <1>8
     DEF Reconcile, ClearPaused, EnsureFinalizer, ApplyPauseStatus, AddRestoreStatusAnnotation,
         MarkHandled, UpdateObserved, Abort

\* The copy and the rendering do not run ahead of the server, nor fall behind the first read.
LEMMA CopyStep ==
  ASSUME TypeOK, GenerationInv, CopyInv, PlanInv, [Next]_vars
  PROVE  GenerationInv' /\ CopyInv' /\ PlanInv'
<1> USE DEF GenerationInv, CopyInv, PlanInv
<1>1. CASE Reconcile /\ ~Start
  <2>1. /\ UNCHANGED <<scenario, spec, generation, deletionTimestamp>> /\ pc # "idle"
        /\ pc' # "idle" => seen' = seen /\ (mem' = mem \/ mem' = Answer)
    BY <1>1, ReconcileShape
  <2>2. GenerationInv'
    BY <2>1
  <2>3. CopyInv'
    BY <2>1 DEF TypeOK, Answer, Revisions, Generations
  <2>4. PlanInv'
    <3>1. SUFFICES ASSUME pc' \in Rendering
                   PROVE  plan' \in Revisions /\ seen' <= plan'
                          /\ (~scenario'.midEdits => plan' = spec')
      OBVIOUS
    <3>2. seen' = seen
      BY <2>1, <3>1 DEF Rendering
    <3>3. \/ pc \in Rendering /\ plan' = plan
          \/ pc = "render" /\ plan' = mem.spec
      BY <1>1, <3>1, RenderingShape
    <3>4. QED
      BY <2>1, <3>2, <3>3 DEF TypeOK, Revisions
  <2>5. QED
    BY <2>2, <2>3, <2>4
<1>2. CASE Start
  <2>1. UNCHANGED <<scenario, spec, generation, deletionTimestamp, plan>>
    BY <1>2 DEF Start, ciVars
  <2>2. \/ UNCHANGED <<pc, mem, seen>>
        \/ mem' = Answer /\ seen' = spec
    BY <1>2 DEF Start, Refresh, Answer
  <2>3. CopyInv'
    BY <2>1, <2>2 DEF TypeOK, Answer, Revisions, Generations
  <2>4. pc' \notin Rendering
    BY <1>2 DEF Start, HandleFinalizer, Rendering
  <2>5. QED
    BY <2>1, <2>3, <2>4
<1>3. CASE UserEdits \/ UserDeletes
  <2>1. UNCHANGED <<scenario, pc, mem, plan, seen>>
    BY <1>3 DEF UserEdits, UserDeletes
  <2>2. GenerationInv' /\ (spec' = spec \/ scenario.midEdits \/ pc = "idle")
    BY <1>3 DEF UserEdits, UserDeletes, TypeOK, Revisions, Generations
  <2>3. spec \in Nat /\ spec' \in Nat /\ generation \in Nat /\ generation' \in Nat
        /\ mem.spec \in Nat /\ mem.generation \in Nat
    BY <1>3 DEF UserEdits, UserDeletes, TypeOK, Revisions, Generations
  <2>4. CopyInv'
    <3>1. SUFFICES ASSUME pc # "idle"
                   PROVE  /\ mem.spec <= spec' /\ mem.generation <= generation'
                          /\ ~scenario.midEdits => mem.spec = spec'
      BY <2>1
    <3>2. mem.spec <= spec /\ mem.generation <= generation
          /\ (scenario.midEdits \/ mem.spec = spec)
      BY <3>1
    <3>3. spec <= spec' /\ generation <= generation'
      BY <1>3 DEF UserEdits, UserDeletes, TypeOK, Revisions, Generations
    <3>4. mem.spec <= spec' /\ mem.generation <= generation'
      <4>1. \A a, b, c \in Nat : a <= b /\ b <= c => a <= c
        OBVIOUS
      <4>2. QED
        BY ONLY <2>3, <3>2, <3>3, <4>1
    <3>5. QED
      BY <2>2, <3>1, <3>2, <3>4
  <2>5. PlanInv'
    BY <2>1, <2>2 DEF Rendering
  <2>6. QED
    BY <2>2, <2>4, <2>5
<1>4. CASE UNCHANGED <<scenario, spec, generation, deletionTimestamp, pc, mem, plan, seen>>
  BY <1>4
<1>5. CASE UserUnpauses \/ OtherFinalizerRemoved
  BY <1>4, <1>5 DEF UserUnpauses, OtherFinalizerRemoved, opVars
<1>6. CASE \E o \in Objects : ObjectGone(o) \/ DeadlinePasses(o) \/ ExternalDelete(o)
  BY <1>4, <1>6 DEF ObjectGone, DeadlinePasses, ExternalDelete, ObjectMoves, ciVars, opVars
<1>7. CASE UNCHANGED vars
  BY <1>4, <1>7 DEF vars, ciVars, opVars
<1>8. QED
  BY <1>1, <1>2, <1>3, <1>5, <1>6, <1>7 DEF Next, Environment

-----------------------------------------------------------------------------
(***************************************************************************)
(* What the steps of a reconcile have made sure of                         *)
(***************************************************************************)

\* The steps that touch neither the objects nor the list, nor lead to a step that relies
\* on them.
Quiet ==
  \/ Start \/ ClearPaused \/ EnsureFinalizer \/ RemoveFinalizer
  \/ ApplyPauseAnnotation \/ ApplyPauseStatus \/ AddRestoreStatusAnnotation
  \/ CheckObserved \/ ObserveRestored \/ MarkHandled \/ Validate \/ RenderManifests
  \/ UpdateObserved \/ Abort

Relying == {"suppress", "dryRun", "apply", "annotate", "observe", "removeFinalizer"}

\* ... as their definitions show.
LEMMA QuietShape ==
  ASSUME TypeOK, Quiet
  PROVE  UNCHANGED <<obj, manifests, applied>> /\ pc' \notin Relying
<1> USE DEF Relying
<1>1. CASE Start
  <2>1. pc' = "idle" \/ pc' \in {"clearPaused", "addFinalizer", "finalize", "velero"}
    BY <1>1 DEF Start, HandleFinalizer
  <2>2. QED
    BY <1>1, <2>1 DEF Start, ciVars
<1>2. CASE ClearPaused \/ EnsureFinalizer \/ ApplyPauseStatus \/ AddRestoreStatusAnnotation
           \/ MarkHandled \/ UpdateObserved \/ Abort
  BY <1>2 DEF ClearPaused, EnsureFinalizer, ApplyPauseStatus, AddRestoreStatusAnnotation,
              MarkHandled, UpdateObserved, Abort, Return, ciVars
<1>3. CASE RemoveFinalizer \/ ApplyPauseAnnotation \/ ObserveRestored \/ CheckObserved
  BY <1>3 DEF RemoveFinalizer, ApplyPauseAnnotation, ObserveRestored, CheckObserved, GoOn,
              Return, ciVars
<1>4. CASE Validate \/ RenderManifests
  BY <1>4 DEF Validate, RenderManifests, GoOn, Return
<1>5. QED
  BY <1>1, <1>2, <1>3, <1>4 DEF Quiet

\* An object that moves was there before.
LEMMA MoveShape ==
  ASSUME TypeOK, NEW o \in Objects, ObjectGone(o) \/ DeadlinePasses(o) \/ ExternalDelete(o)
  PROVE  /\ UNCHANGED <<ciVars, opVars, applied>>
         /\ \A x \in Objects : obj'[x] # "absent" => obj[x] # "absent"
  BY DEF ObjectGone, DeadlinePasses, ExternalDelete, ObjectMoves, TypeOK

\* What has been applied and exists is listed: entries are dropped only for objects that
\* are gone, and an object is applied only when it is listed.
LEMMA ListedStep ==
  ASSUME TypeOK, PlanInv, ApplyInv, ListedInv, [Next]_vars
  PROVE  ListedInv'
<1> USE DEF ListedInv, Exists
<1>1. CASE UNCHANGED <<obj, manifests, applied>>
  BY <1>1
<1>2. CASE Quiet
  BY <1>1, <1>2, QuietShape
<1>3. CASE Finalize \/ PruneManifests
  <2>1. PICK S \in SUBSET Objects, step \in {"removeFinalizer", "suppress"} :
          DeletionPass(S, step)
    BY <1>3 DEF Finalize, PruneManifests, Listed
  <2>2. applied' = applied
    BY <1>3 DEF Finalize, PruneManifests
  <2>3. /\ \A o \in Objects : obj'[o] = "absent" <=> obj[o] = "absent"
        /\ \A o \in Objects : manifests'[o] = "none" =>
             manifests[o] = "none" \/ (o \in S /\ ~Exists(o))
    BY <2>1, PassShape
  <2>4. QED
    BY <2>2, <2>3
<1>4. CASE UNCHANGED <<obj, applied>>
           /\ \A o \in Objects : manifests'[o] = "none" => manifests[o] = "none"
  BY <1>4
<1>5. CASE UpdateSuppressed \/ ValidateRendered \/ ApplyStatus
  <2>1. \A o \in Objects : manifests'[o] = "none" => manifests[o] = "none"
    <3>1. CASE UpdateSuppressed
      BY <3>1, PatchShape DEF UpdateSuppressed, UpdateManifests
    <3>2. CASE ValidateRendered
      BY <3>2 DEF ValidateRendered, UpdateManifests
    <3>3. CASE ApplyStatus
      BY <3>3 DEF ApplyStatus, UpdateManifests
    <3>4. QED
      BY <1>5, <3>1, <3>2, <3>3
  <2>2. QED
    BY <1>4, <1>5, <2>1 DEF UpdateSuppressed, ValidateRendered, ApplyStatus
<1>6. ASSUME NEW o \in Objects, ApplyObject(o)
      PROVE  ListedInv'
  <2>1. manifests' = manifests /\ manifests[o] # "none"
    BY <1>6 DEF ApplyObject, ApplyInv, ciVars
  <2>2. \A x \in Objects : x # o => obj'[x] = obj[x] /\ applied'[x] = applied[x]
    BY <1>6 DEF ApplyObject, TypeOK
  <2>3. QED
    BY <2>1, <2>2
<1>7. CASE AnnotateSpec \/ UserEdits \/ UserDeletes \/ UserUnpauses \/ OtherFinalizerRemoved
  BY <1>1, <1>7 DEF AnnotateSpec, UserEdits, UserDeletes, UserUnpauses, OtherFinalizerRemoved
<1>8. ASSUME NEW o \in Objects, ObjectGone(o) \/ DeadlinePasses(o) \/ ExternalDelete(o)
      PROVE  ListedInv'
  BY <1>8, MoveShape DEF ciVars
<1>9. CASE UNCHANGED vars
  BY <1>1, <1>9 DEF vars, ciVars
<1> HIDE DEF ListedInv, Exists
<1>10. QED
  BY <1>2, <1>3, <1>5, <1>6, <1>7, <1>8, <1>9 DEF Next, Reconcile, Environment, Quiet

\* A pass that goes on leaves nothing applied behind among the objects it is for: those
\* without an entry are gone already.
LEMMA PassLeavesNothing ==
  ASSUME TypeOK, ListedInv, NEW S \in SUBSET Objects, NEW step \in {"suppress", "removeFinalizer"},
         DeletionPass(S \cap Listed, step), pc' = step
  PROVE  Gone(S) /\ UNCHANGED <<obj, plan>>
<1>1. S \cap Listed \in SUBSET Objects
  OBVIOUS
<1>2. \A o \in S \cap Listed : ~Exists(o)
  BY <1>1, PassShape DEF Return
<1>3. Gone(S)
  BY <1>2 DEF Gone, ListedInv, Listed
<1>4. UNCHANGED <<obj, plan>>
  BY <1>1, PassShape DEF Return
<1>5. QED
  BY <1>3, <1>4

\* The pruned objects stay gone while the others are applied.
LEMMA GoneStep ==
  ASSUME TypeOK, PlanInv, ApplyInv, ListedInv, GoneInv, [Next]_vars
  PROVE  GoneInv'
<1> USE DEF GoneInv, Gone, Exists
<1>1. CASE UNCHANGED <<pc, plan, applied>>
           /\ \A o \in Objects : obj'[o] # "absent" => obj[o] # "absent"
  <2>1. pc \in {"suppress", "dryRun", "apply"} => Prune[plan] \subseteq Objects
    BY ReconcilerAssumption DEF PlanInv, Rendering
  <2>2. QED
    BY <1>1, <2>1
<1>2. CASE Quiet
  BY <1>2, QuietShape DEF Relying
<1>3. CASE Finalize
  <2>1. CASE pc' = "removeFinalizer"
    <3>1. DeletionPass(Objects \cap Listed, "removeFinalizer")
      <4>1. Listed = Objects \cap Listed
        BY DEF Listed
      <4>2. QED
        BY <1>3, <4>1 DEF Finalize
    <3>2. Gone(Objects) /\ UNCHANGED obj
      BY <2>1, <3>1, PassLeavesNothing
    <3>3. applied' = applied
      BY <1>3 DEF Finalize
    <3>4. QED
      BY <2>1, <3>2, <3>3
  <2>2. CASE pc' # "removeFinalizer"
    <3>1. Listed \in SUBSET Objects
      BY DEF Listed
    <3>2. pc' \in {"pause", "idle"}
      BY <1>3, <2>2, <3>1, PassShape DEF Finalize, Return
    <3>3. QED
      BY <3>2
  <2>3. QED
    BY <2>1, <2>2
<1>4. CASE PruneManifests
  <2>1. /\ Prune[plan] \in SUBSET Objects
        /\ DeletionPass(Prune[plan] \cap Listed, "suppress") /\ applied' = applied
    BY <1>4, ReconcilerAssumption DEF PruneManifests, PlanInv, Rendering
  <2>2. CASE pc' = "suppress"
    <3>1. Gone(Prune[plan]) /\ UNCHANGED <<obj, plan>>
      BY <2>1, <2>2, PassLeavesNothing
    <3>2. QED
      BY <2>1, <2>2, <3>1
  <2>3. CASE pc' # "suppress"
    <3>1. Prune[plan] \cap Listed \in SUBSET Objects
      BY DEF Listed
    <3>2. pc' \in {"pause", "idle"}
      BY <2>1, <2>3, <3>1, PassShape DEF Return
    <3>3. QED
      BY <3>2
  <2>4. QED
    BY <2>2, <2>3
<1>5. CASE UpdateSuppressed
  <2>1. pc' = "dryRun" /\ pc = "suppress" /\ UNCHANGED <<obj, plan, applied>>
    BY <1>5, PatchShape DEF UpdateSuppressed
  <2>2. QED
    BY <2>1
<1>6. CASE ValidateRendered
  <2>1. pc' = "idle" \/ (pc' = "apply" /\ plan' = plan)
    BY <1>6 DEF ValidateRendered, GoOn, Return
  <2>2. pc = "dryRun" /\ UNCHANGED <<obj, applied>>
    BY <1>6 DEF ValidateRendered
  <2>3. QED
    BY <2>1, <2>2
<1>7. ASSUME NEW o \in Objects, ApplyObject(o)
      PROVE  GoneInv'
  <2>1. pc = "apply" /\ UNCHANGED <<pc, plan>> /\ plan \in Revisions /\ o \in Render[plan]
    BY <1>7 DEF ApplyObject, PlanInv, ApplyInv, Rendering
  <2>2. o \notin Prune[plan] /\ Prune[plan] \subseteq Objects
    BY <2>1, ReconcilerAssumption
  <2>3. \A x \in Objects : x # o => obj'[x] = obj[x] /\ applied'[x] = applied[x]
    BY <1>7 DEF ApplyObject, TypeOK
  <2>4. QED
    BY <2>1, <2>2, <2>3
<1>8. CASE ApplyStatus \/ AnnotateSpec
  BY <1>8 DEF ApplyStatus, AnnotateSpec, GoOn, Return
<1>9. CASE UserEdits \/ UserDeletes \/ UserUnpauses \/ OtherFinalizerRemoved
  BY <1>1, <1>9 DEF UserEdits, UserDeletes, UserUnpauses, OtherFinalizerRemoved, opVars
<1>10. ASSUME NEW o \in Objects, ObjectGone(o) \/ DeadlinePasses(o) \/ ExternalDelete(o)
       PROVE  GoneInv'
  BY <1>1, <1>10, MoveShape DEF opVars
<1>11. CASE UNCHANGED vars
  BY <1>1, <1>11 DEF vars, opVars
<1> HIDE DEF GoneInv, Gone, Exists
<1>12. QED
  BY <1>2, <1>3, <1>4, <1>5, <1>6, <1>7, <1>8, <1>9, <1>10, <1>11
     DEF Next, Reconcile, Environment, Quiet

\* Every object of the rendering is listed and is still to be applied, has failed, or was
\* applied; the reconcile goes on only if none has failed.
LEMMA ApplyStep ==
  ASSUME TypeOK, CopyInv, PlanInv, ApplyInv, [Next]_vars
  PROVE  ApplyInv'
<1> USE DEF ApplyInv
<1>1. CASE UNCHANGED <<scenario, pc, plan, todo, failed, manifests, applied, lastSpec>>
           /\ (UNCHANGED spec \/ scenario.midEdits \/ pc = "idle")
  BY <1>1
<1>2. CASE Quiet
  BY <1>2, QuietShape DEF Relying
<1>3. CASE Finalize \/ PruneManifests
  <2>1. PICK S \in SUBSET Objects, step \in {"removeFinalizer", "suppress"} :
          DeletionPass(S, step)
    BY <1>3 DEF Finalize, PruneManifests, Listed
  <2>2. pc' \in {"removeFinalizer", "suppress", "pause", "idle"}
    BY <2>1, PassShape DEF Return
  <2>3. QED
    BY <2>2
<1>4. CASE UpdateSuppressed
  <2>1. pc' = "dryRun"
    BY <1>4, PatchShape DEF UpdateSuppressed
  <2>2. QED
    BY <2>1
<1>5. CASE ValidateRendered
  <2>1. pc = "dryRun" /\ plan \in Revisions /\ Render[plan] \subseteq Objects
    BY <1>5, ReconcilerAssumption DEF ValidateRendered, PlanInv, Rendering
  <2>2. CASE pc' = "idle"
    BY <2>2
  <2>3. CASE pc' # "idle"
    <3>1. pc' = "apply" /\ plan' = plan /\ todo' = Render[plan]
      BY <1>5, <2>3 DEF ValidateRendered, GoOn, Return
    <3>2. \A o \in Render[plan] : manifests'[o] = "validated"
      BY <1>5, <2>1, <2>3 DEF ValidateRendered, Return, UpdateManifests
    <3>3. QED
      BY <3>1, <3>2
  <2>4. QED
    BY <2>2, <2>3
<1>6. ASSUME NEW o \in Objects, ApplyObject(o)
      PROVE  ApplyInv'
  <2>1. /\ pc = "apply" /\ pc' = pc /\ UNCHANGED <<plan, manifests>> /\ todo' = todo \ {o}
        /\ failed \subseteq failed' /\ (o \in failed' \/ applied'[o] = plan)
        /\ \A x \in Objects : x # o => applied'[x] = applied[x]
    BY <1>6 DEF ApplyObject, TypeOK, ciVars
  <2>2. Render[plan] \subseteq Objects
    BY <2>1, ReconcilerAssumption DEF PlanInv, Rendering
  <2>3. QED
    BY <2>1, <2>2
<1>7. CASE ApplyStatus
  <2>1. CASE failed = {}
    <3>1. pc' = "annotate" /\ UNCHANGED <<plan, applied>>
      BY <1>7, <2>1 DEF ApplyStatus, GoOn
    <3>2. \A o \in Render[plan] : applied[o] = plan
      BY <1>7, <2>1 DEF ApplyStatus
    <3>3. QED
      BY <3>1, <3>2
  <2>2. CASE failed # {}
    BY <1>7, <2>2 DEF ApplyStatus, Return
  <2>3. QED
    BY <2>1, <2>2
<1>8. CASE AnnotateSpec
  <2>1. /\ pc = "annotate" /\ pc' = "observe" /\ lastSpec' = mem.spec
        /\ UNCHANGED <<scenario, spec, plan, applied>>
    BY <1>8 DEF AnnotateSpec, GoOn
  <2>2. QED
    BY <2>1 DEF CopyInv
<1>9. CASE UserEdits \/ UserDeletes \/ UserUnpauses \/ OtherFinalizerRemoved
  BY <1>1, <1>9 DEF UserEdits, UserDeletes, UserUnpauses, OtherFinalizerRemoved, opVars
<1>10. ASSUME NEW o \in Objects, ObjectGone(o) \/ DeadlinePasses(o) \/ ExternalDelete(o)
       PROVE  ApplyInv'
  BY <1>1, <1>10, MoveShape DEF ciVars, opVars
<1>11. CASE UNCHANGED vars
  BY <1>1, <1>11 DEF vars, ciVars, opVars
<1> HIDE DEF ApplyInv
<1>12. QED
  BY <1>2, <1>3, <1>4, <1>5, <1>6, <1>7, <1>8, <1>9, <1>10, <1>11
     DEF Next, Reconcile, Environment, Quiet

-----------------------------------------------------------------------------
(***************************************************************************)
(* The finalizer, and the restore                                          *)
(***************************************************************************)

\* Where the steps of a reconcile come from.
LEMMA OriginShape ==
  ASSUME TypeOK, Reconcile, ~Start
  PROVE  /\ pc' # "addFinalizer"
         /\ pc' \in Working => pc \in Working \/ (pc = "validate" /\ exists)
         /\ pc' = "velero" => RemoveFinalizer
         /\ pc' \in {"restored", "validate"} => CheckObserved
         /\ pc' = "markHandled" => ObserveRestored
<1> USE DEF Working, Rendering
<1>1. CASE ClearPaused \/ EnsureFinalizer \/ ApplyPauseStatus \/ AddRestoreStatusAnnotation
           \/ MarkHandled \/ UpdateObserved \/ Abort
  BY <1>1 DEF ClearPaused, EnsureFinalizer, ApplyPauseStatus, AddRestoreStatusAnnotation,
              MarkHandled, UpdateObserved, Abort, Return
<1>2. CASE Finalize
  <2>1. Listed \in SUBSET Objects
    BY DEF Listed
  <2>2. pc' \in {"removeFinalizer", "pause", "idle"}
    BY <1>2, <2>1, PassShape DEF Finalize, Return
  <2>3. QED
    BY <2>2
<1>3. CASE PruneManifests
  <2>1. Prune[plan] \cap Listed \in SUBSET Objects
    BY DEF Listed
  <2>2. pc' \in {"suppress", "pause", "idle"} /\ pc = "prune"
    BY <1>3, <2>1, PassShape DEF PruneManifests, Return
  <2>3. QED
    BY <2>2
<1>4. CASE RemoveFinalizer \/ ApplyPauseAnnotation \/ CheckObserved \/ ObserveRestored
  BY <1>4 DEF RemoveFinalizer, ApplyPauseAnnotation, CheckObserved, ObserveRestored, GoOn, Return
<1>5. CASE UpdateSuppressed
  BY <1>5, PatchShape DEF UpdateSuppressed
<1>6. CASE Validate \/ RenderManifests
  BY <1>6 DEF Validate, RenderManifests, GoOn, Return
<1>7. CASE ValidateRendered \/ ApplyStatus \/ AnnotateSpec
  BY <1>7 DEF ValidateRendered, ApplyStatus, AnnotateSpec, GoOn, Return
<1>8. CASE \E o \in Objects : ApplyObject(o)
  BY <1>8 DEF ApplyObject
<1>9. QED
  BY <1>1, <1>2, <1>3, <1>4, <1>5, <1>6, <1>7, <1>8 DEF Reconcile

\* Which steps of a reconcile change what.
LEMMA EffectShape ==
  ASSUME TypeOK, Reconcile
  PROVE  /\ EnsureFinalizer \/ RemoveFinalizer \/ UNCHANGED <<exists, finalizer>>
         /\ MarkHandled \/ UNCHANGED restoring
         /\ ObserveRestored \/ UpdateObserved \/ UNCHANGED observed
         /\ AnnotateSpec \/ UNCHANGED lastSpec
         /\ \/ \E o \in Objects : ApplyObject(o)
            \/ /\ applied' = applied
               /\ \A o \in Objects : obj'[o] # "absent" => obj[o] # "absent"
<1>1. CASE Start \/ CheckObserved \/ Abort
  BY <1>1 DEF Start, CheckObserved, Abort, ciVars
<1>2. CASE ClearPaused \/ EnsureFinalizer \/ ApplyPauseStatus \/ ApplyPauseAnnotation
           \/ RemoveFinalizer
  BY <1>2 DEF ClearPaused, EnsureFinalizer, ApplyPauseStatus, ApplyPauseAnnotation,
              RemoveFinalizer
<1>3. CASE Finalize \/ PruneManifests
  <2>1. PICK S \in SUBSET Objects, step \in {"removeFinalizer", "suppress"} :
          DeletionPass(S, step)
    BY <1>3 DEF Finalize, PruneManifests, Listed
  <2>2. \A o \in Objects : obj'[o] # "absent" => obj[o] # "absent"
    BY <2>1, PassShape
  <2>3. QED
    BY <1>3, <2>2 DEF Finalize, PruneManifests
<1>4. CASE AddRestoreStatusAnnotation \/ MarkHandled \/ ObserveRestored
  BY <1>4 DEF AddRestoreStatusAnnotation, MarkHandled, ObserveRestored
<1>5. CASE Validate \/ RenderManifests \/ UpdateSuppressed \/ ValidateRendered
  BY <1>5 DEF Validate, RenderManifests, UpdateSuppressed, ValidateRendered
<1>6. CASE ApplyStatus \/ AnnotateSpec \/ UpdateObserved
  BY <1>6 DEF ApplyStatus, AnnotateSpec, UpdateObserved
<1>7. CASE \E o \in Objects : ApplyObject(o)
  BY <1>7 DEF ApplyObject, ciVars
<1>8. QED
  BY <1>1, <1>2, <1>3, <1>4, <1>5, <1>6, <1>7 DEF Reconcile

\* No step changes the scenario.
LEMMA ScenarioKept ==
  ASSUME TypeOK, [Next]_vars
  PROVE  scenario' = scenario
  BY ReconcileShape DEF Next, Start, Environment, UserEdits, UserDeletes, UserUnpauses,
       OtherFinalizerRemoved, ObjectGone, DeadlinePasses, ExternalDelete, ObjectMoves,
       ciVars, vars

\* Without another finalizer the operator renders only under its own.
LEMMA FinalizerStep ==
  ASSUME TypeOK, FinalizerInv, [Next]_vars
  PROVE  FinalizerInv'
<1> USE DEF FinalizerInv
<1>1. SUFFICES ASSUME ~scenario.otherFinalizer, scenario' = scenario
               PROVE  FinalizerInv'
  <2>1. scenario' = scenario
    BY ScenarioKept
  <2>2. QED
    BY <1>1, <2>1
<1>2. CASE Start
  <2>1. UNCHANGED <<exists, finalizer, otherFinalizer, deletionTimestamp>>
    BY <1>2 DEF Start, ciVars
  <2>2. CASE UNCHANGED pc
    BY <1>1, <2>1, <2>2
  <2>3. CASE ~UNCHANGED pc
    <3>1. exists /\ (pc' = "clearPaused" \/ pc' = HandleFinalizer)
      BY <1>2, <2>3 DEF Start
    <3>2. \/ pc' \in {"clearPaused", "finalize"}
          \/ pc' = "addFinalizer" /\ ~finalizer
          \/ pc' = "velero" /\ finalizer
      BY <1>1, <3>1 DEF HandleFinalizer
    <3>3. QED
      BY <1>1, <2>1, <3>2 DEF Working, Rendering
  <2>4. QED
    BY <2>2, <2>3
<1>3. CASE EnsureFinalizer
  <2>1. /\ exists /\ exists' = exists /\ pc' = "idle" /\ finalizer' = ~deletionTimestamp
        /\ pc = "addFinalizer" /\ UNCHANGED <<otherFinalizer, deletionTimestamp>>
    BY <1>3 DEF EnsureFinalizer, Return
  <2>2. ~deletionTimestamp
    BY <1>1, <2>1
  <2>3. QED
    BY <1>1, <2>1, <2>2 DEF Working, Rendering
<1>4. CASE RemoveFinalizer
  <2>1. /\ ~finalizer' /\ ~exists' /\ pc' = "velero" /\ ~otherFinalizer'
    BY <1>1, <1>4 DEF RemoveFinalizer, GoOn
  <2>2. QED
    BY <2>1 DEF Working, Rendering
<1>5. CASE Reconcile /\ ~Start /\ ~EnsureFinalizer /\ ~RemoveFinalizer
  <2>1. UNCHANGED <<exists, finalizer, deletionTimestamp, otherFinalizer>>
    BY <1>5, EffectShape, ReconcileShape
  <2>2. /\ pc' # "addFinalizer" /\ pc' # "velero"
        /\ pc' \in Working => pc \in Working \/ (pc = "validate" /\ exists)
        /\ pc' \in {"restored", "validate"} => pc = "velero"
    BY <1>5, OriginShape DEF CheckObserved
  <2>3. QED
    BY <1>1, <2>1, <2>2
<1>6. CASE UserDeletes
  <2>1. /\ exists' = (finalizer \/ otherFinalizer) /\ exists
        /\ UNCHANGED <<finalizer, otherFinalizer, pc>>
    BY <1>6 DEF UserDeletes
  <2>2. QED
    BY <1>1, <2>1
<1>7. CASE UNCHANGED <<exists, finalizer, deletionTimestamp, otherFinalizer, pc>>
  BY <1>1, <1>7
<1>8. CASE UserEdits \/ UserUnpauses \/ OtherFinalizerRemoved
  BY <1>1, <1>7, <1>8 DEF UserEdits, UserUnpauses, OtherFinalizerRemoved
<1>9. CASE \E o \in Objects : ObjectGone(o) \/ DeadlinePasses(o) \/ ExternalDelete(o)
  BY <1>7, <1>9 DEF ObjectGone, DeadlinePasses, ExternalDelete, ObjectMoves, ciVars, opVars
<1>10. CASE UNCHANGED vars
  BY <1>7, <1>10 DEF vars, ciVars, opVars
<1> HIDE DEF FinalizerInv
<1>11. QED
  BY <1>2, <1>3, <1>4, <1>5, <1>6, <1>8, <1>9, <1>10 DEF Next, Environment

\* What was applied and exists stays listed in a ClusterInstance with the finalizer.
LEMMA AccountedStep ==
  ASSUME TypeOK, FinalizerInv, GoneInv, Accounted, [Next]_vars, FinalizerInv', ListedInv'
  PROVE  Accounted'
<1>1. SUFFICES ASSUME ~scenario.otherFinalizer, scenario' = scenario,
                      NEW o \in Objects, applied'[o] # NoRevision, obj'[o] # "absent"
               PROVE  finalizer'
  <2>1. scenario' = scenario
    BY ScenarioKept
  <2>2. QED
    BY <1>1, <2>1 DEF Accounted, FinalizerInv, ListedInv, Exists
<1>2. CASE applied' = applied /\ (obj'[o] # "absent" => obj[o] # "absent")
  <2>1. finalizer
    BY <1>1, <1>2 DEF Accounted, Exists
  <2>2. ~RemoveFinalizer
    BY <1>1, <1>2 DEF RemoveFinalizer, GoneInv, Gone, Exists
  <2>3. ~EnsureFinalizer
    BY <1>1, <2>1 DEF EnsureFinalizer, FinalizerInv
  <2>4. CASE Reconcile
    BY <2>1, <2>2, <2>3, <2>4, EffectShape
  <2>5. CASE Environment
    BY <2>1, <2>5 DEF Environment, UserEdits, UserDeletes, UserUnpauses, OtherFinalizerRemoved,
         ObjectGone, DeadlinePasses, ExternalDelete, ObjectMoves, ciVars
  <2>6. QED
    BY <2>1, <2>4, <2>5 DEF Next, vars, ciVars
<1>3. CASE \E x \in Objects : ApplyObject(x)
  BY <1>1, <1>3 DEF ApplyObject, FinalizerInv, Working, Rendering, ciVars
<1>4. CASE Reconcile
  BY <1>2, <1>3, <1>4, EffectShape
<1>5. CASE UserEdits \/ UserDeletes \/ UserUnpauses \/ OtherFinalizerRemoved \/ UNCHANGED vars
  BY <1>2, <1>5 DEF UserEdits, UserDeletes, UserUnpauses, OtherFinalizerRemoved, vars
<1>6. CASE \E x \in Objects : ObjectGone(x) \/ DeadlinePasses(x) \/ ExternalDelete(x)
  BY <1>2, <1>6, MoveShape
<1>7. QED
  BY <1>4, <1>5, <1>6 DEF Next, Environment

\* What the environment leaves alone.
LEMMA EnvironmentShape ==
  ASSUME TypeOK, Environment
  PROVE  /\ UNCHANGED <<observed, restoring, lastSpec, pc, mem, plan, seen, applied>>
         /\ exists' => exists
         /\ \/ UNCHANGED <<spec, generation>>
            \/ spec' = spec + 1 /\ generation' = generation + 1
            \/ spec' = spec /\ generation' = generation + 1
<1>1. CASE UserEdits \/ UserDeletes \/ UserUnpauses \/ OtherFinalizerRemoved
  BY <1>1 DEF UserEdits, UserDeletes, UserUnpauses, OtherFinalizerRemoved, opVars
<1>2. CASE \E o \in Objects : ObjectGone(o) \/ DeadlinePasses(o) \/ ExternalDelete(o)
  BY <1>2, MoveShape DEF ciVars, opVars
<1>3. QED
  BY <1>1, <1>2 DEF Environment

\* A restore is decided about with a copy of a ClusterInstance that is not being deleted.
LEMMA RestoreStep ==
  ASSUME TypeOK, GenerationInv, FinalizerInv, RestoreInv, [Next]_vars
  PROVE  RestoreInv'
<1> USE DEF RestoreInv
<1>1. scenario' = scenario
  BY ScenarioKept
<1>2. CASE Start
  <2>1. UNCHANGED <<exists, restoring>>
    BY <1>2 DEF Start, ciVars
  <2>2. CASE UNCHANGED <<pc, mem>>
    BY <1>1, <2>1, <2>2
  <2>3. CASE ~UNCHANGED <<pc, mem>>
    <3>1. exists /\ mem' = Answer /\ (pc' = "clearPaused" \/ pc' = HandleFinalizer)
      BY <1>2, <2>3 DEF Start, Refresh, Answer
    <3>2. pc' \notin {"restored", "markHandled"}
      BY <3>1 DEF HandleFinalizer
    <3>3. ~scenario.otherFinalizer /\ pc' = "velero" => mem'.generation = mem'.spec
      BY <3>1 DEF HandleFinalizer, FinalizerInv, GenerationInv, Answer
    <3>4. QED
      BY <1>1, <2>1, <3>2, <3>3
  <2>4. QED
    BY <2>2, <2>3
<1>3. CASE Reconcile /\ ~Start
  <2>1. restoring' => restoring
    BY <1>3, EffectShape DEF MarkHandled
  <2>2. CASE CheckObserved
    BY <1>1, <2>2 DEF CheckObserved, Return, ciVars
  <2>3. CASE ObserveRestored
    BY <1>1, <2>3 DEF ObserveRestored, GoOn
  <2>4. CASE RemoveFinalizer
    <3>1. pc' = "velero" /\ UNCHANGED restoring /\ exists' = otherFinalizer
      BY <2>4 DEF RemoveFinalizer, GoOn
    <3>2. QED
      BY <1>1, <3>1 DEF FinalizerInv
  <2>5. CASE ~CheckObserved /\ ~ObserveRestored /\ ~RemoveFinalizer
    <3>1. pc' \notin {"velero", "restored", "markHandled"}
      BY <1>3, <2>5, OriginShape
    <3>2. QED
      BY <1>1, <2>1, <3>1
  <2>6. QED
    BY <2>2, <2>3, <2>4, <2>5
<1>4. CASE Environment
  BY <1>1, <1>4, EnvironmentShape
<1>5. CASE UNCHANGED vars
  BY <1>5 DEF vars, ciVars, opVars
<1>6. QED
  BY <1>2, <1>3, <1>4, <1>5 DEF Next

\* A restore is handled once its generation counts as observed, and a reconcile then finds
\* that there is nothing to do.
LEMMA RestoredStep ==
  ASSUME TypeOK, GenerationInv, CopyInv, FinalizerInv, RestoreInv, RestoredInv,
         RestoredNotRerendered, [Next]_vars
  PROVE  RestoredInv' /\ RestoredNotRerendered'
<1> USE DEF RestoredInv, RestoredNotRerendered
<1>1. scenario' = scenario
  BY ScenarioKept
<1>2. SUFFICES ASSUME scenario.restored, ~scenario.otherFinalizer, spec' = 1, spec = 1
               PROVE  RestoredInv' /\ RestoredNotRerendered'
  <2>1. spec' = 1 => spec = 1
    <3>1. Reconcile => spec' = spec
      BY ReconcileShape DEF Start, ciVars
    <3>2. Environment => spec' = spec \/ spec' = spec + 1
      BY EnvironmentShape
    <3>3. spec \in Nat /\ spec # 0
      BY DEF TypeOK, Revisions
    <3>4. QED
      BY <3>1, <3>2, <3>3 DEF Next, vars, ciVars
  <2>2. QED
    BY <1>1, <1>2, <2>1
<1>3. pc \notin Working /\ (pc = "validate" => ~exists)
      /\ (~restoring \/ pc = "markHandled" => observed = 1)
      /\ \A o \in Objects : applied[o] = NoRevision
  BY <1>2
<1>4. pc \in {"velero", "restored"} /\ exists => mem.generation = 1
  BY <1>2 DEF RestoreInv, CopyInv, TypeOK
<1>5. CASE Reconcile
  <2>1. /\ ~Validate /\ ~UpdateObserved
        /\ ~\E o \in Objects : ApplyObject(o)
    BY <1>3 DEF Validate, UpdateObserved, ApplyObject, Working, Rendering
  <2>2. applied' = applied
    BY <1>5, <2>1, EffectShape
  <2>3. exists' => exists
    BY <1>2, <1>5, EffectShape DEF EnsureFinalizer, RemoveFinalizer, FinalizerInv
  <2>4. pc' \notin Working
    <3>1. CASE Start
      BY <1>3, <3>1 DEF Start, HandleFinalizer, Working, Rendering
    <3>2. CASE ~Start
      BY <1>3, <1>5, <3>2, OriginShape
    <3>3. QED
      BY <3>1, <3>2
  <2>5. pc' = "validate" => ~exists'
    <3>1. CASE Start
      BY <1>3, <2>3, <3>1 DEF Start, HandleFinalizer
    <3>2. CASE CheckObserved
      BY <1>3, <1>4, <2>3, <3>2 DEF CheckObserved, Return
    <3>3. CASE ~Start /\ ~CheckObserved
      BY <1>5, <3>3, OriginShape
    <3>4. QED
      BY <3>1, <3>2, <3>3
  <2>6. ~restoring' \/ pc' = "markHandled" => observed' = 1
    <3>1. CASE ObserveRestored
      BY <1>4, <3>1 DEF ObserveRestored
    <3>2. CASE MarkHandled
      BY <1>3, <3>2 DEF MarkHandled
    <3>3. CASE ~ObserveRestored /\ ~MarkHandled
      <4>1. UNCHANGED <<restoring, observed>>
        BY <1>5, <2>1, <3>3, EffectShape
      <4>2. pc' = "markHandled" => pc = "markHandled"
        <5>1. CASE Start
          BY <5>1 DEF Start, HandleFinalizer
        <5>2. CASE ~Start
          BY <1>5, <3>3, <5>2, OriginShape
        <5>3. QED
          BY <5>1, <5>2
      <4>3. QED
        BY <1>3, <4>1, <4>2
    <3>4. QED
      BY <3>1, <3>2, <3>3
  <2>7. QED
    BY <1>3, <2>2, <2>4, <2>5, <2>6
<1>6. CASE Environment
  BY <1>1, <1>2, <1>6, EnvironmentShape
<1>7. CASE UNCHANGED vars
  BY <1>7 DEF vars, ciVars, opVars
<1> HIDE DEF RestoredInv, RestoredNotRerendered
<1>8. QED
  BY <1>5, <1>6, <1>7 DEF Next

\* A generation that counts as observed has been applied as long as the copy and the
\* rendering are up to date.
LEMMA ObservedStep ==
  ASSUME TypeOK, GenerationInv, CopyInv, PlanInv, ApplyInv, RestoreInv, ObservedInv, [Next]_vars
  PROVE  ObservedInv'
<1> USE DEF ObservedInv
<1>1. scenario' = scenario
  BY ScenarioKept
<1>2. SUFFICES ASSUME ~scenario.restored
               PROVE  /\ observed' <= generation'
                      /\ ~scenario.midEdits /\ observed' = generation' =>
                           /\ \A o \in Render[spec'] : applied'[o] = spec'
                           /\ lastSpec' = spec'
  BY <1>1
<1>3. CASE UNCHANGED <<spec, generation, observed, lastSpec, applied>>
  BY <1>2, <1>3
<1>4. CASE Reconcile
  <2>1. UNCHANGED <<spec, generation>>
    BY <1>4, ReconcileShape DEF Start, ciVars
  <2>2. ~ObserveRestored
    BY <1>2 DEF ObserveRestored, RestoreInv
  <2>3. CASE UpdateObserved
    <3>1. pc = "observe" /\ observed' = mem.generation /\ UNCHANGED <<applied, lastSpec>>
      BY <2>3 DEF UpdateObserved
    <3>2. mem.generation <= generation
          /\ (~scenario.midEdits => plan = spec /\ lastSpec = spec
                                    /\ \A o \in Render[plan] : applied[o] = plan)
      BY <3>1 DEF CopyInv, PlanInv, ApplyInv, Rendering
    <3>3. QED
      BY <2>1, <3>1, <3>2
  <2>4. CASE AnnotateSpec
    <3>1. lastSpec' = mem.spec /\ UNCHANGED <<observed, applied>> /\ pc # "idle"
      BY <2>4 DEF AnnotateSpec
    <3>2. QED
      BY <1>2, <2>1, <3>1 DEF CopyInv
  <2>5. ASSUME NEW o \in Objects, ApplyObject(o)
        PROVE  \A x \in Render[spec] : ~scenario.midEdits /\ applied[x] = spec => applied'[x] = spec
    <3>1. ~scenario.midEdits => plan = spec
      BY <2>5 DEF ApplyObject, PlanInv, Rendering
    <3>2. Render[spec] \subseteq Objects
      BY ReconcilerAssumption DEF TypeOK
    <3>3. QED
      BY <2>5, <3>1, <3>2 DEF ApplyObject, TypeOK
  <2>6. CASE \E o \in Objects : ApplyObject(o)
    <3>1. UNCHANGED <<observed, lastSpec>>
      BY <2>6 DEF ApplyObject, ciVars
    <3>2. QED
      BY <1>2, <2>1, <2>5, <2>6, <3>1
  <2>7. CASE ~UpdateObserved /\ ~AnnotateSpec /\ ~\E o \in Objects : ApplyObject(o)
    BY <1>3, <1>4, <2>1, <2>2, <2>7, EffectShape
  <2>8. QED
    BY <2>3, <2>4, <2>6, <2>7
<1>5. CASE Environment
  <2>1. UNCHANGED <<observed, lastSpec, applied>>
        /\ (UNCHANGED <<spec, generation>> \/ generation' = generation + 1)
    BY <1>5, EnvironmentShape
  <2>2. CASE generation' = generation + 1
    <3>1. observed' <= generation' /\ observed' # generation'
      <4>1. observed \in Nat /\ generation \in Nat /\ observed <= generation
        BY <1>2 DEF TypeOK, Generations
      <4>2. \A a, b \in Nat : a <= b => a <= b + 1 /\ a # b + 1
        OBVIOUS
      <4>3. QED
        BY ONLY <2>1, <2>2, <4>1, <4>2
    <3>2. QED
      BY <3>1
  <2>3. QED
    BY <1>3, <2>1, <2>2
<1>6. CASE UNCHANGED vars
  BY <1>3, <1>6 DEF vars, ciVars
<1>7. QED
  BY <1>4, <1>5, <1>6 DEF Next

-----------------------------------------------------------------------------
(***************************************************************************)
(* The invariant and the theorems                                          *)
(***************************************************************************)

\* A new ClusterInstance, and a restored one, satisfy the invariant.
LEMMA InvInit == Init => IInv
<1> SUFFICES ASSUME Init
             PROVE  IInv
  OBVIOUS
<1> USE ReconcilerAssumption
<1>1. 1 \in Revisions /\ Render[1] \subseteq Objects
  BY DEF Revisions
<1>2. scenario \in Scenario /\ scenario.restored \in BOOLEAN /\ scenario.otherFinalizer \in BOOLEAN
      /\ scenario.maxFaults \in Nat
  BY DEF Init, Scenario
<1>3. TypeOK
  <2>1. manifests \in [Objects -> ManifestStatus] /\ obj \in [Objects -> ObjectState]
    BY DEF Init, ManifestStatus, ObjectState
  <2>2. observed \in Generations /\ generation \in Generations
    BY DEF Init, Generations
  <2>3. mem \in [spec : 0..MaxRevision, generation : Generations]
    BY DEF Init, NoCopy, NoRevision, Generations
  <2>4. lastSpec \in 0..MaxRevision /\ plan \in 0..MaxRevision /\ seen \in 0..MaxRevision
        /\ applied \in [Objects -> 0..MaxRevision] /\ faults \in 0..scenario.maxFaults
    BY <1>2 DEF Init, NoRevision
  <2>5. restoring \in BOOLEAN /\ otherFinalizer \in BOOLEAN /\ finalizer \in BOOLEAN
        /\ restoreStatus \in BOOLEAN
    BY <1>2 DEF Init
  <2>6. QED
    BY <1>1, <2>1, <2>2, <2>3, <2>4, <2>5 DEF Init, TypeOK
<1>4. GenerationInv /\ CopyInv /\ PlanInv /\ ApplyInv /\ GoneInv
  BY DEF Init, GenerationInv, CopyInv, PlanInv, ApplyInv, GoneInv, Rendering
<1>5. ListedInv /\ Accounted /\ RestoredNotRerendered
  BY DEF Init, ListedInv, Accounted, RestoredNotRerendered
<1>6. FinalizerInv
  BY DEF Init, FinalizerInv, Working, Rendering
<1>7. RestoreInv /\ RestoredInv
  BY DEF Init, RestoreInv, RestoredInv, Working, Rendering
<1>8. ObservedInv
  BY DEF Init, ObservedInv
<1>9. QED
  BY <1>3, <1>4, <1>5, <1>6, <1>7, <1>8 DEF IInv

\* The invariant is inductive.
LEMMA InvStep == IInv /\ [Next]_vars => IInv'
<1> SUFFICES ASSUME IInv, [Next]_vars
             PROVE  IInv'
  OBVIOUS
<1> USE DEF IInv
<1>1. TypeOK'
  BY TypeStep
<1>2. GenerationInv' /\ CopyInv' /\ PlanInv'
  BY CopyStep
<1>3. ApplyInv' /\ ListedInv' /\ GoneInv'
  BY ApplyStep, ListedStep, GoneStep
<1>4. FinalizerInv' /\ RestoreInv' /\ RestoredInv' /\ RestoredNotRerendered' /\ ObservedInv'
  BY FinalizerStep, RestoreStep, RestoredStep, ObservedStep
<1>5. Accounted'
  BY <1>3, <1>4, AccountedStep
<1>6. QED
  BY <1>1, <1>2, <1>3, <1>4, <1>5

\* The invariant holds in every reachable state.
LEMMA Invariance == Spec => []IInv
<1>1. Init => IInv
  BY InvInit
<1>2. IInv /\ [Next]_vars => IInv'
  BY InvStep
<1>3. QED
  BY <1>1, <1>2, PTL DEF Spec

\* The reconciler's state stays within its types: the generation within the number of the
\* user's edits and the deletion, Status.ManifestsRendered a list of known statuses.
THEOREM TypeCorrect == Spec => []TypeOK
<1>1. IInv => TypeOK
  BY DEF IInv
<1>2. QED
  BY <1>1, Invariance, PTL

\* Wherever a reconcile is cut off, an object it has applied and that exists is in the list
\* of a ClusterInstance that still has the operator's finalizer.
THEOREM ObjectsAccounted == Spec => []Accounted
<1>1. IInv => Accounted
  BY DEF IInv
<1>2. QED
  BY <1>1, Invariance, PTL

\* applyRenderedManifests begins when the objects that the revision prunes are gone.
THEOREM PruningFirst == Spec => []PrunedFirst
<1>1. IInv => PrunedFirst
  BY DEF IInv, GoneInv, Gone, PrunedFirst
<1>2. QED
  BY <1>1, Invariance, PTL

\* A generation that Reconcile takes for observed has been applied, and is the one in the
\* annotation, as long as the spec is edited between reconciles only.
THEOREM ObservedWasApplied == Spec => []ObservedBetweenEdits
<1>1. IInv => ObservedBetweenEdits
  BY DEF IInv, ObservedInv, ObservedBetweenEdits, ObservedMeansApplied
<1>2. QED
  BY <1>1, Invariance, PTL

\* The objects of a ClusterInstance that Velero has restored are not applied again before
\* the user edits its spec.
THEOREM RestoreKept == Spec => []RestoredNotRerendered
<1>1. IInv => RestoredNotRerendered
  BY DEF IInv
<1>2. QED
  BY <1>1, Invariance, PTL

\* updateObservedStatus runs only when every object of a revision at least as recent as the
\* one read has been applied; the other writer of ObservedGeneration handles a restore.
THEOREM ObservedMovesLast == Spec => ObservedAfterApply
<1> DEFINE Applied == observed' # observed =>
                        \/ restoring
                        \/ plan >= seen /\ \A o \in Render[plan] : applied[o] = plan
<1>1. IInv /\ [Next]_vars => Applied
  <2> SUFFICES ASSUME IInv, [Next]_vars, observed' # observed
               PROVE  \/ restoring
                      \/ plan >= seen /\ \A o \in Render[plan] : applied[o] = plan
    OBVIOUS
  <2>1. TypeOK
    BY DEF IInv
  <2>2. Reconcile
    BY <2>1, EnvironmentShape DEF Next, vars, ciVars
  <2>3. ObserveRestored \/ UpdateObserved
    BY <2>1, <2>2, EffectShape
  <2>4. CASE ObserveRestored
    BY <2>4 DEF ObserveRestored, IInv, RestoreInv
  <2>5. CASE UpdateObserved
    <3>1. pc = "observe"
      BY <2>5 DEF UpdateObserved
    <3>2. seen <= plan /\ \A o \in Render[plan] : applied[o] = plan
      BY <3>1 DEF IInv, PlanInv, ApplyInv, Rendering
    <3>3. QED
      BY <2>1, <3>2 DEF TypeOK
  <2>6. QED
    BY <2>3, <2>4, <2>5
<1>2. QED
  BY <1>1, Invariance, PTL DEF Spec, ObservedAfterApply

=============================================================================
