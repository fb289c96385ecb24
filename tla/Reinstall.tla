------------------------------ MODULE Reinstall ------------------------------
(***************************************************************************)
(* ProcessRequest of the ReinstallHandler, as Reconcile calls it, with the *)
(* preservation of data it drives: a request is validated, the labelled    *)
(* Secrets and ConfigMaps are backed up, the rendered objects are deleted, *)
(* the data is restored, and the objects are rendered again.               *)
(*                                                                         *)
(* Every pass runs the tasks from the first one; a task that changes its   *)
(* condition ends the pass and the request is requeued.  Each task is a    *)
(* step, and so is each status patch that a crash can separate from what   *)
(* it reports.  The objects are one object here (module Deletion has the   *)
(* waves), and rendering is one step (module ClusterInstanceReconciler).   *)
(***************************************************************************)
EXTENDS Integers, FiniteSets

CONSTANTS
  Resources,       \* the kinds of resource to preserve
  MaxRequests,     \* bound on the reinstall generations the user may choose
  Modes,           \* preservation modes the user may choose
  MaxCrashes,      \* bound on crashes and failed status patches
  MaxErrors,       \* bound on tasks that fail
  DeletionErrors,  \* may a call of a deletion pass fail?
  Reuse            \* does the user choose a generation again that has failed?

Requests == 1..MaxRequests
NoRequest == 0

ASSUME ReinstallAssumption ==
  /\ Resources \subseteq {"identity", "internal"}
  /\ MaxRequests \in Nat \ {0}
  /\ Modes \subseteq {"None", "All", "ClusterIdentity"}
  /\ MaxCrashes \in Nat
  /\ MaxErrors \in Nat
  /\ DeletionErrors \in BOOLEAN
  /\ Reuse \in BOOLEAN

VARIABLES
  \* the ClusterInstance
  request,       \* Spec.Reinstall.Generation
  mode,          \* Spec.Reinstall.PreservationMode
  observed,      \* Status.ObservedGeneration = Generation
  inProgress,    \* Status.Reinstall.InProgressGeneration
  done,          \* Status.Reinstall.ObservedGeneration
  endTime,       \* is Status.Reinstall.RequestEndTime set?
  history,       \* the generations in Status.Reinstall.History
  cond,          \* the reasons of Status.Reinstall.Conditions
  paused,        \* the paused annotation
  pausedStatus,  \* Status.Paused # nil
  provisioned,   \* has the last installation completed?
  \* the hub
  obj,           \* the rendered objects
  incarnation,   \* the request after which they were created
  data,          \* the content of each resource to preserve
  labelled,      \* the resources with a preservation label
  restoredAt,    \* the resources with the restored-at annotation
  backups,       \* the backups of each request
  backupMode,    \* the mode each request's backups were made in
  allowed,       \* allowReinstalls of the operator's configuration
  \* the operator
  queued, pc, crashes, errors,
  \* history, for the properties
  wanted,        \* the data when the request was taken up
  used           \* the generations that requests have had

statusVars == <<inProgress, done, endTime, history, cond>>
ciVars == <<request, mode, observed, statusVars, paused, pausedStatus, provisioned>>
hubVars == <<obj, incarnation, data, labelled, restoredAt, backups, backupMode,
             allowed>>
vars == <<ciVars, hubVars, queued, pc, crashes, errors, wanted, used>>

Contents == {"v1", "v2"}
Conditions == {"Processed", "Validated", "BackedUp", "Deleted", "Restored"}
Reasons == {"unset", "Initialized", "InProgress", "Completed", "Failed", "TimedOut",
            "NotRequired"}

\* The type of the handler's state: the history, for one, records only generations that
\* were requested.
TypeOK ==
  /\ request \in 0..MaxRequests
  /\ mode \in {"None", "All", "ClusterIdentity"}
  /\ observed \in BOOLEAN
  /\ inProgress \in 0..MaxRequests
  /\ done \in 0..MaxRequests
  /\ endTime \in BOOLEAN
  /\ history \in SUBSET Requests
  /\ cond \in [Conditions -> Reasons]
  /\ paused \in BOOLEAN
  /\ pausedStatus \in BOOLEAN
  /\ provisioned \in BOOLEAN
  /\ obj \in {"absent", "live", "terminating", "overdue"}
  /\ incarnation \in 0..MaxRequests
  /\ data \in [Resources -> Contents \cup {"absent"}]
  /\ labelled \in SUBSET Resources
  /\ restoredAt \in SUBSET Resources
  /\ backups \in [Requests -> [Resources -> Contents \cup {"absent"}]]
  /\ backupMode \in [Requests -> {"None", "All", "ClusterIdentity"}]
  /\ allowed \in BOOLEAN
  /\ queued \in BOOLEAN
  /\ pc \in {"idle", "clearPaused", "initialize", "begin", "validate", "label",
             "preserve", "delete", "restore", "cleanup", "finalize", "complete",
             "fail", "failAndPause", "pause", "pauseStatus", "render"}
  /\ crashes \in 0..MaxCrashes
  /\ errors \in 0..MaxErrors
  /\ wanted \in [Resources -> Contents \cup {"absent"}]
  /\ used \in SUBSET Requests

NoBackup == [r \in Resources |-> "absent"]

\* An installed cluster, whose user may or may not have labelled the identity data.
Init ==
  /\ request = NoRequest
  /\ mode = "None"
  /\ observed = TRUE
  /\ inProgress = NoRequest
  /\ done = NoRequest
  /\ endTime = FALSE
  /\ history = {}
  /\ cond = [c \in Conditions |-> "unset"]
  /\ paused = FALSE
  /\ pausedStatus = FALSE
  /\ provisioned = TRUE
  /\ obj = "live"
  /\ incarnation = NoRequest
  /\ data = [r \in Resources |-> "v1"]
  /\ labelled \in SUBSET (Resources \ {"internal"})
  /\ restoredAt = {}
  /\ backups = [g \in Requests |-> NoBackup]
  /\ backupMode = [g \in Requests |-> "None"]
  /\ allowed \in BOOLEAN
  /\ queued = FALSE
  /\ pc = "idle"
  /\ crashes = 0
  /\ errors = 0
  /\ wanted = NoBackup
  /\ used = {}

-----------------------------------------------------------------------------
(***************************************************************************)
(* Reconcile, up to the reinstall request.                                 *)
(***************************************************************************)

Return(requeue) == pc' = "idle" /\ queued' = (queued \/ requeue)
GoOn(step) == pc' = step /\ UNCHANGED queued

\* The request has been processed, with success or without.
IsRequestProcessed ==
  \/ done = request
  \/ inProgress = request /\ endTime /\ cond["Processed"] \in {"Completed", "Failed", "TimedOut"}

\* Which of its cases ProcessRequest takes, if Reconcile calls it at all.
ProcessRequest ==
  IF request = NoRequest \/ IsRequestProcessed THEN "render"
  ELSE IF cond["Processed"] = "unset" \/ inProgress # request THEN "initialize"
  ELSE IF cond["Processed"] = "Initialized" THEN "begin"
  ELSE "validate"

Start ==
  /\ pc = "idle" /\ queued
  /\ queued' = FALSE
  /\ pc' = IF paused THEN "idle"
           ELSE IF pausedStatus THEN "clearPaused"
           ELSE IF observed THEN "idle"
           ELSE ProcessRequest
  /\ UNCHANGED <<ciVars, hubVars, crashes, errors, wanted, used>>

ClearPaused ==
  /\ pc = "clearPaused"
  /\ pausedStatus' = FALSE
  /\ Return(TRUE)
  /\ UNCHANGED <<request, mode, observed, statusVars, paused, provisioned, hubVars,
                 crashes, errors, wanted, used>>

\* For the properties: what the user, and the operator itself, want to keep, unless the
\* deletion that a failed request has left behind is still removing it.
ToPreserve ==
  [r \in Resources |->
     IF r \in labelled \cup {"internal"} /\ obj \notin {"terminating", "overdue"}
       THEN data[r] ELSE "absent"]

\* Fault: the conditions of the previous request are kept.
InitializeReinstallStatus_KeepConditions ==
  /\ pc = "initialize"
  /\ inProgress' = request
  /\ endTime' = FALSE
  /\ cond' = [c \in Conditions |->
                IF c = "Processed" \/ cond[c] = "unset" THEN "Initialized" ELSE cond[c]]
  /\ wanted' = ToPreserve
  /\ Return(TRUE)
  /\ UNCHANGED <<request, mode, observed, done, history, paused, pausedStatus,
                 provisioned, hubVars, crashes, errors, used>>

\* initializeReinstallStatus: every condition starts over.
InitializeReinstallStatus ==
  /\ pc = "initialize"
  /\ inProgress' = request
  /\ endTime' = FALSE
  /\ cond' = [c \in Conditions |-> "Initialized"]
  /\ wanted' = ToPreserve
  /\ Return(TRUE)
  /\ UNCHANGED <<request, mode, observed, done, history, paused, pausedStatus,
                 provisioned, hubVars, crashes, errors, used>>

\* Fault: the request is not requeued once it is in progress.
BeginRequest_NoRequeue ==
  /\ pc = "begin"
  /\ cond' = [cond EXCEPT !["Processed"] = "InProgress"]
  /\ Return(FALSE)
  /\ UNCHANGED <<request, mode, observed, inProgress, done, endTime, history, paused,
                 pausedStatus, provisioned, hubVars, crashes, errors, wanted, used>>

\* The start time is set in the same patch, so that ensureStartTimeIsSet finds it set.
BeginRequest ==
  /\ pc = "begin"
  /\ cond' = [cond EXCEPT !["Processed"] = "InProgress"]
  /\ Return(TRUE)
  /\ UNCHANGED <<request, mode, observed, inProgress, done, endTime, history, paused,
                 pausedStatus, provisioned, hubVars, crashes, errors, wanted, used>>

-----------------------------------------------------------------------------
(***************************************************************************)
(* The tasks.                                                              *)
(***************************************************************************)

\* A task reports a reason under its condition.  A reason that is new ends the pass, even
\* if there is an error; the next pass then goes on, or fails the request.
Report(c, reason, onward) ==
  \/ /\ cond[c] # reason
     /\ cond' = [cond EXCEPT ![c] = reason, !["Processed"] = "InProgress"]
     /\ Return(TRUE)
  \/ /\ cond[c] = reason
     /\ GoOn(onward)
     /\ UNCHANGED cond

TaskError == errors < MaxErrors /\ errors' = errors + 1

\* ensureValidReinstallRequest
EnsureValidRequest ==
  /\ pc = "validate"
  /\ \/ allowed /\ Report("Validated", "Completed", "label")
     \/ ~allowed /\ Report("Validated", "Failed", "fail")
  /\ UNCHANGED <<request, mode, observed, inProgress, done, endTime, history, paused,
                 pausedStatus, provisioned, hubVars, crashes, errors, wanted, used>>

\* applyPreservedLabelToClusterInstanceSecrets: Secrets that are gone are ignored; an
\* error fails the request.
ApplyPreservedLabel ==
  /\ pc = "label"
  /\ \/ /\ labelled' = labelled \cup {r \in Resources \cap {"internal"} : data[r] # "absent"}
        /\ GoOn("preserve")
        /\ UNCHANGED errors
     \/ /\ TaskError
        /\ GoOn("fail")
        /\ UNCHANGED labelled
  /\ UNCHANGED <<ciVars, obj, incarnation, data, restoredAt, backups, backupMode, allowed,
                 crashes, wanted, used>>

\* The resources that are there to be backed up, or to be counted.
Selected == {r \in labelled : data[r] # "absent"}

HasBackup(r) == r \in Resources /\ \E g \in Requests : backups[g][r] # "absent"

\* getDataPreservationSummary: the mode ClusterIdentity insists on a backup of identity
\* data, and counts those of all requests.
IdentityDetected == mode = "ClusterIdentity" => HasBackup("identity")'

\* Fault: a backup that exists is made again from what the resource is by now.
CreateResource_Overwrite(r) == data[r]

\* createResource: a backup that exists keeps its data.
CreateResource(r) == IF backups[request][r] = "absent" THEN data[r] ELSE backups[request][r]

\* Fault: the operator's own resources are not backed up with the user's.
BackupResources_UserOnly(S) ==
  /\ backups' = [backups EXCEPT ![request] =
                   [r \in Resources |-> IF r \in S \ {"internal"} THEN CreateResource(r) ELSE @[r]]]
  /\ backupMode' = [backupMode EXCEPT ![request] = IF "identity" \in S THEN mode ELSE @]

\* Backup of the resources S; the annotation of their backups takes the mode of this pass.
BackupResources(S) ==
  /\ backups' = [backups EXCEPT ![request] =
                   [r \in Resources |-> IF r \in S THEN CreateResource(r) ELSE @[r]]]
  /\ backupMode' = [backupMode EXCEPT ![request] = IF "identity" \in S THEN mode ELSE @]

\* ensureDataIsPreserved.  The conditions ClusterIdentityDataDetected and
\* PreservationDataBackedup are one here.
EnsureDataIsPreserved ==
  /\ pc = "preserve"
  /\ \/ /\ mode = "None"
        /\ Report("BackedUp", "NotRequired", "delete")
        /\ UNCHANGED <<backups, backupMode, errors>>
     \/ /\ mode # "None"
        /\ BackupResources(Selected)
        /\ \/ IdentityDetected /\ Report("BackedUp", "Completed", "delete")
           \/ ~IdentityDetected /\ Report("BackedUp", "Failed", "fail")
        /\ UNCHANGED errors
     \/ /\ mode # "None"
        /\ TaskError
        /\ \E S \in SUBSET Selected : BackupResources(S)
        /\ Report("BackedUp", "Failed", "fail")
  /\ UNCHANGED <<request, mode, observed, inProgress, done, endTime, history, paused,
                 pausedStatus, provisioned, obj, incarnation, data, labelled, restoredAt,
                 allowed, crashes, wanted, used>>

\* A deletion pass ends with an error: its reason is recorded, and a second patch and the
\* pause follow.
DeletionStops(reason) ==
  /\ cond' = [cond EXCEPT !["Deleted"] = reason]
  /\ GoOn("failAndPause")
  /\ UNCHANGED obj

\* DeleteRenderedObjects, and what the task makes of its result.
DeletionPass ==
  \/ /\ obj = "absent"
     /\ Report("Deleted", "Completed", "restore")
     /\ UNCHANGED <<obj, errors>>
  \/ /\ obj \in {"live", "terminating"}
     /\ obj' = "terminating"
     /\ cond' = [cond EXCEPT !["Processed"] = "InProgress"]
     /\ Return(TRUE)
     /\ UNCHANGED errors
  \/ /\ obj = "overdue"
     /\ DeletionStops("TimedOut")
     /\ UNCHANGED errors
  \/ /\ DeletionErrors
     /\ TaskError
     /\ DeletionStops("Failed")

\* ensureRenderedManifestsAreDeleted: a deletion that has completed, or failed, is not
\* tried again.
EnsureManifestsAreDeleted ==
  /\ pc = "delete"
  /\ \/ /\ cond["Deleted"] = "Initialized"
        /\ Report("Deleted", "InProgress", "delete")
        /\ UNCHANGED <<obj, errors>>
     \/ /\ cond["Deleted"] \in {"Completed", "Failed"}
        /\ GoOn("restore")
        /\ UNCHANGED <<cond, obj, errors>>
     \/ /\ cond["Deleted"] \in {"InProgress", "TimedOut"}
        /\ DeletionPass
  /\ UNCHANGED <<request, mode, observed, inProgress, done, endTime, history, paused,
                 pausedStatus, provisioned, incarnation, data, labelled, restoredAt,
                 backups, backupMode, allowed, crashes, wanted, used>>

\* fetchAndValidateObjectToRestore refuses the backups of other requests, except that the
\* mode ClusterIdentity skips identity data backed up in another mode.
Refused(g, r) ==
  /\ g # request
  /\ backups[g][r] # "absent"
  /\ ~(r = "identity" /\ mode = "ClusterIdentity" /\ backupMode[g] # mode)

AllAccepted == \A g \in Requests, r \in Resources : ~Refused(g, r)

\* Restore: the identity data comes first, and a backup refused there ends the restoration.
RestoreStops == "identity" \in Resources /\ \E g \in Requests : Refused(g, "identity")

\* The resources restored from the request's own backups, with their labels.
Restorable ==
  {r \in Resources : /\ backups[request][r] # "absent"
                     /\ ~(r = "identity" /\ mode = "ClusterIdentity" /\ backupMode[request] # mode)}

RestoreResources(S) ==
  /\ data' = [r \in Resources |-> IF r \in S THEN backups[request][r] ELSE data[r]]
  /\ labelled' = labelled \cup S
  /\ restoredAt' = restoredAt \cup S

\* getDataRestorationSummary: the mode ClusterIdentity insists on restored identity data.
IdentityRestored == mode = "ClusterIdentity" => "identity" \in (labelled \cap restoredAt)'

\* ensurePreservedDataIsRestored
EnsureDataIsRestored ==
  /\ pc = "restore"
  /\ \/ /\ mode = "None"
        /\ Report("Restored", "NotRequired", "cleanup")
        /\ UNCHANGED <<data, labelled, restoredAt, errors>>
     \/ /\ mode # "None"
        /\ RestoreResources(IF RestoreStops THEN Restorable \ {"internal"} ELSE Restorable)
        /\ LET restored == AllAccepted /\ IdentityRestored
           IN  \/ restored /\ Report("Restored", "Completed", "cleanup")
               \/ ~restored /\ Report("Restored", "Failed", "fail")
        /\ UNCHANGED errors
     \/ /\ mode # "None"
        /\ TaskError
        /\ \E S \in SUBSET Restorable : RestoreResources(S)
        /\ Report("Restored", "Failed", "fail")
  /\ UNCHANGED <<request, mode, observed, inProgress, done, endTime, history, paused,
                 pausedStatus, provisioned, obj, incarnation, backups, backupMode,
                 allowed, crashes, wanted, used>>

-----------------------------------------------------------------------------
(***************************************************************************)
(* The end of a request.                                                   *)
(***************************************************************************)

\* The backups Cleanup deletes: those of all requests, but those of user data only if the
\* mode of this request preserves data.
CleanedUp == {r \in Resources : r = "internal" \/ mode # "None"}

\* Cleanup: an error ends the pass, after the backups that could be deleted are deleted.
Cleanup ==
  /\ pc = "cleanup"
  /\ \/ /\ backups' = [g \in Requests |-> [r \in Resources |->
                         IF r \in CleanedUp THEN "absent" ELSE backups[g][r]]]
        /\ GoOn("finalize")
        /\ UNCHANGED <<cond, errors>>
     \/ /\ TaskError
        /\ \E S \in SUBSET CleanedUp :
             backups' = [g \in Requests |-> [r \in Resources |->
                           IF r \in S THEN "absent" ELSE backups[g][r]]]
        /\ cond' = [cond EXCEPT !["Processed"] = "InProgress"]
        /\ Return(TRUE)
  /\ UNCHANGED <<request, mode, observed, inProgress, done, endTime, history, paused,
                 pausedStatus, provisioned, obj, incarnation, data, labelled, restoredAt,
                 backupMode, allowed, crashes, wanted, used>>

\* Fault: the history records the generation in progress after it was cleared.
FinalizeRequest_RecordCleared ==
  /\ pc = "finalize"
  /\ done' = request
  /\ inProgress' = NoRequest
  /\ endTime' = TRUE
  /\ history' = history \cup {inProgress'}
  /\ GoOn("complete")
  /\ UNCHANGED <<request, mode, observed, cond, paused, pausedStatus, provisioned, hubVars,
                 crashes, errors, wanted, used>>

\* finalizeReinstallRequest's patch ...
FinalizeRequest ==
  /\ pc = "finalize"
  /\ done' = request
  /\ inProgress' = NoRequest
  /\ endTime' = TRUE
  /\ history' = history \cup {request}
  /\ GoOn("complete")
  /\ UNCHANGED <<request, mode, observed, cond, paused, pausedStatus, provisioned, hubVars,
                 crashes, errors, wanted, used>>

\* ... and the deferred patch that reports the completion; Reconcile goes on to render.
CompleteRequest ==
  /\ pc = "complete"
  /\ cond' = [cond EXCEPT !["Processed"] = "Completed"]
  /\ GoOn("render")
  /\ UNCHANGED <<request, mode, observed, inProgress, done, endTime, history, paused,
                 pausedStatus, provisioned, hubVars, crashes, errors, wanted, used>>

\* The deferred patch after the error of a task that fails the request.
FailRequest ==
  /\ pc = "fail"
  /\ cond' = [cond EXCEPT !["Processed"] = "Failed"]
  /\ endTime' = TRUE
  /\ Return(TRUE)
  /\ UNCHANGED <<request, mode, observed, inProgress, done, history, paused,
                 pausedStatus, provisioned, hubVars, crashes, errors, wanted, used>>

\* The deferred patch after the error of the deletion: no end time, the request stays open.
FailAndPause ==
  /\ pc = "failAndPause"
  /\ cond' = [cond EXCEPT !["Processed"] = "Failed"]
  /\ GoOn("pause")
  /\ UNCHANGED <<request, mode, observed, inProgress, done, endTime, history, paused,
                 pausedStatus, provisioned, hubVars, crashes, errors, wanted, used>>

ApplyPauseAnnotation ==
  /\ pc = "pause"
  /\ paused' = TRUE
  /\ pc' = "pauseStatus"
  /\ queued' = TRUE
  /\ UNCHANGED <<request, mode, observed, statusVars, pausedStatus, provisioned, hubVars,
                 crashes, errors, wanted, used>>

ApplyPauseStatus ==
  /\ pc = "pauseStatus"
  /\ pausedStatus' = TRUE
  /\ Return(TRUE)
  /\ UNCHANGED <<request, mode, observed, statusVars, paused, provisioned, hubVars,
                 crashes, errors, wanted, used>>

\* The rest of Reconcile: objects that are gone are created again, the others updated.
Render ==
  /\ pc = "render"
  /\ \/ /\ obj = "absent"
        /\ obj' = "live"
        /\ incarnation' = request
        /\ provisioned' = FALSE
     \/ /\ obj # "absent"
        /\ UNCHANGED <<obj, incarnation, provisioned>>
  /\ observed' = TRUE
  /\ Return(FALSE)
  /\ UNCHANGED <<request, mode, statusVars, paused, pausedStatus, data, labelled, restoredAt,
                 backups, backupMode, allowed, crashes, errors, wanted, used>>

\* A crash, or a status patch that fails: Reconcile starts over.
Crash ==
  /\ pc # "idle"
  /\ crashes < MaxCrashes
  /\ crashes' = crashes + 1
  /\ Return(TRUE)
  /\ UNCHANGED <<ciVars, hubVars, errors, wanted, used>>

-----------------------------------------------------------------------------
(***************************************************************************)
(* The environment.                                                        *)
(***************************************************************************)

\* A request is open until it has been observed or has an end time.
Open == request # NoRequest /\ done # request /\ ~(inProgress = request /\ endTime)

\* The webhook's validateReinstallRequest.
AdmitsRequest(g) ==
  /\ provisioned
  /\ inProgress = NoRequest \/ endTime
  /\ g # done
  /\ g \notin history

\* The user asks for a reinstallation, between two reconciles.
UserRequests(g, m) ==
  /\ pc = "idle"
  /\ g # request
  /\ AdmitsRequest(g)
  /\ Reuse \/ g \notin used
  /\ request' = g
  /\ mode' = m
  /\ used' = used \cup {g}
  /\ observed' = FALSE
  /\ queued' = TRUE
  /\ UNCHANGED <<statusVars, paused, pausedStatus, provisioned, hubVars, pc, crashes,
                 errors, wanted>>

\* The user labels the identity data, or its content changes, while no request is open.
UserLabels ==
  /\ ~Open
  /\ "identity" \in Resources \ labelled
  /\ labelled' = labelled \cup {"identity"}
  /\ UNCHANGED <<ciVars, obj, incarnation, data, restoredAt, backups, backupMode, allowed,
                 queued, pc, crashes, errors, wanted, used>>

DataChanges(r) ==
  /\ ~Open
  /\ data[r] = "v1"
  /\ data' = [data EXCEPT ![r] = "v2"]
  /\ UNCHANGED <<ciVars, obj, incarnation, labelled, restoredAt, backups, backupMode,
                 allowed, queued, pc, crashes, errors, wanted, used>>

\* While the objects go, their controllers remove the data, and may create other data under
\* the same name, with or without the label.
DataLost(r) ==
  /\ obj \in {"terminating", "overdue"}
  /\ data[r] # "absent"
  /\ data' = [data EXCEPT ![r] = "absent"]
  /\ labelled' = labelled \ {r}
  /\ restoredAt' = restoredAt \ {r}
  /\ UNCHANGED <<ciVars, obj, incarnation, backups, backupMode, allowed, queued, pc,
                 crashes, errors, wanted, used>>

DataRecreated(r) ==
  /\ obj \in {"terminating", "overdue"}
  /\ data[r] = "absent"
  /\ data' = [data EXCEPT ![r] = "v2"]
  /\ labelled' \in {labelled, labelled \cup {r}}
  /\ UNCHANGED <<ciVars, obj, incarnation, restoredAt, backups, backupMode, allowed,
                 queued, pc, crashes, errors, wanted, used>>

ObjectMoves(from, to) ==
  /\ obj \in from
  /\ obj' = to
  /\ UNCHANGED <<ciVars, incarnation, data, labelled, restoredAt, backups, backupMode,
                 allowed, queued, pc, crashes, errors, wanted, used>>

ObjectGone == ObjectMoves({"terminating", "overdue"}, "absent")
DeadlinePasses == ObjectMoves({"terminating"}, "overdue")

UserUnpauses ==
  /\ paused
  /\ paused' = FALSE
  /\ queued' = TRUE
  /\ UNCHANGED <<request, mode, observed, statusVars, pausedStatus, provisioned, hubVars,
                 pc, crashes, errors, wanted, used>>

ProvisioningCompletes ==
  /\ ~provisioned
  /\ provisioned' = TRUE
  /\ UNCHANGED <<request, mode, observed, statusVars, paused, pausedStatus, hubVars,
                 queued, pc, crashes, errors, wanted, used>>

\* The administrator enables reinstallation.
AdminAllows ==
  /\ ~allowed
  /\ allowed' = TRUE
  /\ UNCHANGED <<ciVars, obj, incarnation, data, labelled, restoredAt, backups, backupMode,
                 queued, pc, crashes, errors, wanted, used>>

-----------------------------------------------------------------------------
Operator ==
  \/ Start \/ ClearPaused \/ InitializeReinstallStatus \/ BeginRequest
  \/ EnsureValidRequest \/ ApplyPreservedLabel \/ EnsureDataIsPreserved
  \/ EnsureManifestsAreDeleted \/ EnsureDataIsRestored
  \/ Cleanup \/ FinalizeRequest \/ CompleteRequest \/ FailRequest \/ FailAndPause
  \/ ApplyPauseAnnotation \/ ApplyPauseStatus \/ Render

Environment ==
  \/ \E g \in Requests, m \in Modes : UserRequests(g, m)
  \/ UserLabels \/ UserUnpauses \/ ProvisioningCompletes \/ AdminAllows
  \/ ObjectGone \/ DeadlinePasses
  \/ \E r \in Resources : DataChanges(r) \/ DataLost(r) \/ DataRecreated(r)

Next == Operator \/ Crash \/ Environment

Spec == Init /\ [][Next]_vars

\* The work queue and the reconcile keep going, and the clock does not stop.
FairSpec == Spec /\ WF_vars(Operator) /\ WF_vars(DeadlinePasses)

-----------------------------------------------------------------------------
(***************************************************************************)
(* Properties                                                              *)
(***************************************************************************)

\* A reinstallation that is done starts from a clean slate: the objects of the previous
\* installation were gone before the new ones were rendered.
CleanSlate ==
  pc = "idle" /\ observed /\ request # NoRequest /\ done = request =>
    incarnation = request

\* When a request is done, every resource that carried a preservation label when it was
\* taken up (and that no earlier deletion was removing) has the content it had then,
\* whatever happened to it in between.
PreservedDataSurvives ==
  [][done' # done /\ mode # "None" =>
       \A r \in Resources : wanted[r] # "absent" => data[r] = wanted[r] /\ r \in labelled]_vars

\* The deletion of the objects begins only when every labelled resource has a backup under
\* the request's own generation.
BackupFirst ==
  [][obj = "live" /\ obj' = "terminating" /\ mode # "None" =>
       \A r \in Selected : backups[request][r] # "absent"]_vars

\* A request is done, or fails, or waits for the user who has to lift the pause, whatever
\* conditions and backups the request before it has left.
RequestEnds ==
  \A g \in Requests :
    request = g ~> \/ request # g \/ done = g \/ paused
                   \/ inProgress = g /\ cond["Processed"] = "Failed" /\ endTime
=============================================================================
