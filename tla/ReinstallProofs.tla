--------------------------- MODULE ReinstallProofs ---------------------------
(***************************************************************************)
(* What holds of a reinstallation for both kinds of data, any number of    *)
(* requests in any mode, and any number of crashes and errors.             *)
(*                                                                         *)
(* A pass runs all tasks from the first one, so that a task may rely on    *)
(* what the earlier ones of its own pass have found or done; across passes *)
(* it may rely on the conditions only.  The data of a request is, at every *)
(* moment, where it was or in the request's own backup.                    *)
(***************************************************************************)
EXTENDS Reinstall, TLAPS

\* The request has been taken up and has not ended.
Ongoing == request # NoRequest /\ inProgress = request /\ ~endTime

\* The steps of a pass for a request that has been taken up.
Active == {"begin", "validate", "label", "preserve", "delete", "restore", "cleanup",
           "finalize", "fail", "failAndPause"}

\* A request that was taken up stays ongoing until it has an end time; it has one only if
\* it has failed, or is done and no longer in progress.
RequestInv ==
  /\ request # NoRequest => request \in used
  /\ inProgress # NoRequest /\ endTime => cond["Processed"] = "Failed"
  /\ inProgress # NoRequest => cond["Processed"] # "unset"
  /\ Ongoing => done # request

\* The tasks work on an ongoing request, and Reconcile renders only when there is none.
PassInv ==
  /\ pc \in Active => Ongoing
  /\ pc \in Active \cup {"initialize", "complete", "render"} => ~observed
  /\ pc = "initialize" => request # NoRequest /\ done # request /\ inProgress # request
  /\ pc = "complete" => inProgress = NoRequest
  /\ pc = "render" => ~Ongoing

\* If no call of a deletion pass fails: the deletion has completed before anything is
\* restored, and the objects are then gone until the request is done.
DeletedInv ==
  ~DeletionErrors =>
    /\ cond["Deleted"] # "Failed"
    /\ Ongoing /\ cond["Deleted"] = "Completed" => obj = "absent"
    /\ pc \in {"restore", "cleanup", "finalize"} => cond["Deleted"] = "Completed"
    /\ request # NoRequest /\ done = request =>
         incarnation = request \/ (obj = "absent" /\ ~observed)

\* A pass that reaches the deletion of live objects has backed up what is labelled.
BackupInv ==
  pc = "delete" /\ mode # "None" /\ obj = "live" =>
    \A r \in Selected : backups[request][r] # "absent"

\* A generation that is not used again comes without backups.
FreshInv ==
  ~Reuse =>
    /\ \A g \in Requests \ used : backups[g] = NoBackup
    /\ request # NoRequest /\ inProgress # request /\ done # request =>
         backups[request] = NoBackup

\* The data that the request is to preserve is in its backup or has not been touched; what
\* the tasks of a pass add to that.
Kept(r) ==
  /\ backups[request][r] \in {"absent", wanted[r]}
  /\ \/ backups[request][r] = wanted[r]
     \/ data[r] = wanted[r] /\ r \in labelled \cup {"internal"}
  /\ obj \in {"terminating", "overdue"} => backups[request][r] = wanted[r]
  /\ pc = "preserve" =>
       \/ backups[request][r] = wanted[r]
       \/ data[r] = wanted[r] /\ r \in labelled
  /\ pc \in {"delete", "restore"} => backups[request][r] = wanted[r]
  /\ pc \in {"cleanup", "finalize"} => data[r] = wanted[r] /\ r \in labelled

KeptInv ==
  ~DeletionErrors /\ ~Reuse /\ Ongoing /\ mode # "None" =>
    /\ "identity" \in Resources /\ backups[request]["identity"] # "absent" =>
         backupMode[request] = mode
    /\ \A r \in Resources : wanted[r] # "absent" => Kept(r)

IInv ==
  /\ TypeOK
  /\ RequestInv /\ PassInv /\ DeletedInv
  /\ BackupInv /\ FreshInv /\ KeptInv

-----------------------------------------------------------------------------
(***************************************************************************)
(* The operators                                                           *)
(***************************************************************************)

\* A report that is new ends the pass; one that is not changes nothing.
LEMMA ReportShape ==
  ASSUME TypeOK, NEW c \in Conditions \ {"Processed"}, NEW reason \in Reasons, NEW onward,
         Report(c, reason, onward)
  PROVE  /\ cond' \in [Conditions -> Reasons]
         /\ queued' \in BOOLEAN
         /\ \A x \in Conditions \ {c, "Processed"} : cond'[x] = cond[x]
         /\ cond'[c] = reason
         /\ \/ pc' = "idle" /\ cond'["Processed"] = "InProgress" /\ cond[c] # reason
            \/ pc' = onward /\ cond' = cond
<1>1. queued' \in BOOLEAN
  BY DEF Report, Return, GoOn, TypeOK
<1>2. "Processed" \in Conditions /\ "InProgress" \in Reasons
  BY DEF Conditions, Reasons
<1>3. CASE /\ cond[c] # reason
           /\ cond' = [cond EXCEPT ![c] = reason, !["Processed"] = "InProgress"]
           /\ pc' = "idle"
  BY <1>1, <1>2, <1>3 DEF TypeOK
<1>4. CASE cond[c] = reason /\ pc' = onward /\ cond' = cond
  BY <1>1, <1>4 DEF TypeOK
<1>5. QED
  BY <1>3, <1>4 DEF Report, Return, GoOn

\* An error of a task stays within its bound.
LEMMA ErrorType == TypeOK /\ TaskError => errors' \in 0..MaxErrors
  BY ReinstallAssumption DEF TypeOK, TaskError

\* Backups are made for the request alone, and those that exist are kept.
LEMMA BackupShape ==
  ASSUME TypeOK, request \in Requests, NEW S, BackupResources(S)
  PROVE  /\ backups' \in [Requests -> [Resources -> Contents \cup {"absent"}]]
         /\ backupMode' \in [Requests -> {"None", "All", "ClusterIdentity"}]
         /\ \A g \in Requests \ {request} : backups'[g] = backups[g]
         /\ \A r \in Resources :
              backups'[request][r] =
                IF r \in S /\ backups[request][r] = "absent" THEN data[r] ELSE backups[request][r]
         /\ backupMode'[request] = IF "identity" \in S THEN mode ELSE backupMode[request]
<1> DEFINE new == [r \in Resources |-> IF r \in S THEN CreateResource(r) ELSE backups[request][r]]
<1>1. new \in [Resources -> Contents \cup {"absent"}]
  BY DEF TypeOK, CreateResource
<1>2. backups' = [backups EXCEPT ![request] = new]
  BY DEF BackupResources
<1>3. \A r \in Resources :
        new[r] = IF r \in S /\ backups[request][r] = "absent" THEN data[r] ELSE backups[request][r]
  BY DEF CreateResource
<1>4. /\ backupMode' \in [Requests -> {"None", "All", "ClusterIdentity"}]
      /\ backupMode'[request] = IF "identity" \in S THEN mode ELSE backupMode[request]
  BY DEF BackupResources, TypeOK
<1> HIDE DEF new
<1>5. QED
  BY <1>1, <1>2, <1>3, <1>4 DEF TypeOK

\* Restored resources have the content of the request's backups, and a label.
LEMMA RestoreShape ==
  ASSUME TypeOK, request \in Requests, NEW S \in SUBSET Resources, RestoreResources(S)
  PROVE  /\ data' \in [Resources -> Contents \cup {"absent"}]
         /\ labelled' \in SUBSET Resources /\ restoredAt' \in SUBSET Resources
         /\ \A r \in Resources : data'[r] = IF r \in S THEN backups[request][r] ELSE data[r]
         /\ labelled' = labelled \cup S
  BY DEF RestoreResources, TypeOK

\* Cleanup removes backups of some resources, of every request.
LEMMA CleanupShape ==
  ASSUME TypeOK, Cleanup
  PROVE  /\ pc = "cleanup" /\ pc' \in {"finalize", "idle"} /\ queued' \in BOOLEAN
         /\ UNCHANGED <<request, mode, observed, inProgress, done, endTime, history, paused,
                        pausedStatus, provisioned, obj, incarnation, data, labelled, restoredAt,
                        backupMode, allowed, crashes, wanted, used>>
         /\ errors' \in 0..MaxErrors
         /\ cond' \in [Conditions -> Reasons]
         /\ \A c \in Conditions \ {"Processed"} : cond'[c] = cond[c]
         /\ cond'["Processed"] \in {cond["Processed"], "InProgress"}
         /\ \E S \in SUBSET Resources :
              backups' = [g \in Requests |-> [r \in Resources |->
                            IF r \in S THEN "absent" ELSE backups[g][r]]]
         /\ backups' \in [Requests -> [Resources -> Contents \cup {"absent"}]]
<1>1. CASE /\ backups' = [g \in Requests |-> [r \in Resources |->
                            IF r \in CleanedUp THEN "absent" ELSE backups[g][r]]]
           /\ GoOn("finalize") /\ UNCHANGED <<cond, errors>>
  <2>1. CleanedUp \in SUBSET Resources
    BY DEF CleanedUp
  <2>2. queued' \in BOOLEAN /\ pc' = "finalize" /\ errors' \in 0..MaxErrors
    BY <1>1 DEF GoOn, TypeOK
  <2>3. backups' \in [Requests -> [Resources -> Contents \cup {"absent"}]]
    BY <1>1 DEF TypeOK
  <2>4. cond' = cond /\ cond' \in [Conditions -> Reasons]
    BY <1>1 DEF TypeOK
  <2>5. QED
    BY <1>1, <2>1, <2>2, <2>3, <2>4 DEF Cleanup
<1>2. CASE /\ TaskError
           /\ \E S \in SUBSET CleanedUp :
                backups' = [g \in Requests |-> [r \in Resources |->
                              IF r \in S THEN "absent" ELSE backups[g][r]]]
           /\ cond' = [cond EXCEPT !["Processed"] = "InProgress"]
           /\ Return(TRUE)
  <2>1. PICK S \in SUBSET Resources :
          backups' = [g \in Requests |-> [r \in Resources |->
                        IF r \in S THEN "absent" ELSE backups[g][r]]]
    BY <1>2 DEF CleanedUp
  <2>2. queued' \in BOOLEAN /\ pc' = "idle"
    BY <1>2 DEF Return, TypeOK
  <2>3. errors' \in 0..MaxErrors
    BY <1>2, ErrorType
  <2>4. /\ cond' \in [Conditions -> Reasons]
        /\ \A c \in Conditions \ {"Processed"} : cond'[c] = cond[c]
        /\ cond'["Processed"] = "InProgress"
    BY <1>2 DEF TypeOK, Conditions, Reasons
  <2>5. backups' \in [Requests -> [Resources -> Contents \cup {"absent"}]]
    BY <2>1 DEF TypeOK
  <2>6. QED
    BY <2>1, <2>2, <2>3, <2>4, <2>5 DEF Cleanup
<1>3. QED
  BY <1>1, <1>2 DEF Cleanup

-----------------------------------------------------------------------------
(***************************************************************************)
(* The tasks                                                               *)
(***************************************************************************)

\* What no task touches.
TaskFrame == <<request, mode, observed, inProgress, done, endTime, history, paused,
               pausedStatus, provisioned, incarnation, allowed, crashes, wanted, used>>

\* What a task that reports under c may do to the conditions.
Reports(c) ==
  /\ cond' \in [Conditions -> Reasons]
  /\ \A x \in Conditions \ {c, "Processed"} : cond'[x] = cond[x]
  /\ cond'["Processed"] \in {cond["Processed"], "InProgress"}

\* ensureValidReinstallRequest only reports.
LEMMA ValidateShape ==
  ASSUME TypeOK, EnsureValidRequest
  PROVE  /\ pc = "validate" /\ pc' \in {"idle", "label", "fail"} /\ queued' \in BOOLEAN
         /\ UNCHANGED <<TaskFrame, obj, data, labelled, restoredAt, backups, backupMode, errors>>
         /\ Reports("Validated")
<1>1. PICK reason \in {"Completed", "Failed"}, onward \in {"label", "fail"} :
        Report("Validated", reason, onward)
  BY DEF EnsureValidRequest
<1>2. "Validated" \in Conditions \ {"Processed"} /\ reason \in Reasons
  BY DEF Conditions, Reasons
<1>3. Reports("Validated") /\ queued' \in BOOLEAN /\ pc' \in {"idle", "label", "fail"}
  BY <1>1, <1>2, ReportShape DEF Reports
<1>4. QED
  BY <1>3 DEF EnsureValidRequest, TaskFrame, hubVars

\* The operator's own data is labelled before the pass goes on.
LEMMA LabelShape ==
  ASSUME TypeOK, ApplyPreservedLabel
  PROVE  /\ pc = "label" /\ pc' \in {"preserve", "fail"} /\ UNCHANGED queued
         /\ UNCHANGED <<TaskFrame, obj, cond, data, restoredAt, backups, backupMode>>
         /\ errors' \in 0..MaxErrors
         /\ labelled' \in SUBSET Resources /\ labelled \subseteq labelled'
         /\ pc' = "preserve" =>
              \A r \in Resources : r = "internal" /\ data[r] # "absent" => r \in labelled'
<1>1. UNCHANGED <<TaskFrame, obj, cond, data, restoredAt, backups, backupMode>>
  BY DEF ApplyPreservedLabel, TaskFrame, ciVars, statusVars
<1>2. CASE /\ labelled' = labelled \cup {r \in Resources \cap {"internal"} : data[r] # "absent"}
           /\ GoOn("preserve") /\ UNCHANGED errors
  BY <1>1, <1>2 DEF ApplyPreservedLabel, GoOn, TypeOK
<1>3. CASE TaskError /\ GoOn("fail") /\ UNCHANGED labelled
  BY <1>1, <1>3, ErrorType DEF ApplyPreservedLabel, GoOn, TypeOK
<1>4. QED
  BY <1>2, <1>3 DEF ApplyPreservedLabel

\* The pass goes on from the preservation only if everything selected is backed up.
LEMMA PreserveShape ==
  ASSUME TypeOK, request \in Requests, EnsureDataIsPreserved
  PROVE  /\ pc = "preserve" /\ pc' \in {"idle", "delete", "fail"} /\ queued' \in BOOLEAN
         /\ UNCHANGED <<TaskFrame, obj, data, labelled, restoredAt>>
         /\ errors' \in 0..MaxErrors
         /\ Reports("BackedUp")
         /\ \/ mode = "None" /\ UNCHANGED <<backups, backupMode>>
            \/ /\ mode # "None"
               /\ \E S \in SUBSET Selected :
                    BackupResources(S) /\ (pc' = "delete" => S = Selected)
<1> DEFINE Reported == Reports("BackedUp") /\ queued' \in BOOLEAN
<1>1. UNCHANGED <<TaskFrame, obj, data, labelled, restoredAt>> /\ pc = "preserve"
  BY DEF EnsureDataIsPreserved, TaskFrame
<1>2. ASSUME NEW reason \in {"NotRequired", "Completed", "Failed"}, NEW onward,
             Report("BackedUp", reason, onward)
      PROVE  Reported /\ pc' \in {"idle", onward}
  <2>1. "BackedUp" \in Conditions \ {"Processed"} /\ reason \in Reasons
    BY DEF Conditions, Reasons
  <2>2. QED
    BY <1>2, <2>1, ReportShape DEF Reports
<1> HIDE DEF Reported
<1>3. CASE /\ mode = "None" /\ Report("BackedUp", "NotRequired", "delete")
           /\ UNCHANGED <<backups, backupMode, errors>>
  <2>1. Reported /\ pc' \in {"idle", "delete"}
    BY <1>2, <1>3
  <2>2. QED
    BY <1>1, <1>3, <2>1 DEF Reported, TypeOK
<1>4. CASE /\ mode # "None" /\ BackupResources(Selected)
           /\ \/ Report("BackedUp", "Completed", "delete")
              \/ Report("BackedUp", "Failed", "fail")
           /\ UNCHANGED errors
  <2>1. Reported /\ pc' \in {"idle", "delete", "fail"}
    BY <1>2, <1>4
  <2>2. QED
    BY <1>1, <1>4, <2>1 DEF Reported, TypeOK
<1>5. CASE /\ mode # "None" /\ TaskError
           /\ \E S \in SUBSET Selected : BackupResources(S)
           /\ Report("BackedUp", "Failed", "fail")
  <2>1. Reported /\ pc' \in {"idle", "fail"}
    BY <1>2, <1>5
  <2>2. errors' \in 0..MaxErrors
    BY <1>5, ErrorType
  <2>3. QED
    BY <1>1, <1>5, <2>1, <2>2 DEF Reported
<1>6. QED
  BY <1>3, <1>4, <1>5 DEF EnsureDataIsPreserved

\* The deletion completes when the objects are gone, and it does not bring any back.
LEMMA DeleteShape ==
  ASSUME TypeOK, EnsureManifestsAreDeleted
  PROVE  /\ pc = "delete" /\ pc' \in {"idle", "restore", "failAndPause"} /\ queued' \in BOOLEAN
         /\ UNCHANGED <<TaskFrame, data, labelled, restoredAt, backups, backupMode>>
         /\ errors' \in 0..MaxErrors
         /\ Reports("Deleted")
         /\ obj' = obj \/ (obj \in {"live", "terminating"} /\ obj' = "terminating")
         /\ cond'["Deleted"] = "Completed" =>
              obj' = obj /\ (cond["Deleted"] = "Completed" \/ obj = "absent")
         /\ ~DeletionErrors /\ cond["Deleted"] # "Failed" =>
              /\ cond'["Deleted"] # "Failed"
              /\ pc' = "restore" => cond'["Deleted"] = "Completed"
<1>1. UNCHANGED <<TaskFrame, data, labelled, restoredAt, backups, backupMode>> /\ pc = "delete"
  BY DEF EnsureManifestsAreDeleted, TaskFrame
<1>2. "Deleted" \in Conditions \ {"Processed"} /\ "Processed" \in Conditions
      /\ {"InProgress", "Completed", "Failed", "TimedOut"} \subseteq Reasons
  BY DEF Conditions, Reasons
<1>3. CASE /\ cond["Deleted"] = "Initialized" /\ Report("Deleted", "InProgress", "delete")
           /\ UNCHANGED <<obj, errors>>
  <2>1. /\ Reports("Deleted") /\ queued' \in BOOLEAN
        /\ cond'["Deleted"] = "InProgress" /\ pc' = "idle"
    BY <1>2, <1>3, ReportShape DEF Reports
  <2>2. QED
    BY <1>1, <1>3, <2>1 DEF TypeOK
<1>4. CASE /\ cond["Deleted"] \in {"Completed", "Failed"} /\ GoOn("restore")
           /\ UNCHANGED <<cond, obj, errors>>
  <2>1. Reports("Deleted") /\ queued' \in BOOLEAN
    BY <1>4 DEF Reports, GoOn, TypeOK
  <2>2. QED
    BY <1>1, <1>4, <2>1 DEF GoOn, TypeOK
<1>5. CASE cond["Deleted"] \in {"InProgress", "TimedOut"} /\ DeletionPass
  <2>1. CASE obj = "absent" /\ Report("Deleted", "Completed", "restore") /\ UNCHANGED <<obj, errors>>
    <3>1. /\ Reports("Deleted") /\ queued' \in BOOLEAN
          /\ cond'["Deleted"] = "Completed" /\ pc' \in {"idle", "restore"}
      BY <1>2, <2>1, ReportShape DEF Reports
    <3>2. QED
      BY <1>1, <2>1, <3>1 DEF TypeOK
  <2>2. CASE /\ obj \in {"live", "terminating"} /\ obj' = "terminating"
             /\ cond' = [cond EXCEPT !["Processed"] = "InProgress"]
             /\ Return(TRUE) /\ UNCHANGED errors
    <3>1. Reports("Deleted") /\ cond'["Deleted"] = cond["Deleted"]
      BY <1>2, <2>2 DEF Reports, TypeOK
    <3>2. queued' \in BOOLEAN /\ pc' = "idle"
      BY <2>2 DEF Return, TypeOK
    <3>3. QED
      BY <1>1, <1>5, <2>2, <3>1, <3>2 DEF TypeOK
  <2>3. ASSUME NEW reason \in {"TimedOut", "Failed"}, DeletionStops(reason)
        PROVE  /\ Reports("Deleted") /\ cond'["Deleted"] = reason /\ queued' \in BOOLEAN
               /\ obj' = obj /\ pc' = "failAndPause"
    <3>1. Reports("Deleted") /\ cond'["Deleted"] = reason
      BY <1>2, <2>3 DEF DeletionStops, Reports, TypeOK
    <3>2. QED
      BY <2>3, <3>1 DEF DeletionStops, GoOn, TypeOK
  <2>4. CASE obj = "overdue" /\ DeletionStops("TimedOut") /\ UNCHANGED errors
    BY <1>1, <2>3, <2>4 DEF TypeOK
  <2>5. CASE DeletionErrors /\ TaskError /\ DeletionStops("Failed")
    BY <1>1, <2>3, <2>5, ErrorType
  <2>6. QED
    BY <1>5, <2>1, <2>2, <2>4, <2>5 DEF DeletionPass
<1>6. QED
  BY <1>3, <1>4, <1>5 DEF EnsureManifestsAreDeleted

\* The pass goes on from the restoration only if everything restorable is restored.
LEMMA RestoreTaskShape ==
  ASSUME TypeOK, request \in Requests, EnsureDataIsRestored
  PROVE  /\ pc = "restore" /\ pc' \in {"idle", "cleanup", "fail"} /\ queued' \in BOOLEAN
         /\ UNCHANGED <<TaskFrame, obj, backups, backupMode>>
         /\ errors' \in 0..MaxErrors
         /\ Reports("Restored")
         /\ \/ mode = "None" /\ UNCHANGED <<data, labelled, restoredAt>>
            \/ /\ mode # "None"
               /\ \E S \in SUBSET Restorable :
                    RestoreResources(S) /\ (pc' = "cleanup" => S = Restorable)
<1> DEFINE Reported == Reports("Restored") /\ queued' \in BOOLEAN
<1>1. UNCHANGED <<TaskFrame, obj, backups, backupMode>> /\ pc = "restore"
  BY DEF EnsureDataIsRestored, TaskFrame
<1>2. ASSUME NEW reason \in {"NotRequired", "Completed", "Failed"}, NEW onward,
             Report("Restored", reason, onward)
      PROVE  Reported /\ pc' \in {"idle", onward}
  <2>1. "Restored" \in Conditions \ {"Processed"} /\ reason \in Reasons
    BY DEF Conditions, Reasons
  <2>2. QED
    BY <1>2, <2>1, ReportShape DEF Reports
<1> HIDE DEF Reported
<1>3. CASE /\ mode = "None" /\ Report("Restored", "NotRequired", "cleanup")
           /\ UNCHANGED <<data, labelled, restoredAt, errors>>
  <2>1. Reported /\ pc' \in {"idle", "cleanup"}
    BY <1>2, <1>3
  <2>2. QED
    BY <1>1, <1>3, <2>1 DEF Reported, TypeOK
<1>4. CASE /\ mode # "None" /\ UNCHANGED errors
           /\ RestoreResources(IF RestoreStops THEN Restorable \ {"internal"} ELSE Restorable)
           /\ \/ AllAccepted /\ Report("Restored", "Completed", "cleanup")
              \/ Report("Restored", "Failed", "fail")
  <2>1. Reported /\ pc' \in {"idle", "cleanup", "fail"}
    BY <1>2, <1>4
  <2>2. pc' = "cleanup" => AllAccepted
    BY <1>2, <1>4
  <2>3. AllAccepted => ~RestoreStops
    BY DEF AllAccepted, RestoreStops
  <2>4. \E S \in SUBSET Restorable :
          RestoreResources(S) /\ (pc' = "cleanup" => S = Restorable)
    BY <1>4, <2>2, <2>3
  <2>5. QED
    BY <1>1, <1>4, <2>1, <2>4 DEF Reported, TypeOK
<1>5. CASE /\ mode # "None" /\ TaskError
           /\ \E S \in SUBSET Restorable : RestoreResources(S)
           /\ Report("Restored", "Failed", "fail")
  <2>1. Reported /\ pc' \in {"idle", "fail"}
    BY <1>2, <1>5
  <2>2. errors' \in 0..MaxErrors
    BY <1>5, ErrorType
  <2>3. QED
    BY <1>1, <1>5, <2>1, <2>2 DEF Reported
<1>6. QED
  BY <1>3, <1>4, <1>5 DEF EnsureDataIsRestored

-----------------------------------------------------------------------------
(***************************************************************************)
(* Type correctness                                                        *)
(***************************************************************************)

\* A task works on a request, not on none.
LEMMA ActiveRequest ==
  ASSUME TypeOK, PassInv, pc \in Active
  PROVE  request \in Requests
  BY DEF TypeOK, PassInv, Ongoing, NoRequest, Requests

\* Every step preserves the types; a step of a task needs a request to work on.
LEMMA TypeStep ==
  ASSUME TypeOK, PassInv, [Next]_vars
  PROVE  TypeOK'
<1>1. CASE Start
  <2>1. ProcessRequest \in {"render", "initialize", "begin", "validate"}
    BY DEF ProcessRequest
  <2>2. pc' \in {"idle", "clearPaused", "render", "initialize", "begin", "validate"}
    BY <1>1, <2>1 DEF Start
  <2>3. queued' \in BOOLEAN
    BY <1>1 DEF Start
  <2>4. QED
    BY <1>1, <2>2, <2>3 DEF Start, TypeOK, ciVars, statusVars, hubVars
<1>2. CASE ClearPaused \/ ApplyPauseStatus
  <2>1. queued' \in BOOLEAN /\ pausedStatus' \in BOOLEAN /\ pc' = "idle"
    BY <1>2 DEF ClearPaused, ApplyPauseStatus, Return, TypeOK
  <2>2. QED
    BY <1>2, <2>1 DEF ClearPaused, ApplyPauseStatus, TypeOK, statusVars, hubVars
<1>3. CASE InitializeReinstallStatus
  <2>1. queued' \in BOOLEAN /\ endTime' \in BOOLEAN /\ pc' = "idle"
    BY <1>3 DEF InitializeReinstallStatus, Return, TypeOK
  <2>2. cond' \in [Conditions -> Reasons]
    BY <1>3 DEF InitializeReinstallStatus, Reasons
  <2>3. wanted' \in [Resources -> Contents \cup {"absent"}]
    BY <1>3 DEF InitializeReinstallStatus, ToPreserve, TypeOK
  <2>4. QED
    BY <1>3, <2>1, <2>2, <2>3 DEF InitializeReinstallStatus, TypeOK, hubVars
<1>4. CASE BeginRequest
  <2>1. queued' \in BOOLEAN /\ pc' = "idle"
    BY <1>4 DEF BeginRequest, Return, TypeOK
  <2>2. cond' \in [Conditions -> Reasons]
    BY <1>4 DEF BeginRequest, TypeOK, Reasons
  <2>3. QED
    BY <1>4, <2>1, <2>2 DEF BeginRequest, TypeOK, hubVars
<1>5. CASE EnsureValidRequest
  BY <1>5, ValidateShape DEF TypeOK, Reports, TaskFrame
<1>6. CASE ApplyPreservedLabel
  BY <1>6, LabelShape DEF TypeOK, TaskFrame
<1>7. CASE EnsureDataIsPreserved
  <2>1. request \in Requests
    BY <1>7, ActiveRequest DEF EnsureDataIsPreserved, Active
  <2>2. /\ backups' \in [Requests -> [Resources -> Contents \cup {"absent"}]]
        /\ backupMode' \in [Requests -> {"None", "All", "ClusterIdentity"}]
    BY <1>7, <2>1, PreserveShape, BackupShape DEF TypeOK
  <2>3. /\ pc' \in {"idle", "delete", "fail"} /\ queued' \in BOOLEAN
        /\ UNCHANGED <<TaskFrame, obj, data, labelled, restoredAt>>
        /\ errors' \in 0..MaxErrors /\ cond' \in [Conditions -> Reasons]
    BY <1>7, <2>1, PreserveShape DEF Reports
  <2>4. QED
    BY <2>2, <2>3 DEF TypeOK, TaskFrame
<1>8. CASE EnsureManifestsAreDeleted
  <2>1. obj' \in {"absent", "live", "terminating", "overdue"}
    BY <1>8, DeleteShape DEF TypeOK
  <2>2. QED
    BY <1>8, <2>1, DeleteShape DEF TypeOK, Reports, TaskFrame
<1>9. CASE EnsureDataIsRestored
  <2>1. request \in Requests
    BY <1>9, ActiveRequest DEF EnsureDataIsRestored, Active
  <2>2. /\ data' \in [Resources -> Contents \cup {"absent"}]
        /\ labelled' \in SUBSET Resources /\ restoredAt' \in SUBSET Resources
    BY <1>9, <2>1, RestoreTaskShape, RestoreShape DEF TypeOK, Restorable
  <2>3. /\ pc' \in {"idle", "cleanup", "fail"} /\ queued' \in BOOLEAN
        /\ UNCHANGED <<TaskFrame, obj, backups, backupMode>>
        /\ errors' \in 0..MaxErrors /\ cond' \in [Conditions -> Reasons]
    BY <1>9, <2>1, RestoreTaskShape DEF Reports
  <2>4. QED
    BY <2>2, <2>3 DEF TypeOK, TaskFrame
<1>10. CASE Cleanup
  BY <1>10, CleanupShape DEF TypeOK
<1>11. CASE FinalizeRequest
  <2>1. request \in Requests
    BY <1>11, ActiveRequest DEF FinalizeRequest, Active
  <2>2. endTime' \in BOOLEAN /\ pc' = "complete" /\ UNCHANGED queued
    BY <1>11 DEF FinalizeRequest, GoOn
  <2>3. inProgress' \in 0..MaxRequests /\ done' \in 0..MaxRequests /\ history' \in SUBSET Requests
    BY <1>11, <2>1, ReinstallAssumption DEF FinalizeRequest, NoRequest, TypeOK
  <2>4. QED
    BY <1>11, <2>2, <2>3 DEF FinalizeRequest, TypeOK, hubVars
<1>12. CASE CompleteRequest \/ FailRequest \/ FailAndPause
  <2>1. queued' \in BOOLEAN /\ endTime' \in BOOLEAN /\ pc' \in {"render", "idle", "pause"}
    BY <1>12 DEF CompleteRequest, FailRequest, FailAndPause, GoOn, Return, TypeOK
  <2>2. cond' \in [Conditions -> Reasons]
    BY <1>12 DEF CompleteRequest, FailRequest, FailAndPause, TypeOK, Reasons
  <2>3. UNCHANGED <<request, mode, observed, inProgress, done, history, paused, pausedStatus,
                    provisioned, hubVars, crashes, errors, wanted, used>>
    BY <1>12 DEF CompleteRequest, FailRequest, FailAndPause
  <2>4. QED
    BY <2>1, <2>2, <2>3 DEF TypeOK, hubVars
<1>13. CASE ApplyPauseAnnotation
  <2>1. queued' \in BOOLEAN /\ paused' \in BOOLEAN /\ pc' = "pauseStatus"
    BY <1>13 DEF ApplyPauseAnnotation
  <2>2. QED
    BY <1>13, <2>1 DEF ApplyPauseAnnotation, TypeOK, statusVars, hubVars
<1>14. CASE Render
  <2>1. queued' \in BOOLEAN /\ observed' \in BOOLEAN /\ provisioned' \in BOOLEAN /\ pc' = "idle"
    BY <1>14 DEF Render, Return, TypeOK
  <2>2. obj' \in {"absent", "live", "terminating", "overdue"} /\ incarnation' \in 0..MaxRequests
    BY <1>14 DEF Render, TypeOK
  <2>3. QED
    BY <1>14, <2>1, <2>2 DEF Render, TypeOK, statusVars
<1>15. CASE Crash
  <2>1. queued' \in BOOLEAN /\ pc' = "idle" /\ crashes' \in 0..MaxCrashes
    BY <1>15, ReinstallAssumption DEF Crash, Return, TypeOK
  <2>2. QED
    BY <1>15, <2>1 DEF Crash, TypeOK, ciVars, statusVars, hubVars
<1>16. ASSUME NEW g \in Requests, NEW m \in Modes, UserRequests(g, m)
       PROVE  TypeOK'
  <2>1. queued' \in BOOLEAN /\ observed' \in BOOLEAN
    BY <1>16 DEF UserRequests
  <2>2. request' \in 0..MaxRequests /\ used' \in SUBSET Requests
        /\ mode' \in {"None", "All", "ClusterIdentity"}
    BY <1>16, ReinstallAssumption DEF UserRequests, Requests, TypeOK
  <2>3. QED
    BY <1>16, <2>1, <2>2 DEF UserRequests, TypeOK, statusVars, hubVars
<1>17. CASE UserLabels
  BY <1>17 DEF UserLabels, TypeOK, ciVars, statusVars
<1>18. CASE UserUnpauses
  <2>1. queued' \in BOOLEAN /\ paused' \in BOOLEAN
    BY <1>18 DEF UserUnpauses
  <2>2. QED
    BY <1>18, <2>1 DEF UserUnpauses, TypeOK, statusVars, hubVars
<1>19. CASE ProvisioningCompletes
  <2>1. provisioned' \in BOOLEAN
    BY <1>19 DEF ProvisioningCompletes
  <2>2. QED
    BY <1>19, <2>1 DEF ProvisioningCompletes, TypeOK, statusVars, hubVars
<1>20. CASE AdminAllows
  <2>1. allowed' \in BOOLEAN
    BY <1>20 DEF AdminAllows
  <2>2. QED
    BY <1>20, <2>1 DEF AdminAllows, TypeOK, ciVars, statusVars
<1>21. CASE ObjectGone \/ DeadlinePasses
  BY <1>21 DEF ObjectGone, DeadlinePasses, ObjectMoves, TypeOK, ciVars, statusVars
<1>22. ASSUME NEW r \in Resources, DataChanges(r) \/ DataLost(r) \/ DataRecreated(r)
       PROVE  TypeOK'
  <2>1. data' \in [Resources -> Contents \cup {"absent"}]
    BY <1>22 DEF DataChanges, DataLost, DataRecreated, TypeOK, Contents
  <2>2. labelled' \in SUBSET Resources /\ restoredAt' \in SUBSET Resources
    BY <1>22 DEF DataChanges, DataLost, DataRecreated, TypeOK
  <2>3. UNCHANGED <<ciVars, obj, incarnation, backups, backupMode, allowed, queued, pc,
                    crashes, errors, wanted, used>>
    BY <1>22 DEF DataChanges, DataLost, DataRecreated
  <2>4. QED
    BY <2>1, <2>2, <2>3 DEF TypeOK, ciVars, statusVars
<1>23. CASE UNCHANGED vars
  BY <1>23 DEF TypeOK, vars, ciVars, statusVars, hubVars
<1>24. QED
  BY <1>1, <1>2, <1>3, <1>4, <1>5, <1>6, <1>7, <1>8, <1>9, <1>10, <1>11, <1>12, <1>13, <1>14,
     <1>15, <1>16, <1>17, <1>18, <1>19, <1>20, <1>21, <1>22, <1>23
     DEF Next, Operator, Environment

-----------------------------------------------------------------------------
(***************************************************************************)
(* The life of a request                                                   *)
(***************************************************************************)

Task ==
  \/ EnsureValidRequest \/ ApplyPreservedLabel \/ EnsureDataIsPreserved
  \/ EnsureManifestsAreDeleted \/ EnsureDataIsRestored \/ Cleanup

\* What the tasks have in common: they leave the request as it is, and the pass goes on
\* with the request or ends.
LEMMA TaskShape ==
  ASSUME TypeOK, PassInv, Task
  PROVE  /\ pc \in Active /\ pc' \in Active \cup {"idle"}
         /\ UNCHANGED TaskFrame
         /\ cond'["Processed"] \in {cond["Processed"], "InProgress"}
         /\ EnsureManifestsAreDeleted \/ UNCHANGED <<obj, cond>>
              \/ (obj' = obj /\ cond'["Deleted"] = cond["Deleted"])
<1>1. {"Processed", "Deleted"} \subseteq Conditions
  BY DEF Conditions
<1>2. CASE EnsureValidRequest
  BY <1>1, <1>2, ValidateShape DEF Active, Reports
<1>3. CASE ApplyPreservedLabel
  BY <1>1, <1>3, LabelShape DEF Active
<1>4. CASE EnsureDataIsPreserved
  <2>1. request \in Requests
    BY <1>4, ActiveRequest DEF EnsureDataIsPreserved, Active
  <2>2. QED
    BY <1>1, <1>4, <2>1, PreserveShape DEF Active, Reports
<1>5. CASE EnsureManifestsAreDeleted
  BY <1>1, <1>5, DeleteShape DEF Active, Reports
<1>6. CASE EnsureDataIsRestored
  <2>1. request \in Requests
    BY <1>6, ActiveRequest DEF EnsureDataIsRestored, Active
  <2>2. QED
    BY <1>1, <1>6, <2>1, RestoreTaskShape DEF Active, Reports
<1>7. CASE Cleanup
  BY <1>1, <1>7, CleanupShape DEF Active, TaskFrame
<1>8. QED
  BY <1>2, <1>3, <1>4, <1>5, <1>6, <1>7 DEF Task

\* The environment but for a new request, and what it leaves alone.
OtherEnvironment ==
  \/ UserLabels \/ UserUnpauses \/ ProvisioningCompletes \/ AdminAllows
  \/ ObjectGone \/ DeadlinePasses
  \/ \E r \in Resources : DataChanges(r) \/ DataLost(r) \/ DataRecreated(r)

\* Nothing in the environment but a new request touches the request or its backups, and
\* nothing there brings the objects back.
LEMMA OtherShape ==
  ASSUME TypeOK, OtherEnvironment
  PROVE  /\ UNCHANGED <<request, mode, observed, inProgress, done, endTime, cond, incarnation,
                        backups, backupMode, pc, wanted, used>>
         /\ obj' = obj \/ obj' = "absent"
              \/ (obj = "terminating" /\ obj' = "overdue")
<1>1. CASE UserLabels \/ UserUnpauses \/ ProvisioningCompletes \/ AdminAllows
  BY <1>1 DEF UserLabels, UserUnpauses, ProvisioningCompletes, AdminAllows, ciVars, statusVars,
              hubVars
<1>2. CASE ObjectGone \/ DeadlinePasses
  BY <1>2 DEF ObjectGone, DeadlinePasses, ObjectMoves, ciVars, statusVars
<1>3. CASE \E r \in Resources : DataChanges(r) \/ DataLost(r) \/ DataRecreated(r)
  BY <1>3 DEF DataChanges, DataLost, DataRecreated, ciVars, statusVars
<1>4. QED
  BY <1>1, <1>2, <1>3 DEF OtherEnvironment

\* The disjuncts of the next-state relation, as the proofs below take them.
LEMMA NextShape ==
  ASSUME [Next]_vars
  PROVE  \/ Start \/ ClearPaused \/ InitializeReinstallStatus \/ BeginRequest \/ Task
         \/ FinalizeRequest \/ CompleteRequest \/ FailRequest \/ FailAndPause
         \/ ApplyPauseAnnotation \/ ApplyPauseStatus \/ Render \/ Crash
         \/ \E g \in Requests, m \in Modes : UserRequests(g, m)
         \/ OtherEnvironment \/ UNCHANGED vars
  BY DEF Next, Operator, Environment, Task, OtherEnvironment

\* Where Reconcile starts, given what the request is.
LEMMA StartShape ==
  ASSUME TypeOK, RequestInv, Start
  PROVE  /\ UNCHANGED <<ciVars, hubVars, wanted, used>>
         /\ \/ pc' \in {"idle", "clearPaused"}
            \/ pc' \in {"begin", "validate"} /\ Ongoing /\ ~observed
            \/ /\ pc' = "initialize" /\ ~observed
               /\ request # NoRequest /\ done # request /\ inProgress # request
            \/ pc' = "render" /\ ~Ongoing /\ ~observed
<1>1. UNCHANGED <<ciVars, hubVars, wanted, used>>
  BY DEF Start
<1>2. CASE pc' \in {"idle", "clearPaused"}
  BY <1>1, <1>2
<1>3. CASE pc' = ProcessRequest /\ ~observed
  <2>1. CASE request = NoRequest \/ IsRequestProcessed
    <3>1. pc' = "render"
      BY <1>3, <2>1 DEF ProcessRequest
    <3>2. ~Ongoing
      BY <2>1 DEF IsRequestProcessed, Ongoing, RequestInv
    <3>3. QED
      BY <1>1, <1>3, <3>1, <3>2
  <2>2. CASE request # NoRequest /\ ~IsRequestProcessed /\ inProgress # request
    BY <1>1, <1>3, <2>2 DEF ProcessRequest, IsRequestProcessed
  <2>3. CASE request # NoRequest /\ ~IsRequestProcessed /\ inProgress = request
    <3>1. cond["Processed"] # "unset" /\ ~endTime
      BY <2>3 DEF RequestInv, IsRequestProcessed
    <3>2. pc' \in {"begin", "validate"}
      BY <1>3, <2>3, <3>1 DEF ProcessRequest
    <3>3. QED
      BY <1>1, <1>3, <2>3, <3>1, <3>2 DEF Ongoing
  <2>4. QED
    BY <2>1, <2>2, <2>3
<1>4. QED
  BY <1>2, <1>3 DEF Start

\* A request goes from the user to its first pass, and on to its end.
LEMMA RequestStep ==
  ASSUME TypeOK, RequestInv, PassInv, [Next]_vars
  PROVE  RequestInv' /\ PassInv'
<1> USE DEF RequestInv, PassInv, Ongoing
<1>1. CASE UNCHANGED <<request, observed, inProgress, done, endTime, cond, used>>
           /\ pc' \in {pc, "idle", "clearPaused", "pauseStatus"}
  BY <1>1 DEF Active
<1>2. CASE Start
  <2>1. UNCHANGED <<request, observed, inProgress, done, endTime, cond, used>>
    BY <1>2, StartShape DEF ciVars, statusVars
  <2>2. RequestInv'
    BY <2>1
  <2>3. PassInv'
    <3>1. CASE pc' \in {"idle", "clearPaused"}
      BY <3>1 DEF Active
    <3>2. CASE pc' \in {"begin", "validate"} /\ Ongoing /\ ~observed
      BY <2>1, <3>2
    <3>3. CASE pc' = "initialize" /\ ~observed
               /\ request # NoRequest /\ done # request /\ inProgress # request
      BY <2>1, <3>3 DEF Active
    <3>4. CASE pc' = "render" /\ ~Ongoing /\ ~observed
      BY <2>1, <3>4 DEF Active
    <3>5. QED
      BY <1>2, <3>1, <3>2, <3>3, <3>4, StartShape
  <2>4. QED
    BY <2>2, <2>3
<1>3. CASE ClearPaused \/ ApplyPauseAnnotation \/ ApplyPauseStatus \/ Crash
  BY <1>1, <1>3 DEF ClearPaused, ApplyPauseAnnotation, ApplyPauseStatus, Crash, Return, ciVars,
                    statusVars
<1>4. CASE InitializeReinstallStatus
  <2>1. /\ pc = "initialize" /\ pc' = "idle" /\ inProgress' = request /\ endTime' = FALSE
        /\ cond'["Processed"] = "Initialized" /\ UNCHANGED <<request, done, used>>
    BY <1>4 DEF InitializeReinstallStatus, Return, Conditions
  <2>2. QED
    BY <2>1 DEF Active
<1>5. CASE BeginRequest
  <2>1. /\ pc \in Active /\ pc' = "idle" /\ cond'["Processed"] = "InProgress"
        /\ UNCHANGED <<request, inProgress, done, endTime, used>>
    BY <1>5 DEF BeginRequest, Return, Conditions, Active, TypeOK
  <2>2. QED
    BY <2>1 DEF Active
<1>6. CASE Task
  <2>1. /\ pc \in Active /\ pc' \in Active \cup {"idle"}
        /\ UNCHANGED <<request, observed, inProgress, done, endTime, used>>
        /\ cond'["Processed"] \in {cond["Processed"], "InProgress"}
    BY <1>6, TaskShape DEF TaskFrame
  <2>2. RequestInv'
    BY <2>1
  <2>3. PassInv'
    BY <2>1 DEF Active
  <2>4. QED
    BY <2>2, <2>3
<1>7. CASE FinalizeRequest
  <2>1. /\ pc \in Active /\ pc' = "complete" /\ inProgress' = NoRequest /\ endTime'
        /\ UNCHANGED <<request, observed, cond, used>>
    BY <1>7 DEF FinalizeRequest, GoOn, Active
  <2>2. QED
    BY <2>1 DEF Active
<1>8. CASE CompleteRequest
  <2>1. /\ pc = "complete" /\ pc' = "render"
        /\ UNCHANGED <<request, observed, inProgress, done, endTime, used>>
    BY <1>8 DEF CompleteRequest, GoOn
  <2>2. QED
    BY <2>1 DEF Active
<1>9. CASE FailRequest \/ FailAndPause
  <2>1. /\ pc \in Active /\ pc' \in {"idle", "pause"} /\ cond'["Processed"] = "Failed"
        /\ UNCHANGED <<request, observed, inProgress, done, used>>
        /\ endTime => endTime'
    BY <1>9 DEF FailRequest, FailAndPause, GoOn, Return, Active, Conditions, TypeOK
  <2>2. QED
    BY <2>1 DEF Active
<1>10. CASE Render
  <2>1. pc = "render" /\ pc' = "idle"
        /\ UNCHANGED <<request, inProgress, done, endTime, cond, used>>
    BY <1>10 DEF Render, Return, statusVars
  <2>2. QED
    BY <2>1 DEF Active
<1>11. ASSUME NEW g \in Requests, NEW m \in Modes, UserRequests(g, m)
       PROVE  RequestInv' /\ PassInv'
  <2>1. /\ pc = "idle" /\ pc' = pc /\ request' = g /\ g \in used' /\ g # done
        /\ UNCHANGED <<inProgress, done, endTime, cond>>
    BY <1>11 DEF UserRequests, AdmitsRequest, statusVars
  <2>2. QED
    BY <2>1 DEF Active
<1>12. CASE OtherEnvironment
  BY <1>1, <1>12, OtherShape
<1>13. CASE UNCHANGED vars
  BY <1>1, <1>13 DEF vars, ciVars, statusVars
<1> HIDE DEF RequestInv, PassInv, Ongoing
<1>14. QED
  BY <1>2, <1>3, <1>4, <1>5, <1>6, <1>7, <1>8, <1>9, <1>10, <1>11, <1>12, <1>13, NextShape

-----------------------------------------------------------------------------
(***************************************************************************)
(* The objects                                                             *)
(***************************************************************************)

\* No request but the one in progress, and only while it is, has a task at work.
LEMMA NewRequestShape ==
  ASSUME NEW g \in Requests, NEW m \in Modes, UserRequests(g, m)
  PROVE  /\ ~Ongoing' /\ request' = g /\ g # done /\ pc = "idle"
         /\ used' = used \cup {g} /\ (Reuse \/ g \notin used)
         /\ UNCHANGED <<statusVars, hubVars, pc, wanted>>
  BY DEF UserRequests, AdmitsRequest, Ongoing, NoRequest, Requests, statusVars

\* The objects are gone when the data is restored, and stay so until the request is done.
LEMMA DeletedStep ==
  ASSUME TypeOK, RequestInv, PassInv, DeletedInv, [Next]_vars
  PROVE  DeletedInv'
<1> SUFFICES ASSUME ~DeletionErrors
             PROVE  DeletedInv'
  BY DEF DeletedInv
<1> USE DEF DeletedInv
<1>0. {"Processed", "Deleted"} \subseteq Conditions
  BY DEF Conditions
<1>1. CASE /\ UNCHANGED <<request, observed, done, incarnation>>
           /\ Ongoing' => Ongoing
           /\ cond'["Deleted"] = cond["Deleted"]
           /\ obj = "absent" => obj' = "absent"
           /\ pc' \in {"restore", "cleanup", "finalize"} => pc \in {"restore", "cleanup", "finalize"}
  BY <1>1
<1>2. CASE Start
  <2>1. UNCHANGED <<request, observed, inProgress, endTime, done, incarnation, cond, obj>>
    BY <1>2, StartShape DEF ciVars, statusVars, hubVars
  <2>2. pc' \notin {"restore", "cleanup", "finalize"}
    BY <1>2, StartShape
  <2>3. QED
    BY <1>1, <2>1, <2>2 DEF Ongoing
<1>3. CASE ClearPaused \/ ApplyPauseAnnotation \/ ApplyPauseStatus \/ Crash
  BY <1>1, <1>3 DEF ClearPaused, ApplyPauseAnnotation, ApplyPauseStatus, Crash, Return, ciVars,
                    statusVars, hubVars, Ongoing
<1>4. CASE InitializeReinstallStatus
  <2>1. /\ pc = "initialize" /\ pc' = "idle" /\ cond'["Deleted"] = "Initialized"
        /\ UNCHANGED <<request, done>>
    BY <1>0, <1>4 DEF InitializeReinstallStatus, Return
  <2>2. QED
    BY <2>1 DEF PassInv
<1>5. CASE BeginRequest \/ CompleteRequest \/ FailRequest \/ FailAndPause
  <2>1. /\ UNCHANGED <<request, observed, done, incarnation, obj, inProgress>>
        /\ endTime => endTime'
        /\ cond'["Deleted"] = cond["Deleted"] /\ pc' \in {"idle", "render", "pause"}
    BY <1>0, <1>5 DEF BeginRequest, CompleteRequest, FailRequest, FailAndPause, GoOn, Return,
                      hubVars, TypeOK
  <2>2. QED
    BY <1>1, <2>1 DEF Ongoing
<1>6. CASE Task /\ ~EnsureManifestsAreDeleted
  <2>1. /\ UNCHANGED <<TaskFrame, obj>>
        /\ cond'["Deleted"] = cond["Deleted"]
    BY <1>6, TaskShape
  <2>2. pc' \in {"restore", "cleanup", "finalize"} => pc \in {"restore", "cleanup", "finalize"}
    <3>1. CASE EnsureValidRequest \/ ApplyPreservedLabel
      BY <3>1, ValidateShape, LabelShape
    <3>2. CASE EnsureDataIsPreserved
      <4>1. request \in Requests
        BY <3>2, ActiveRequest DEF EnsureDataIsPreserved, Active
      <4>2. QED
        BY <3>2, <4>1, PreserveShape
    <3>3. CASE EnsureDataIsRestored \/ Cleanup
      BY <3>3 DEF EnsureDataIsRestored, Cleanup
    <3>4. QED
      BY <1>6, <3>1, <3>2, <3>3 DEF Task
  <2>3. QED
    BY <1>1, <2>1, <2>2 DEF TaskFrame, Ongoing
<1>7. CASE EnsureManifestsAreDeleted
  <2>1. pc = "delete" /\ Ongoing /\ done # request
    BY <1>7 DEF EnsureManifestsAreDeleted, PassInv, RequestInv, Active
  <2>2. UNCHANGED <<request, done>>
    BY <1>7, DeleteShape DEF TaskFrame
  <2>3. /\ cond'["Deleted"] = "Completed" =>
             obj' = obj /\ (cond["Deleted"] = "Completed" \/ obj = "absent")
        /\ cond'["Deleted"] # "Failed"
        /\ pc' = "restore" => cond'["Deleted"] = "Completed"
        /\ pc' \in {"idle", "restore", "failAndPause"}
    BY <1>7, DeleteShape
  <2>4. QED
    BY <2>1, <2>2, <2>3
<1>8. CASE FinalizeRequest
  <2>1. /\ pc = "finalize" /\ pc' = "complete" /\ inProgress' = NoRequest /\ done' = request
        /\ UNCHANGED <<request, observed, cond, obj>>
    BY <1>8 DEF FinalizeRequest, GoOn, hubVars
  <2>2. obj = "absent" /\ ~observed
    BY <2>1 DEF PassInv, Active
  <2>3. QED
    BY <2>1, <2>2 DEF Ongoing
<1>9. CASE Render
  <2>1. /\ pc = "render" /\ pc' = "idle"
        /\ UNCHANGED <<request, done, inProgress, endTime, cond>>
        /\ incarnation' = IF obj = "absent" THEN request ELSE incarnation
    BY <1>9 DEF Render, Return, statusVars
  <2>2. ~Ongoing'
    BY <2>1 DEF PassInv, Ongoing
  <2>3. QED
    BY <2>1, <2>2
<1>10. ASSUME NEW g \in Requests, NEW m \in Modes, UserRequests(g, m)
       PROVE  DeletedInv'
  BY <1>10, NewRequestShape DEF statusVars
<1>11. CASE OtherEnvironment
  BY <1>1, <1>11, OtherShape DEF Ongoing
<1>12. CASE UNCHANGED vars
  BY <1>1, <1>12 DEF vars, ciVars, statusVars, hubVars, Ongoing
<1> HIDE DEF DeletedInv
<1>13. QED
  BY <1>2, <1>3, <1>4, <1>5, <1>6, <1>7, <1>8, <1>9, <1>10, <1>11, <1>12, NextShape

-----------------------------------------------------------------------------
(***************************************************************************)
(* The backups and the data                                                *)
(***************************************************************************)

\* While a request is ongoing, only a deletion that is under way touches the data.
LEMMA OngoingShape ==
  ASSUME TypeOK, RequestInv, Ongoing, OtherEnvironment
  PROVE  UNCHANGED <<data, labelled>> \/ obj \in {"terminating", "overdue"}
<1>1. Open
  BY DEF RequestInv, Ongoing, Open
<1>2. QED
  BY <1>1 DEF OtherEnvironment, UserLabels, UserUnpauses, ProvisioningCompletes, AdminAllows,
       ObjectGone, DeadlinePasses, ObjectMoves, DataChanges, DataLost, DataRecreated, hubVars

\* The steps that rely on the data or the backups.
Relying == {"preserve", "delete", "restore", "cleanup", "finalize"}

\* Only a task leads to one of them.
LEMMA RelyingShape ==
  ASSUME TypeOK, RequestInv, PassInv, [Next]_vars, pc' \in Relying
  PROVE  Task \/ (pc' = pc /\ (OtherEnvironment \/ UNCHANGED vars))
<1> USE DEF Relying
<1>1. CASE Start
  BY <1>1, StartShape
<1>2. CASE ClearPaused \/ InitializeReinstallStatus \/ BeginRequest \/ ApplyPauseAnnotation
           \/ ApplyPauseStatus \/ Render \/ Crash
  BY <1>2 DEF ClearPaused, InitializeReinstallStatus, BeginRequest, ApplyPauseAnnotation,
              ApplyPauseStatus, Render, Crash, Return
<1>3. CASE FinalizeRequest \/ CompleteRequest \/ FailRequest \/ FailAndPause
  BY <1>3 DEF FinalizeRequest, CompleteRequest, FailRequest, FailAndPause, GoOn, Return
<1>4. CASE \E g \in Requests, m \in Modes : UserRequests(g, m)
  BY <1>4, NewRequestShape
<1>5. CASE OtherEnvironment
  BY <1>5, OtherShape
<1>6. CASE UNCHANGED vars
  BY <1>6 DEF vars
<1>7. QED
  BY <1>1, <1>2, <1>3, <1>4, <1>5, <1>6, NextShape

\* What is labelled has a backup when the pass comes to the deletion of live objects.
LEMMA BackupStep ==
  ASSUME TypeOK, RequestInv, PassInv, BackupInv, [Next]_vars
  PROVE  BackupInv'
<1> SUFFICES ASSUME pc' = "delete", mode' # "None", obj' = "live"
             PROVE  \A r \in Selected' : backups'[request'][r] # "absent"
  BY DEF BackupInv
<1>1. CASE EnsureDataIsPreserved
  <2>1. request \in Requests
    BY <1>1, ActiveRequest DEF EnsureDataIsPreserved, Active
  <2>2. UNCHANGED <<request, mode, data, labelled>>
    BY <1>1, <2>1, PreserveShape DEF TaskFrame
  <2>3. BackupResources(Selected)
    BY <1>1, <2>1, <2>2, PreserveShape
  <2>4. Selected' = Selected /\ Selected \subseteq Resources
    BY <2>2 DEF Selected, TypeOK
  <2>5. \A r \in Selected : data[r] # "absent"
    BY DEF Selected
  <2>6. QED
    BY <2>1, <2>2, <2>3, <2>4, <2>5, BackupShape
<1>2. CASE Task /\ ~EnsureDataIsPreserved
  <2>1. ~EnsureValidRequest /\ ~ApplyPreservedLabel /\ ~EnsureManifestsAreDeleted /\ ~Cleanup
    BY ValidateShape, LabelShape, DeleteShape, CleanupShape
  <2>2. EnsureDataIsRestored
    BY <1>2, <2>1 DEF Task
  <2>3. request \in Requests
    BY <2>2, ActiveRequest DEF EnsureDataIsRestored, Active
  <2>4. QED
    BY <2>2, <2>3, RestoreTaskShape
<1>3. CASE pc' = pc /\ OtherEnvironment
  <2>1. Ongoing
    BY <1>3 DEF PassInv, Active
  <2>2. UNCHANGED <<request, mode, backups>> /\ obj = "live"
    BY <1>3, OtherShape
  <2>3. UNCHANGED <<data, labelled>>
    BY <1>3, <2>1, <2>2, OngoingShape
  <2>4. Selected' = Selected
    BY <2>3 DEF Selected
  <2>5. QED
    BY <1>3, <2>2, <2>4 DEF BackupInv
<1>4. CASE UNCHANGED vars
  BY <1>4 DEF BackupInv, Selected, vars, ciVars, hubVars
<1>5. QED
  BY <1>1, <1>2, <1>3, <1>4, RelyingShape DEF Relying

\* A request begins without backups of its own.
LEMMA FreshStep ==
  ASSUME TypeOK, RequestInv, PassInv, FreshInv, [Next]_vars
  PROVE  FreshInv'
<1> SUFFICES ASSUME ~Reuse
             PROVE  FreshInv'
  BY DEF FreshInv
<1> USE DEF FreshInv
<1>1. CASE /\ UNCHANGED <<request, used, backups>>
           /\ inProgress' = inProgress \/ inProgress' = request \/ done' = request
           /\ done' = done \/ done' = request
  BY <1>1
<1>2. CASE Start
  BY <1>1, <1>2, StartShape DEF ciVars, statusVars, hubVars
<1>3. CASE ClearPaused \/ ApplyPauseAnnotation \/ ApplyPauseStatus \/ Crash \/ Render
  BY <1>1, <1>3 DEF ClearPaused, ApplyPauseAnnotation, ApplyPauseStatus, Crash, Render, ciVars,
                    statusVars, hubVars
<1>4. CASE InitializeReinstallStatus \/ BeginRequest
  BY <1>1, <1>4 DEF InitializeReinstallStatus, BeginRequest, hubVars
<1>5. CASE FinalizeRequest \/ CompleteRequest \/ FailRequest \/ FailAndPause
  BY <1>1, <1>5 DEF FinalizeRequest, CompleteRequest, FailRequest, FailAndPause, hubVars
<1>6. CASE EnsureValidRequest \/ ApplyPreservedLabel \/ EnsureManifestsAreDeleted
  BY <1>1, <1>6, ValidateShape, LabelShape, DeleteShape DEF TaskFrame
<1>7. CASE EnsureDataIsRestored
  <2>1. request \in Requests
    BY <1>7, ActiveRequest DEF EnsureDataIsRestored, Active
  <2>2. QED
    BY <1>1, <1>7, <2>1, RestoreTaskShape DEF TaskFrame
<1>8. CASE EnsureDataIsPreserved
  <2>1. request \in Requests /\ inProgress = request /\ request \in used
    BY <1>8, ActiveRequest DEF EnsureDataIsPreserved, Active, PassInv, RequestInv, Ongoing
  <2>2. UNCHANGED <<request, inProgress, done, used>>
    BY <1>8, <2>1, PreserveShape DEF TaskFrame
  <2>3. \A g \in Requests \ {request} : backups'[g] = backups[g]
    BY <1>8, <2>1, PreserveShape, BackupShape
  <2>4. QED
    BY <2>1, <2>2, <2>3
<1>9. CASE Cleanup
  <2>1. UNCHANGED <<request, inProgress, done, used>>
    BY <1>9, CleanupShape
  <2>2. PICK S \in SUBSET Resources :
          backups' = [g \in Requests |-> [r \in Resources |->
                        IF r \in S THEN "absent" ELSE backups[g][r]]]
    BY <1>9, CleanupShape
  <2>3. \A g \in Requests : backups[g] = NoBackup => backups'[g] = NoBackup
    BY <2>2 DEF NoBackup
  <2>4. request # NoRequest => request \in Requests
    BY DEF TypeOK, NoRequest, Requests
  <2>5. QED
    BY <2>1, <2>3, <2>4
<1>10. ASSUME NEW g \in Requests, NEW m \in Modes, UserRequests(g, m)
       PROVE  FreshInv'
  BY <1>10, NewRequestShape DEF hubVars
<1>11. CASE OtherEnvironment
  BY <1>1, <1>11, OtherShape
<1>12. CASE UNCHANGED vars
  BY <1>1, <1>12 DEF vars, ciVars, statusVars, hubVars
<1> HIDE DEF FreshInv
<1>13. QED
  BY <1>2, <1>3, <1>4, <1>5, <1>6, <1>7, <1>8, <1>9, <1>10, <1>11, <1>12, NextShape DEF Task

\* The data to preserve is where it was or in the backup: a backup is made before anything
\* is deleted and keeps its content, and it goes only when the data is back.
LEMMA KeptStep ==
  ASSUME TypeOK, RequestInv, PassInv, DeletedInv, FreshInv, KeptInv, [Next]_vars
  PROVE  KeptInv'
<1> SUFFICES ASSUME ~DeletionErrors, ~Reuse, Ongoing', mode' # "None"
             PROVE  /\ "identity" \in Resources /\ backups'[request']["identity"] # "absent" =>
                         backupMode'[request'] = mode'
                    /\ \A r \in Resources : wanted'[r] # "absent" => Kept(r)'
  BY DEF KeptInv
<1>1. CASE /\ UNCHANGED <<request, mode, obj, data, labelled, backups, backupMode, wanted>>
           /\ Ongoing /\ pc' \notin Relying
  BY <1>1 DEF KeptInv, Kept, Relying
<1>2. CASE Start
  <2>1. UNCHANGED <<ciVars, hubVars, wanted, used>> /\ pc' \notin Relying
    BY <1>2, StartShape DEF Relying
  <2>2. QED
    BY <1>1, <2>1 DEF ciVars, statusVars, hubVars, Ongoing
<1>3. CASE ClearPaused \/ ApplyPauseAnnotation \/ ApplyPauseStatus \/ Crash
  <2>1. UNCHANGED <<request, mode, statusVars, hubVars, wanted>>
        /\ pc' \in {"idle", "pauseStatus"}
    BY <1>3 DEF ClearPaused, ApplyPauseAnnotation, ApplyPauseStatus, Crash, Return, ciVars
  <2>2. QED
    BY <1>1, <2>1 DEF statusVars, hubVars, Ongoing, Relying
<1>4. CASE InitializeReinstallStatus
  <2>1. /\ pc = "initialize" /\ pc' = "idle" /\ wanted' = ToPreserve
        /\ UNCHANGED <<request, mode, obj, data, labelled, backups, backupMode>>
    BY <1>4 DEF InitializeReinstallStatus, Return, hubVars
  <2>2. backups[request] = NoBackup
    BY <2>1 DEF PassInv, FreshInv
  <2>3. \A r \in Resources : backups[request][r] = "absent"
    BY <2>2 DEF NoBackup
  <2>4. \A r \in Resources : wanted'[r] # "absent" =>
          /\ data[r] = wanted'[r] /\ r \in labelled \cup {"internal"}
          /\ obj \notin {"terminating", "overdue"}
    BY <2>1 DEF ToPreserve
  <2>5. QED
    BY <2>1, <2>3, <2>4 DEF Kept
<1>5. CASE BeginRequest \/ CompleteRequest \/ FailRequest \/ FailAndPause
  <2>1. /\ UNCHANGED <<request, mode, inProgress, hubVars, wanted>> /\ (endTime => endTime')
        /\ pc' \in {"idle", "render", "pause"}
    BY <1>5 DEF BeginRequest, CompleteRequest, FailRequest, FailAndPause, GoOn, Return
  <2>2. Ongoing
    BY <2>1 DEF Ongoing
  <2>3. QED
    BY <1>1, <2>1, <2>2 DEF hubVars, Relying
<1>6. CASE Task
  <2>1. pc \in Active /\ Ongoing /\ request \in Requests
    BY <1>6, TaskShape, ActiveRequest DEF PassInv
  <2>2. UNCHANGED <<request, mode, wanted>>
    BY <1>6, TaskShape DEF TaskFrame
  <2>3. /\ "identity" \in Resources /\ backups[request]["identity"] # "absent" =>
             backupMode[request] = mode
        /\ \A r \in Resources : wanted[r] # "absent" => Kept(r)
    BY <2>1, <2>2 DEF KeptInv
  <2>4. CASE EnsureValidRequest
    BY <1>1, <2>1, <2>4, ValidateShape DEF TaskFrame, Relying
  <2>5. CASE ApplyPreservedLabel
    <3>1. /\ UNCHANGED <<obj, data, backups, backupMode>>
          /\ labelled \subseteq labelled' /\ pc' \in {"preserve", "fail"}
          /\ pc' = "preserve" =>
               \A r \in Resources : r = "internal" /\ data[r] # "absent" => r \in labelled'
      BY <2>5, LabelShape
    <3>2. ASSUME NEW r \in Resources, wanted[r] # "absent"
          PROVE  Kept(r)'
      BY <2>2, <2>3, <3>1, <3>2 DEF Kept
    <3>3. QED
      BY <2>2, <2>3, <3>1, <3>2
  <2>6. CASE EnsureDataIsPreserved
    <3>1. PICK S \in SUBSET Selected : BackupResources(S) /\ (pc' = "delete" => S = Selected)
      BY <2>1, <2>2, <2>6, PreserveShape
    <3>2. /\ UNCHANGED <<obj, data, labelled>> /\ pc = "preserve"
          /\ pc' \in {"idle", "delete", "fail"}
      BY <2>1, <2>6, PreserveShape
    <3>3. /\ \A r \in Resources :
               backups'[request][r] =
                 IF r \in S /\ backups[request][r] = "absent" THEN data[r] ELSE backups[request][r]
          /\ backupMode'[request] = IF "identity" \in S THEN mode ELSE backupMode[request]
      BY <2>1, <3>1, BackupShape
    <3>4. ASSUME NEW r \in Resources, wanted[r] # "absent"
          PROVE  Kept(r)'
      <4>1. backups[request][r] \in {"absent", wanted[r]}
            /\ (backups[request][r] = wanted[r] \/ (data[r] = wanted[r] /\ r \in labelled))
        BY <2>3, <3>2, <3>4 DEF Kept
      <4>2. CASE backups[request][r] = wanted[r]
        <5>1. backups'[request][r] = wanted[r]
          BY <3>3, <3>4, <4>2
        <5>2. QED
          BY <2>2, <3>2, <5>1 DEF Kept
      <4>3. CASE backups[request][r] = "absent" /\ data[r] = wanted[r] /\ r \in labelled
        <5>1. r \in Selected
          BY <3>4, <4>3 DEF Selected
        <5>2. backups'[request][r] = IF r \in S THEN wanted[r] ELSE "absent"
          BY <3>3, <4>3
        <5>3. obj \notin {"terminating", "overdue"}
          BY <2>3, <3>4, <4>3 DEF Kept
        <5>4. QED
          BY <2>2, <3>1, <3>2, <4>3, <5>1, <5>2, <5>3 DEF Kept
      <4>4. QED
        BY <4>1, <4>2, <4>3
    <3>5. "identity" \in Resources /\ backups'[request]["identity"] # "absent" =>
            backupMode'[request] = mode
      BY <2>3, <3>3
    <3>6. QED
      BY <2>2, <3>4, <3>5
  <2>7. CASE EnsureManifestsAreDeleted
    <3>1. /\ UNCHANGED <<data, labelled, backups, backupMode>> /\ pc = "delete"
          /\ pc' \in {"idle", "restore", "failAndPause"}
      BY <2>7, DeleteShape
    <3>2. ASSUME NEW r \in Resources, wanted[r] # "absent"
          PROVE  Kept(r)'
      <4>1. backups[request][r] = wanted[r]
        BY <2>3, <3>1, <3>2 DEF Kept
      <4>2. QED
        BY <2>2, <3>1, <4>1 DEF Kept
    <3>3. QED
      BY <2>2, <2>3, <3>1, <3>2
  <2>8. CASE EnsureDataIsRestored
    <3>1. PICK S \in SUBSET Restorable : RestoreResources(S) /\ (pc' = "cleanup" => S = Restorable)
      BY <2>1, <2>2, <2>8, RestoreTaskShape
    <3>2. /\ UNCHANGED <<obj, backups, backupMode>> /\ pc = "restore"
          /\ pc' \in {"idle", "cleanup", "fail"}
      BY <2>1, <2>8, RestoreTaskShape
    <3>3. /\ \A r \in Resources : data'[r] = IF r \in S THEN backups[request][r] ELSE data[r]
          /\ labelled' = labelled \cup S
      BY <2>1, <3>1, RestoreShape DEF Restorable
    <3>4. ASSUME NEW r \in Resources, wanted[r] # "absent"
          PROVE  Kept(r)'
      <4>1. backups[request][r] = wanted[r]
        BY <2>3, <3>2, <3>4 DEF Kept
      <4>2. r \in Restorable
        BY <2>3, <3>4, <4>1 DEF Restorable
      <4>3. pc' = "cleanup" => data'[r] = wanted[r] /\ r \in labelled'
        BY <3>1, <3>3, <4>1, <4>2
      <4>4. QED
        BY <2>2, <3>2, <4>1, <4>3 DEF Kept
    <3>5. QED
      BY <2>2, <2>3, <3>2, <3>4
  <2>9. CASE Cleanup
    <3>1. PICK S \in SUBSET Resources :
            backups' = [g \in Requests |-> [r \in Resources |->
                          IF r \in S THEN "absent" ELSE backups[g][r]]]
      BY <2>9, CleanupShape
    <3>2. /\ UNCHANGED <<obj, data, labelled, backupMode>> /\ pc = "cleanup"
          /\ pc' \in {"idle", "finalize"}
      BY <2>9, CleanupShape
    <3>3. \A r \in Resources : backups'[request][r] = IF r \in S THEN "absent" ELSE backups[request][r]
      BY <2>1, <3>1
    <3>4. obj = "absent"
      BY <2>1, <3>2 DEF DeletedInv
    <3>5. ASSUME NEW r \in Resources, wanted[r] # "absent"
          PROVE  Kept(r)'
      <4>1. data[r] = wanted[r] /\ r \in labelled /\ backups[request][r] \in {"absent", wanted[r]}
        BY <2>3, <3>2, <3>5 DEF Kept
      <4>2. backups'[request][r] \in {"absent", wanted[r]}
        BY <3>3, <4>1
      <4>3. QED
        BY <2>2, <3>2, <3>4, <4>1, <4>2 DEF Kept
    <3>6. "identity" \in Resources /\ backups'[request]["identity"] # "absent" =>
            backupMode'[request] = mode
      BY <2>3, <3>2, <3>3
    <3>7. QED
      BY <2>2, <3>5, <3>6
  <2>10. QED
    BY <1>6, <2>4, <2>5, <2>6, <2>7, <2>8, <2>9 DEF Task
<1>7. ~FinalizeRequest
  BY DEF FinalizeRequest, Ongoing
<1>8. ~Render
  <2>1. SUFFICES ASSUME Render
                 PROVE  FALSE
    OBVIOUS
  <2>2. UNCHANGED <<request, inProgress, endTime>> /\ pc = "render"
    BY <2>1 DEF Render, statusVars
  <2>3. ~Ongoing
    BY <2>2 DEF PassInv
  <2>4. QED
    BY <2>2, <2>3 DEF Ongoing
<1>9. ~\E g \in Requests, m \in Modes : UserRequests(g, m)
  BY NewRequestShape
<1>10. CASE OtherEnvironment
  <2>1. /\ UNCHANGED <<request, mode, inProgress, endTime, backups, backupMode, pc, wanted>>
        /\ obj' = obj \/ obj' = "absent" \/ (obj = "terminating" /\ obj' = "overdue")
    BY <1>10, OtherShape
  <2>2. Ongoing
    BY <2>1 DEF Ongoing
  <2>3. UNCHANGED <<data, labelled>> \/ obj \in {"terminating", "overdue"}
    BY <1>10, <2>2, OngoingShape
  <2>4. pc \in {"cleanup", "finalize"} => obj = "absent"
    BY <2>2 DEF DeletedInv
  <2>5. ASSUME NEW r \in Resources, wanted[r] # "absent"
        PROVE  Kept(r)'
    <3>1. Kept(r)
      BY <2>1, <2>2, <2>5 DEF KeptInv
    <3>2. CASE UNCHANGED <<data, labelled>>
      BY <2>1, <3>1, <3>2 DEF Kept
    <3>3. CASE obj \in {"terminating", "overdue"}
      <4>1. backups[request][r] = wanted[r] /\ pc \notin {"cleanup", "finalize"}
        BY <2>4, <3>1, <3>3 DEF Kept
      <4>2. QED
        BY <2>1, <4>1 DEF Kept
    <3>4. QED
      BY <2>3, <3>2, <3>3
  <2>6. QED
    BY <2>1, <2>2, <2>5 DEF KeptInv
<1>11. CASE UNCHANGED vars
  BY <1>11 DEF KeptInv, Kept, Ongoing, vars, ciVars, statusVars, hubVars
<1>12. QED
  BY <1>2, <1>3, <1>4, <1>5, <1>6, <1>7, <1>8, <1>9, <1>10, <1>11, NextShape

-----------------------------------------------------------------------------
(***************************************************************************)
(* The invariant and the theorems                                          *)
(***************************************************************************)

\* An installed cluster without a request satisfies the invariant.
LEMMA InvInit == Init => IInv
<1> SUFFICES ASSUME Init
             PROVE  IInv
  OBVIOUS
<1>1. TypeOK
  <2>1. 0 \in 0..MaxRequests /\ 0 \in 0..MaxCrashes /\ 0 \in 0..MaxErrors
    BY ReinstallAssumption
  <2>2. /\ cond \in [Conditions -> Reasons]
        /\ data \in [Resources -> Contents \cup {"absent"}]
        /\ NoBackup \in [Resources -> Contents \cup {"absent"}]
    BY DEF Init, Reasons, Contents, NoBackup
  <2>3. /\ backups \in [Requests -> [Resources -> Contents \cup {"absent"}]]
        /\ backupMode \in [Requests -> {"None", "All", "ClusterIdentity"}]
        /\ wanted \in [Resources -> Contents \cup {"absent"}]
    BY <2>2 DEF Init
  <2>4. labelled \in SUBSET Resources /\ restoredAt \in SUBSET Resources
        /\ history \in SUBSET Requests /\ used \in SUBSET Requests
    BY DEF Init
  <2>5. QED
    BY <2>1, <2>2, <2>3, <2>4 DEF Init, TypeOK, NoRequest
<1>2. RequestInv /\ PassInv /\ BackupInv /\ KeptInv
  BY DEF Init, RequestInv, PassInv, BackupInv, KeptInv, Ongoing, Active
<1>3. DeletedInv
  BY DEF Init, DeletedInv, Ongoing, Conditions
<1>4. FreshInv
  BY DEF Init, FreshInv
<1>5. QED
  BY <1>1, <1>2, <1>3, <1>4 DEF IInv

\* The invariant is inductive.
LEMMA InvStep == IInv /\ [Next]_vars => IInv'
  BY TypeStep, RequestStep, DeletedStep, BackupStep, FreshStep, KeptStep DEF IInv

\* The invariant holds in every reachable state.
LEMMA Invariance == Spec => []IInv
<1>1. Init => IInv
  BY InvInit
<1>2. IInv /\ [Next]_vars => IInv'
  BY InvStep
<1>3. QED
  BY <1>1, <1>2, PTL DEF Spec

\* The handler's state stays within its types: the history and the observed generation
\* record requests that were made.
THEOREM TypeCorrect == Spec => []TypeOK
<1>1. IInv => TypeOK
  BY DEF IInv
<1>2. QED
  BY <1>1, Invariance, PTL

\* As long as no call of a deletion pass fails, the objects of the previous installation
\* were gone before those of a reinstallation that is done were rendered.  (The task takes
\* a deletion that has failed for one that is over.)
THEOREM ReinstallsFromScratch ==
  ASSUME ~DeletionErrors
  PROVE  Spec => []CleanSlate
<1>1. IInv => CleanSlate
  BY DEF IInv, DeletedInv, CleanSlate
<1>2. QED
  BY <1>1, Invariance, PTL

\* ensureRenderedManifestsAreDeleted begins to delete only when every labelled resource has
\* a backup under the request's own generation, whatever crashes and errors came before.
THEOREM BacksUpFirst == Spec => BackupFirst
<1> DEFINE Backed == obj = "live" /\ obj' = "terminating" /\ mode # "None" =>
                       \A r \in Selected : backups[request][r] # "absent"
<1>1. IInv /\ [Next]_vars => Backed
  <2> SUFFICES ASSUME IInv, [Next]_vars, obj = "live", obj' = "terminating", mode # "None"
               PROVE  \A r \in Selected : backups[request][r] # "absent"
    OBVIOUS
  <2>1. TypeOK /\ RequestInv /\ PassInv /\ BackupInv
    BY DEF IInv
  <2>2. obj' # obj
    OBVIOUS
  <2>3. EnsureManifestsAreDeleted
    <3>1. ~Start
      BY <2>1, <2>2, StartShape DEF hubVars
    <3>2. ~(ClearPaused \/ InitializeReinstallStatus \/ BeginRequest \/ FinalizeRequest
            \/ CompleteRequest \/ FailRequest \/ FailAndPause \/ ApplyPauseAnnotation
            \/ ApplyPauseStatus \/ Crash)
      BY <2>2 DEF ClearPaused, InitializeReinstallStatus, BeginRequest, FinalizeRequest,
           CompleteRequest, FailRequest, FailAndPause, ApplyPauseAnnotation, ApplyPauseStatus,
           Crash, hubVars
    <3>3. ~Render /\ ~OtherEnvironment
      BY <2>1, <2>2, OtherShape DEF Render
    <3>4. ~\E g \in Requests, m \in Modes : UserRequests(g, m)
      BY <2>2, NewRequestShape DEF hubVars
    <3>5. Task
      BY <2>2, <3>1, <3>2, <3>3, <3>4, NextShape DEF vars, hubVars
    <3>6. QED
      BY <2>1, <2>2, <3>5, TaskShape
  <2>4. pc = "delete"
    BY <2>3 DEF EnsureManifestsAreDeleted
  <2>5. QED
    BY <2>1, <2>4 DEF BackupInv
<1>2. QED
  BY <1>1, Invariance, PTL DEF Spec, BackupFirst

\* As long as no call of a deletion pass fails and no generation is used a second time,
\* a request that is done has put every labelled resource back as it was when the request
\* was taken up: through crashes, failed tasks and whatever the deletion did to the data.
THEOREM DataSurvives ==
  ASSUME ~DeletionErrors, ~Reuse
  PROVE  Spec => PreservedDataSurvives
<1> DEFINE Survived == done' # done /\ mode # "None" =>
             \A r \in Resources : wanted[r] # "absent" => data[r] = wanted[r] /\ r \in labelled
<1>1. IInv /\ [Next]_vars => Survived
  <2> SUFFICES ASSUME IInv, [Next]_vars, done' # done, mode # "None"
               PROVE  \A r \in Resources : wanted[r] # "absent" =>
                        data[r] = wanted[r] /\ r \in labelled
    OBVIOUS
  <2>1. TypeOK /\ RequestInv /\ PassInv /\ KeptInv
    BY DEF IInv
  <2>2. FinalizeRequest
    <3>1. ~Start /\ ~Task /\ ~OtherEnvironment
      BY <2>1, StartShape, TaskShape, OtherShape DEF ciVars, statusVars, TaskFrame
    <3>2. ~(ClearPaused \/ InitializeReinstallStatus \/ BeginRequest \/ CompleteRequest
            \/ FailRequest \/ FailAndPause \/ ApplyPauseAnnotation \/ ApplyPauseStatus
            \/ Render \/ Crash)
      BY DEF ClearPaused, InitializeReinstallStatus, BeginRequest, CompleteRequest, FailRequest,
           FailAndPause, ApplyPauseAnnotation, ApplyPauseStatus, Render, Crash, ciVars, statusVars
    <3>3. ~\E g \in Requests, m \in Modes : UserRequests(g, m)
      BY NewRequestShape DEF statusVars
    <3>4. QED
      BY <3>1, <3>2, <3>3, NextShape DEF vars, ciVars, statusVars
  <2>3. pc = "finalize" /\ Ongoing
    BY <2>1, <2>2 DEF FinalizeRequest, PassInv, Active
  <2>4. QED
    BY <2>1, <2>3 DEF KeptInv, Kept
<1>2. QED
  BY <1>1, Invariance, PTL DEF Spec, PreservedDataSurvives

=============================================================================
