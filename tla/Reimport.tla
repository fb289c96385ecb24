------------------------------ MODULE Reimport ------------------------------
(***************************************************************************)
(* What follows a reinstall request: the reconcile that has finalised the  *)
(* request (module Reinstall ends there) renders the cluster again, the    *)
(* installer installs it, and EnsureClusterIsReimported, which every later *)
(* reconcile calls before anything else, sees to it that the new cluster   *)
(* takes the place of the old one behind its ManagedCluster.               *)
(*                                                                         *)
(* The module composes this with module Configuration, whose store decides *)
(* at each reconcile whether the reimport is looked after at all.          *)
(*                                                                         *)
(* The condition Provisioned outlives the reinstall: until the             *)
(* ClusterDeployment reconciler reports on the new installation, it says   *)
(* that the previous one is complete.                                      *)
(***************************************************************************)
EXTENDS Configuration

CONSTANTS
  MaxFaults,   \* bound on crashes and failing calls
  MaxEdits     \* bound on the edits of the user

ASSUME ReimportAssumption == MaxFaults \in Nat /\ MaxEdits \in Nat

VARIABLES
  processed,    \* ReinstallRequestProcessed, its reason
  reimported,   \* ReinstallClusterReimported, its reason
  provisioned,  \* Provisioned, its reason
  grace,        \* did Provisioned become true less than PostProvisioningGracePeriod ago?
  observed,     \* is ObservedGeneration the Generation?
  mcListed,     \* does the status list the ManagedCluster as rendered?
  cd,           \* the new ClusterDeployment
  mc,           \* the ManagedCluster
  klusterlet,   \* the klusterlet manifests on the new cluster
  pc, queued,   \* the ClusterInstance reconciler
  misread,      \* history: has the check taken the old Provisioned for the new one?
  imports, edits, faults

ciVars == <<processed, reimported, provisioned, grace, observed, mcListed>>
hubVars == <<cd, mc, klusterlet>>
runVars == <<pc, queued>>
countVars == <<misread, imports, edits, faults>>
vars == <<configVars, ciVars, hubVars, runVars, countVars>>

(***************************************************************************)
(* "oldHealthy": its conditions still speak of the cluster that is gone;   *)
(* "unhealthy": one of Available, Joined, ImportSucceeded is not true;     *)
(* "importing": the import controller is at work on it.                    *)
(***************************************************************************)
ManagedClusterStates == {"absent", "oldHealthy", "unhealthy", "importing", "healthy"}

\* The type of the state.
TypeOK ==
  /\ ConfigTypeOK
  /\ processed \in {"InProgress", "Completed"}
  /\ reimported \in {"Initialized", "InProgress", "Failed", "ReimportInitiated", "Completed"}
  /\ provisioned \in {"InProgress", "Failed", "Completed"}
  /\ grace \in BOOLEAN /\ observed \in BOOLEAN /\ mcListed \in BOOLEAN
  /\ cd \in {"absent", "new", "installing", "failed", "installed"}
  /\ mc \in ManagedClusterStates
  /\ klusterlet \in {"none", "partial", "applied"}
  /\ pc \in {"idle", "complete", "render", "apply", "reportApplied", "observe",
             "assess", "perform", "initiated"}
  /\ queued \in BOOLEAN
  /\ misread \in BOOLEAN
  /\ imports \in 0..1 /\ edits \in 0..MaxEdits /\ faults \in 0..MaxFaults

\* finalizeReinstallRequest has just recorded the generation of the request.  The
\* ManagedCluster was kept, or deleted with the rest if it was not listed as rendered.
Init ==
  /\ ConfigInit
  /\ processed = "InProgress"
  /\ reimported = "Initialized"
  /\ provisioned = "Completed"
  /\ grace = FALSE
  /\ observed = FALSE
  /\ mc \in {"oldHealthy", "absent"}
  /\ mcListed = (mc # "absent")
  /\ cd = "absent"
  /\ klusterlet = "none"
  /\ pc = "complete"
  /\ queued = FALSE
  /\ misread = FALSE
  /\ imports = 0 /\ edits = 0 /\ faults = 0

-----------------------------------------------------------------------------
Return(requeue) == pc' = "idle" /\ queued' = (queued \/ requeue)

Fault == faults < MaxFaults /\ faults' = faults + 1

\* The deferred patch of ProcessRequest.
CompleteRequest ==
  /\ pc = "complete"
  /\ \/ processed' = "Completed" /\ pc' = "render" /\ UNCHANGED <<queued, faults>>
     \/ Fault /\ Return(TRUE) /\ UNCHANGED processed
  /\ UNCHANGED <<configVars, reimported, provisioned, grace, observed, mcListed, hubVars,
                 misread, imports, edits>>

\* What Reconcile does once the reimport is not its concern.
Proceed == IF observed THEN Return(FALSE) ELSE pc' = "render" /\ UNCHANGED queued

\* EnsureClusterIsReimported comes to look at the ManagedCluster.
ReimportDue ==
  /\ GetAllowReinstalls
  /\ processed = "Completed"
  /\ reimported # "Completed"
  /\ provisioned = "Completed"

\* Reconcile, up to that decision.
Start ==
  /\ up
  /\ pc = "idle" /\ queued
  /\ queued' = FALSE
  /\ pc' = CASE ReimportDue              -> "assess"
             [] ~ReimportDue /\ observed -> "idle"
             [] OTHER                    -> "render"
  /\ misread' = (misread \/ (ReimportDue /\ cd # "installed"))
  /\ UNCHANGED <<configVars, ciVars, hubVars, imports, edits, faults>>

-----------------------------------------------------------------------------
(***************************************************************************)
(* Rendering: handleValidate and handleRenderTemplates.                    *)
(***************************************************************************)

\* Every manifest passes the dry-run, and its entry says "validated".
Render ==
  /\ pc = "render"
  /\ pc' = "apply"
  /\ mcListed' = FALSE
  /\ UNCHANGED <<configVars, processed, reimported, provisioned, grace, observed, hubVars,
                 queued, countVars>>

\* An error, before or in the dry-run.
RenderFails ==
  /\ pc = "render"
  /\ Fault
  /\ mcListed' \in {mcListed, FALSE}
  /\ Return(TRUE)
  /\ UNCHANGED <<configVars, processed, reimported, provisioned, grace, observed, hubVars,
                 misread, imports, edits>>

CreateClusterDeployment == cd' = IF cd = "absent" THEN "new" ELSE cd
CreateManagedCluster == mc' = IF mc = "absent" THEN "unhealthy" ELSE mc

Apply ==
  /\ pc = "apply"
  /\ CreateClusterDeployment
  /\ CreateManagedCluster
  /\ pc' = "reportApplied"
  /\ UNCHANGED <<configVars, ciVars, klusterlet, queued, countVars>>

\* One of the manifests is refused, and the others are applied; the status patch follows.
ApplyFails ==
  /\ pc = "apply"
  /\ Fault
  /\ \/ CreateClusterDeployment /\ UNCHANGED <<mc, mcListed>>
     \/ CreateManagedCluster /\ mcListed' = TRUE /\ UNCHANGED cd
     \/ CreateClusterDeployment /\ CreateManagedCluster /\ mcListed' = TRUE
  /\ Return(TRUE)
  /\ UNCHANGED <<configVars, processed, reimported, provisioned, grace, observed, klusterlet,
                 misread, imports, edits>>

\* The status patch of applyRenderedManifests.
ReportApplied ==
  /\ pc = "reportApplied"
  /\ mcListed' = TRUE
  /\ pc' = "observe"
  /\ UNCHANGED <<configVars, processed, reimported, provisioned, grace, observed, hubVars,
                 queued, countVars>>

UpdateObservedStatus ==
  /\ pc = "observe"
  /\ observed' = TRUE
  /\ Return(FALSE)
  /\ UNCHANGED <<configVars, processed, reimported, provisioned, grace, mcListed, hubVars,
                 countVars>>

-----------------------------------------------------------------------------
(***************************************************************************)
(* The rest of EnsureClusterIsReimported.                                  *)
(***************************************************************************)

\* Fault: a cluster that is being imported is taken for healthy.
AssessClusterHealth_Importing == mc \in {"oldHealthy", "importing", "healthy"}

\* assessClusterHealth, isHealthy
AssessClusterHealth == mc \in {"oldHealthy", "healthy"}

\* getManagedClusterResource finds the ManagedCluster.
ManagedClusterFound == mcListed /\ mc # "absent"

\* Not rendered, or not there: reported, and no requeue.
WaitForManagedCluster ==
  /\ ~ManagedClusterFound
  /\ reimported' = "InProgress"
  /\ Return(FALSE)

ReportHealthy ==
  /\ ManagedClusterFound /\ AssessClusterHealth
  /\ reimported' = "Completed"
  /\ Proceed

\* The grace period, or the import controller, or the manifests applied earlier, may still
\* make it healthy.
WaitForHealth ==
  /\ ManagedClusterFound /\ ~AssessClusterHealth
  /\ \/ (grace \/ mc = "importing") /\ reimported' = "InProgress"
     \/ /\ ~grace /\ mc # "importing" /\ reimported = "ReimportInitiated"
        /\ UNCHANGED reimported
  /\ Return(TRUE)

\* Fault: an unhealthy cluster is left alone once a reimport has failed.
TriggerReimport_Once ==
  /\ ManagedClusterFound /\ ~AssessClusterHealth
  /\ ~grace /\ mc # "importing" /\ reimported # "ReimportInitiated"
  /\ pc' = IF reimported = "Failed" THEN "idle" ELSE "perform"
  /\ UNCHANGED <<reimported, queued>>

TriggerReimport ==
  /\ ManagedClusterFound /\ ~AssessClusterHealth
  /\ ~grace /\ mc # "importing" /\ reimported # "ReimportInitiated"
  /\ pc' = "perform"
  /\ UNCHANGED <<reimported, queued>>

Assess ==
  /\ pc = "assess"
  /\ WaitForManagedCluster \/ ReportHealthy \/ WaitForHealth \/ TriggerReimport
  /\ UNCHANGED <<configVars, processed, provisioned, grace, observed, mcListed, hubVars,
                 countVars>>

\* The ManagedCluster cannot be read, or the patch of the condition fails.
AssessFails ==
  /\ pc = "assess"
  /\ Fault
  /\ reimported' \in {"Failed", reimported}
  /\ Return(TRUE)
  /\ UNCHANGED <<configVars, processed, provisioned, grace, observed, mcListed, hubVars,
                 misread, imports, edits>>

\* performReimport: the new cluster is reachable through its admin kubeconfig, and the
\* manifests are applied one by one.
Perform ==
  /\ pc = "perform"
  /\ cd = "installed"
  /\ klusterlet' = "applied"
  /\ pc' = "initiated"
  /\ UNCHANGED <<configVars, ciVars, cd, mc, queued, countVars>>

\* A manifest the cluster refuses is logged and skipped (applyManifestWorkToSpoke).
PerformPartly ==
  /\ pc = "perform"
  /\ cd = "installed"
  /\ Fault
  /\ klusterlet' = IF klusterlet = "none" THEN "partial" ELSE klusterlet
  /\ pc' = "initiated"
  /\ UNCHANGED <<configVars, ciVars, cd, mc, queued, misread, imports, edits>>

\* No kubeconfig, no connection, or no ManifestWork: reported, and tried again.
PerformFails ==
  /\ pc = "perform"
  /\ \/ cd # "installed" /\ UNCHANGED faults
     \/ cd = "installed" /\ Fault
  /\ reimported' = "Failed"
  /\ Return(TRUE)
  /\ UNCHANGED <<configVars, processed, provisioned, grace, observed, mcListed, hubVars,
                 misread, imports, edits>>

ReportInitiated ==
  /\ pc = "initiated"
  /\ reimported' = "ReimportInitiated"
  /\ Return(TRUE)
  /\ UNCHANGED <<configVars, processed, provisioned, grace, observed, mcListed, hubVars,
                 countVars>>

-----------------------------------------------------------------------------
(***************************************************************************)
(* The ClusterDeployment reconciler (module Provisioning has its steps).   *)
(***************************************************************************)

\* updateCIProvisionedStatus: a ClusterDeployment without install conditions says nothing.
ProvisionedReason ==
  CASE cd = "installed"  -> "Completed"
    [] cd = "failed"     -> "Failed"
    [] cd = "installing" -> "InProgress"
    [] OTHER             -> provisioned

\* A changed condition brings the ClusterInstance reconciler back
\* (provisionedChangedPredicate).
ReportProvisioned ==
  /\ up
  /\ ProvisionedReason # provisioned
  /\ provisioned' = ProvisionedReason
  /\ grace' = (ProvisionedReason = "Completed")
  /\ queued' = TRUE
  /\ UNCHANGED <<configVars, processed, reimported, observed, mcListed, hubVars, pc, countVars>>

GraceExpires ==
  /\ grace
  /\ grace' = FALSE
  /\ UNCHANGED <<configVars, processed, reimported, provisioned, observed, mcListed, hubVars,
                 runVars, countVars>>

-----------------------------------------------------------------------------
(***************************************************************************)
(* The installer, the hub's import controller, the klusterlet.             *)
(***************************************************************************)

Installer(from, to) ==
  /\ cd = from
  /\ cd' = to
  /\ UNCHANGED <<configVars, ciVars, mc, klusterlet, runVars, countVars>>

\* The lease of the old cluster runs out long before the new one is installed.
Install ==
  \/ Installer("new", "installing") \/ Installer("installing", "failed")
  \/ mc # "oldHealthy" /\ Installer("installing", "installed")

ManagedCluster(from, to) ==
  /\ mc = from
  /\ mc' = to
  /\ UNCHANGED <<configVars, ciVars, cd, klusterlet, runVars, misread, edits, faults>>

LeaseExpires == ManagedCluster("oldHealthy", "unhealthy") /\ UNCHANGED imports

ImportStarts ==
  /\ cd = "installed" /\ imports = 0
  /\ ManagedCluster("unhealthy", "importing")
  /\ imports' = 1

ImportEnds ==
  /\ ManagedCluster("importing", "healthy") \/ ManagedCluster("importing", "unhealthy")
  /\ UNCHANGED imports

KlusterletJoins ==
  /\ klusterlet = "applied"
  /\ ManagedCluster("unhealthy", "healthy")
  /\ UNCHANGED imports

-----------------------------------------------------------------------------
(***************************************************************************)
(* The user, the administrator, and the process.                           *)
(***************************************************************************)

\* The webhook lets an edit pass while Provisioned says Completed, and at any time if the
\* ClusterInstance still has holdInstallation set.
UserEdits ==
  /\ edits < MaxEdits
  /\ observed' = FALSE
  /\ queued' = up
  /\ edits' = edits + 1
  /\ UNCHANGED <<configVars, processed, reimported, provisioned, grace, mcListed, hubVars, pc,
                 misread, imports, faults>>

Crash ==
  /\ Stop
  /\ Fault
  /\ pc' = "idle" /\ queued' = FALSE
  /\ UNCHANGED <<ciVars, hubVars, misread, imports, edits>>

\* The first list of the informer queues the ClusterInstance.
Restart ==
  /\ StartUp
  /\ queued' = TRUE
  /\ UNCHANGED <<ciVars, hubVars, pc, countVars>>

Configure ==
  /\ MonitorReconcile \/ AdminDeletes \/ \E d \in Datas : AdminWrites(d)
  /\ UNCHANGED <<ciVars, hubVars, runVars, countVars>>

Monitor == MonitorReconcile /\ UNCHANGED <<ciVars, hubVars, runVars, countVars>>

Step ==
  \/ CompleteRequest \/ Start
  \/ Render \/ Apply \/ ReportApplied \/ UpdateObservedStatus
  \/ Assess \/ Perform \/ PerformFails \/ ReportInitiated

Next ==
  \/ CompleteRequest \/ Start
  \/ Render \/ RenderFails \/ Apply \/ ApplyFails \/ ReportApplied \/ UpdateObservedStatus
  \/ Assess \/ AssessFails \/ Perform \/ PerformPartly \/ PerformFails \/ ReportInitiated
  \/ ReportProvisioned \/ GraceExpires
  \/ Install \/ LeaseExpires \/ ImportStarts \/ ImportEnds \/ KlusterletJoins
  \/ UserEdits
  \/ Crash \/ Restart \/ Configure

Spec == Init /\ [][Next]_vars

(***************************************************************************)
(* The work queues hand out what they hold, the process is restarted, the  *)
(* grace period and the lease end, the import controller comes to a        *)
(* result, and a klusterlet that was applied in full joins.  Nothing       *)
(* obliges the installer, the user or the administrator to act.            *)
(***************************************************************************)
Fairness ==
  /\ WF_vars(Step) /\ WF_vars(ReportProvisioned)
  /\ WF_vars(Monitor) /\ WF_vars(Restart)
  /\ WF_vars(GraceExpires) /\ WF_vars(LeaseExpires)
  /\ WF_vars(ImportEnds) /\ WF_vars(KlusterletJoins)

FairSpec == Spec /\ Fairness

-----------------------------------------------------------------------------
(***************************************************************************)
(* Properties                                                              *)
(***************************************************************************)

\* The reimport is reported as complete only when the cluster behind the ManagedCluster is
\* the new one, and it is healthy; unless EnsureClusterIsReimported ran before the new
\* cluster was installed, on the Provisioned condition of the old one, and read the
\* conditions the old cluster had left.
ReimportedIsReal == reimported = "Completed" /\ ~misread => mc = "healthy"

\* What can keep a reimport from completing: reinstalls are switched off, the request is
\* not recorded as complete, the ManagedCluster's entry is not "rendered", a klusterlet
\* manifest was refused by the new cluster.
Held ==
  \/ ~GetAllowReinstalls
  \/ processed # "Completed"
  \/ ~mcListed
  \/ klusterlet = "partial"

\* The new cluster that is installed comes to be reimported, through crashes, failing
\* calls, failed imports and edits, unless one of these holds at some moment later on.
Reimports ==
  cd = "installed" /\ provisioned # "Completed" ~> reimported = "Completed" \/ Held

\* A request that is reported as processed, the cluster being ready to be reprovisioned,
\* leads to the cluster being rendered again.
RequestRerendered == processed = "Completed" ~> observed
=============================================================================
