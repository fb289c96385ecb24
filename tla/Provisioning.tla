---------------------------- MODULE Provisioning ----------------------------
(***************************************************************************)
(* The two reconcilers of the operator at work on one ClusterInstance      *)
(* while its cluster is installed: the ClusterInstance reconciler renders  *)
(* the ClusterDeployment and reports what it did, and the                  *)
(* ClusterDeployment reconciler reports how the installation goes.         *)
(*                                                                         *)
(* Both read the ClusterInstance from an informer cache that lags behind   *)
(* the API server, and both write Status.Conditions with a JSON merge      *)
(* patch computed from the copy they have read: the patch names no         *)
(* resourceVersion and replaces the whole list.  The admission webhook     *)
(* decides on every edit from what the status says at that moment.         *)
(*                                                                         *)
(* Of the reconcilers' steps only those are kept that touch what they      *)
(* share (module ClusterInstanceReconciler has the others): the conditions *)
(* RenderedTemplates and RenderedTemplatesValidated are written between    *)
(* the two that are modelled, in the same way.                             *)
(***************************************************************************)
EXTENDS Integers

CONSTANTS
  WaitsOnHold, \* does the installer wait for the release of the hold?
  MaxEdits,    \* bound on the edits of the user
  MaxFaults,   \* bound on crashes and failing calls
  MaxEvents    \* bound on edits and faults together

ASSUME ProvisioningAssumption ==
  /\ WaitsOnHold \in BOOLEAN
  /\ MaxEdits \in Nat
  /\ MaxFaults \in Nat
  /\ MaxEvents \in Nat

VARIABLES
  ci,       \* the ClusterInstance, as the API server has it
  cache,    \* the ClusterInstance, as the informer has it
  event,    \* has it been written since the informer saw it?
  cd,       \* the installation, as the ClusterDeployment reports it
  cdGen,    \* the generation the ClusterDeployment was last rendered from
  cdHold,   \* the hold it was last rendered with
  ciQueued, ciPc, ciCopy,          \* the ClusterInstance reconciler
  cdQueued, cdPc, cdCopy, cdSeen,  \* the ClusterDeployment reconciler
  lost,     \* history: was its last request dropped?
  faults

hubVars == <<ci, cache, event, cd, cdGen, cdHold>>
ciVars == <<ciQueued, ciPc, ciCopy>>
cdVars == <<cdQueued, cdPc, cdCopy, cdSeen, lost>>
vars == <<hubVars, ciVars, cdVars, faults>>

ConditionTypes == {"Validated", "Applied", "Provisioned"}
Reasons == {"none", "Unknown", "InProgress", "Completed", "Failed"}

(***************************************************************************)
(* "new" has no install conditions yet; "waiting" and "installing" have    *)
(* Stopped = False, before and after the hosts are touched; "stopped" is   *)
(* Stopped = True without Failed = True; "installed" is Spec.Installed.    *)
(***************************************************************************)
Phases == {"absent", "new", "waiting", "installing", "stopped", "failed", "installed"}

\* updateCIDeploymentConditions: the install conditions, as Status.DeploymentConditions
\* copies them (the message of RequirementsMet is left out).
Mirror(phase) == IF phase \in {"waiting", "installing"} THEN "running" ELSE phase

Mirrored == {Mirror(p) : p \in Phases}

Generations == 1..(MaxEdits + 1)

ClusterInstance ==
  [gen : Generations, hold : BOOLEAN, observed : 0..(MaxEdits + 1),
   conds : [ConditionTypes -> Reasons], deployment : Mirrored]

NewInstance(h) ==
  [gen |-> 1, hold |-> h, observed |-> 0, conds |-> [t \in ConditionTypes |-> "none"],
   deployment |-> "absent"]

\* What each reconciler uses of the ClusterInstance it has read.
CICopy(x) == [gen |-> x.gen, hold |-> x.hold, conds |-> x.conds]
CDCopy(x) == [conds |-> x.conds, deployment |-> x.deployment]

\* The type of the state: among others, every list of conditions, in a copy or written
\* back by a patch, has one entry or none of each type.
TypeOK ==
  /\ ci \in ClusterInstance
  /\ cache \in ClusterInstance
  /\ event \in BOOLEAN
  /\ cd \in Phases
  /\ cdGen \in 0..(MaxEdits + 1)
  /\ cdHold \in BOOLEAN
  /\ ciQueued \in BOOLEAN
  /\ ciPc \in {"idle", "validate", "apply", "report", "observe"}
  /\ ciCopy \in [gen : Generations, hold : BOOLEAN, conds : [ConditionTypes -> Reasons]]
  /\ cdQueued \in BOOLEAN
  /\ cdPc \in {"idle", "patch"}
  /\ cdCopy \in [conds : [ConditionTypes -> Reasons], deployment : Mirrored]
  /\ cdSeen \in Phases
  /\ lost \in BOOLEAN
  /\ faults \in 0..MaxFaults

\* A new ClusterInstance, whose installation the user holds back or not.
Init ==
  /\ ci \in {NewInstance(h) : h \in BOOLEAN}
  /\ cache = ci
  /\ event = FALSE
  /\ cd = "absent"
  /\ cdGen = 0
  /\ cdHold = FALSE
  /\ ciQueued = TRUE
  /\ ciPc = "idle"
  /\ ciCopy = CICopy(NewInstance(FALSE))
  /\ cdQueued = FALSE
  /\ cdPc = "idle"
  /\ cdCopy = CDCopy(NewInstance(FALSE))
  /\ cdSeen = "absent"
  /\ lost = FALSE
  /\ faults = 0

\* The edits of the user so far, and the faults.
Events == (ci.gen - 1) + faults

Fault ==
  /\ faults < MaxFaults /\ Events < MaxEvents
  /\ faults' = faults + 1

-----------------------------------------------------------------------------
(***************************************************************************)
(* What the reconcilers share.                                             *)
(***************************************************************************)

\* Fault: the patch holds only the conditions that were changed.
PatchConditions_Changed(base, new) ==
  [ci EXCEPT !.conds = IF new = base.conds THEN @
                       ELSE [t \in {u \in ConditionTypes : new[u] # base.conds[u]} |-> new[t]]]

\* PatchCIStatus with client.MergeFrom(base): a list that differs from the base's
\* replaces the one at the API server, one that does not is not part of the patch.
PatchConditions(base, new) ==
  [ci EXCEPT !.conds = IF new = base.conds THEN @ ELSE new]

\* The API server stores the ClusterInstance; a patch that changes nothing is no event.
Write(new) == ci' = new /\ event' = (event \/ new # ci)

\* Fault: an event of the ClusterInstance is not mapped to its ClusterDeployment.
CacheSync_Unmapped ==
  /\ event
  /\ event' = FALSE
  /\ cache' = ci
  /\ ciQueued' = (ciQueued \/ cache.gen # ci.gen)
  /\ UNCHANGED <<ci, cd, cdGen, cdHold, ciPc, ciCopy, cdVars, faults>>

\* The informer catches up.  A new generation queues the ClusterInstance, and any change
\* queues the ClusterDeployment it refers to, if any (mapClusterInstanceToCD).
CacheSync ==
  /\ event
  /\ event' = FALSE
  /\ cache' = ci
  /\ ciQueued' = (ciQueued \/ cache.gen # ci.gen)
  /\ cdQueued' = (cdQueued \/ ci.deployment # "absent")
  /\ UNCHANGED <<ci, cd, cdGen, cdHold, ciPc, ciCopy, cdPc, cdCopy, cdSeen, lost, faults>>

-----------------------------------------------------------------------------
(***************************************************************************)
(* The ClusterInstance reconciler.                                         *)
(***************************************************************************)

CIReturn(requeue) ==
  /\ ciPc' = "idle"
  /\ ciCopy' = CICopy(NewInstance(FALSE))
  /\ ciQueued' = (ciQueued \/ requeue)

\* Reconcile reads the cache and pre-empts itself if the generation was observed.
CIStart ==
  /\ ciPc = "idle" /\ ciQueued
  /\ ciQueued' = FALSE
  /\ \/ /\ cache.observed = cache.gen
        /\ UNCHANGED <<ciPc, ciCopy>>
     \/ /\ cache.observed # cache.gen
        /\ ciPc' = "validate"
        /\ ciCopy' = CICopy(cache)
  /\ UNCHANGED <<hubVars, cdVars, faults>>

\* A condition is set in the copy, the copy is patched, and the response replaces it.
\* A reason of Failed ends the reconcile with an error.
Report(type, reason, next) ==
  LET patched == PatchConditions(ciCopy, [ciCopy.conds EXCEPT ![type] = reason]) IN
  /\ Write(patched)
  /\ IF reason = "Failed"
     THEN CIReturn(TRUE)
     ELSE ciPc' = next /\ ciCopy' = CICopy(patched) /\ UNCHANGED ciQueued
  /\ UNCHANGED <<cache, cd, cdGen, cdHold, cdVars>>

\* handleValidate
HandleValidate ==
  /\ ciPc = "validate"
  /\ \/ Report("Validated", "Completed", "apply") /\ UNCHANGED faults
     \/ Report("Validated", "Failed", "idle") /\ Fault

\* executeRenderedManifests creates the ClusterDeployment, or updates it.
ApplyManifests ==
  /\ ciPc = "apply"
  /\ cd' = IF cd = "absent" THEN "new" ELSE cd
  /\ cdGen' = ciCopy.gen
  /\ cdHold' = ciCopy.hold
  /\ cdQueued' = TRUE
  /\ ciPc' = "report"
  /\ UNCHANGED <<ci, cache, event, ciQueued, ciCopy, cdPc, cdCopy, cdSeen, lost, faults>>

\* The ClusterDeployment is refused by the API server.
ApplyFails ==
  /\ ciPc = "apply"
  /\ Fault
  /\ Report("Applied", "Failed", "idle")

\* applyRenderedManifests, its status patch.
ReportApplied ==
  /\ ciPc = "report"
  /\ Report("Applied", "Completed", "observe")
  /\ UNCHANGED faults

\* updateObservedStatus fetches the ClusterInstance again, from the cache, before it
\* records the generation of what it got.
UpdateObservedStatus ==
  /\ ciPc = "observe"
  /\ Write(IF cache.observed = cache.gen THEN ci ELSE [ci EXCEPT !.observed = cache.gen])
  /\ CIReturn(FALSE)
  /\ UNCHANGED <<cache, cd, cdGen, cdHold, cdVars, faults>>

-----------------------------------------------------------------------------
(***************************************************************************)
(* The ClusterDeployment reconciler.                                       *)
(***************************************************************************)

CDReturn(requeue) ==
  /\ cdPc' = "idle"
  /\ cdCopy' = CDCopy(NewInstance(FALSE))
  /\ cdSeen' = "absent"
  /\ cdQueued' = (cdQueued \/ requeue)

\* Reconcile reads the ClusterDeployment and the ClusterInstance that owns it.
CDStart ==
  /\ cdPc = "idle" /\ cdQueued
  /\ cdQueued' = FALSE
  /\ cdPc' = "patch"
  /\ cdCopy' = CDCopy(cache)
  /\ cdSeen' = cd
  /\ lost' = FALSE
  /\ UNCHANGED <<hubVars, ciVars, faults>>

\* The ClusterInstance could not be read: getClusterInstance returns nil and an error,
\* Reconcile tests for nil first, and the request is not queued again.
CDReadLost ==
  /\ cdPc = "idle" /\ cdQueued
  /\ Fault
  /\ cdQueued' = FALSE
  /\ lost' = TRUE
  /\ UNCHANGED <<hubVars, ciVars, cdPc, cdCopy, cdSeen>>

\* Fault: an installation that stopped without failing is taken for complete.
UpdateCIProvisionedStatus_Stopped(phase, reason) ==
  CASE phase \in {"installed", "stopped"}     -> "Completed"
    [] phase = "failed"                       -> "Failed"
    [] phase \in {"waiting", "installing"}    -> "InProgress"
    [] OTHER                                  -> reason

\* updateCIProvisionedStatus: the reason of the Provisioned condition, given the phase and
\* the reason it has.  Without install conditions, and in a phase that is neither failed
\* nor in progress, it stays.
UpdateCIProvisionedStatus(phase, reason) ==
  CASE phase = "installed"                    -> "Completed"
    [] phase = "failed"                       -> "Failed"
    [] phase \in {"waiting", "installing"}    -> "InProgress"
    [] OTHER                                  -> reason

\* A Provisioned condition that is missing is initialised to Unknown.
InitProvisioned(reason) == IF reason = "none" THEN "Unknown" ELSE reason

\* The rest of Reconcile: the condition and the copies of the install conditions, written
\* by one patch of what has changed.  The first one also sets ClusterDeploymentRef.
CDPatch ==
  /\ cdPc = "patch"
  /\ LET conds == [cdCopy.conds EXCEPT !["Provisioned"] =
                     UpdateCIProvisionedStatus(cdSeen, InitProvisioned(@))]
         patched == PatchConditions(cdCopy, conds)
     IN Write([patched EXCEPT
                 !.deployment = IF cdCopy.deployment = Mirror(cdSeen) THEN @ ELSE Mirror(cdSeen)])
  /\ CDReturn(FALSE)
  /\ UNCHANGED <<cache, cd, cdGen, cdHold, ciVars, lost, faults>>

CDPatchFails ==
  /\ cdPc = "patch"
  /\ Fault
  /\ CDReturn(TRUE)
  /\ UNCHANGED <<hubVars, ciVars, lost>>

-----------------------------------------------------------------------------
(***************************************************************************)
(* A crash, the installation, the user.                                    *)
(***************************************************************************)

\* The operator restarts: the informers list everything, which queues everything.
Crash ==
  /\ ciPc # "idle" \/ cdPc # "idle"
  /\ Fault
  /\ cache' = ci
  /\ event' = FALSE
  /\ ciPc' = "idle" /\ ciQueued' = TRUE
  /\ cdPc' = "idle" /\ cdQueued' = (cd # "absent")
  /\ ciCopy' = CICopy(NewInstance(FALSE)) /\ cdCopy' = CDCopy(NewInstance(FALSE))
  /\ cdSeen' = "absent"
  /\ lost' = FALSE
  /\ UNCHANGED <<ci, cd, cdGen, cdHold>>

\* The installer takes the ClusterDeployment from one phase to the next; each change is
\* an event that queues it.  The assisted installer, whose template alone renders
\* holdInstallation, waits while the installation is on hold.
Advance(from, to) ==
  /\ cd = from
  /\ from = "waiting" => ~(WaitsOnHold /\ cdHold)
  /\ cd' = to
  /\ cdQueued' = TRUE
  /\ UNCHANGED <<ci, cache, event, cdGen, cdHold, ciVars, cdPc, cdCopy, cdSeen, lost, faults>>

Install ==
  \/ Advance("new", "waiting") \/ Advance("waiting", "installing")
  \/ Advance("installing", "stopped") \/ Advance("installing", "failed")
  \/ Advance("installing", "installed") \/ Advance("stopped", "installed")

\* Fault: only a reported progress blocks an edit.
SpecChangePermission_InProgressOnly ==
  IF ci.hold /\ ci.conds["Provisioned"] # "Completed" THEN "unrestricted"
  ELSE IF ci.conds["Provisioned"] = "InProgress" THEN "blocked" ELSE "baseOnly"

\* determineSpecChangePermission, of an update that requests no reinstall.
SpecChangePermission ==
  IF ci.hold /\ ci.conds["Provisioned"] # "Completed" THEN "unrestricted"
  ELSE IF ci.conds["Provisioned"] = "Completed" THEN "baseOnly" ELSE "blocked"

\* The user edits the spec, and may release the hold, which nobody can set again.  The
\* fields a permission of baseOnly protects are not modelled here.
UserEdits(release) ==
  /\ ci.gen <= MaxEdits /\ Events < MaxEvents
  /\ SpecChangePermission # "blocked"
  /\ release => ci.hold
  /\ Write([ci EXCEPT !.gen = @ + 1, !.hold = @ /\ ~release])
  /\ UNCHANGED <<cache, cd, cdGen, cdHold, ciVars, cdVars, faults>>

CIStep ==
  \/ CIStart \/ HandleValidate \/ ApplyManifests \/ ReportApplied \/ UpdateObservedStatus

Next ==
  \/ CacheSync
  \/ CIStart \/ HandleValidate \/ ApplyManifests \/ ApplyFails \/ ReportApplied
  \/ UpdateObservedStatus
  \/ CDStart \/ CDReadLost \/ CDPatch \/ CDPatchFails
  \/ Crash
  \/ Install
  \/ \E release \in BOOLEAN : UserEdits(release)

Spec == Init /\ [][Next]_vars

(***************************************************************************)
(* The informer catches up, and the work queues hand out what they hold.   *)
(* Nothing obliges the installer or the user to act.                       *)
(***************************************************************************)
Fairness ==
  /\ WF_vars(CacheSync)
  /\ WF_vars(CIStep)
  /\ WF_vars(CDStart) /\ WF_vars(CDPatch)

FairSpec == Spec /\ Fairness

-----------------------------------------------------------------------------
(***************************************************************************)
(* Properties                                                              *)
(***************************************************************************)

\* The hosts are only touched with the spec the user has last written: from the moment
\* the installation begins until it is complete, the ClusterDeployment is the one
\* rendered from the current generation, although edits, renderings and the reports
\* the webhook decides on all lag behind one another.  (An installer that does not wait
\* for the release installs while every edit is still admitted.)
InstallsCurrentSpec ==
  WaitsOnHold /\ cd \in {"installing", "stopped", "failed"} => cdGen = ci.gen

\* A cluster is never reported as provisioned before it is installed, whichever stale
\* copy of the conditions is written back.
ProvisionedIsReal == ci.conds["Provisioned"] = "Completed" => cd = "installed"

\* Whatever phase the installation comes to rest in, the ClusterInstance comes to report
\* it for good: an update that a stale list of the other reconciler has overwritten is
\* made again; unless the request was dropped because the ClusterInstance could not be
\* read, which nothing makes up for until the next event.
ProvisionedFollows ==
  <>[](\/ /\ ci.deployment = Mirror(cd)
          /\ ci.conds["Provisioned"] # "none"
          /\ ci.conds["Provisioned"] = UpdateCIProvisionedStatus(cd, ci.conds["Provisioned"])
       \/ lost)

\* A generation that was observed has been reported as applied, and stays so while nothing
\* is edited: the other reconciler's patches leave the condition alone.
AppliedStaysReported ==
  ciPc = "idle" /\ ci.observed = ci.gen => ci.conds["Applied"] = "Completed"
=============================================================================
