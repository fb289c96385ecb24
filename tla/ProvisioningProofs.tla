------------------------- MODULE ProvisioningProofs -------------------------
(***************************************************************************)
(* What holds of the two reconcilers, their cache and the webhook together,*)
(* proved for any number of edits and faults.                              *)
(*                                                                         *)
(* Two arguments.  "Completed" comes from the installer alone: a list of   *)
(* conditions that says so, in whatever copy and however stale, was made   *)
(* after the cluster was installed, and that is final.  And a release of   *)
(* the hold freezes the spec: whoever has read a spec that is not on hold  *)
(* has read the last one, until the installation is complete, and an       *)
(* installer that waits for the release begins with that one.              *)
(***************************************************************************)
EXTENDS Provisioning, TLAPS

\* A list of conditions that says Completed is right.
Real(conds) == conds["Provisioned"] = "Completed" => cd = "installed"

RealInv ==
  /\ Real(ci.conds) /\ Real(cache.conds)
  /\ Real(ciCopy.conds) /\ Real(cdCopy.conds)
  /\ cdSeen = "installed" => cd = "installed"

\* Until the cluster is installed, a rendering without hold is of the current generation,
\* and so is the one the ClusterInstance reconciler is about to make.
RenderInv ==
  /\ cd # "absent" => cdGen # 0
  /\ WaitsOnHold /\ cd \in {"installing", "stopped", "failed"} => ~cdHold
  /\ cd # "installed" =>
       /\ ciPc = "apply" /\ ~ciCopy.hold => ~ci.hold /\ ciCopy.gen = ci.gen
       /\ cdGen # 0 /\ ~cdHold =>
            /\ ~ci.hold /\ cdGen = ci.gen
            /\ ciPc = "apply" => ~ciCopy.hold

IInv == TypeOK /\ RealInv /\ RenderInv

-----------------------------------------------------------------------------
(***************************************************************************)
(* The operators                                                           *)
(***************************************************************************)

\* A patch of the conditions replaces the list or leaves it, and nothing else.
LEMMA PatchShape ==
  ASSUME ci \in ClusterInstance, NEW base, NEW new \in [ConditionTypes -> Reasons],
         NEW p, p = PatchConditions(base, new)
  PROVE  /\ p \in ClusterInstance
         /\ p.gen = ci.gen /\ p.hold = ci.hold
         /\ p.observed = ci.observed /\ p.deployment = ci.deployment
         /\ p.conds \in {ci.conds, new}
  BY DEF PatchConditions, ClusterInstance

\* An empty ClusterInstance, and what the reconcilers copy of one, are well-formed.
LEMMA Copies ==
  /\ \A h \in BOOLEAN : NewInstance(h) \in ClusterInstance
  /\ \A x \in ClusterInstance :
       /\ CICopy(x) \in [gen : Generations, hold : BOOLEAN,
                         conds : [ConditionTypes -> Reasons]]
       /\ CDCopy(x) \in [conds : [ConditionTypes -> Reasons], deployment : Mirrored]
<1>1. ASSUME NEW h \in BOOLEAN PROVE NewInstance(h) \in ClusterInstance
  <2>1. 1 \in Generations /\ 0 \in 0..(MaxEdits + 1)
    BY ProvisioningAssumption DEF Generations
  <2>2. "absent" \in Mirrored
    BY DEF Mirrored, Mirror, Phases
  <2>3. QED
    BY <2>1, <2>2 DEF NewInstance, ClusterInstance, Reasons
<1>2. ASSUME NEW x \in ClusterInstance
      PROVE  /\ CICopy(x) \in [gen : Generations, hold : BOOLEAN,
                               conds : [ConditionTypes -> Reasons]]
             /\ CDCopy(x) \in [conds : [ConditionTypes -> Reasons], deployment : Mirrored]
  BY DEF ClusterInstance, CICopy, CDCopy
<1>3. QED
  BY <1>1, <1>2

\* The copies of a reconciler that is idle.
LEMMA EmptyCopies ==
  /\ CICopy(NewInstance(FALSE)) \in [gen : Generations, hold : BOOLEAN,
                                      conds : [ConditionTypes -> Reasons]]
  /\ CDCopy(NewInstance(FALSE)) \in [conds : [ConditionTypes -> Reasons],
                                      deployment : Mirrored]
  /\ CICopy(NewInstance(FALSE)).conds["Provisioned"] = "none"
  /\ CDCopy(NewInstance(FALSE)).conds["Provisioned"] = "none"
<1>1. NewInstance(FALSE) \in ClusterInstance
  BY Copies
<1>2. NewInstance(FALSE).conds["Provisioned"] = "none"
  BY DEF NewInstance, ConditionTypes
<1>3. QED
  BY <1>1, <1>2, Copies DEF CICopy, CDCopy

\* The fault counter stays within its bound.
LEMMA FaultType == TypeOK /\ Fault => faults' \in 0..MaxFaults
  BY ProvisioningAssumption DEF TypeOK, Fault

\* What a status patch of the ClusterInstance reconciler does: the API server's list of
\* conditions becomes the copy's or stays, and the copy becomes what the server answers.
LEMMA ReportShape ==
  ASSUME TypeOK, NEW type \in {"Validated", "Applied"}, NEW reason \in {"Completed", "Failed"},
         NEW next, Report(type, reason, next)
  PROVE  /\ ci' \in ClusterInstance /\ event' \in BOOLEAN /\ ciQueued' \in BOOLEAN
         /\ ci'.gen = ci.gen /\ ci'.hold = ci.hold
         /\ ci'.conds["Provisioned"] \in
              {ci.conds["Provisioned"], ciCopy.conds["Provisioned"]}
         /\ ciCopy' \in [gen : Generations, hold : BOOLEAN, conds : [ConditionTypes -> Reasons]]
         /\ reason = "Failed" =>
              ciPc' = "idle" /\ ciCopy'.conds["Provisioned"] = "none"
         /\ reason # "Failed" =>
              /\ ciPc' = next
              /\ ciCopy'.gen = ci.gen /\ ciCopy'.hold = ci.hold
              /\ ciCopy'.conds = ci'.conds
         /\ UNCHANGED <<cache, cd, cdGen, cdHold, cdVars>>
<1> DEFINE new == [ciCopy.conds EXCEPT ![type] = reason]
           patched == PatchConditions(ciCopy, new)
<1>1. new \in [ConditionTypes -> Reasons] /\ new["Provisioned"] = ciCopy.conds["Provisioned"]
  BY DEF TypeOK, ConditionTypes, Reasons
<1>2. ci' = patched /\ event' = (event \/ patched # ci)
  BY DEF Report, Write
<1>3. /\ patched \in ClusterInstance
      /\ patched.gen = ci.gen /\ patched.hold = ci.hold
      /\ patched.conds \in {ci.conds, new}
  <2> HIDE DEF patched, new
  <2>1. QED
    BY <1>1, PatchShape DEF TypeOK, patched
<1> HIDE DEF new
<1>4. CASE reason = "Failed"
  BY <1>1, <1>2, <1>3, <1>4, EmptyCopies DEF Report, CIReturn, TypeOK
<1>5. CASE reason # "Failed"
  <2>1. ciPc' = next /\ ciCopy' = CICopy(patched) /\ ciQueued' = ciQueued
    BY <1>5 DEF Report, new
  <2> HIDE DEF patched
  <2>2. ciCopy'.gen = ci.gen /\ ciCopy'.hold = ci.hold /\ ciCopy'.conds = ci'.conds
    BY <2>1, <1>2, <1>3 DEF CICopy
  <2>3. ciCopy' \in [gen : Generations, hold : BOOLEAN, conds : [ConditionTypes -> Reasons]]
    BY <2>1, <1>3, Copies
  <2>4. UNCHANGED <<cache, cd, cdGen, cdHold, cdVars>>
    BY DEF Report
  <2>5. QED
    BY <1>1, <1>2, <1>3, <1>5, <2>1, <2>2, <2>3, <2>4 DEF TypeOK
<1>6. QED
  BY <1>4, <1>5

-----------------------------------------------------------------------------
(***************************************************************************)
(* The inductive invariant                                                 *)
(***************************************************************************)

\* A status patch keeps it: it neither invents a Completed nor touches the spec.
LEMMA ReportStep ==
  ASSUME IInv, NEW type \in {"Validated", "Applied"}, NEW reason \in {"Completed", "Failed"},
         NEW next \in {"idle", "apply", "observe"}, Report(type, reason, next),
         faults' \in 0..MaxFaults
  PROVE  IInv'
<1>t. TypeOK /\ RealInv /\ RenderInv
  BY DEF IInv
<1>r. /\ ci' \in ClusterInstance /\ event' \in BOOLEAN /\ ciQueued' \in BOOLEAN
      /\ ci'.gen = ci.gen /\ ci'.hold = ci.hold
      /\ ci'.conds["Provisioned"] \in {ci.conds["Provisioned"], ciCopy.conds["Provisioned"]}
      /\ ciCopy' \in [gen : Generations, hold : BOOLEAN, conds : [ConditionTypes -> Reasons]]
      /\ reason = "Failed" =>
           ciPc' = "idle" /\ ciCopy'.conds["Provisioned"] = "none"
      /\ reason # "Failed" =>
           /\ ciPc' = next
           /\ ciCopy'.gen = ci.gen /\ ciCopy'.hold = ci.hold
           /\ ciCopy'.conds = ci'.conds
      /\ UNCHANGED <<cache, cd, cdGen, cdHold, cdVars>>
  BY <1>t, ReportShape
<1>1. TypeOK'
  BY <1>t, <1>r DEF TypeOK, cdVars
<1>2. RealInv'
  BY <1>t, <1>r DEF RealInv, Real, cdVars
<1>3. RenderInv'
  BY <1>t, <1>r DEF RenderInv
<1>4. QED
  BY <1>1, <1>2, <1>3 DEF IInv

\* So does the patch of the ClusterDeployment reconciler: it writes Completed only of an
\* installation that it has seen complete, or that its copy says so of.
LEMMA CDPatchStep == IInv /\ CDPatch => IInv'
<1> SUFFICES ASSUME IInv, CDPatch PROVE IInv'
  OBVIOUS
<1>t. TypeOK /\ RealInv /\ RenderInv
  BY DEF IInv
<1> DEFINE old == cdCopy.conds["Provisioned"]
           reason == UpdateCIProvisionedStatus(cdSeen, InitProvisioned(old))
           conds == [cdCopy.conds EXCEPT !["Provisioned"] = reason]
           patched == PatchConditions(cdCopy, conds)
           written == [patched EXCEPT !.deployment =
                         IF cdCopy.deployment = Mirror(cdSeen) THEN @ ELSE Mirror(cdSeen)]
<1>1. ci' = written /\ event' = (event \/ written # ci)
  BY DEF CDPatch, Write
<1>2. reason \in Reasons /\ (reason = "Completed" => cd = "installed")
  <2>1. old \in Reasons /\ (old = "Completed" => cd = "installed")
    BY <1>t DEF TypeOK, RealInv, Real, ConditionTypes
  <2>2. cdSeen = "installed" => cd = "installed"
    BY <1>t DEF RealInv
  <2> HIDE DEF old
  <2>3. QED
    BY <2>1, <2>2 DEF UpdateCIProvisionedStatus, InitProvisioned, Reasons
<1> HIDE DEF reason
<1>3. conds \in [ConditionTypes -> Reasons] /\ Real(conds)
  BY <1>2, <1>t DEF TypeOK, Real, ConditionTypes
<1> HIDE DEF conds
<1>4. /\ patched \in ClusterInstance
      /\ patched.gen = ci.gen /\ patched.hold = ci.hold
      /\ patched.conds \in {ci.conds, conds}
  <2> HIDE DEF patched
  <2>1. QED
    BY <1>3, <1>t, PatchShape DEF TypeOK, patched
<1> HIDE DEF patched
<1>5. Mirror(cdSeen) \in Mirrored
  BY <1>t DEF Mirrored, TypeOK
<1>6. /\ written \in ClusterInstance
      /\ written.gen = ci.gen /\ written.hold = ci.hold
      /\ Real(written.conds)
  BY <1>3, <1>4, <1>5, <1>t DEF ClusterInstance, RealInv
<1> HIDE DEF written
<1>7. TypeOK'
  BY <1>1, <1>6, <1>t, EmptyCopies DEF CDPatch, CDReturn, TypeOK, ciVars, Phases
<1>8. RealInv'
  BY <1>1, <1>6, <1>t, EmptyCopies DEF CDPatch, CDReturn, RealInv, Real, ciVars
<1>9. RenderInv'
  BY <1>1, <1>6, <1>t DEF CDPatch, RenderInv, ciVars
<1>10. QED
  BY <1>7, <1>8, <1>9 DEF IInv

\* An edit gets past the webhook only of a spec on hold or a cluster that is installed.
LEMMA EditStep ==
  ASSUME IInv, NEW release \in BOOLEAN, UserEdits(release)
  PROVE  IInv'
<1>t. TypeOK /\ RealInv /\ RenderInv
  BY DEF IInv
<1> DEFINE new == [ci EXCEPT !.gen = @ + 1, !.hold = @ /\ ~release]
<1>1. ci' = new /\ event' = (event \/ new # ci)
  BY DEF UserEdits, Write
<1>2. ci.hold \/ cd = "installed"
  BY <1>t DEF UserEdits, SpecChangePermission, RealInv, Real
<1>3. new \in ClusterInstance /\ new.conds = ci.conds
  <2>1. ci.gen \in Generations /\ ci.gen <= MaxEdits
    BY <1>t DEF UserEdits, TypeOK, ClusterInstance
  <2>2. ci.gen + 1 \in Generations
    BY <2>1, ProvisioningAssumption DEF Generations
  <2>3. QED
    BY <1>t, <2>2 DEF TypeOK, ClusterInstance
<1>4. TypeOK'
  BY <1>1, <1>3, <1>t DEF UserEdits, TypeOK, ciVars, cdVars
<1>5. RealInv'
  BY <1>1, <1>3, <1>t DEF UserEdits, RealInv, Real, ciVars, cdVars
<1>6. RenderInv'
  BY <1>2, <1>t DEF UserEdits, RenderInv, ciVars
<1>7. QED
  BY <1>4, <1>5, <1>6 DEF IInv

\* Every step keeps the invariant.
LEMMA InvStep == IInv /\ [Next]_vars => IInv'
<1> SUFFICES ASSUME IInv, [Next]_vars PROVE IInv'
  OBVIOUS
<1>t. TypeOK /\ RealInv /\ RenderInv
  BY DEF IInv
<1>1. CASE CacheSync
  BY <1>1, <1>t DEF CacheSync, IInv, TypeOK, RealInv, Real, RenderInv
<1>2. CASE CIStart
  <2>1. CICopy(cache) \in [gen : Generations, hold : BOOLEAN, conds : [ConditionTypes -> Reasons]]
        /\ CICopy(cache).conds = cache.conds
    BY <1>t, Copies DEF TypeOK, CICopy
  <2>2. ciCopy' \in {ciCopy, CICopy(cache)} /\ ciPc' \in {"idle", "validate"}
        /\ ciQueued' = FALSE /\ UNCHANGED <<hubVars, cdVars, faults>>
    BY <1>2 DEF CIStart
  <2>3. TypeOK'
    BY <2>1, <2>2, <1>t DEF TypeOK, hubVars, cdVars
  <2>4. RealInv'
    BY <2>1, <2>2, <1>t DEF RealInv, Real, hubVars, cdVars
  <2>5. RenderInv'
    BY <2>2, <1>t DEF RenderInv, hubVars
  <2>6. QED
    BY <2>3, <2>4, <2>5 DEF IInv
<1>3. CASE HandleValidate
  BY <1>3, <1>t, ReportStep, FaultType DEF HandleValidate, TypeOK
<1>4. CASE ApplyManifests
  <2>1. ciCopy.gen \in 0..(MaxEdits + 1) /\ ciCopy.gen # 0 /\ ciCopy.hold \in BOOLEAN
    BY <1>t, ProvisioningAssumption DEF TypeOK, Generations
  <2>2. TypeOK'
    BY <1>4, <2>1, <1>t DEF ApplyManifests, TypeOK, Phases
  <2>3. RealInv'
    BY <1>4, <1>t DEF ApplyManifests, RealInv, Real
  <2>4. RenderInv'
    BY <1>4, <2>1, <1>t DEF ApplyManifests, RenderInv
  <2>5. QED
    BY <2>2, <2>3, <2>4 DEF IInv
<1>5. CASE ApplyFails
  BY <1>5, <1>t, ReportStep, FaultType DEF ApplyFails
<1>6. CASE ReportApplied
  BY <1>6, <1>t, ReportStep DEF ReportApplied, TypeOK
<1>7. CASE UpdateObservedStatus
  <2> DEFINE new == IF cache.observed = cache.gen THEN ci ELSE [ci EXCEPT !.observed = cache.gen]
  <2>1. new \in ClusterInstance /\ new.gen = ci.gen /\ new.hold = ci.hold /\ new.conds = ci.conds
    <3>1. cache.gen \in 0..(MaxEdits + 1)
      BY <1>t, ProvisioningAssumption DEF TypeOK, ClusterInstance, Generations
    <3>2. QED
      BY <3>1, <1>t DEF TypeOK, ClusterInstance
  <2>2. ci' = new /\ event' = (event \/ new # ci)
    BY <1>7 DEF UpdateObservedStatus, Write
  <2> HIDE DEF new
  <2>3. TypeOK'
    BY <1>7, <2>1, <2>2, <1>t, EmptyCopies DEF UpdateObservedStatus, CIReturn, TypeOK, cdVars
  <2>4. RealInv'
    BY <1>7, <2>1, <2>2, <1>t, EmptyCopies
    DEF UpdateObservedStatus, CIReturn, RealInv, Real, cdVars
  <2>5. RenderInv'
    BY <1>7, <2>1, <2>2, <1>t DEF UpdateObservedStatus, CIReturn, RenderInv
  <2>6. QED
    BY <2>3, <2>4, <2>5 DEF IInv
<1>8. CASE CDStart
  <2>1. CDCopy(cache) \in [conds : [ConditionTypes -> Reasons], deployment : Mirrored]
        /\ CDCopy(cache).conds = cache.conds
    BY <1>t, Copies DEF TypeOK, CDCopy
  <2>2. QED
    BY <1>8, <2>1, <1>t
    DEF CDStart, IInv, TypeOK, RealInv, Real, RenderInv, hubVars, ciVars
<1>9. CASE CDReadLost
  BY <1>9, <1>t, FaultType
  DEF CDReadLost, IInv, TypeOK, RealInv, Real, RenderInv, hubVars, ciVars
<1>10. CASE CDPatch
  BY <1>10, CDPatchStep
<1>11. CASE CDPatchFails
  <2>1. TypeOK'
    BY <1>11, <1>t, FaultType, EmptyCopies
    DEF CDPatchFails, CDReturn, TypeOK, Phases, hubVars, ciVars
  <2>2. RealInv'
    BY <1>11, <1>t, EmptyCopies DEF CDPatchFails, CDReturn, RealInv, Real, hubVars, ciVars
  <2>3. RenderInv'
    BY <1>11, <1>t DEF CDPatchFails, RenderInv, hubVars, ciVars
  <2>4. QED
    BY <2>1, <2>2, <2>3 DEF IInv
<1>12. CASE Crash
  <2>1. TypeOK'
    BY <1>12, <1>t, FaultType, EmptyCopies DEF Crash, TypeOK, Phases
  <2>2. RealInv'
    BY <1>12, <1>t, EmptyCopies DEF Crash, RealInv, Real
  <2>3. RenderInv'
    BY <1>12, <1>t DEF Crash, RenderInv
  <2>4. QED
    BY <2>1, <2>2, <2>3 DEF IInv
<1>13. ASSUME NEW from \in Phases \ {"absent", "installed"}, NEW to \in Phases \ {"absent"},
              Advance(from, to),
              to \in {"installing", "stopped", "failed"} =>
                from \in {"waiting", "installing", "stopped"}
       PROVE  IInv'
  <2>1. TypeOK'
    BY <1>13, <1>t DEF Advance, TypeOK, ciVars
  <2>2. RealInv'
    BY <1>13, <1>t DEF Advance, RealInv, Real, ciVars
  <2>3. RenderInv'
    BY <1>13, <1>t DEF Advance, RenderInv, ciVars
  <2>4. QED
    BY <2>1, <2>2, <2>3 DEF IInv
<1>14. CASE Install
  BY <1>13, <1>14 DEF Install, Phases
<1>15. CASE \E release \in BOOLEAN : UserEdits(release)
  BY <1>15, EditStep
<1>16. CASE UNCHANGED vars
  BY <1>16, <1>t DEF vars, hubVars, ciVars, cdVars, IInv, TypeOK, RealInv, Real, RenderInv
<1>17. QED
  BY <1>1, <1>2, <1>3, <1>4, <1>5, <1>6, <1>7, <1>8, <1>9, <1>10, <1>11, <1>12, <1>14, <1>15,
     <1>16 DEF Next

\* The inductive invariant holds in every behaviour.
LEMMA Invariance == Spec => []IInv
<1>1. Init => IInv
  <2> SUFFICES ASSUME Init PROVE IInv
    OBVIOUS
  <2>1. ci \in ClusterInstance /\ ci.conds["Provisioned"] = "none"
    <3>1. PICK h \in BOOLEAN : ci = NewInstance(h)
      BY DEF Init
    <3>2. NewInstance(h) \in ClusterInstance
      BY Copies
    <3>3. NewInstance(h).conds["Provisioned"] = "none"
      BY DEF NewInstance, ConditionTypes
    <3>4. QED
      BY <3>1, <3>2, <3>3
  <2>2. TypeOK
    <3>1. 0 \in 0..(MaxEdits + 1) /\ 0 \in 0..MaxFaults
      BY ProvisioningAssumption
    <3>2. QED
      BY <2>1, <3>1, EmptyCopies DEF Init, TypeOK, Phases
  <2>3. RealInv /\ RenderInv
    BY <2>1, EmptyCopies DEF Init, RealInv, Real, RenderInv
  <2>4. QED
    BY <2>2, <2>3 DEF IInv
<1>2. QED
  BY <1>1, InvStep, PTL DEF Spec

-----------------------------------------------------------------------------
(***************************************************************************)
(* The theorems                                                            *)
(***************************************************************************)

\* Every list of conditions, copied or patched by either reconciler, stays well-formed.
THEOREM TypeCorrect == Spec => []TypeOK
<1>1. IInv => TypeOK
  BY DEF IInv
<1>2. QED
  BY <1>1, Invariance, PTL

\* No stale copy of the conditions makes a ClusterInstance report a cluster as provisioned
\* that is not installed.
THEOREM ReportsAreReal == Spec => []ProvisionedIsReal
<1>1. IInv => ProvisionedIsReal
  BY DEF IInv, RealInv, Real, ProvisionedIsReal
<1>2. QED
  BY <1>1, Invariance, PTL

\* The hosts are only touched with the spec the user has last written, although the
\* renderings, the reports and the webhook's view of them all lag behind.
THEOREM CurrentSpecInstalled == Spec => []InstallsCurrentSpec
<1>1. IInv => InstallsCurrentSpec
  BY DEF IInv, RenderInv, InstallsCurrentSpec
<1>2. QED
  BY <1>1, Invariance, PTL
=============================================================================
