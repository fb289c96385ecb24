--------------------------- MODULE ReimportProofs ---------------------------
(***************************************************************************)
(* What holds of the reimport and of the configuration it depends on,      *)
(* proved for any content of the ConfigMap and any number of writes, edits *)
(* and faults.                                                             *)
(*                                                                         *)
(* A ManagedCluster that is healthy once the new cluster is installed is   *)
(* the new one: the lease of the old one is over by then, and nothing      *)
(* brings its conditions back.  So it is enough that the check runs only   *)
(* after the installation, which is what misread keeps track of.           *)
(***************************************************************************)
EXTENDS Reimport, TLAPS

\* The check of the ManagedCluster's health is about the new cluster.
AssessInv ==
  /\ pc = "assess" /\ ~misread => cd = "installed"
  /\ cd = "installed" => mc # "oldHealthy"

IInv == TypeOK /\ AssessInv /\ ReimportedIsReal

-----------------------------------------------------------------------------
(***************************************************************************)
(* The configuration                                                       *)
(***************************************************************************)

\* A value that parses is one the store may hold.
LEMMA GoodValues ==
  ASSUME ConfigTypeOK, NEW k \in GoodKeys(data)
  PROVE  k \in Keys /\ data[k] \in Values[k]
<1>1. k \in DOMAIN data /\ k \in Keys /\ data[k] # "bad"
  BY DEF GoodKeys
<1>2. CASE data \in Datas
  BY <1>1, <1>2, ConfigurationAssumption
<1>3. CASE data \in {DefaultData, ReinstallsAllowed}
  BY <1>1, <1>3 DEF DefaultData, ReinstallsAllowed, Keys, Values
<1>4. CASE data = NoData
  BY <1>1, <1>4 DEF NoData
<1>5. QED
  BY <1>2, <1>3, <1>4 DEF ConfigTypeOK

\* The store stays parsed when good values are laid over parsed settings.
LEMMA OverlayType ==
  ASSUME ConfigTypeOK, NEW settings, \A k \in Keys : settings[k] \in Values[k],
         NEW S, S \subseteq GoodKeys(data)
  PROVE  \A k \in Keys : Overlay(settings, data, S)[k] \in Values[k]
  BY GoodValues DEF Overlay

\* Neither the administrator, nor the monitor, nor a restart puts a value into the store
\* that does not parse.
LEMMA ConfigStep ==
  ASSUME ConfigTypeOK,
         \/ MonitorReconcile \/ Stop \/ StartUp \/ AdminDeletes
         \/ \E d \in Datas : AdminWrites(d)
  PROVE  ConfigTypeOK'
<1>z. \A k \in Keys : ZeroConfiguration[k] \in Values[k] /\ DefaultData[k] \in Values[k]
  BY DEF Keys, Values, ZeroConfiguration, DefaultData
<1>w. writes < MaxWrites => writes + 1 \in 0..MaxWrites
  BY ConfigurationAssumption DEF ConfigTypeOK
<1>1. CASE MonitorReconcile /\ configMap
  <2>1. PICK S \in SUBSET GoodKeys(data) : store' = Overlay(store, data, S)
    BY <1>1 DEF MonitorReconcile, UpdateConfiguration, WellFormed
  <2>2. \A k \in Keys : store'[k] \in Values[k]
    BY <2>1, OverlayType DEF ConfigTypeOK
  <2>3. QED
    BY <1>1, <2>2 DEF MonitorReconcile, UpdateConfiguration, ConfigTypeOK
<1>2. CASE MonitorReconcile /\ ~configMap
  BY <1>2 DEF MonitorReconcile, ConfigTypeOK
<1>3. CASE Stop
  BY <1>3, <1>z DEF Stop, ConfigTypeOK
<1>4. CASE StartUp
  <2>1. \A k \in Keys : store'[k] \in Values[k]
    <3>1. CASE configMap
      BY <1>4, <1>z, <3>1, OverlayType DEF StartUp, WellFormed
    <3>2. CASE ~configMap
      BY <1>4, <1>z, <3>2 DEF StartUp
    <3>3. QED
      BY <3>1, <3>2
  <2>2. QED
    BY <1>4, <2>1 DEF StartUp, ConfigTypeOK
<1>5. CASE AdminDeletes
  BY <1>5, <1>w DEF AdminDeletes, ConfigTypeOK
<1>6. CASE \E d \in Datas : AdminWrites(d)
  BY <1>6, <1>w DEF AdminWrites, ConfigTypeOK
<1>7. QED
  BY <1>1, <1>2, <1>3, <1>4, <1>5, <1>6

-----------------------------------------------------------------------------
(***************************************************************************)
(* The inductive invariant                                                 *)
(***************************************************************************)

\* The fault counter stays within its bound.
LEMMA FaultType == TypeOK /\ Fault => faults' \in 0..MaxFaults
  BY ReimportAssumption DEF TypeOK, Fault

\* Every action keeps every variable in its type.
LEMMA TypeStep == TypeOK /\ [Next]_vars => TypeOK'
<1> SUFFICES ASSUME TypeOK, [Next]_vars PROVE TypeOK'
  OBVIOUS
<1>c. UNCHANGED configVars => ConfigTypeOK'
  BY DEF TypeOK, ConfigTypeOK, configVars
<1>f. Fault => faults' \in 0..MaxFaults
  BY FaultType
<1>q. Return(TRUE) \/ Return(FALSE) => pc' = "idle" /\ queued' \in BOOLEAN
  BY DEF TypeOK, Return
<1> USE DEF TypeOK
<1>1. CASE CompleteRequest
  <2>1. pc' \in {"render", "idle"} /\ queued' \in BOOLEAN /\ faults' \in 0..MaxFaults
    BY <1>1, <1>f, <1>q DEF CompleteRequest
  <2>2. processed' \in {"InProgress", "Completed"}
    BY <1>1 DEF CompleteRequest
  <2>3. QED
    BY <1>1, <1>c, <2>1, <2>2 DEF CompleteRequest, hubVars
<1>2. CASE Start
  <2>1. pc' \in {"assess", "idle", "render"}
    BY <1>2 DEF Start
  <2>2. queued' \in BOOLEAN /\ misread' \in BOOLEAN
    BY <1>2 DEF Start
  <2>3. QED
    BY <1>2, <1>c, <2>1, <2>2 DEF Start, ciVars, hubVars
<1>3. CASE Render \/ ReportApplied
  BY <1>3, <1>c DEF Render, ReportApplied, hubVars, countVars
<1>21. CASE UpdateObservedStatus \/ ReportInitiated
  <2>1. pc' = "idle" /\ queued' \in BOOLEAN
    BY <1>21, <1>q DEF UpdateObservedStatus, ReportInitiated
  <2>2. QED
    BY <1>21, <1>c, <2>1 DEF UpdateObservedStatus, ReportInitiated, hubVars, countVars
<1>4. CASE RenderFails
  <2>1. pc' = "idle" /\ queued' \in BOOLEAN /\ faults' \in 0..MaxFaults
    BY <1>4, <1>f, <1>q DEF RenderFails
  <2>2. mcListed' \in BOOLEAN
    BY <1>4 DEF RenderFails
  <2>3. QED
    BY <1>4, <1>c, <2>1, <2>2 DEF RenderFails, hubVars
<1>5. CASE Apply
  BY <1>5, <1>c, <1>q DEF Apply, CreateClusterDeployment, CreateManagedCluster, ManagedClusterStates,
                    ciVars, countVars
<1>6. CASE ApplyFails
  <2>1. pc' = "idle" /\ queued' \in BOOLEAN /\ faults' \in 0..MaxFaults
    BY <1>6, <1>f, <1>q DEF ApplyFails
  <2>2. cd' \in {cd, "new"} /\ mc' \in {mc, "unhealthy"} /\ mcListed' \in BOOLEAN
    BY <1>6 DEF ApplyFails, CreateClusterDeployment, CreateManagedCluster
  <2>3. QED
    BY <1>6, <1>c, <2>1, <2>2 DEF ApplyFails, ManagedClusterStates
<1>7. CASE Assess
  <2>1. pc' \in {"idle", "render", "perform"} /\ queued' \in BOOLEAN
    BY <1>7, <1>q DEF Assess, WaitForManagedCluster, ReportHealthy, Proceed, WaitForHealth,
                      TriggerReimport
  <2>2. reimported' \in {reimported, "InProgress", "Completed"}
    BY <1>7 DEF Assess, WaitForManagedCluster, ReportHealthy, WaitForHealth, TriggerReimport
  <2>3. QED
    BY <1>7, <1>c, <2>1, <2>2 DEF Assess, hubVars, countVars
<1>8. CASE AssessFails
  <2>1. pc' = "idle" /\ queued' \in BOOLEAN /\ faults' \in 0..MaxFaults
    BY <1>8, <1>f, <1>q DEF AssessFails
  <2>2. QED
    BY <1>8, <1>c, <2>1 DEF AssessFails, hubVars
<1>9. CASE Perform
  BY <1>9, <1>c, <1>q DEF Perform, ciVars, countVars
<1>10. CASE PerformPartly
  BY <1>10, <1>c, <1>f, <1>q DEF PerformPartly, ciVars
<1>11. CASE PerformFails
  <2>1. pc' = "idle" /\ queued' \in BOOLEAN /\ faults' \in 0..MaxFaults
    BY <1>11, <1>f, <1>q DEF PerformFails
  <2>2. QED
    BY <1>11, <1>c, <2>1 DEF PerformFails, hubVars
<1>12. CASE ReportProvisioned \/ GraceExpires
  BY <1>12, <1>c, <1>q DEF ReportProvisioned, ProvisionedReason, GraceExpires, hubVars, runVars, countVars
<1>13. CASE Install
  BY <1>13, <1>c, <1>q DEF Install, Installer, ciVars, runVars, countVars
<1>14. CASE LeaseExpires \/ ImportStarts \/ ImportEnds \/ KlusterletJoins
  BY <1>14, <1>c, <1>q DEF LeaseExpires, ImportStarts, ImportEnds, KlusterletJoins, ManagedCluster,
                     ManagedClusterStates, ciVars, runVars
<1>15. CASE UserEdits
  <2>1. edits' \in 0..MaxEdits
    BY <1>15, ReimportAssumption DEF UserEdits
  <2>2. queued' \in BOOLEAN /\ observed' \in BOOLEAN
    BY <1>15 DEF UserEdits, ConfigTypeOK
  <2>3. QED
    BY <1>15, <1>c, <2>1, <2>2 DEF UserEdits, hubVars
<1>16. CASE Crash
  <2>1. ConfigTypeOK'
    BY <1>16, ConfigStep DEF Crash
  <2>2. faults' \in 0..MaxFaults /\ queued' \in BOOLEAN
    BY <1>16, <1>f DEF Crash
  <2>3. QED
    BY <1>16, <2>1, <2>2 DEF Crash, ciVars, hubVars
<1>17. CASE Restart
  BY <1>17, ConfigStep DEF Restart, ciVars, hubVars, countVars
<1>18. CASE Configure
  BY <1>18, ConfigStep DEF Configure, ciVars, hubVars, runVars, countVars
<1>19. CASE UNCHANGED vars
  BY <1>19, <1>c, <1>q DEF vars, ciVars, hubVars, runVars, countVars
<1>20. QED
  BY <1>1, <1>2, <1>3, <1>4, <1>5, <1>6, <1>7, <1>8, <1>9, <1>10, <1>11, <1>12, <1>13, <1>14,
     <1>15, <1>16, <1>17, <1>18, <1>19, <1>21 DEF Next

\* Every step keeps the check about the new cluster, and a report of its health true.
LEMMA InvStep == IInv /\ [Next]_vars => IInv'
<1> SUFFICES ASSUME IInv, [Next]_vars PROVE (AssessInv /\ ReimportedIsReal)'
  BY TypeStep DEF IInv
<1>t. TypeOK /\ AssessInv /\ ReimportedIsReal
  BY DEF IInv
<1> USE DEF AssessInv, ReimportedIsReal, Return
<1>1. CASE CompleteRequest
  BY <1>1, <1>t DEF CompleteRequest, hubVars
<1>2. CASE Start
  BY <1>2, <1>t DEF Start, ciVars, hubVars
<1>3. CASE Render \/ RenderFails \/ ReportApplied \/ UpdateObservedStatus \/ ReportInitiated
  BY <1>3, <1>t DEF Render, RenderFails, ReportApplied, UpdateObservedStatus, ReportInitiated,
                    hubVars, countVars
<1>4. CASE Apply \/ ApplyFails
  BY <1>4, <1>t DEF Apply, ApplyFails, CreateClusterDeployment, CreateManagedCluster, ciVars,
                    countVars
<1>5. CASE Assess
  <2>1. reimported' = "Completed" /\ ~misread => mc = "healthy"
    BY <1>5, <1>t
    DEF Assess, WaitForManagedCluster, ReportHealthy, AssessClusterHealth, WaitForHealth,
        TriggerReimport
  <2>2. pc' # "assess"
    BY <1>5 DEF Assess, WaitForManagedCluster, ReportHealthy, Proceed, WaitForHealth,
                TriggerReimport
  <2>3. QED
    BY <1>5, <1>t, <2>1, <2>2 DEF Assess, hubVars, countVars
<1>6. CASE AssessFails
  BY <1>6, <1>t DEF AssessFails, hubVars
<1>7. CASE Perform \/ PerformPartly \/ PerformFails
  BY <1>7, <1>t DEF Perform, PerformPartly, PerformFails, ciVars, hubVars, countVars
<1>8. CASE ReportProvisioned \/ GraceExpires
  BY <1>8, <1>t DEF ReportProvisioned, GraceExpires, hubVars, runVars, countVars
<1>9. CASE Install
  BY <1>9, <1>t DEF Install, Installer, ciVars, runVars, countVars
<1>10. CASE LeaseExpires \/ ImportStarts \/ ImportEnds \/ KlusterletJoins
  BY <1>10, <1>t DEF LeaseExpires, ImportStarts, ImportEnds, KlusterletJoins, ManagedCluster,
                     ciVars, runVars
<1>11. CASE UserEdits
  BY <1>11, <1>t DEF UserEdits, hubVars
<1>12. CASE Crash \/ Restart \/ Configure
  BY <1>12, <1>t DEF Crash, Restart, Configure, ciVars, hubVars, runVars, countVars
<1>13. CASE UNCHANGED vars
  BY <1>13, <1>t DEF vars, ciVars, hubVars, runVars, countVars
<1>14. QED
  BY <1>1, <1>2, <1>3, <1>4, <1>5, <1>6, <1>7, <1>8, <1>9, <1>10, <1>11, <1>12, <1>13 DEF Next

\* The inductive invariant holds in every behaviour.
LEMMA Invariance == Spec => []IInv
<1>1. Init => IInv
  <2> SUFFICES ASSUME Init PROVE IInv
    OBVIOUS
  <2>1. 0 \in 0..MaxWrites /\ 0 \in 0..MaxEdits /\ 0 \in 0..MaxFaults /\ 0 \in 0..1
    BY ConfigurationAssumption, ReimportAssumption
  <2>2. \A k \in Keys : ReinstallsAllowed[k] \in Values[k]
    BY DEF Keys, Values, ReinstallsAllowed, DefaultData
  <2>3. ConfigTypeOK
    BY <2>1, <2>2 DEF Init, ConfigInit, ConfigTypeOK
  <2>4. QED
    BY <2>1, <2>3 DEF Init, IInv, TypeOK, AssessInv, ReimportedIsReal, ManagedClusterStates
<1>2. QED
  BY <1>1, InvStep, PTL DEF Spec

-----------------------------------------------------------------------------
(***************************************************************************)
(* The theorems                                                            *)
(***************************************************************************)

\* Every variable keeps its type: among others, no ConfigMap, whatever it holds, and no
\* update that stops half-way puts a value into the store that does not parse.
THEOREM TypeCorrect == Spec => []TypeOK
<1>1. IInv => TypeOK
  BY DEF IInv
<1>2. QED
  BY <1>1, Invariance, PTL

\* EnsureClusterIsReimported reports a reimport as complete only of the new cluster, unless
\* it once went by the Provisioned condition of the old one.
THEOREM ReimportReportsAreReal == Spec => []ReimportedIsReal
<1>1. IInv => ReimportedIsReal
  BY DEF IInv
<1>2. QED
  BY <1>1, Invariance, PTL
=============================================================================
