--------------------------- MODULE AdmissionProofs ---------------------------
(***************************************************************************)
(* What the webhook keeps true through every sequence of updates, proved   *)
(* for all lists of nodes, all cluster types and any number of reinstall   *)
(* requests.                                                               *)
(*                                                                         *)
(* The webhook compares an update with the status it reads, and the status *)
(* lags behind: between the read of a request and the patch that shows it  *)
(* the user may replace it, and a hold that was never released is in force *)
(* again when the cluster is reinstalled.  The inductive invariant says    *)
(* what the generations in the spec, in flight and in the status can be to *)
(* each other all the same, as long as no edit on hold has changed the     *)
(* request.                                                                *)
(***************************************************************************)
EXTENDS Admission, FiniteSetTheorems, TLAPS

\* A reinstall the status shows, and that has not ended.
Active == reinstall.inProgress # "none" /\ ~reinstall.ended

\* A request in the spec is well-formed, one that is done is the last one, and while one is
\* in flight or under way, the spec has one that is not done.
RequestInv ==
  ~unchecked =>
    /\ spec.generation # "malformed"
    /\ spec.generation \in reinstall.history => spec.generation = reinstall.observed
    /\ Active => spec.generation \notin {"none", reinstall.observed}
    /\ taken # "none" =>
         /\ spec.generation \notin {"none", reinstall.observed}
         /\ taken \notin reinstall.history
         /\ taken # reinstall.inProgress
         /\ Active => spec.generation # reinstall.inProgress

IInv == TypeOK /\ ValidateClusterInstance(spec) /\ RequestInv

-----------------------------------------------------------------------------
(***************************************************************************)
(* What an update that is admitted can be                                  *)
(***************************************************************************)

\* While a reinstall that the status shows is under way, no update of a spec that is not on
\* hold is admitted: not even one that withdraws or replaces the request.
LEMMA ActiveFreezes ==
  ASSUME IInv, ~unchecked, ~OnHold, Active, NEW new \in Specs
  PROVE  ~UserUpdates(new)
<1>1. spec.generation \notin {"none", reinstall.observed}
  BY DEF IInv, RequestInv
<1>2. ASSUME UserUpdates(new) PROVE FALSE
  <2> DEFINE permission == determineSpecChangePermission(spec, new)
  <2>1. CASE permission = "Reinstall"
    BY <1>2, <2>1 DEF UserUpdates, ValidateUpdate, validateReinstallRequest, Active
  <2>2. CASE permission = "BaseOnly"
    <3>1. new.generation = spec.generation
      BY <1>2, <2>2 DEF UserUpdates, ValidateUpdate, validatePostProvisioningChanges
    <3>2. isReinstallRequested(new) \/ isReinstallInProgress(new)
      BY <1>1, <3>1 DEF isReinstallRequested
    <3>3. QED
      BY <1>1, <2>2, <3>2 DEF determineSpecChangePermission
  <2>3. CASE permission \notin {"Reinstall", "BaseOnly", "Unrestricted"}
    BY <1>2, <2>3 DEF UserUpdates, ValidateUpdate
  <2>4. permission # "Unrestricted"
    BY DEF determineSpecChangePermission, OnHold
  <2>5. QED
    BY <2>1, <2>2, <2>3, <2>4
<1>3. QED
  BY <1>2

\* What an update can be, by the permission it got.
LEMMA AdmittedUpdate ==
  ASSUME IInv, NEW new \in Specs, UserUpdates(new)
  PROVE  /\ spec' = new /\ UNCHANGED <<provisioned, reinstall, installing, taken>>
         /\ ValidateClusterInstance(new)
         /\ new.hold => spec.hold
         /\ \/ /\ OnHold
               /\ unchecked' = (unchecked \/ new.generation # spec.generation)
            \/ /\ provisioned = "Completed" /\ unchecked' = unchecked
               /\ isReinstallRequested(new)
               /\ validateReinstallRequest(new)
               /\ validatePostProvisioningChanges(spec, new, TRUE)
            \/ /\ provisioned = "Completed" /\ unchecked' = unchecked
               /\ validatePostProvisioningChanges(spec, new, FALSE)
<1> DEFINE permission == determineSpecChangePermission(spec, new)
<1>1. spec' = new /\ UNCHANGED <<provisioned, reinstall, installing, taken>>
      /\ (new.hold => spec.hold)
  BY DEF UserUpdates, ValidateUpdate
<1>0. /\ permission = "Unrestricted" =>
           unchecked' = (unchecked \/ new.generation # spec.generation)
      /\ permission # "Unrestricted" => unchecked' = unchecked
  BY DEF UserUpdates, IInv, TypeOK
<1>2. ValidateClusterInstance(new)
  BY DEF UserUpdates, ValidateUpdate
<1>3. CASE permission = "Unrestricted"
  <2>1. OnHold
    BY <1>3 DEF determineSpecChangePermission, OnHold
  <2>2. QED
    BY <1>0, <1>1, <1>2, <1>3, <2>1
<1>4. CASE permission = "Reinstall"
  <2>1. provisioned = "Completed" /\ isReinstallRequested(new)
    BY <1>4 DEF determineSpecChangePermission, isProvisioningCompleted
  <2>2. validateReinstallRequest(new) /\ validatePostProvisioningChanges(spec, new, TRUE)
    BY <1>4 DEF UserUpdates, ValidateUpdate
  <2>3. QED
    BY <1>0, <1>1, <1>2, <1>4, <2>1, <2>2
<1>5. CASE permission = "BaseOnly"
  <2>1. provisioned = "Completed"
    BY <1>5 DEF determineSpecChangePermission, isProvisioningCompleted
  <2>2. validatePostProvisioningChanges(spec, new, FALSE)
    BY <1>5 DEF UserUpdates, ValidateUpdate
  <2>3. QED
    BY <1>0, <1>1, <1>2, <1>5, <2>1, <2>2
<1>6. CASE permission \notin {"Unrestricted", "Reinstall", "BaseOnly"}
  BY <1>6 DEF UserUpdates, ValidateUpdate
<1>7. QED
  BY <1>3, <1>4, <1>5, <1>6

\* Every update that is admitted keeps the invariant.
LEMMA UpdateStep ==
  ASSUME IInv, NEW new \in Specs, UserUpdates(new)
  PROVE  IInv'
<1>u. /\ spec' = new /\ UNCHANGED <<provisioned, reinstall, installing, taken>>
      /\ ValidateClusterInstance(new)
  BY AdmittedUpdate
<1>v. \/ unchecked' = (unchecked \/ new.generation # spec.generation)
      \/ /\ ~OnHold /\ unchecked' = unchecked
         /\ isReinstallRequested(new)
         /\ validateReinstallRequest(new)
      \/ unchecked' = unchecked /\ new.generation = spec.generation
  BY AdmittedUpdate DEF validatePostProvisioningChanges, OnHold, isProvisioningCompleted
<1>t. TypeOK /\ RequestInv
  BY DEF IInv
<1>w. unchecked' \in BOOLEAN /\ (unchecked => unchecked')
  BY <1>v, <1>t DEF TypeOK
<1>1. TypeOK'
  BY <1>u, <1>t, <1>w DEF TypeOK
<1>2. ValidateClusterInstance(spec)'
  BY <1>u DEF ValidateClusterInstance, validateControlPlaneAgentCount, Count
<1>3. RequestInv'
  <2>1. SUFFICES ASSUME ~unchecked' PROVE RequestInv'
    BY DEF RequestInv
  <2>2. ~unchecked
    BY <1>v, <1>t, <2>1 DEF TypeOK
  <2>3. CASE new.generation = spec.generation
    BY <1>u, <1>t, <2>2, <2>3 DEF RequestInv, Active
  <2>4. CASE ~OnHold /\ isReinstallRequested(new) /\ validateReinstallRequest(new)
    <3>1. ~Active
      BY <2>2, <2>4, ActiveFreezes
    <3>2. QED
      BY <1>u, <1>t, <2>2, <2>4, <3>1
      DEF RequestInv, Active, isReinstallRequested, validateReinstallRequest
  <2>5. QED
    BY <1>v, <2>1, <2>2, <2>3, <2>4
<1>4. QED
  BY <1>1, <1>2, <1>3 DEF IInv

\* So do the writes of the two reconcilers to the status.
LEMMA StatusStep ==
  ASSUME IInv,
         \/ ReadRequest \/ InitializeRequest \/ FinalizeRequest \/ FailRequest
         \/ ReportProgress
         \/ \E result \in {"Completed", "Failed"} : ReportResult(result)
  PROVE  IInv'
<1>t. TypeOK /\ RequestInv /\ UNCHANGED <<spec, unchecked>>
  BY DEF IInv, ReadRequest, InitializeRequest, FinalizeRequest, FailRequest,
         ReportProgress, ReportResult
<1>v. ValidateClusterInstance(spec)'
  BY <1>t DEF IInv, ValidateClusterInstance, validateControlPlaneAgentCount, Count
<1>1. CASE ReadRequest
  BY <1>1, <1>t, <1>v DEF ReadRequest, IInv, TypeOK, Specs, RequestInv, Active
<1>2. CASE InitializeRequest
  <2>1. TypeOK'
    <3> DEFINE Names == Generations \cup (IF unchecked THEN {"malformed"} ELSE {})
    <3>1. reinstall \in [inProgress : Names \cup {"none"}, ended : BOOLEAN,
                         observed : Names \cup {"none"}, history : SUBSET Names]
      BY <1>t DEF TypeOK
    <3>2. taken \in Names \cup {"none"}
      BY <1>t DEF TypeOK
    <3> HIDE DEF Names
    <3>3. reinstall' \in [inProgress : Names \cup {"none"}, ended : BOOLEAN,
                          observed : Names \cup {"none"}, history : SUBSET Names]
      BY <1>2, <3>1, <3>2 DEF InitializeRequest
    <3>4. QED
      BY <1>2, <1>t, <3>3 DEF InitializeRequest, TypeOK, Names
  <2>2. RequestInv'
    BY <1>2, <1>t DEF InitializeRequest, RequestInv, TypeOK, Active
  <2>3. QED
    BY <1>v, <2>1, <2>2 DEF IInv
<1>3. CASE FinalizeRequest
  <2>0. Active
    BY <1>3 DEF FinalizeRequest, Active
  <2>1. TypeOK'
    BY <1>3, <1>t DEF FinalizeRequest, TypeOK
  <2>2. RequestInv'
    BY <1>3, <1>t, <2>0 DEF FinalizeRequest, RequestInv, TypeOK, Active
  <2>3. QED
    BY <1>v, <2>1, <2>2 DEF IInv
<1>4. CASE FailRequest
  <2>1. TypeOK'
    <3> DEFINE Names == Generations \cup (IF unchecked THEN {"malformed"} ELSE {})
    <3>1. reinstall \in [inProgress : Names \cup {"none"}, ended : BOOLEAN,
                         observed : Names \cup {"none"}, history : SUBSET Names]
      BY <1>t DEF TypeOK
    <3>2. taken \in Names \cup {"none"}
      BY <1>t DEF TypeOK
    <3> HIDE DEF Names
    <3>3. reinstall' \in [inProgress : Names \cup {"none"}, ended : BOOLEAN,
                          observed : Names \cup {"none"}, history : SUBSET Names]
      BY <1>4, <3>1, <3>2 DEF FailRequest
    <3>4. QED
      BY <1>4, <1>t, <3>3 DEF FailRequest, TypeOK, Names
  <2>2. RequestInv'
    BY <1>4, <1>t DEF FailRequest, RequestInv, TypeOK, Active
  <2>3. QED
    BY <1>v, <2>1, <2>2 DEF IInv
<1>5. CASE ReportProgress
  BY <1>5, <1>t, <1>v DEF ReportProgress, IInv, TypeOK, RequestInv, Active
<1>6. CASE \E result \in {"Completed", "Failed"} : ReportResult(result)
  BY <1>6, <1>t, <1>v DEF ReportResult, IInv, TypeOK, RequestInv, Active
<1>7. QED
  BY <1>1, <1>2, <1>3, <1>4, <1>5, <1>6

\* The inductive invariant holds in every behaviour.
LEMMA Invariance == Spec => []IInv
<1>1. Init => IInv
  <2> SUFFICES ASSUME Init PROVE IInv
    OBVIOUS
  <2>1. spec \in Specs /\ spec.generation = "none" /\ ValidateClusterInstance(spec)
    BY DEF Init, ValidateCreate
  <2>2. TypeOK
    BY <2>1 DEF Init, TypeOK, NoReinstall
  <2>3. RequestInv
    BY <2>1 DEF Init, NoReinstall, RequestInv, Active
  <2>4. QED
    BY <2>1, <2>2, <2>3 DEF IInv
<1>2. IInv /\ [Next]_vars => IInv'
  <2> SUFFICES ASSUME IInv, [Next]_vars PROVE IInv'
    OBVIOUS
  <2>1. CASE UNCHANGED vars
    BY <2>1 DEF vars, IInv, TypeOK, ValidateClusterInstance, validateControlPlaneAgentCount,
                Count, RequestInv, Active
  <2>2. CASE Next
    BY <2>2, UpdateStep, StatusStep DEF Next
  <2>3. QED
    BY <2>1, <2>2
<1>3. QED
  BY <1>1, <1>2, PTL DEF Spec

-----------------------------------------------------------------------------
(***************************************************************************)
(* The theorems                                                            *)
(***************************************************************************)

\* The status never gets hold of a malformed generation, unless a request came in unchecked.
THEOREM TypeCorrect == Spec => []TypeOK
<1>1. IInv => TypeOK
  BY DEF IInv
<1>2. QED
  BY <1>1, Invariance, PTL

\* The nodes are numbered from 1.
LEMMA NodesNumbered ==
  \A nodes \in NodeLists : DOMAIN nodes = 1..Len(nodes) /\ Len(nodes) \in Nat
  BY AdmissionAssumption

\* The nodes of a list that have a property can be counted.
LEMMA NodesFinite ==
  ASSUME NEW nodes \in NodeLists, NEW S \in SUBSET DOMAIN nodes
  PROVE  IsFiniteSet(S) /\ Cardinality(S) \in Nat /\ (Cardinality(S) = 0 <=> S = {})
<1>1. DOMAIN nodes = 1..Len(nodes) /\ Len(nodes) \in Nat
  BY NodesNumbered
<1>2. IsFiniteSet(DOMAIN nodes)
  BY <1>1, FS_Interval
<1>3. IsFiniteSet(S)
  BY <1>2, FS_Subset
<1>4. QED
  BY <1>3, FS_CardinalityType, FS_EmptySet

\* No sequence of edits, scalings, replacements and reinstalls leaves a cluster with a
\* control plane that its type does not allow.
THEOREM ControlPlaneAlwaysFits == Spec => []ControlPlaneFits
<1>1. IInv => ControlPlaneFits
  <2> SUFFICES ASSUME IInv PROVE ControlPlaneFits
    OBVIOUS
  <2> DEFINE With(role) == {i \in DOMAIN spec.nodes : spec.nodes[i].role = role}
  <2>1. spec.nodes \in NodeLists /\ spec.clusterType \in ClusterTypes
    BY DEF IInv, TypeOK, Specs
  <2>2. \A role : /\ Cardinality(With(role)) \in Nat
                  /\ Cardinality(With(role)) = 0 <=> With(role) = {}
    BY <2>1, NodesFinite
  <2>3. validateControlPlaneAgentCount(spec)
    BY DEF IInv, ValidateClusterInstance
  <2> DEFINE masters == Cardinality(With("master"))
             arbiters == Cardinality(With("arbiter"))
  <2>4. /\ masters < 1 => spec.clusterType = "HostedControlPlane"
        /\ spec.clusterType = "SNO" => masters = 1
        /\ masters > 0 => spec.clusterType # "HostedControlPlane"
        /\ spec.clusterType = "HighlyAvailableArbiter" => arbiters >= 1 /\ masters >= 2
        /\ arbiters > 0 => spec.clusterType = "HighlyAvailableArbiter"
    BY <2>3 DEF validateControlPlaneAgentCount, Count
  <2>5. /\ masters \in Nat /\ (masters = 0 <=> With("master") = {})
        /\ arbiters \in Nat /\ (arbiters = 0 <=> With("arbiter") = {})
    BY <2>2
  <2>6. spec.clusterType \in
          {"SNO", "HighlyAvailable", "HostedControlPlane", "HighlyAvailableArbiter"}
    BY <2>1, AdmissionAssumption
  <2> HIDE DEF With
  <2>7. CASE spec.clusterType = "SNO"
    BY <2>4, <2>5, <2>7 DEF ControlPlaneFits, With
  <2>8. CASE spec.clusterType = "HighlyAvailable"
    BY <2>4, <2>5, <2>8 DEF ControlPlaneFits, With
  <2>9. CASE spec.clusterType = "HostedControlPlane"
    BY <2>4, <2>5, <2>9 DEF ControlPlaneFits, With
  <2>10. CASE spec.clusterType = "HighlyAvailableArbiter"
    BY <2>4, <2>5, <2>10 DEF ControlPlaneFits, With
  <2>11. QED
    BY <2>6, <2>7, <2>8, <2>9, <2>10
<1>2. QED
  BY <1>1, Invariance, PTL

\* An installation and a reinstall leave a spec that is not on hold alone until they end,
\* although the status shows a reinstall only after the reconciler has read the request,
\* and Provisioned may still speak of the installation before.
THEOREM Frozen == Spec => FrozenWhileActive
<1> DEFINE A == (/\ ~unchecked /\ ~OnHold
                 /\ \/ isProvisioningInProgress
                    \/ reinstall.inProgress # "none" /\ ~reinstall.ended)
                  => spec' = spec
<1>1. IInv /\ [Next]_vars => [A]_vars
  <2> SUFFICES ASSUME IInv, Next, ~unchecked, ~OnHold,
                      isProvisioningInProgress \/ Active
               PROVE  spec' = spec
    BY DEF Active
  <2>1. ASSUME NEW new \in Specs PROVE ~UserUpdates(new)
    <3>1. CASE Active
      BY <3>1, ActiveFreezes
    <3>2. CASE isProvisioningInProgress
      BY <3>2, AdmittedUpdate DEF isProvisioningInProgress
    <3>3. QED
      BY <3>1, <3>2
  <2>2. QED
    BY <2>1 DEF Next, ReadRequest, InitializeRequest, FinalizeRequest, FailRequest,
                ReportProgress, ReportResult
<1>2. QED
  BY <1>1, Invariance, PTL DEF Spec, FrozenWhileActive

\* The reconciler never takes on a generation that an earlier request has used up, although
\* the spec may have moved on since it read the request.
THEOREM AlwaysFresh == Spec => RequestsFresh
<1> DEFINE A == reinstall'.inProgress # reinstall.inProgress /\ ~unchecked
                  => reinstall'.inProgress \notin reinstall.history
<1>1. IInv /\ [Next]_vars => [A]_vars
  <2> SUFFICES ASSUME IInv, Next, ~unchecked, reinstall'.inProgress # reinstall.inProgress
               PROVE  reinstall'.inProgress \notin reinstall.history
    OBVIOUS
  <2>1. CASE InitializeRequest
    BY <2>1 DEF InitializeRequest, IInv, TypeOK, RequestInv
  <2>2. CASE FinalizeRequest
    BY <2>2, AdmissionAssumption DEF FinalizeRequest, IInv, TypeOK
  <2>3. CASE FailRequest
    BY <2>3 DEF FailRequest, IInv, TypeOK
  <2>4. QED
    BY <2>1, <2>2, <2>3 DEF Next, UserUpdates, ReadRequest, ReportProgress, ReportResult
<1>2. QED
  BY <1>1, Invariance, PTL DEF Spec, RequestsFresh

\* The map by key finds the node of a host name that is listed once.
LEMMA NodeOfHost ==
  ASSUME NEW nodes \in NodeLists, NEW i \in DOMAIN nodes, nodes[i].host # "",
         Once(nodes, nodes[i].host)
  PROVE  /\ Key(nodes[i]) \in Keys(nodes)
         /\ NodeMap(nodes)[Key(nodes[i])] = nodes[i]
<1> DEFINE h == nodes[i].host
           k == Key(nodes[i])
           Same == {j \in DOMAIN nodes : nodes[j].host = h}
           Last(j) == /\ Key(nodes[j]) = k
                      /\ \A l \in DOMAIN nodes : l > j => Key(nodes[l]) # k
<1>1. k \in Keys(nodes)
  BY DEF Keys
<1>2. IsFiniteSet(Same) /\ Cardinality(Same) = 1
  BY NodesFinite DEF Once
<1>3. \A j \in Same : j = i
  <2> HIDE DEF Same
  <2>1. PICK x : Same = {x}
    BY <1>2, FS_Singleton
  <2>2. i \in Same
    BY DEF Same
  <2>3. QED
    BY <2>1, <2>2
<1>4. \A j \in DOMAIN nodes : Key(nodes[j]) = k => j = i
  BY <1>3 DEF Key
<1>5. \A j \in DOMAIN nodes : j > i => j # i
  BY ONLY NodesNumbered, nodes \in NodeLists, i \in DOMAIN nodes
<1>6. Last(i)
  BY <1>4, <1>5
<1>7. \A j \in DOMAIN nodes : Last(j) => j = i
  BY <1>4
<1>8. (CHOOSE j \in DOMAIN nodes : Last(j)) = i
  <2>1. \E j \in DOMAIN nodes : Last(j)
    BY <1>6
  <2> DEFINE c == CHOOSE j \in DOMAIN nodes : Last(j)
  <2> HIDE DEF Last
  <2>2. c \in DOMAIN nodes /\ Last(c)
    BY <2>1
  <2>3. QED
    BY <2>2, <1>7
<1>9. NodeMap(nodes)[k] = nodes[CHOOSE j \in DOMAIN nodes : Last(j)]
  BY <1>1 DEF NodeMap
<1>10. QED
  BY <1>1, <1>8, <1>9

\* An edit that is not made on hold keeps the cluster's type, and the role of every host it
\* keeps; it changes a host's hardware only together with a request to reinstall.
THEOREM ImmutableFieldsKept == Spec => ImmutableKept
<1> DEFINE A ==
      ~OnHold =>
       /\ spec'.hold => spec.hold
       /\ spec'.clusterType = spec.clusterType
       /\ \A i \in DOMAIN spec.nodes, j \in DOMAIN spec'.nodes :
            LET o == spec.nodes[i]
                n == spec'.nodes[j]
                kept == /\ o.host = n.host /\ o.host # ""
                        /\ Once(spec.nodes, o.host) /\ Once(spec'.nodes, o.host)
            IN kept => /\ o.role = n.role
                       /\ \/ o.hardware = n.hardware
                          \/ spec'.generation \notin {"none", reinstall.observed}
<1>1. IInv /\ [Next]_vars => [A]_vars
  <2> SUFFICES ASSUME IInv, Next, ~OnHold
               PROVE  A
    OBVIOUS
  <2>1. CASE spec' = spec
    <3>1. ASSUME NEW i \in DOMAIN spec.nodes, NEW j \in DOMAIN spec.nodes,
                 spec.nodes[i].host = spec.nodes[j].host, spec.nodes[i].host # "",
                 Once(spec.nodes, spec.nodes[i].host)
          PROVE  spec.nodes[i] = spec.nodes[j]
      <4>1. spec.nodes \in NodeLists
        BY DEF IInv, TypeOK, Specs
      <4>2. Key(spec.nodes[i]) = Key(spec.nodes[j])
        BY <3>1 DEF Key
      <4>3. QED
        BY <3>1, <4>1, <4>2, NodeOfHost
    <3>2. QED
      BY <2>1, <3>1
  <2>2. ASSUME NEW new \in Specs, UserUpdates(new) PROVE A
    <3>1. spec' = new /\ (new.hold => spec.hold)
      BY <2>2, AdmittedUpdate
    <3>2. PICK allowReinstall \in BOOLEAN :
            /\ validatePostProvisioningChanges(spec, new, allowReinstall)
            /\ allowReinstall => new.generation \notin {"none", reinstall.observed}
      <4>1. \/ isReinstallRequested(new) /\ validatePostProvisioningChanges(spec, new, TRUE)
            \/ validatePostProvisioningChanges(spec, new, FALSE)
        BY <2>2, AdmittedUpdate
      <4>2. QED
        BY <4>1 DEF isReinstallRequested
    <3>3. new.clusterType = spec.clusterType
      BY <3>2 DEF validatePostProvisioningChanges
    <3>4. ASSUME NEW i \in DOMAIN spec.nodes, NEW j \in DOMAIN new.nodes,
                 spec.nodes[i].host = new.nodes[j].host, spec.nodes[i].host # "",
                 Once(spec.nodes, spec.nodes[i].host), Once(new.nodes, spec.nodes[i].host)
          PROVE  /\ spec.nodes[i].role = new.nodes[j].role
                 /\ spec.nodes[i].hardware = new.nodes[j].hardware \/ allowReinstall
      <4> DEFINE o == spec.nodes[i]
                 n == new.nodes[j]
      <4>1. spec.nodes \in NodeLists /\ new.nodes \in NodeLists
        BY DEF IInv, TypeOK, Specs
      <4>2. Key(o) = Key(n)
        BY <3>4 DEF Key
      <4>3. /\ Key(o) \in Keys(spec.nodes) /\ NodeMap(spec.nodes)[Key(o)] = o
            /\ Key(n) \in Keys(new.nodes) /\ NodeMap(new.nodes)[Key(n)] = n
        BY <3>4, <4>1, NodeOfHost
      <4>4. CASE areSameNodeSets(spec.nodes, new.nodes)
        BY <4>2, <4>3, <4>4 DEF areSameNodeSets
      <4>5. CASE isPureNodeReplacement(spec.nodes, new.nodes)
        BY <4>2, <4>3, <4>5 DEF isPureNodeReplacement
      <4>6. CASE checkNodeModifications(spec.nodes, new.nodes, allowReinstall)
        BY <4>2, <4>3, <4>6 DEF checkNodeModifications, isUnauthorized
      <4>7. QED
        BY <3>2, <4>4, <4>5, <4>6 DEF validatePostProvisioningChanges, analyzeNodeChanges
    <3>5. QED
      BY <3>1, <3>2, <3>3, <3>4
  <2>3. QED
    BY <2>1, <2>2 DEF Next, ReadRequest, InitializeRequest, FinalizeRequest, FailRequest,
                      ReportProgress, ReportResult
<1>2. QED
  BY <1>1, Invariance, PTL DEF Spec, ImmutableKept
=============================================================================
