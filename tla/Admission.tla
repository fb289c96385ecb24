------------------------------ MODULE Admission ------------------------------
(***************************************************************************)
(* The validating webhook of the ClusterInstance: which specs a user can   *)
(* bring about, one update after the other, while the status moves on      *)
(* under the two reconcilers.                                              *)
(*                                                                         *)
(* A node is its host name, its role, its hardware (the fields a reinstall *)
(* may change: bmcAddress, bootMACAddress, rootDeviceHints, the MAC        *)
(* addresses of its interfaces) and its labels (the fields that may change *)
(* at any time, as some of the cluster's may); the role stands for every   *)
(* other field.  Of the cluster, clusterType stands for the fields that    *)
(* may not change, and valid says whether the template references are      *)
(* there and the JSON fields parse.                                        *)
(*                                                                         *)
(* Of the reconcilers there is what they write into the status the webhook *)
(* reads; modules Provisioning and Reinstall have the rest.  An object     *)
(* that is being deleted is admitted whatever it says, and only deleted:   *)
(* that is not modelled.                                                   *)
(***************************************************************************)
EXTENDS Integers, Sequences, FiniteSets

CONSTANTS
  NodeLists,    \* the lists of nodes a user may submit
  ClusterTypes, \* the cluster types that are used
  Generations   \* names for reinstall requests that pass validateReinstallGeneration

ASSUME AdmissionAssumption ==
  /\ \A nodes \in NodeLists :
       /\ nodes \in Seq({nodes[i] : i \in DOMAIN nodes})
       /\ \A i \in DOMAIN nodes : DOMAIN nodes[i] = {"host", "role", "hardware", "labels"}
  /\ ClusterTypes \subseteq
       {"SNO", "HighlyAvailable", "HostedControlPlane", "HighlyAvailableArbiter"}
  /\ "none" \notin Generations /\ "malformed" \notin Generations

VARIABLES
  spec,         \* the spec, as the API server has it
  provisioned,  \* Provisioned, its reason
  reinstall,    \* Status.Reinstall
  installing,   \* external: is an installation under way, or ordered?
  taken,        \* the generation a reconcile has read and is about to take on
  unchecked     \* history: has an edit made on hold changed the request for a reinstall?

vars == <<spec, provisioned, reinstall, installing, taken, unchecked>>

\* What a user may submit.
Specs ==
  [nodes : NodeLists, clusterType : ClusterTypes, valid : BOOLEAN,
   hold : BOOLEAN, generation : Generations \cup {"none", "malformed"}]

\* Without a Status.Reinstall all of this reads as empty.
NoReinstall == [inProgress |-> "none", ended |-> FALSE, observed |-> "none", history |-> {}]

\* The type of the state: among others, no malformed generation gets as far as the status,
\* unless a request got in unchecked.
TypeOK ==
  LET Names == Generations \cup (IF unchecked THEN {"malformed"} ELSE {})
      NamesOrNone == Names \cup {"none"}
  IN /\ spec \in Specs
     /\ provisioned \in {"none", "InProgress", "Completed", "Failed"}
     /\ reinstall \in [inProgress : NamesOrNone, ended : BOOLEAN, observed : NamesOrNone,
                       history : SUBSET Names]
     /\ installing \in BOOLEAN
     /\ taken \in NamesOrNone
     /\ unchecked \in BOOLEAN

-----------------------------------------------------------------------------
(***************************************************************************)
(* The state of the ClusterInstance, as the webhook reads it.              *)
(***************************************************************************)

isProvisioningInProgress == provisioned = "InProgress"
isProvisioningCompleted == provisioned = "Completed"

isReinstallInProgress(new) ==
  /\ new.generation # "none"
  /\ reinstall.inProgress = new.generation
  /\ ~reinstall.ended

isReinstallRequested(new) ==
  /\ new.generation # "none"
  /\ ~isReinstallInProgress(new)
  /\ reinstall.observed # new.generation

\* Fault: only an installation blocks an edit.
determineSpecChangePermission_NoReinstall(old, new) ==
  IF old.hold /\ ~isProvisioningCompleted THEN "Unrestricted"
  ELSE IF ~isProvisioningCompleted THEN "Blocked"
  ELSE IF isReinstallRequested(new) THEN "Reinstall" ELSE "BaseOnly"

\* A spec that was on hold is free until the installation completes; after that, an active
\* installation or reinstall, and a state that is not understood, block it.
determineSpecChangePermission(old, new) ==
  IF old.hold /\ ~isProvisioningCompleted THEN "Unrestricted"
  ELSE IF isProvisioningInProgress \/ isReinstallInProgress(new) THEN "Blocked"
  ELSE IF ~isProvisioningCompleted THEN "Blocked"
  ELSE IF isReinstallRequested(new) THEN "Reinstall" ELSE "BaseOnly"

\* Fault: the name of a generation is not checked.
validateReinstallRequest_AnyName(new) ==
  /\ isProvisioningCompleted
  /\ ~isReinstallInProgress(new)
  /\ reinstall.inProgress = "none" \/ reinstall.ended
  /\ reinstall.observed # new.generation
  /\ new.generation \notin reinstall.history

\* Fault: the generations of earlier requests are forgotten.
validateReinstallRequest_NoHistory(new) ==
  /\ isProvisioningCompleted
  /\ new.generation \notin {"none", "malformed"}
  /\ ~isReinstallInProgress(new)
  /\ reinstall.inProgress = "none" \/ reinstall.ended
  /\ reinstall.observed # new.generation

validateReinstallRequest(new) ==
  /\ isProvisioningCompleted
  /\ new.generation \notin {"none", "malformed"}
  /\ ~isReinstallInProgress(new)
  /\ reinstall.inProgress = "none" \/ reinstall.ended
  /\ reinstall.observed # new.generation
  /\ new.generation \notin reinstall.history

-----------------------------------------------------------------------------
(***************************************************************************)
(* The nodes.                                                              *)
(***************************************************************************)

\* generateNodeMatchingKey: the host name, or the address of a node that has none.
Key(n) == IF n.host # "" THEN <<"host", n.host>> ELSE <<"bmc", n.hardware>>

Keys(nodes) == {Key(nodes[i]) : i \in DOMAIN nodes}

\* The maps by key keep the last node of each.
NodeMap(nodes) ==
  [k \in Keys(nodes) |-> nodes[CHOOSE i \in DOMAIN nodes :
     /\ Key(nodes[i]) = k
     /\ \A j \in DOMAIN nodes : j > i => Key(nodes[j]) # k]]

areSameNodeSets(old, new) == Len(old) = Len(new) /\ NodeMap(old) = NodeMap(new)

isPureNodeReplacement(old, new) == Len(old) = Len(new) /\ Keys(old) \cap Keys(new) = {}

\* getUnauthorizedChanges
isUnauthorized(o, n, allowReinstall) ==
  \/ o.host # n.host
  \/ o.role # n.role
  \/ o.hardware # n.hardware /\ ~allowReinstall

\* Fault: a new node is compared with the one in its place.
checkNodeModifications_Positions(old, new, allowReinstall) ==
  \A i \in DOMAIN new \cap DOMAIN old :
    Key(new[i]) = Key(old[i]) => ~isUnauthorized(old[i], new[i], allowReinstall)

checkNodeModifications(old, new, allowReinstall) ==
  \A i \in DOMAIN new :
    Key(new[i]) \in Keys(old)
      => ~isUnauthorized(NodeMap(old)[Key(new[i])], new[i], allowReinstall)

\* analyzeNodeChanges finds no unauthorized change; added and removed nodes are none.
analyzeNodeChanges(old, new, allowReinstall) ==
  \/ areSameNodeSets(old, new)
  \/ isPureNodeReplacement(old, new)
  \/ checkNodeModifications(old, new, allowReinstall)

\* validatePostProvisioningChanges: once the nodes have passed, the differences between
\* the specs are looked at without them.
validatePostProvisioningChanges(old, new, allowReinstall) ==
  /\ analyzeNodeChanges(old.nodes, new.nodes, allowReinstall)
  /\ new.clusterType = old.clusterType
  /\ new.generation = old.generation \/ allowReinstall

-----------------------------------------------------------------------------
(***************************************************************************)
(* The handlers.                                                           *)
(***************************************************************************)

Count(nodes, role) == Cardinality({i \in DOMAIN nodes : nodes[i].role = role})

\* Fault: the control plane of a single node cluster is not counted.
validateControlPlaneAgentCount_AnySNO(s) ==
  LET masters == Count(s.nodes, "master")
      arbiters == Count(s.nodes, "arbiter")
  IN /\ masters < 1 => s.clusterType = "HostedControlPlane"
     /\ masters > 0 => s.clusterType # "HostedControlPlane"
     /\ s.clusterType = "HighlyAvailableArbiter" => arbiters >= 1 /\ masters >= 2
     /\ arbiters > 0 => s.clusterType = "HighlyAvailableArbiter"

validateControlPlaneAgentCount(s) ==
  LET masters == Count(s.nodes, "master")
      arbiters == Count(s.nodes, "arbiter")
  IN /\ masters < 1 => s.clusterType = "HostedControlPlane"
     /\ s.clusterType = "SNO" => masters = 1
     /\ masters > 0 => s.clusterType # "HostedControlPlane"
     /\ s.clusterType = "HighlyAvailableArbiter" => arbiters >= 1 /\ masters >= 2
     /\ arbiters > 0 => s.clusterType = "HighlyAvailableArbiter"

ValidateClusterInstance(s) == s.valid /\ validateControlPlaneAgentCount(s)

ValidateCreate(new) == new.generation = "none" /\ ValidateClusterInstance(new)

ValidateUpdate(old, new) ==
  /\ new.hold => old.hold
  /\ LET permission == determineSpecChangePermission(old, new) IN
     \/ permission = "Blocked" /\ new = old
     \/ permission = "Unrestricted" /\ ValidateClusterInstance(new)
     \/ /\ permission = "Reinstall" => validateReinstallRequest(new)
        /\ permission \in {"Reinstall", "BaseOnly"}
        /\ validatePostProvisioningChanges(old, new, permission = "Reinstall")
        /\ ValidateClusterInstance(new)

Init ==
  /\ spec \in {s \in Specs : ValidateCreate(s)}
  /\ provisioned = "none"
  /\ reinstall = NoReinstall
  /\ installing = TRUE
  /\ taken = "none"
  /\ unchecked = FALSE

UserUpdates(new) ==
  /\ new # spec
  /\ ValidateUpdate(spec, new)
  /\ spec' = new
  /\ unchecked' = \/ unchecked
                   \/ /\ determineSpecChangePermission(spec, new) = "Unrestricted"
                      /\ new.generation # spec.generation
  /\ UNCHANGED <<provisioned, reinstall, installing, taken>>

-----------------------------------------------------------------------------
(***************************************************************************)
(* The status, as the reconcilers write it.                                *)
(***************************************************************************)

\* Reconcile reads a request that is neither done nor failed, and is new.
ReadRequest ==
  /\ taken = "none"
  /\ spec.generation \notin {"none", reinstall.observed, reinstall.inProgress}
  /\ taken' = spec.generation
  /\ UNCHANGED <<spec, provisioned, reinstall, installing, unchecked>>

\* initializeReinstallStatus, of the generation that was read.
InitializeRequest ==
  /\ taken # "none"
  /\ reinstall' = [reinstall EXCEPT !.inProgress = taken, !.ended = FALSE]
  /\ taken' = "none"
  /\ UNCHANGED <<spec, provisioned, installing, unchecked>>

\* finalizeReinstallRequest; the cluster is rendered again.
FinalizeRequest ==
  /\ reinstall.inProgress # "none" /\ ~reinstall.ended
  /\ reinstall' = [inProgress |-> "none", ended |-> TRUE, observed |-> reinstall.inProgress,
                   history |-> reinstall.history \cup {reinstall.inProgress}]
  /\ installing' = TRUE
  /\ UNCHANGED <<spec, provisioned, taken, unchecked>>

\* A task of ProcessRequest fails the request.
FailRequest ==
  /\ reinstall.inProgress # "none" /\ ~reinstall.ended
  /\ reinstall' = [reinstall EXCEPT !.ended = TRUE]
  /\ UNCHANGED <<spec, provisioned, installing, taken, unchecked>>

\* updateCIProvisionedStatus: an installation is reported on, and as a success or a failure,
\* whatever the spec says about hold: only the assisted installer waits for its release.
\* A failed one may go on; an installed one is Completed until it is rendered again.
ReportProgress ==
  /\ installing /\ provisioned # "InProgress"
  /\ provisioned' = "InProgress"
  /\ UNCHANGED <<spec, reinstall, installing, taken, unchecked>>

ReportResult(result) ==
  /\ installing
  /\ provisioned' = result
  /\ installing' = (result = "Failed")
  /\ UNCHANGED <<spec, reinstall, taken, unchecked>>

Next ==
  \/ \E new \in Specs : UserUpdates(new)
  \/ ReadRequest \/ InitializeRequest \/ FinalizeRequest \/ FailRequest
  \/ ReportProgress
  \/ \E result \in {"Completed", "Failed"} : ReportResult(result)

Spec == Init /\ [][Next]_vars

-----------------------------------------------------------------------------
(***************************************************************************)
(* Properties.  On hold every edit passes that leaves the spec valid, one   *)
(* that makes, replaces or withdraws a request for a reinstall among them, *)
(* which nothing checks and which the reconciler takes on: the properties  *)
(* about requests speak of behaviours without such an edit.                *)
(***************************************************************************)

\* The webhook lets every edit pass.  A hold outlives the first installation where the
\* installer does not wait for its release, and is in force again whenever Provisioned is
\* not Completed, as after a reinstall; once released it can not be set again.
OnHold == spec.hold /\ ~isProvisioningCompleted

\* Through every sequence of edits, scalings, replacements and reinstalls, the nodes are
\* those a cluster of its type can be made of.
ControlPlaneFits ==
  LET masters == {i \in DOMAIN spec.nodes : spec.nodes[i].role = "master"}
      arbiters == {i \in DOMAIN spec.nodes : spec.nodes[i].role = "arbiter"}
  IN CASE spec.clusterType = "SNO" -> Cardinality(masters) = 1 /\ arbiters = {}
       [] spec.clusterType = "HighlyAvailable" -> masters # {} /\ arbiters = {}
       [] spec.clusterType = "HostedControlPlane" -> masters = {} /\ arbiters = {}
       [] OTHER -> Cardinality(masters) >= 2 /\ arbiters # {}

\* An installation, and a reinstall from the moment the status shows it until it ends,
\* leave a spec that is not on hold alone: it can neither be edited, nor the request be
\* withdrawn, nor replaced by another one, whatever Provisioned says of which installation.
FrozenWhileActive ==
  [][(/\ ~unchecked /\ ~OnHold
      /\ \/ isProvisioningInProgress
         \/ reinstall.inProgress # "none" /\ ~reinstall.ended)
       => spec' = spec]_vars

\* The host is listed once.
Once(nodes, host) == Cardinality({i \in DOMAIN nodes : nodes[i].host = host}) = 1

\* From the release of the hold on, which is for good, through installations and requests of any
\* kind, and before it while an installation is complete, a cluster keeps its type, and a
\* host that is kept, wherever it is listed and whatever is added, removed or replaced next
\* to it, keeps its role; its hardware changes only with a request for a reinstall that is
\* not done.  (Two nodes of one host name, and nodes without one, are not told apart.)
ImmutableKept ==
  [][~OnHold =>
       /\ spec'.hold => spec.hold
       /\ spec'.clusterType = spec.clusterType
       /\ \A i \in DOMAIN spec.nodes, j \in DOMAIN spec'.nodes :
            LET o == spec.nodes[i]
                n == spec'.nodes[j]
                kept == /\ o.host = n.host /\ o.host # ""
                        /\ Once(spec.nodes, o.host) /\ Once(spec'.nodes, o.host)
            IN kept => /\ o.role = n.role
                       /\ \/ o.hardware = n.hardware
                          \/ spec'.generation \notin {"none", reinstall.observed}]_vars

\* No request is taken on whose generation has been used by a request that completed,
\* although the spec may have moved on between the read and the status patch.
RequestsFresh ==
  [][reinstall'.inProgress # reinstall.inProgress /\ ~unchecked
       => reinstall'.inProgress \notin reinstall.history]_vars
=============================================================================
