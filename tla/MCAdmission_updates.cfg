\* Lists of up to two nodes, some of three, every type of cluster, two requests.
CONSTANTS
  NodeLists <- MCNodeLists
  ClusterTypes = {"SNO", "HighlyAvailable", "HostedControlPlane", "HighlyAvailableArbiter"}
  Generations = {"g1", "g2"}
SPECIFICATION Spec
CONSTRAINT NotUnchecked
INVARIANTS TypeOK ControlPlaneFits
PROPERTIES FrozenWhileActive ImmutableKept RequestsFresh
CHECK_DEADLOCK FALSE
