\* A ClusterInstance with a finalizer of another controller; no fault is needed.
CONSTANTS
  cd = cd
  bmh = bmh
  Objects = {cd, bmh}
  MaxRevision = 2
  Render <- RenderTwo
  Prune <- PruneTwo
  Suppress <- SuppressTwo
  Scenarios <- SharedOnly
SPECIFICATION Spec
PROPERTIES NothingCreatedUnfinalized
CHECK_DEADLOCK FALSE
