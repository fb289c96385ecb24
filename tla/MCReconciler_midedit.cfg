\* An edit while a reconcile is under way; no fault is needed.
CONSTANTS
  cd = cd
  bmh = bmh
  Objects = {cd, bmh}
  MaxRevision = 2
  Render <- RenderTwo
  Prune <- PruneTwo
  Suppress <- SuppressTwo
  Scenarios <- EditedOnly
SPECIFICATION Spec
INVARIANTS ObservedMeansApplied
CHECK_DEADLOCK FALSE
