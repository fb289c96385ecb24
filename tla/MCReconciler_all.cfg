\* Three revisions in each scenario: edits between reconciles, another finalizer, a restore;
\* one or two faults anywhere.
CONSTANTS
  cd = cd
  bmh = bmh
  Objects = {cd, bmh}
  MaxRevision = 3
  Render <- RenderOf
  Prune <- PruneOf
  Suppress <- SuppressOf
  Scenarios <- AllScenarios
SPECIFICATION FairSpec
INVARIANTS TypeOK PrunedFirst ObservedBetweenEdits Accounted RestoredNotRerendered
PROPERTIES ObservedAfterApply EditTakesEffect DeletionEnds RestoreHandled
CHECK_DEADLOCK FALSE
