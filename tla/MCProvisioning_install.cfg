\* Two edits, or one edit and one fault, anywhere.
CONSTANTS
  WaitsOnHold = TRUE
  MaxEdits = 2
  MaxFaults = 1
  MaxEvents = 2
SPECIFICATION FairSpec
INVARIANTS TypeOK InstallsCurrentSpec ProvisionedIsReal
PROPERTIES ProvisionedFollows
CHECK_DEADLOCK FALSE
