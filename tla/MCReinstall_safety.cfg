\* Two requests in any mode; one crash and one failing task anywhere, but no failing deletion.
CONSTANTS
  Resources <- BothResources
  MaxRequests = 2
  Modes <- AllModes
  MaxCrashes = 1
  MaxErrors = 1
  DeletionErrors = FALSE
  Reuse = FALSE
SPECIFICATION Spec
INVARIANTS TypeOK CleanSlate
PROPERTIES PreservedDataSurvives BackupFirst
CHECK_DEADLOCK FALSE
