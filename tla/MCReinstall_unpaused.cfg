\* One request and one call of a deletion pass that fails.
CONSTANTS
  Resources <- BothResources
  MaxRequests = 1
  Modes <- IdentityMode
  MaxCrashes = 0
  MaxErrors = 1
  DeletionErrors = TRUE
  Reuse = FALSE
SPECIFICATION Spec
INVARIANTS CleanSlate
CHECK_DEADLOCK FALSE
