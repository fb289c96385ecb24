\* Two requests that preserve the identity; one crash and one failing task anywhere, deletions
\* included.
CONSTANTS
  Resources <- BothResources
  MaxRequests = 2
  Modes <- IdentityMode
  MaxCrashes = 1
  MaxErrors = 1
  DeletionErrors = TRUE
  Reuse = FALSE
SPECIFICATION FairSpec
PROPERTIES RequestEnds
CHECK_DEADLOCK FALSE
