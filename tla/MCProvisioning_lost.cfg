\* One generation, nothing fails.
CONSTANTS
  WaitsOnHold = FALSE
  MaxEdits = 0
  MaxFaults = 0
  MaxEvents = 0
SPECIFICATION Spec
INVARIANTS AppliedStaysReported
CHECK_DEADLOCK FALSE
