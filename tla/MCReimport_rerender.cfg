\* One fault, and nobody touches the ConfigMap or the spec.
CONSTANTS
  Datas <- MCNoDatas
  MaxWrites = 0
  MaxFaults = 1
  MaxEdits = 0
SPECIFICATION FairSpec
PROPERTIES RequestRerendered
CHECK_DEADLOCK FALSE
