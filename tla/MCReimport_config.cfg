\* Two writes of the ConfigMap, a fault and an edit, anywhere.
CONSTANTS
  Datas <- MCDatas
  MaxWrites = 2
  MaxFaults = 1
  MaxEdits = 1
SPECIFICATION FairSpec
INVARIANTS TypeOK ReimportedIsReal
PROPERTIES Reimports ConfigurationFollows
CHECK_DEADLOCK FALSE
