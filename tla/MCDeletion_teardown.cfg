\* Two owned objects in two waves and a foreign one in the upper wave; one fault anywhere.
CONSTANTS
  mc = mc
  bmh = bmh
  netpol = netpol
  Objects = {mc, bmh, netpol}
  Wave <- WaveOf
  Owned = {mc, bmh}
  ManagedCluster = mc
  PruneSets <- PruneSetsOf
  MaxFaults = 1
SPECIFICATION FairSpec
INVARIANTS TypeOK NoOrphans FinalizerGoesLast CompletionMeansGone
PROPERTIES WavesDescend OthersUntouched FinalizationEnds ImplementsTeardown
CHECK_DEADLOCK FALSE
