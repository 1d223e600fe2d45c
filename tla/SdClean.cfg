SPECIFICATION Spec
CONSTANTS
  a = a
  b = b
  Name <- Names
  Slots = 2
  clusterCount = 3
  blocksPerCluster = 1
  BlockLen = 2
  EntriesPerBlock = 3
  fatCount = 2
  Modes <- CleanModes
  Amounts = {1, 2}
  Seeks = {0}
  Lengths = {2}
  Removes = TRUE
  Retries = FALSE
  MaxFaults = 0
  MaxAccesses = 0
  MaxCrashes = 0
SYMMETRY Symmetry
INVARIANTS TypeOK ChainsSound NoLostClusters ContentsKept ReadsRight MirrorAgrees FullMeansFull SyncSucceeds
