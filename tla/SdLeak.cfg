SPECIFICATION Spec
CONSTANTS
  a = a
  b = b
  Name <- Names
  Slots = 2
  clusterCount = 3
  blocksPerCluster = 1
  BlockLen = 2
  EntriesPerBlock = 3
  fatCount = 2
  Modes <- SDMode
  Amounts = {1, 3}
  Seeks = {}
  Lengths = {}
  Removes = TRUE
  Retries = FALSE
  MaxFaults = 0
  MaxAccesses = 0
  MaxCrashes = 0
SYMMETRY Symmetry
INVARIANT NoLostClusters
