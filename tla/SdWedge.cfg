SPECIFICATION Spec
CONSTANTS
  a = a
  b = b
  Name <- Names
  Slots = 2
  clusterCount = 3
  blocksPerCluster = 1
  BlockLen = 2
  EntriesPerBlock = 3
  fatCount = 2
  Modes <- PlainMode
  Amounts = {1, 2}
  Seeks = {0, 1, 2}
  Lengths = {}
  Removes = FALSE
  Retries = FALSE
  MaxFaults = 0
  MaxAccesses = 0
  MaxCrashes = 0
SYMMETRY Symmetry
INVARIANT SyncSucceeds
