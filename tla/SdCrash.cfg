SPECIFICATION Spec
CONSTANTS
  a = a
  b = b
  Name <- Names
  Slots = 2
  clusterCount = 3
  blocksPerCluster = 1
  BlockLen = 2
  EntriesPerBlock = 3
  fatCount = 2
  Modes <- CrashModes
  Amounts = {1, 2}
  Seeks = {}
  Lengths = {}
  Removes = FALSE
  Retries = FALSE
  MaxFaults = 1
  MaxAccesses = 12
  MaxCrashes = 1
SYMMETRY Symmetry
INVARIANTS Durable ChainsSound
