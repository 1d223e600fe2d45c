CONSTANTS
  TOP = 4
  TICK_US = 2
  MS = 5
  FR = 1
  LONG = 24
  WORD = 12
  BYTES = 4
  MaxLate = 2
  MaxGap = 2
  Delays = {2}
  Pins = {4, 5}
  Tones <- SomeTones
  F_CPU = 16000000
  COUNT_MOD = 32
  COUNT_LOW = 4
  PRODUCT_MOD = 16000
  Retrigger = FALSE
  NSERVOS = 2
  REFRESH_INTERVAL = 3000
  ServoPins = {9, 10}
  Limits <- SomeLimits
  Angles = {0, 179}
  Widths = {600, 2400}
  Quanta = {0, 3000}
  Lates = {0, 2}
  MaxCalls = 3
  BUFFER_SIZE = 2
  BUFFER_NEARLY_FULL = 1
  COUNTS = 4
  Byte = {0, 1}
SPECIFICATION BoardSpec
INVARIANT MatchNotMissed
