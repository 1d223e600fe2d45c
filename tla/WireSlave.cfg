SPECIFICATION Spec
CONSTANTS
  Node = {1, 2}
  Slave = {2}
  Device = {3}
  SlowCallback = FALSE
  Noise = FALSE
  TWI_BUFFER_LENGTH <- OneByte
  Master = {1, 2}
  Target <- LowTarget
  Quantity = {1}
  Replies = {1}
INVARIANTS NoStuckSlave NoLostStart
