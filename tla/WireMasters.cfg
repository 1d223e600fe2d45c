SPECIFICATION Spec
CONSTANTS
  Node = {1, 2, 3}
  Slave = {3}
  Device = {}
  SlowCallback = FALSE
  Noise = FALSE
  TWI_BUFFER_LENGTH <- OneByte
  Master = {1, 2}
  Target <- TwoMasters
  Quantity = {1}
  Replies = {1}
INVARIANTS SuccessMeansSent NoStuckSlave NoLostStart
PROPERTY MessageWhole
