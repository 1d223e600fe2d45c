SPECIFICATION Spec
CONSTANTS
  Node = {1, 2}
  Slave = {1, 2}
  Device = {}
  SlowCallback = FALSE
  Noise = FALSE
  TWI_BUFFER_LENGTH <- OneByte
  Master = {1, 2}
  Target <- EachOther
  Quantity = {1}
  Replies = {1}
INVARIANT SuccessMeansSent
