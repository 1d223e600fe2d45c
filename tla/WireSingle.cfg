SPECIFICATION FairSpec
CONSTANTS
  Node = {1, 2}
  Slave = {2}
  Device = {}
  SlowCallback = FALSE
  Noise = TRUE
  TWI_BUFFER_LENGTH <- LongAndPair
  Master = {1}
  Target <- OneMaster
  Quantity = {1, 2}
  Replies = {2, 3}
INVARIANTS TypeOK SuccessMeansSent FailureMeansNotSent
PROPERTIES CallsReturn ReadsReply
