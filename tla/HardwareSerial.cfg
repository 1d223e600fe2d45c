SPECIFICATION Spec
CONSTANTS
  RX_BUFFER_SIZE = 3
  Byte = {0, 1}
  Bauds = {1200, 2400, 4800, 9600, 14400, 19200, 28800, 38400, 57600, 115200}
  F_CPU = 16000000
INVARIANTS TypeOK PromiseKept BaudAccurate
PROPERTY ImplementsPort
