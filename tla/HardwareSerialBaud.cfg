SPECIFICATION Spec
CONSTANTS
  RX_BUFFER_SIZE = 2
  Byte = {0}
  Bauds = {300, 1200, 2400, 4800, 9600, 14400, 19200, 28800, 38400, 57600, 115200}
  F_CPU = 16000000
INVARIANT BaudAccurate
