SPECIFICATION ConsoleSpec
CONSTANTS
  NXP_UART_FIFO_DEPTH = 2
  Byte <- Keys
  BE = 1024
  ModemOutput <- NoModem
  Mask <- NoMask
  MaxCount = 6
  MUX_BUFFER_SIZE = 2
INVARIANTS
  KeysConserved
PROPERTIES
  KeysReachFirmware
  StallEnds
