SPECIFICATION Spec
CONSTANTS
  NXP_UART_FIFO_DEPTH = 2
  Byte <- OneByte
  BE = 1024
  ModemOutput <- NoModem
  Mask <- ReceiveMask
  MaxCount = 3
INVARIANTS
  SaneForMigration
