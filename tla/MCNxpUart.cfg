SPECIFICATION Spec
CONSTANTS
  NXP_UART_FIFO_DEPTH = 2
  Byte <- OneByte
  BE = 1024
  ModemOutput <- OneModemLine
  Mask <- TwoMasks
  MaxCount = 3
INVARIANTS
  FlagsTellFifo
  NoLostInterrupt
PROPERTIES
  ImplementsQueue
  RxPending
