SPECIFICATION FirmwareSpec
CONSTANTS
  TPM2_NVSTORAGE_SIZE = 96
  TPM2_MAX_NV_INDEXES = 16
  MAX_NV_BUFFER_SIZE = 1024
  BufSize = 1024
  RANDOM_SIZE = 32
  PRIMARY_BODY = 140
  AES_BLOCK = 16
  HandleSpace = 6
  TEST_INDEX = 22020118
  TEST_SIZE = 32
  Byte = {"T", "E", "S", "A", "%"}
  Garbled = "?"
  NvIndex = {22020118, 16777217, 16777218}
  Attributes <- MCAttributes
  DataSize = {4, 32, 1024, 65535}
  Offset = {0}
  Buffer <- MCBuffer
  Handle = {"TPM_RH_OWNER", "TPM_RH_PLATFORM"}
  Command <- MCCommand
  Option <- MCOption
  Menu <- MCMenu
  OtherKey = "x"
  RESPONSE_BUFFER = 1024
INVARIANTS CommandArrives AnswerWhole TestReadsBack NegativeTestsRefused
PROPERTY BackToMenu
