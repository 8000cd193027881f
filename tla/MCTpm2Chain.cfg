SPECIFICATION ChainSpec
CONSTANTS
  TPM2_NVSTORAGE_SIZE = 6
  TPM2_MAX_NV_INDEXES = 2
  MAX_NV_BUFFER_SIZE = 3
  BufSize = 14
  RANDOM_SIZE = 1
  PRIMARY_BODY = 3
  AES_BLOCK = 1
  HandleSpace = 2
  TEST_INDEX = i1
  TEST_SIZE = 3
  Byte = {"a", "b"}
  Garbled = "?"
  i2 = i2
  i3 = i3
  NvIndex <- MCNvIndex
  Attributes <- MCAttributes
  DataSize = {1, 3}
  Offset = {0, 1}
  Buffer <- MCBuffer
  Handle = {"TPM_RH_OWNER", "TPM_RH_PLATFORM", "TPM_RH_NULL"}
  Command <- MCCommand
INVARIANTS NvLayout ReadBack WrittenMirror ResponseFits SuccessMeansComplete
PROPERTIES NvPermanent RefusedHasNoEffect
SYMMETRY Symmetry
VIEW View
