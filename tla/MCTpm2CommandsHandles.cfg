SPECIFICATION Spec
CONSTANTS
  TPM2_NVSTORAGE_SIZE = 6
  TPM2_MAX_NV_INDEXES = 2
  MAX_NV_BUFFER_SIZE = 3
  BufSize = 16
  RANDOM_SIZE = 1
  PRIMARY_BODY = 4
  AES_BLOCK = 1
  HandleSpace = 128
  TEST_INDEX = i1
  TEST_SIZE = 3
  Byte = {"a", "b"}
  Garbled = "?"
  NvIndex = {i1}
  Attributes <- MCAttributes
  DataSize = {1}
  Offset = {0, 1}
  Buffer = {}
  Handle = {"TPM_RH_OWNER", "TPM_RH_PLATFORM", "TPM_RH_NULL"}
INVARIANT TransientRange
