SPECIFICATION Spec
CONSTANTS
  BufSize = 16
  Word <- MCWord
  ZeroWord <- MCZeroWord
  Response <- MCResponse
INVARIANTS ResponseInBuffer StableStates
PROPERTY ImplementsFifo
