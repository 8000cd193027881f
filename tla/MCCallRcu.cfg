SPECIFICATION CallSpec
CONSTANTS
  v1 = v1
  r1 = r1
  w1 = w1
  Reader = {v1, r1}
  Vcpu = {v1}
  Writer = {Main, w1}
  Cast <- Casts
  Object = {1, 2, 3}
  None = None
  UnsignedSpace = 16
  Main = Main
  Worker = Worker
  Drain = {d1}
  Dummy = Dummy
INVARIANTS NoUseAfterFree
PROPERTIES ImplementsRcu EveryObjectReclaimed DrainReturns
