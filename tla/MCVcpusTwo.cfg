SPECIFICATION VSpec
CONSTANTS
  CPU = {c1, c2}
  c1 = c1
  c2 = c2
  NoCpu = NoCpu
  Main = Main
  MaxNest = 2
  MaxWork = 1
  Queuing <- AcrossQueued
  Resetting = {Main}
  Halting = {}
  Stepping = {c1}
INVARIANTS Exclusion NothingLeft ResetAlone KickNotLost BqlHeld
PROPERTIES BqlReleased SomeoneEnters
