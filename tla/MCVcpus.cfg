SPECIFICATION VSpec
CONSTANTS
  CPU = {c1}
  c1 = c1
  c2 = c2
  NoCpu = NoCpu
  Main = Main
  MaxNest = 1
  MaxWork = 2
  Queuing <- BoardQueued
  Resetting <- Everyone
  Halting = {c1}
  Stepping = {c1}
PROPERTIES ResetHappens GuestResumes RunReturns InterruptWakes
