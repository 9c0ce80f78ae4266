CONSTANTS
  a = a
  b = b
  NoAddr = NoAddr
  Addr <- MCAddr
  Bodies <- CtcBodies
  MaxHeight = 2
  MaxReorgs = 1
  MaxIndex = 3
  Start = 0
  Confirmations = 0
  BatchSize = 1
  MaxCrashes = 0
SPECIFICATION Spec
INVARIANTS ReadyHasCtc
