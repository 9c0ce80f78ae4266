CONSTANTS
  a = a
  b = b
  NoAddr = NoAddr
  Addr <- MCAddr
  Bodies <- BootBodies
  MaxHeight = 3
  MaxReorgs = 1
  MaxIndex = 3
  Start = 2
  Confirmations = 0
  BatchSize = 1
  MaxCrashes = 1
SPECIFICATION FairSpec
INVARIANTS IInv
PROPERTIES EventuallyIndexed ReadyAgain ReorgHalts
