CONSTANTS
  a = a
  b = b
  NoAddr = NoAddr
  Addr <- MCAddr
  Bodies <- ScanBodies
  MaxHeight = 3
  MaxReorgs = 1
  MaxIndex = 3
  Start = 0
  Confirmations = 1
  BatchSize = 2
  MaxCrashes = 1
SPECIFICATION Spec
INVARIANTS TypeOK CommittedFaithful Contiguous ReadyIsHonest
PROPERTIES NoCommitAfterFatal FollowsOneChain StableDeposits
