CONSTANTS
  NoAddr = NoAddr
  mgr1 = mgr1
  mgr2 = mgr2
  snd1 = snd1
  snd2 = snd2
  Bodies <- MCBodies
  MaxHeight = 4
  MaxReorgs = 1
  Start = 3
  Confirmations = 0
  BatchSize = 2
  InboxSender = snd1
  BlobSender = snd1
  MaxCrashes = 1
SPECIFICATION FairSpec
INVARIANTS TypeOK AuthFaithful NoFalseAlarm
PROPERTIES AuthCaughtUp
