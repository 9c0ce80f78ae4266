CONSTANTS
  Bodies <- LiveBodies
  FramesOf <- MCFramesOf
  EndOf <- MCEndOf
  Payload <- MCPayload
  MaxHeight = 3
  MaxReorgs = 1
  MaxU64 = 10
  SkipFrom = 0
  Start = 2
  Confirmations = 0
  BatchSize = 2
  Retention = 1
  MaxQueued = 0
  MaxCrashes = 1
SPECIFICATION FairSpec
PROPERTIES CleanupDespiteBeacon BlobCaughtUp
