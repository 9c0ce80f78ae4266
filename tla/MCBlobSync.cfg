CONSTANTS
  Bodies <- MCBodies
  FramesOf <- MCFramesOf
  EndOf <- MCEndOf
  Payload <- MCPayload
  MaxHeight = 3
  MaxReorgs = 1
  MaxU64 = 10
  SkipFrom = 0
  Start = 1
  Confirmations = 0
  BatchSize = 2
  Retention = 1
  MaxQueued = 2
  MaxCrashes = 1
SPECIFICATION Spec
INVARIANTS TypeOK ReadsSucceed RetainedFaithful RetentionNeverRefused
PROPERTIES BlobReadyIsHonest StableAnswers KeepsWindow
