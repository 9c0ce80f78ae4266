CONSTANTS
  Bodies <- MCBodies
  FramesOf <- MCFramesOf
  EndOf <- MCEndOf
  Payload <- DupPayload
  MaxHeight = 4
  MaxReorgs = 0
  MaxU64 = 10
  SkipFrom = 0
  Start = 1
  Confirmations = 0
  BatchSize = 2
  Retention = 1
  MaxQueued = 0
  MaxCrashes = 0
SPECIFICATION Spec
INVARIANTS RetentionNeverRefused
