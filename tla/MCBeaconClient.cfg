CONSTANTS
  None = None
  b1 = b1
  b2 = b2
  Blobs <- MCBlobs
  FramesOf <- MCFramesOf
  HashLists <- MCHashLists
  Headers <- MCHeaders
  Slots = {0, 1, 2}
  Genesis = 2
  Seconds = 2
  Modulus = 8
SPECIFICATION Spec
INVARIANTS SlotFaithful
PROPERTIES SkipsOnlyMissing
