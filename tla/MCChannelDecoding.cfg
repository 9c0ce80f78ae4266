CONSTANTS
  Frames <- MCFrames
  Time <- MCTime
  MaxBytes = 5
  MaxInput = 4
  None = None
  MaxU64 = 7
  MaxElements = 3
  MaxTxs = 2
  Transactions <- MCTransactions
  Spans <- MCSpans
  Commitments <- MCCommitments
  MaxSpans = 2
SPECIFICATION Spec
INVARIANTS KeepsByContent AssembledWhole ProperAccepted RoundTrip InsideCommitment
