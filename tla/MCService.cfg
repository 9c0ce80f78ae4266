CONSTANTS
  Workers = {"deposit", "blob"}
  Requests = {r1}
  Kinds = {"readyz", "syncing", "store", "context"}
  None = None
SPECIFICATION FairSpec
INVARIANTS TypeOK SnapshotReads HaltedRoutes
PROPERTIES CommitBarrier RequestsAnswered HaltEndsWorkers ShutdownEnds
