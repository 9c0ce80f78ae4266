CONSTANTS
  Workers = {"deposit", "blob"}
  Requests = {r1}
  Kinds = {"context"}
  None = None
SPECIFICATION Spec
INVARIANTS RequestsDrained
