CONSTANTS
  b1 = b1
  b2 = b2
  NoBlob = NoBlob
  NoId = NoId
  Foreign = Foreign
  Chains = {1, 2}
  Configs <- MCConfigs
SPECIFICATION Spec
INVARIANTS OneOwner OwnerNeverRefused
