SPECIFICATION MCSpec
CONSTANTS
  A = A
  B = B
  E = E
  Replicas = {r1, r2}
  MaxSets = 2
  Hashes <- LinearHashes
INVARIANTS LwwInvariant SyncInvariant
CHECK_DEADLOCK FALSE
