SPECIFICATION Spec
CONSTANTS
  p = p
  q = q
  b = b
  n = n
  Peers = {p, q}
  Topics = {b, n}
  BulkTopics = {b}
  Tasks = {"flush", "digest"}
  Threshold = 2
INVARIANTS DepthReturned
CHECK_DEADLOCK FALSE
