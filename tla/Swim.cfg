SPECIFICATION LiveSpec
CONSTANTS
  Peers = {p1}
  Requesters = {q1}
  Handlers = {h1}
  AckTimeout = 1
  SuspectTimeout = 1
  ProbeFanout = 2
  IndirectFanout = 2
  InterfaceCalls = TRUE
  MaxAcks = 1
INVARIANTS SwimInvariant
PROPERTIES CrashDetected
