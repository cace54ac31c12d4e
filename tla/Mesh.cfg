SPECIFICATION MCSpec
CONSTANTS
  A = A
  B = B
  I = I
  J = J
  P = P
  X = X
  Y = Y
  Z = Z
  Nodes = {A, B}
  Links <- LineLinks
  Ids = {I, J}
  Payloads = {P}
  Origin <- LineOrigin
  Payload <- LinePayload
  Verdicts <- LineVerdicts
  Cold = {}
  Faults = {"frame", "cache"}
  MaxFrames = 1
INVARIANTS PlumtreeInvariant MeshSound
PROPERTIES DeliveryPathKept
SYMMETRY Symmetry
CHECK_DEADLOCK FALSE
