SPECIFICATION Spec
CONSTANTS
  A = A
  B = B
  K = K
  P = P
  Q = Q
  R = R
  S = S
  T = T
  V = V
  W = W
  X = X
  Y = Y
  Z = Z
INVARIANTS Types  FrameProvenance  ArrivesAsSigned  
PROPERTIES LegacyOnlyWhileGranted  
CHECK_DEADLOCK FALSE
