SPECIFICATION MCLiveSpec
CONSTANTS
  A = A
  B = B
  D = D
  E = E
  G = G
  H = H
  K = K
  P = P
  Q = Q
  S = S
  X = X
  Y = Y
  Z = Z
  Committers = {c1}
  Users = {u1}
  Rounds = 2
INVARIANTS LockInvariant
PROPERTIES Ends Settles
CHECK_DEADLOCK FALSE
