SPECIFICATION MCSpec
CONSTANTS
  A = A
  B = B
  I = I
  M = M
  P = P
  Q = Q
  R = R
  X = X
  Y = Y
  Z = Z
  Peers = {P}
  Msgs = {M}
  Tasks = {X, Y}
  Ids = {1, 2}
  MaxCustody = 2
INVARIANTS ReplyInvariant 
PROPERTIES ClaimsKept
SYMMETRY Symmetry
CHECK_DEADLOCK FALSE
