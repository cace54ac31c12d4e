SPECIFICATION MCSpec
CONSTANTS
  A = A
  B = B
  D = D
  E = E
  Peers = {p1, p2, p3}
  Self = self
  Calls = {c1}
  ActiveDegree = 1
  MaxActive = 2
  MaxPassive = 1
  PassiveScale = 1
  Adaptive = TRUE
  PassiveWalk = 1
INVARIANTS ViewsInvariant BudgetKept 
PROPERTIES NothingForgotten MaintenanceSettles WaitsKept
SYMMETRY Symmetry
CHECK_DEADLOCK FALSE
