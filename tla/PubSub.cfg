SPECIFICATION Spec
CONSTANTS
  k1 = k1
  k2 = k2
  k3 = k3
  k4 = k4
  P = P
  R = R
  S = S
  W = W
  X = X
  Y = Y
INVARIANTS Types OrdinaryNotStarved CountsExact PermitsOwned CeilingInForce CoolingShown
PROPERTIES NothingInvented OnePathEach LiftedByItsProbe
SYMMETRY Symmetry
