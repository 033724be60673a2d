SPECIFICATION MCSpec
CONSTANTS
  User = {u1, u2, u3}
  Group = {g1, g2, g3, g4}
  Facility = {f1}
  Contract = {k1}
  AssignProc = {p1, p2}
  GrantProc = {q1, q2}
  Owner = g4
  Customers = {g1}
  Movable = {g4}
  Limits = {0, 1, 2, Unlimited}
  Guest = u1
  Regular = u2
  CrowdLimits = {1, Unlimited}
  PlaceLimits = {1}
  GrantLimits = {1, 2}
  Unlimited = Unlimited
  None = None
SYMMETRY Symmetry
INVARIANTS TypeOK SeatsBounded DuplicatesBounded SubGrantsBounded
