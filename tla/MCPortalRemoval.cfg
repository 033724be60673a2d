SPECIFICATION MCSpec
CONSTANTS
  User = {u1}
  Asker = {u1}
  Group = {g1}
  App = {a1}
  Service = {s1}
  Check = {k1}
  Desk = {d1}
  None = None
  Entity = {e1}
  Item = {x1}
  Slot = {l1}
  Nobody = Nobody
  Place = {p1, p2}
  Thing = {t1}
  Call = {c1, c2}
  Nothing = Nothing
SYMMETRY Symmetry
INVARIANT RemovedMemberLeaves
