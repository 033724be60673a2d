SPECIFICATION MCSpec
CONSTANTS
  Group = {g1, g2, g3}
  Chief = u1
  Applicant = u2
  User = {u1, u2}
  Operator = {u1}
  Role = {"admin", "billing"}
  Application = {a1, a2, a3}
  Service = {s1}
  Facility = {f1}
  Duty = {d1}
  Proc = {p1, p2}
  None = None
  Gone = Gone
SYMMETRY Symmetry
INVARIANTS DirectoryTypeOK TreeAcyclic GrantsFollowTree RoleOutcome PendingBounded
CHECK_DEADLOCK FALSE
