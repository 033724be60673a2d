SPECIFICATION MCSpec
CONSTANTS
  Root = g1
  Child = g2
  Group = {g1, g2}
  User = {u1}
  Operator = {u1}
  Role = {"admin", "billing", "developer"}
  Application = {}
  Service = {s1}
  Facility = {}
  Duty = {}
  Proc = {p1, p2}
  App = {a1}
  Content = {v1, v2}
  Tag = {t1}
  Clerk = {q1, q2}
  Foreign = Foreign
  None = None
  Gone = Gone
INVARIANTS CatalogTypeOK ReviewedComposition ActiveContentVetted ContractMeansActive
PROPERTY ApprovalEnds
CHECK_DEADLOCK FALSE
