SPECIFICATION MCSpec
CONSTANTS
  User = {u1}
  Email = {e1}
  Password = {w1, w2}
  Secret = {x1, x2}
  Session = {s1, s2}
  Reset = {r1}
  Invite = {i1}
  Proc = {p1, p2}
  SsoTTL = 2
  PreTTL = 1
  MailTTL = 1
  Latency = 1
  MaxTime = 4
  ShortTime = 2
  None = None
  Key = {k1}
  Limit = 2
  Window = 3
  MaxAttempts = 4
  MaxClock = 8
  NoRow = NoRow
SYMMETRY Symmetry
INVARIANTS AccountsTypeOK ResetOnce SettingsKept StaleAccessBounded FactorAsked AttemptsSpread RefusalEarned
CHECK_DEADLOCK FALSE
