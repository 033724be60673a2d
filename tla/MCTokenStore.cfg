SPECIFICATION Spec
CONSTANTS
  User = {u1}
  App = {a1}
  PublicApp = {a1}
  Offline = Offline
  Scopes = {{Openid}, {Openid, Offline}}
  Code = {c1}
  Token = {t1, t2, t3}
  Proc = {p1, p2}
  CodeTTL = 1
  AccessTTL = 1
  MaxTime = 1
  None = None
SYMMETRY Symmetry
INVARIANTS TypeOK SingleSuccessor OneSessionPerFamily RevocationFinal GrantPreserved PublicClientUsedPkce
PROPERTY ImplementsLedger
