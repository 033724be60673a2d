SPECIFICATION ProviderSpec
CONSTANTS
  User = {u1}
  App = {a1}
  PublicApp = {a1}
  Offline = Offline
  Scopes = {{Openid, Offline}}
  Code = {c1}
  Token = {t1, t2}
  Proc = {p1}
  Session = {s1}
  Web = {w1}
  CodeTTL = 1
  AccessTTL = 1
  SsoTTL = 1
  MaxTime = 0
  None = None
SYMMETRY Symmetry
INVARIANT RevocationEndsTokens
