SPECIFICATION SceneSpec
CONSTANTS
  User = {u1}
  App = {a1}
  PublicApp = {a1}
  Offline = Offline
  Scopes = {{Openid}, {Openid, Offline}}
  Code = {c1}
  Token = {t1, t2}
  Proc = {p1}
  Session = {s1, s2}
  Web = {w1, w2}
  CodeTTL = 1
  AccessTTL = 1
  SsoTTL = 2
  MaxTime = 2
  None = None
SYMMETRY Symmetry
INVARIANTS ProviderTypeOK ScopeApproved AuthTimeGenuine
