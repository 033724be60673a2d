SPECIFICATION Spec
CONSTANTS
  Kid = {k1, k2, k3, k4}
  Kek = {e1}
  Isolate = {i1, i2}
  Proc = {p1, p2}
  Rotation = 1
  Retention = 4
  CacheTTL = 1
  TokenTTL = 1
  Latency = 1
  OldRows = {}
  ManualRotation = FALSE
  MaxTime = 6
  None = None
SYMMETRY Symmetry
INVARIANT IssuedTokensVerify
