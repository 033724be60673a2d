SPECIFICATION SceneSpec
CONSTANTS
  Kid = {k1, k2, k3}
  Kek = {e1, e2}
  Isolate = {i1, i2}
  Proc = {p1, p2}
  Rotation = 1
  Retention = 4
  CacheTTL = 1
  TokenTTL = 1
  Latency = 1
  OldRows = {"unknown", "v2"}
  ManualRotation = TRUE
  MaxTime = 6
  ShortTime = 2
  None = None
SYMMETRY Symmetry
INVARIANTS TypeOK SignerCurrent
PROPERTY LiveKeysKept
