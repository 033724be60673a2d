--------------------------- MODULE MCKeysetScenes ---------------------------
(***************************************************************************)
(* Keyset for TLC, one scene per behaviour, never mixed:                    *)
(*   rotation  the row starts absent, all isolates have the same secret and *)
(*             keep it, and the clock runs long enough to rotate and prune  *)
(*   operator  rows of older formats, the row deleted by hand, the secret   *)
(*             replaced isolate by isolate                                  *)
(***************************************************************************)
EXTENDS MCKeyset

CONSTANTS ShortTime   \* bound on the clock of the operator scene

VARIABLE scene

SceneInit ==
  /\ Init
  /\ \/ scene = "rotation" /\ stored = Absent /\ \A i, j \in Isolate : secret[i] = secret[j]
     \/ scene = "operator"

SceneNext ==
  /\ Next
  /\ \/ scene = "rotation" /\ UNCHANGED secret /\ (stored' = Absent => stored = Absent)
     \/ scene = "operator" /\ now' <= ShortTime
  /\ UNCHANGED scene

SceneSpec == SceneInit /\ [][SceneNext]_<<vars, scene>>
=============================================================================
