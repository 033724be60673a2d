------------------------------ MODULE MCKeyset ------------------------------
(* Instances of Keyset for TLC: ids and isolates are interchangeable.        *)
EXTENDS Keyset, TLC

Symmetry == Permutations(Kid) \cup Permutations(Isolate)
              \cup Permutations(Proc) \cup Permutations(Kek)
=============================================================================
