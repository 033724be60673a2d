--------------------------- MODULE MCTokenStore ---------------------------
(* A small instance of TokenStore for TLC. *)
EXTENDS TokenStore, TLC

\* Ids are interchangeable: generateToken draws them and nothing orders them.
Symmetry == Permutations(Code) \cup Permutations(Token) \cup Permutations(Proc)
=============================================================================
