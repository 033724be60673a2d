-------------------------- MODULE MCOidcProvider --------------------------
(* Small instances of OidcProvider for TLC. *)
EXTENDS OidcProvider, TLC

\* Ids are interchangeable, and so are concurrent requests.
Symmetry == Permutations(Session) \cup Permutations(Web)
              \cup Permutations(Token) \cup Permutations(Code)
=============================================================================
