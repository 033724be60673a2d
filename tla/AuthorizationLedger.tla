------------------------ MODULE AuthorizationLedger ------------------------
(***************************************************************************)
(* What an authorization server promises about each authorization a user   *)
(* has given, whatever tables and requests are behind it: the authorization *)
(* is a single thing that is offered once, as a code, and then changes     *)
(* hands.  While it moves nobody holds it; it arrives with one holder; and *)
(* once it is void it stays void.                                          *)
(***************************************************************************)
CONSTANT Authz           \* the authorizations

VARIABLE status          \* where each one is

Status == {"none", "offered", "moving", "held", "void"}

TypeOK == status \in [Authz -> Status]

Init == status = [f \in Authz |-> "none"]

\* The user approves and a code goes out.
Offer(f) ==
  /\ status[f] = "none"
  /\ status' = [status EXCEPT ![f] = "offered"]

\* The code, or the holder's refresh token, is taken in exchange for a session.
Move(f) ==
  /\ status[f] \in {"offered", "held"}
  /\ status' = [status EXCEPT ![f] = "moving"]

\* The new session is handed over.
Hold(f) ==
  /\ status[f] = "moving"
  /\ status' = [status EXCEPT ![f] = "held"]

\* An exchange fails, or one deletion ends any number of authorizations.
Void(F) ==
  /\ \A f \in F : status[f] # "none"
  /\ status' = [f \in Authz |-> IF f \in F THEN "void" ELSE status[f]]

Next ==
  \/ \E f \in Authz : Offer(f) \/ Move(f) \/ Hold(f)
  \/ \E F \in SUBSET Authz : Void(F)

Spec == Init /\ [][Next]_status
=============================================================================
