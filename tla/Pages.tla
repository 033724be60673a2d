-------------------------------- MODULE Pages --------------------------------
(***************************************************************************)
(* What people see and may enter: the gate that every page and every token  *)
(* passes, beside the operator's and the delegates' page.  The three share  *)
(* no variable and take their steps independently, so together they do what *)
(* each does alone.                                                         *)
(***************************************************************************)
EXTENDS Gate, Console, Portal

PagesSpec == GateSpec /\ ConsoleSpec /\ PortalSpec

\* Rows, requests, dialogs and copies keep their types.
PagesTypeOK == GateTypeOK /\ ConsoleTypeOK /\ PortalTypeOK
=============================================================================
