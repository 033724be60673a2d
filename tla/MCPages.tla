------------------------------- MODULE MCPages -------------------------------
(***************************************************************************)
(* Small instances, for TLC, of the three modules about what people see and *)
(* may enter.  They share no state, and a run explores one scene at a time: *)
(*   gate    checks of one user's permission while single rows change       *)
(*   desk    the operator's loops over users and apps, with time passing    *)
(*   dialog  the operator's dialogs (Console)                               *)
(*   portal  the delegates' page (Portal)                                   *)
(***************************************************************************)
EXTENDS Pages, TLC

CONSTANTS Asker   \* bound: the users whose rows change in the gate scene

VARIABLE scene

vars == <<gateVars, consoleVars, portalVars, scene>>

Symmetry ==
  Permutations(Entity) \cup Permutations(Slot) \cup Permutations(Place) \cup Permutations(Call)

\* A scene that is not played holds one state.
ConsoleAtRest == ConsoleInit /\ panel = "perms" /\ table = {}
PortalAtRest == PortalInit /\ board = "members" /\ held = {} /\ place = CHOOSE g \in Place : TRUE
GateEmpty ==
  /\ home = [u \in User |-> None]
  /\ direct = [u \in User |-> [a \in App |-> None]]
  /\ shared = [g \in Group |-> [a \in App |-> None]]
  /\ seats = {} /\ placed = {} /\ within = {} /\ granted = {}
  /\ phase = [s \in Service |-> "active"] /\ owner = [s \in Service |-> None]
  /\ parts = Service \X App
  /\ check = [k \in Check |-> Resting] /\ desk = [d \in Desk |-> AtRest]

\* In the desk scene the service path of a user is drawn once: none, or one
\* through a grant, shown by the entitlements or not.
GateDrawn ==
  /\ status \in [App -> {None, "active"}]
  /\ home = [u \in User |-> None]
  /\ direct = [u \in User |-> [a \in App |-> None]]
  /\ shared = [g \in Group |-> [a \in App |-> None]]
  /\ seats = Asker \X Group \X Service /\ placed \in {{}, seats}
  /\ within = Asker \X Group /\ owner = [s \in Service |-> None]
  /\ \/ granted = {} /\ phase = [s \in Service |-> "active"]
     \/ granted = Group \X Service /\ phase \in [Service -> {None, "closed"}]
  /\ parts = Service \X App
  /\ check = [k \in Check |-> Resting] /\ desk = [d \in Desk |-> AtRest]

MCInit ==
  \/ /\ scene = "gate" /\ GateEmpty /\ status \in [App -> {None, "active"}]
     /\ ConsoleAtRest /\ PortalAtRest
  \/ scene = "desk" /\ GateDrawn /\ ConsoleAtRest /\ PortalAtRest
  \/ scene = "dialog" /\ GateEmpty /\ status = [a \in App |-> None] /\ ConsoleInit /\ PortalAtRest
  \/ scene = "portal" /\ GateEmpty /\ status = [a \in App |-> None] /\ ConsoleAtRest /\ PortalInit

GateScene ==
  \/ \E k \in Check : Checks(k, Asker)
  \/ \E d \in Desk : \/ \E u \in Asker, a \in App : StartGrant(d, u, {a}, "valid")
                     \/ \E g \in Group, a \in App : StartGroupGrant(d, g, {a}, "valid")
                     \/ RegroupNext(d) \/ GrantNext(d)
  \/ SingleRows(Asker) \/ Services
  \/ ChangePath /\ within' \subseteq Asker \X Group /\ seats' \subseteq Asker \X Group \X Service

DeskScene ==
  \/ \E d \in Desk : Errands(d)
  \/ SingleRows(Asker) \/ TimePassesBy

MCNext ==
  /\ \/ scene = "gate" /\ GateScene /\ UNCHANGED <<consoleVars, portalVars>>
     \/ scene = "desk" /\ DeskScene /\ UNCHANGED <<consoleVars, portalVars>>
     \/ scene = "dialog" /\ ConsoleStep /\ UNCHANGED <<gateVars, portalVars>>
     \/ scene = "portal" /\ PortalStep /\ UNCHANGED <<gateVars, consoleVars>>
  /\ UNCHANGED scene

MCSpec == MCInit /\ [][MCNext]_vars
=============================================================================
