------------------------------- MODULE Console -------------------------------
(***************************************************************************)
(* The operator's dialogs: client/users.ts, groups.ts and accountGroups.ts. *)
(* A dialog is opened for a user or a group, fetches the rows of a panel,   *)
(* renders the answer whenever and for whomever it arrives, and sends       *)
(* changes to the entity it is open for or to the rows it renders.          *)
(*                                                                         *)
(* The panels of a page are loaded and changed by requests of their own (the *)
(* two of the user dialog by one load), so the model follows one at a time: *)
(*   users.ts          perms, seats      permissions and assignments        *)
(*   groups.ts         shares            permissions of a group             *)
(*   accountGroups.ts  members, sites, grants                               *)
(* A row is an entity and what it holds: an app, a service, a user, ...     *)
(***************************************************************************)
EXTENDS FiniteSets

CONSTANTS
  Entity,   \* users or groups
  Item,     \* what the rows of a panel are about
  Slot,     \* requests of the page that may be under way
  Nobody    \* no entity, no row

ASSUME NobodyOK == Nobody \notin Entity /\ Nobody \notin [row : Entity \X Item, calm : BOOLEAN]

Panel == {"perms", "seats", "shares", "members", "sites", "grants"}

\* grantPermission and grantGroupPermission ask before they overwrite;
\* the other panels upsert or insert at once.
Asking == {"perms", "shares"}
\* Removals asked for in a dialog of their own, which stays open until the answer;
\* those of seats and grants go through showConfirm, which closes first.
HeldOpen == {"perms", "shares", "members", "sites"}

Row == Entity \X Item

VARIABLES
  panel,      \* the panel followed
  current,    \* currentUserId, currentGroupId
  table,      \* the rows in the database
  list,       \* what is rendered: whose rows, and which
  target,     \* the row a removal dialog is open for
  question,   \* the grant an overwrite dialog is open for
  wire,       \* requests under way
  disturbed,  \* history: an answer was lost, failed or overtaken, or others wrote
  strayed     \* history: what an act on a settled panel did and did not announce

consoleVars == <<panel, current, table, list, target, question, wire, disturbed, strayed>>

Blank == [owner |-> Nobody, rows |-> {}]
NoAct == [items |-> {}, named |-> {}, calm |-> FALSE]
Silent == [stage |-> "none", verb |-> "load", entity |-> Nobody, home |-> Nobody,
           got |-> {}, ok |-> TRUE, late |-> FALSE, act |-> NoAct]

\* calm: the panel had settled when the operator acted, and nobody has acted since.
Act == [items : SUBSET Item, named : SUBSET Item, calm : BOOLEAN]
\* home is the entity whose group an assignment takes from the select, for a removal
\* the entity that was open.
Message == [stage : {"none", "sent", "back"}, verb : {"load", "put", "drop"},
            entity : Entity \cup {Nobody}, home : Entity \cup {Nobody},
            got : SUBSET Item, ok : BOOLEAN, late : BOOLEAN, act : Act]

ConsoleTypeOK ==
  /\ panel \in Panel /\ current \in Entity \cup {Nobody}
  /\ table \subseteq Row
  /\ list \in [owner : Entity \cup {Nobody}, rows : SUBSET Item]
  /\ target \in [row : Row, calm : BOOLEAN] \cup {Nobody} /\ question \in Act
  /\ wire \in [Slot -> Message]
  /\ disturbed \in BOOLEAN /\ strayed \subseteq {"unasked", "mixed", "foreign"}

Under(s)   == wire[s].stage # "none"
Quiet      == \A s \in Slot : ~Under(s)
Settled    == Quiet /\ ~disturbed
\* No dialog lies over the entity's: a Modal covers the window.
OnTop      == target = Nobody /\ question = NoAct
RowsOf(e)  == {i \in Item : <<e, i>> \in table}
LoadOf(e)  == [Silent EXCEPT !.stage = "sent", !.entity = e]
Loading(s) == \E x \in Slot \ {s} : Under(x) /\ wire[x].verb = "load"
\* An act is calm only while it is the last one.
Send(s, m) == ~Under(s) /\ wire' = [x \in Slot |->
  IF x = s THEN m ELSE [wire[x] EXCEPT !.act.calm = FALSE]]

ConsoleInit ==
  /\ panel \in Panel
  /\ current = Nobody /\ table \in SUBSET Row /\ list = Blank
  /\ target = Nobody /\ question = NoAct
  /\ wire = [s \in Slot |-> Silent]
  /\ disturbed = FALSE /\ strayed = {}

-----------------------------------------------------------------------------
(* Opening and loading                                                     *)

\* A load that is still under way when the next is sent may be overtaken.
Reload(s) == wire' = [x \in Slot |-> IF x = s THEN LoadOf(current')
                        ELSE IF wire[x].verb = "load" THEN [wire[x] EXCEPT !.late = Under(x)]
                        ELSE wire[x]]

Opens(s, e) ==
  /\ OnTop
  /\ ~Under(s)
  /\ current' = e
  /\ Reload(s)
  /\ disturbed' = (disturbed /\ ~Quiet)
  /\ UNCHANGED <<panel, table, list, target, question, strayed>>

OpenUserModal(s, e)  == panel \in {"perms", "seats"} /\ Opens(s, e)
OpenGroupModal(s, e) == panel = "shares" /\ Opens(s, e)
OpenAccountModal(s, e) == panel \in {"members", "sites", "grants"} /\ Opens(s, e)

\* The SELECTs of user-details, group-details, group-members and the like.
ServeLoad(s) ==
  /\ wire[s].stage = "sent" /\ wire[s].verb = "load"
  /\ wire' = [wire EXCEPT ![s].stage = "back", ![s].got = RowsOf(wire[s].entity)]
  /\ UNCHANGED <<panel, current, table, list, target, question, disturbed, strayed>>

ServeUserDetails(s)     == panel \in {"perms", "seats"} /\ ServeLoad(s)
ServeGroupDetails(s)    == panel = "shares" /\ ServeLoad(s)
ServeGroupMembers(s)    == panel = "members" /\ ServeLoad(s)
ServeGroupFacilities(s) == panel = "sites" /\ ServeLoad(s)
ServeGroupGrants(s)     == panel = "grants" /\ ServeLoad(s)

\* The answer is rendered and remembered, whoever the dialog is open for by now.
Render(s) ==
  /\ wire[s].stage = "back" /\ wire[s].verb = "load"
  /\ list' = [owner |-> wire[s].entity, rows |-> wire[s].got]
  /\ wire' = [wire EXCEPT ![s] = Silent]
  /\ disturbed' = (disturbed \/ (wire[s].late /\ ~Loading(s)))
  /\ UNCHANGED <<panel, current, table, target, question, strayed>>

RenderUser(s)    == panel \in {"perms", "seats"} /\ Render(s)
RenderGroup(s)   == panel = "shares" /\ Render(s)
RenderMembers(s) == panel = "members" /\ Render(s)
RenderSites(s)   == panel = "sites" /\ Render(s)
RenderGrants(s)  == panel = "grants" /\ Render(s)

\* No answer, or none that parses: the catch writes to the console, and that is all.
LoseAnswer(s) ==
  /\ Under(s)
  /\ wire' = [wire EXCEPT ![s] = Silent]
  /\ disturbed' = TRUE
  /\ UNCHANGED <<panel, current, table, list, target, question, strayed>>

-----------------------------------------------------------------------------
(* Changes                                                                 *)

Change(verb, e, act) ==
  [Silent EXCEPT !.stage = "sent", !.verb = verb, !.entity = e, !.act = act,
                 !.home = IF verb = "put" THEN list.owner ELSE current]

Posts(s, m) ==
  /\ Send(s, m)
  /\ UNCHANGED <<panel, current, table, list, disturbed, strayed>>

NamedById(items) == {}

\* The rows the overwrite question names: those of the remembered list.
Named(items) == items \cap list.rows

\* The grant buttons: at once when nothing known is overwritten, else ask first.
Grant(s, items) ==
  LET act == [items |-> items, named |-> Named(items), calm |-> Settled] IN
  /\ OnTop
  /\ current # Nobody /\ items # {}
  /\ IF Named(items) = {}
     THEN Posts(s, Change("put", current, act)) /\ UNCHANGED question
     ELSE /\ question' = act
          /\ UNCHANGED <<panel, current, table, list, wire, disturbed, strayed>>
  /\ UNCHANGED target

GrantPermission(s, items)      == panel = "perms" /\ Grant(s, items)
GrantGroupPermission(s, items) == panel = "shares" /\ Grant(s, items)

\* _executeOverwrite and executeGrant: for the entity that is open now.
Overwrite(s) ==
  /\ question # NoAct
  /\ Posts(s, Change("put", current, question))
  /\ question' = NoAct
  /\ UNCHANGED target
CancelOverwrite ==
  /\ question # NoAct /\ question' = NoAct
  /\ UNCHANGED <<panel, current, table, list, target, wire, disturbed, strayed>>

Adds(s, items) ==
  /\ OnTop
  /\ current # Nobody /\ items # {}
  /\ Posts(s, Change("put", current, [items |-> items, named |-> items, calm |-> Settled]))
  /\ UNCHANGED <<target, question>>

\* The group of an assignment comes from the select, which the last answer has set.
AddAssignment(s, i) == panel = "seats" /\ list.owner # Nobody /\ Adds(s, {i})
AddMembers(s, items) == panel = "members" /\ Adds(s, items)
AddFacility(s, i)   == panel = "sites" /\ Adds(s, {i})
MoveFacility(s, i)  == panel = "sites" /\ Adds(s, {i})
AddGrant(s, i)      == panel = "grants" /\ Adds(s, {i})

\* The button of a rendered row: it carries the id of that row.
Aim(i) ==
  /\ OnTop
  /\ i \in list.rows
  /\ target' = [row |-> <<list.owner, i>>, calm |-> Settled]
  /\ UNCHANGED <<panel, current, table, list, question, wire, disturbed, strayed>>

RevokePerm(i)      == panel = "perms" /\ Aim(i)
RevokeGroupPerm(i) == panel = "shares" /\ Aim(i)
RemoveMember(i)    == panel = "members" /\ Aim(i)
RemoveFacility(i)  == panel = "sites" /\ Aim(i)

Unaim ==
  /\ target # Nobody /\ target' = Nobody
  /\ UNCHANGED <<panel, current, table, list, question, wire, disturbed, strayed>>

Drop(s, r, calm) ==
  Posts(s, Change("drop", r[1], [items |-> {r[2]}, named |-> {}, calm |-> calm /\ Settled]))

\* executeRevoke, executeRemove, executeRemoveFac: the dialog stays until the answer.
ExecuteHeld(s) ==
  /\ panel \in HeldOpen /\ target # Nobody
  /\ Drop(s, target.row, target.calm)
  /\ UNCHANGED <<target, question>>

\* showConfirm has closed when its callback sends the id it was given.
RemoveConfirmed(s, i) ==
  /\ OnTop
  /\ i \in list.rows
  /\ Drop(s, <<list.owner, i>>, TRUE)
  /\ UNCHANGED <<target, question>>
RemoveAssignment(s, i) == panel = "seats" /\ RemoveConfirmed(s, i)
RemoveGrant(s, i)      == panel = "grants" /\ RemoveConfirmed(s, i)

\* The server writes the rows; it may still answer with an error.
ServeChange(s) ==
  LET m == wire[s]
      rows == {m.entity} \X m.act.items
  IN
  /\ m.stage = "sent" /\ m.verb # "load"
  /\ table' = IF m.verb = "put" THEN table \cup rows ELSE table \ rows
  /\ \E ok \in BOOLEAN :
       /\ wire' = [wire EXCEPT ![s].stage = "back", ![s].ok = ok]
       /\ disturbed' = (disturbed \/ (~ok /\ table' # table))
  /\ strayed' = strayed \cup (IF ~m.act.calm THEN {} ELSE
       {x \in {"unasked"} : m.verb = "put" /\ ~(RowsOf(m.entity) \cap m.act.items \subseteq m.act.named)}
       \cup {x \in {"mixed"} : m.verb = "put" /\ m.home # m.entity}
       \cup {x \in {"foreign"} : m.verb = "drop" /\ m.home # m.entity})
  /\ UNCHANGED <<panel, current, list, target, question>>

RefuseChange(s) ==
  /\ wire[s].stage = "sent" /\ wire[s].verb # "load"
  /\ wire' = [wire EXCEPT ![s].stage = "back", ![s].ok = FALSE]
  /\ UNCHANGED <<panel, current, table, list, target, question, disturbed, strayed>>

\* The answer to a change: a removal closes the removal dialog, whichever row it is
\* open for; then the rows of the current entity are loaded again.  grantPermission,
\* grantGroupPermission and removeAssignment do not look at the status of the answer.
FinishAnswerOnly(s) ==
  /\ wire[s].stage = "back" /\ wire[s].verb # "load"
  /\ target' = IF wire[s].verb = "drop" /\ wire[s].ok THEN Nobody ELSE target
  /\ wire' = [wire EXCEPT ![s] = Silent]
  /\ UNCHANGED <<panel, current, table, list, question, disturbed, strayed>>

Finish(s) ==
  LET refreshes == \/ wire[s].ok
                   \/ wire[s].verb = "put" /\ panel \in Asking
                   \/ wire[s].verb = "drop" /\ panel = "seats"
  IN
  /\ wire[s].stage = "back" /\ wire[s].verb # "load"
  /\ target' = IF wire[s].verb = "drop" /\ wire[s].ok THEN Nobody ELSE target
  /\ IF refreshes
     THEN UNCHANGED current /\ Reload(s)
     ELSE UNCHANGED current /\ wire' = [wire EXCEPT ![s] = Silent]
  /\ UNCHANGED <<panel, table, list, question, disturbed, strayed>>

\* updateUserGroup, saveParent, the forms that delete a user or a group and the bulk
\* form load the page anew: nothing of the old one is left.  (A request under way
\* then goes on with nobody to hear it, like one of Elsewhere.)
LeavePage ==
  /\ OnTop
  /\ current' = Nobody /\ list' = Blank /\ target' = Nobody /\ question' = NoAct
  /\ Quiet /\ UNCHANGED wire
  /\ disturbed' = FALSE
  /\ UNCHANGED <<panel, table, strayed>>

UpdateUserGroup == panel \in {"perms", "seats"} /\ current # Nobody /\ LeavePage
SaveParent      == panel \in {"members", "sites", "grants"} /\ current # Nobody /\ LeavePage
DeleteEntity(e) ==
  /\ OnTop
  /\ table' = {r \in table : r[1] # e}
  /\ current' = Nobody /\ list' = Blank /\ target' = Nobody /\ question' = NoAct
  /\ Quiet /\ UNCHANGED wire
  /\ disturbed' = FALSE
  /\ UNCHANGED <<panel, strayed>>

\* Another operator, a delegate or time changes a row.
Elsewhere(r) ==
  /\ table' = IF r \in table THEN table \ {r} ELSE table \cup {r}
  /\ disturbed' = (disturbed \/ current # Nobody)
  /\ wire' = [s \in Slot |-> [wire[s] EXCEPT !.act.calm = FALSE]]
  /\ question' = [question EXCEPT !.calm = FALSE]
  /\ UNCHANGED <<panel, current, list, target, strayed>>

\* What the buttons of the three pages call.
UserClick(s) ==
  \/ \E e \in Entity : OpenUserModal(s, e)
  \/ \E items \in SUBSET Item : GrantPermission(s, items)
  \/ \E i \in Item : RevokePerm(i) \/ AddAssignment(s, i) \/ RemoveAssignment(s, i)
  \/ UpdateUserGroup

GroupClick(s) ==
  \/ \E e \in Entity : OpenGroupModal(s, e)
  \/ \E items \in SUBSET Item : GrantGroupPermission(s, items)
  \/ \E i \in Item : RevokeGroupPerm(i)

AccountClick(s) ==
  \/ \E e \in Entity : OpenAccountModal(s, e)
  \/ \E items \in SUBSET Item : AddMembers(s, items)
  \/ \E i \in Item : \/ AddFacility(s, i) \/ MoveFacility(s, i) \/ AddGrant(s, i)
                    \/ RemoveMember(i) \/ RemoveFacility(i) \/ RemoveGrant(s, i)
  \/ SaveParent

ConsoleStep ==
  \/ \E s \in Slot :
       \/ UserClick(s) \/ GroupClick(s) \/ AccountClick(s) \/ Overwrite(s) \/ ExecuteHeld(s)
       \/ ServeUserDetails(s) \/ ServeGroupDetails(s) \/ ServeGroupMembers(s)
       \/ ServeGroupFacilities(s) \/ ServeGroupGrants(s) \/ LoseAnswer(s)
       \/ RenderUser(s) \/ RenderGroup(s) \/ RenderMembers(s) \/ RenderSites(s) \/ RenderGrants(s)
       \/ ServeChange(s) \/ RefuseChange(s) \/ Finish(s)
  \/ CancelOverwrite \/ Unaim
  \/ \E e \in Entity : DeleteEntity(e)
  \/ \E r \in Row : Elsewhere(r)

ConsoleSpec == ConsoleInit /\ [][ConsoleStep]_consoleVars

-----------------------------------------------------------------------------
(* Properties                                                              *)

\* Answers of one operator's page may come in any order and concern any entity it
\* was open for.  Once nothing is under way, and unless an answer was lost, failed
\* after the write or overtaken, or somebody else wrote, the dialog shows the rows
\* of the entity it is open for as they are now, its own changes included.
ListSettles ==
  Settled /\ current # Nobody => list = [owner |-> current, rows |-> RowsOf(current)]

\* What the operator does while the panel is settled does what it announced: a grant
\* overwrites nothing the question did not name, an assignment is made in the group
\* of the user it is for, a removal takes a row of the entity that is open.
ActsAsAnnounced == strayed = {}
=============================================================================
