-------------------------------- MODULE Portal --------------------------------
(***************************************************************************)
(* The delegates' page: client/groupAdmin and serviceAppsModal.  The server *)
(* renders it with the rows of every group the delegate may see, as JSON;   *)
(* the scripts keep that copy, show the part of the group selected, and     *)
(* after a change either load the page anew or mend the copy themselves.    *)
(*                                                                         *)
(* A board is one kind of row.  A row belongs to a group and its id is      *)
(* unique, so an id is the row: <<group, thing>>.  On "secrets" a row is an *)
(* app that has a client secret, on "grants" a grant that is valid, of a    *)
(* service of others.                                                      *)
(*                                                                         *)
(* Two boards are kept twice.  The grants come in grantsDetailByGroup, which *)
(* the tables show, and in grantsByGroup, the services that the assignment  *)
(* dialog offers.  The apps are in appsByGroup and, as they were when the   *)
(* table was last drawn, in its buttons: the edit dialog opens with that.   *)
(***************************************************************************)
CONSTANTS
  Place,    \* groups; the page shows one of them, and of its child groups the grants
  Thing,    \* what a row is about
  Call,     \* requests of the page that may be under way
  Nothing   \* no row

Line == Place \X Thing

ASSUME NothingOK == Nothing \notin Line

\* Boards whose removals mend the copy; all others load the page anew.
Mended == {"members", "assigns", "grants", "secrets"}
Board  == Mended \cup {"sites", "services", "roles", "tags", "apps", "composed",
                    "children", "forms"}

Doubled == {"grants", "secrets"}

VARIABLES
  board,    \* the board followed
  held,     \* the rows in the database
  copy,     \* the rows of the page's copy
  second,   \* those of the second copy, on a board kept twice
  place,    \* currentGroupId
  aim,      \* removeXTargetId
  calls,    \* requests under way
  page,     \* "shown", or "loading" after a location.reload
  told,     \* history: the copy as loaded and every change that was answered since
  since,    \* history: the rows of changes answered since the second copy was taken
  mine,     \* history: rows this delegate added, the page reloaded for the answer,
            \* and nobody removed since
  swerved   \* history: the group or the aim changed while a removal was under way

portalVars ==
  <<board, held, copy, second, place, aim, calls, page, told, since, mine, swerved>>

NoCall == [stage |-> "none", verb |-> "add", line |-> Nothing, ok |-> TRUE]
Calling == [stage : {"none", "sent", "back", "unheard"}, verb : {"add", "remove"},
            line : Line \cup {Nothing}, ok : BOOLEAN]

PortalTypeOK ==
  /\ board \in Board
  /\ held \subseteq Line /\ copy \subseteq Line /\ told \subseteq Line /\ mine \subseteq Line
  /\ second \subseteq Line /\ since \subseteq Line
  /\ place \in Place /\ aim \in Line \cup {Nothing}
  /\ calls \in [Call -> Calling]
  /\ page \in {"shown", "loading"} /\ swerved \in BOOLEAN

Removing == \E k \in Call : calls[k].stage \in {"sent", "back"} /\ calls[k].verb = "remove"

Twice(rows) == IF board \in Doubled THEN rows ELSE {}

\* The page is rendered from the tables as they are.
PortalInit ==
  /\ board \in Board
  /\ held \in SUBSET Line /\ copy = held /\ told = held
  /\ second = Twice(held) /\ since = {}
  /\ place \in Place /\ aim = Nothing
  /\ calls = [k \in Call |-> NoCall]
  /\ page = "shown" /\ mine = {} /\ swerved = FALSE

-----------------------------------------------------------------------------
(* The page                                                                *)

Here(l) == l \in copy /\ l[1] = place

\* What the tables show of the group selected, and so the buttons there are.
MemberShown(l)     == board = "members" /\ Here(l)
AssignmentShown(l) == board = "assigns" /\ Here(l)
GrantShown(l)      == board = "grants" /\ Here(l)
ChildGrantShown(l) == board = "grants" /\ l \in copy /\ l[1] # place
FacilityShown(l)   == board = "sites" /\ Here(l)
ServiceShown(l)    == board = "services" /\ Here(l)
RoleShown(l)       == board = "roles" /\ Here(l)
TagShown(l)        == board = "tags" /\ Here(l)
AppShown(l)        == board \in {"apps", "secrets"} /\ l[1] = place
DeveloperForm      == board = "forms" /\ ~\E l \in copy : Here(l)
ComposedShown(l)   == board = "composed" /\ Here(l)

\* group-admin.tsx, GET /: the page as it is now.
ServePage ==
  /\ page = "loading" /\ page' = "shown"
  /\ copy' = held /\ told' = held
  /\ second' = Twice(held) /\ since' = {}
  /\ aim' = Nothing /\ swerved' = FALSE
  /\ UNCHANGED <<board, held, place, calls, mine>>

\* window.location.reload.  Requests of the old page go on and nobody hears their
\* answers.
Leave(k) ==
  /\ page' = "loading"
  /\ calls' = [x \in Call |-> IF x # k /\ calls[x].stage \in {"sent", "unheard"}
                             THEN [calls[x] EXCEPT !.stage = "unheard"] ELSE NoCall]
  /\ UNCHANGED <<copy, second, told, since, aim, swerved>>

\* renderAll: what the buttons of the apps carry is the copy as it is by now, of the
\* group selected; those of another group are drawn when it is selected.
RenderAll == IF board = "secrets" THEN second' = copy /\ since' = {}
                                  ELSE UNCHANGED <<second, since>>

\* A dialog covers the window: nothing below it can be clicked.
SwitchGroup(g) ==
  /\ page = "shown" /\ aim = Nothing
  /\ place' = g
  /\ RenderAll
  /\ swerved' = (swerved \/ (Removing /\ g # place))
  /\ UNCHANGED <<board, held, copy, aim, calls, page, told, mine>>

SwitchTab ==
  /\ page = "shown" /\ aim = Nothing
  /\ RenderAll
  /\ UNCHANGED <<board, held, copy, place, aim, calls, page, told, mine, swerved>>

Aims(l) ==
  /\ page = "shown" /\ aim = Nothing
  /\ aim' = l
  /\ swerved' = (swerved \/ Removing)
  /\ UNCHANGED <<board, held, copy, second, place, calls, page, told, since, mine>>

AimMember(l)     == MemberShown(l) /\ Aims(l)
AimAssignment(l) == AssignmentShown(l) /\ Aims(l)
AimGrant(l)      == (GrantShown(l) \/ ChildGrantShown(l)) /\ Aims(l)

CloseDialog ==
  /\ page = "shown" /\ aim # Nothing
  /\ aim' = Nothing
  /\ swerved' = (swerved \/ Removing)
  /\ UNCHANGED <<board, held, copy, second, place, calls, page, told, since, mine>>

-----------------------------------------------------------------------------
(* Requests                                                                *)

Fetch(k, verb, l) ==
  /\ page = "shown" /\ calls[k] = NoCall
  /\ calls' = [calls EXCEPT ![k] = [NoCall EXCEPT !.stage = "sent", !.verb = verb, !.line = l]]
  /\ UNCHANGED <<board, held, copy, second, place, aim, page, told, since, mine, swerved>>

\* The removal dialogs stay open until the answer.
MembershipRemove(k)     == board = "members" /\ aim # Nothing /\ Fetch(k, "remove", aim)
AssignmentRemove(k)     == board = "assigns" /\ aim # Nothing /\ Fetch(k, "remove", aim)
GrantRemove(k)          == board = "grants" /\ aim # Nothing /\ Fetch(k, "remove", aim)

\* Named by the endpoint they post to.  Changes of the group selected; a grant may be for a child group.
AddsHere(k, l)              == l[1] = place /\ Fetch(k, "add", l)
MembershipAdd(k, l)         == board = "members" /\ AddsHere(k, l)
AssignmentAdd(k, l)         == board = "assigns" /\ AddsHere(k, l)
GrantAdd(k, l)              == board = "grants" /\ Fetch(k, "add", l)
FacilityAdd(k, l)           == board = "sites" /\ AddsHere(k, l)
FacilityMove(k, l)          == board = "sites" /\ AddsHere(k, l)
FacilityRemove(k, l)        == FacilityShown(l) /\ Fetch(k, "remove", l)
ServiceCreate(k, l)         == board = "services" /\ AddsHere(k, l)
ServiceDelete(k, l)         == ServiceShown(l) /\ Fetch(k, "remove", l)
RolesAdd(k, l)              == board = "roles" /\ AddsHere(k, l)
RolesRemove(k, l)           == RoleShown(l) /\ Fetch(k, "remove", l)
ApplyServiceTag(k, l)       == board = "tags" /\ AddsHere(k, l)
RequestCustomTag(k, l)      == board = "tags" /\ AddsHere(k, l)
RemoveServiceTag(k, l)      == TagShown(l) /\ Fetch(k, "remove", l)
ServiceAppAdd(k, l)         == board = "composed" /\ AddsHere(k, l)
ServiceAppRemove(k, l)      == ComposedShown(l) /\ Fetch(k, "remove", l)
AppRequest(k, l)            == board = "apps" /\ AddsHere(k, l)
AppUpdate(k, l)             == board = "apps" /\ Here(l) /\ Fetch(k, "add", l)
CreateChildGroup(k, l)      == board = "children" /\ AddsHere(k, l)
ApplyDeveloper(k, l)        == DeveloperForm /\ AddsHere(k, l)
AppDelete(k, l)             == board = "apps" /\ Here(l) /\ Fetch(k, "remove", l)
AppSecretAction(k, verb, l) == board = "secrets" /\ AppShown(l) /\ Fetch(k, verb, l)

After(m) == IF m.verb = "add" THEN held \cup {m.line} ELSE held \ {m.line}

\* The handler writes; the answer may still be an error.
Serve(k) ==
  /\ calls[k].stage \in {"sent", "unheard"}
  /\ held' = After(calls[k])
  /\ mine' = mine \cap held'
  /\ \E ok \in BOOLEAN : calls' = [calls EXCEPT ![k] =
       IF @.stage = "sent" THEN [@ EXCEPT !.stage = "back", !.ok = ok] ELSE NoCall]
  /\ UNCHANGED <<board, copy, second, place, aim, page, told, since, swerved>>

Refuse(k) ==
  /\ calls[k].stage = "sent"
  /\ calls' = [calls EXCEPT ![k].stage = "back", ![k].ok = FALSE]
  /\ UNCHANGED <<board, held, copy, second, place, aim, page, told, since, mine, swerved>>

\* The catch writes to the console, or shows a message.
IgnoreAnswer(k) ==
  /\ calls[k].stage = "back" /\ ~calls[k].ok
  /\ calls' = [calls EXCEPT ![k] = NoCall]
  /\ UNCHANGED <<board, held, copy, second, place, aim, page, told, since, mine, swerved>>

Answered(k) == calls[k].stage = "back" /\ calls[k].ok

Told(m) ==
  /\ told' = IF m.verb = "add" THEN told \cup {m.line} ELSE told \ {m.line}
  /\ since' = since \cup Twice({m.line})

\* Most changes load the page anew, once the answer is here.
Reloads(k) ==
  /\ Answered(k) /\ (board \notin Mended \/ (calls[k].verb = "add" /\ board # "secrets"))
  /\ mine' = IF calls[k].verb = "add" THEN mine \cup ({calls[k].line} \cap held) ELSE mine
  /\ Leave(k)
  /\ UNCHANGED <<board, held, place>>

\* The rest of an answered removal reads the aim and the group as they are by then.
Mends(k, rows) ==
  /\ Answered(k) /\ calls[k].verb = "remove"
  /\ copy' = copy \ rows /\ aim' = Nothing
  /\ Told(calls[k])
  /\ calls' = [calls EXCEPT ![k] = NoCall]
  /\ UNCHANGED <<board, held, second, place, page, mine, swerved>>

DropGrantHere(k) == board = "grants" /\ Mends(k, {l \in {aim} : Here(l)})

\* The row is dropped from the grants of every group, of an assignment only from
\* the group selected.
DropGrant(k)      == board = "grants" /\ Mends(k, {aim})
DropAssignment(k) == board = "assigns" /\ Mends(k, {l \in {aim} : Here(l)})

\* executeRemove calls closeRemoveMemberModal, which no script defines: the rest is
\* skipped, and the catch writes to the console.
DropMember(k) ==
  /\ board = "members" /\ Answered(k) /\ calls[k].verb = "remove"
  /\ Told(calls[k])
  /\ calls' = [calls EXCEPT ![k] = NoCall]
  /\ UNCHANGED <<board, held, copy, second, place, aim, page, mine, swerved>>

\* The app's flag, in the list of the group selected.
MarkSecret(k) ==
  LET m == calls[k] IN
  /\ board = "secrets" /\ Answered(k)
  /\ copy' = IF m.line[1] # place THEN copy
             ELSE IF m.verb = "add" THEN copy \cup {m.line} ELSE copy \ {m.line}
  /\ swerved' = (swerved \/ m.line[1] # place)
  /\ Told(m)
  /\ calls' = [calls EXCEPT ![k] = NoCall]
  /\ UNCHANGED <<board, held, second, place, aim, page, mine>>

\* Another delegate, the operator or time changes a row.
ChangedElsewhere(l) ==
  /\ held' = IF l \in held THEN held \ {l} ELSE held \cup {l}
  /\ mine' = mine \cap held'
  /\ UNCHANGED <<board, copy, second, place, aim, calls, page, told, since, swerved>>

PortalStep ==
  \/ ServePage \/ CloseDialog \/ SwitchTab
  \/ \E g \in Place : SwitchGroup(g)
  \/ \E l \in Line : AimMember(l) \/ AimAssignment(l) \/ AimGrant(l) \/ ChangedElsewhere(l)
  \/ \E k \in Call :
       \/ MembershipRemove(k) \/ AssignmentRemove(k) \/ GrantRemove(k)
       \/ Serve(k) \/ Refuse(k) \/ IgnoreAnswer(k) \/ Reloads(k)
       \/ DropGrant(k) \/ DropAssignment(k) \/ DropMember(k) \/ MarkSecret(k)
       \/ \E l \in Line :
            \/ MembershipAdd(k, l) \/ AssignmentAdd(k, l) \/ GrantAdd(k, l)
            \/ FacilityAdd(k, l) \/ FacilityMove(k, l) \/ FacilityRemove(k, l)
            \/ ServiceCreate(k, l) \/ ServiceDelete(k, l) \/ RolesAdd(k, l) \/ RolesRemove(k, l)
            \/ ApplyServiceTag(k, l) \/ RequestCustomTag(k, l) \/ RemoveServiceTag(k, l)
            \/ ServiceAppAdd(k, l) \/ ServiceAppRemove(k, l) \/ AppRequest(k, l) \/ AppDelete(k, l)
            \/ AppUpdate(k, l) \/ CreateChildGroup(k, l) \/ ApplyDeveloper(k, l)
            \/ \E verb \in {"add", "remove"} : AppSecretAction(k, verb, l)

PortalSpec == PortalInit /\ [][PortalStep]_portalVars

-----------------------------------------------------------------------------
(* Properties                                                              *)

Followed == page = "shown" /\ ~swerved => copy = told /\ mine \subseteq copy

\* What the second copy may differ in.
Behind ==
  board \in Doubled /\ page = "shown" /\ ~swerved =>
    /\ \A l \in Line : l \in since \/ (l \in second <=> l \in copy)
    /\ board = "grants" => copy \subseteq second

\* The copy the scripts mend by hand stays what a fresh page would have shown in its
\* place, but for what others changed: every answered change is in it and no other,
\* wherever the delegate looks meanwhile, unless the removal dialog was closed or the
\* group changed while a removal was under way.  Members are the exception, see below.
\* This is of grantsDetailByGroup, assignsByGroup and appsByGroup only.  A second copy
\* is not mended and stays behind, until the page is loaded anew or, for the apps, the
\* table is drawn again: grantsByGroup still offers the services of grants removed
\* since, and the edit dialog opens with the secret as it was.  It is behind by no other
\* row, and no grant shown is missing from the offers.
CopyFollows == board # "members" => Followed /\ Behind

\* The same for members, as the declaration of closeRemoveMemberModal promises:
\* a removed member leaves the table.
RemovedMemberLeaves == board = "members" => Followed
=============================================================================
