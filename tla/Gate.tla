-------------------------------- MODULE Gate --------------------------------
(***************************************************************************)
(* The permission gate: which apps a user may enter.  checkPermission asks  *)
(* five tables one after the other, an awaited SELECT each, while the       *)
(* operator's handlers, which loop over users and apps, and everybody       *)
(* else's write to them; the dashboard, the entitlements of a service and   *)
(* the operator's details of a user ask the same question in queries of     *)
(* their own.                                                              *)
(*                                                                         *)
(* A period of validity is one of Period: to come, valid or over.  A check  *)
(* reads the clock once, so no time passes during it.                       *)
(***************************************************************************)
EXTENDS Naturals

CONSTANTS
  User, Group, App, Service,
  Check,      \* concurrent requests that ask checkPermission
  Desk,       \* concurrent requests of the operator
  None        \* no group, no status, no row, no answer

Period == {"future", "valid", "over"}
\* "closed" is inactive, pending or rejected: no query here tells them apart.
Status == {"active", "closed"}
Path == User \X Group \X Service

ASSUME GateNoneOK ==
  None \notin Group /\ None \notin Period /\ None \notin Status /\ None \notin BOOLEAN

VARIABLES
  status,   \* apps.status; None is NULL, a row older than the column
  home,     \* users.group_id
  direct,   \* permissions: the period of a user's own row for an app
  shared,   \* group_permissions: the period of a group's row for an app
  seats,    \* service_user_assignments that are valid
  placed,   \* those of them with a facility and a role
  within,   \* group_memberships that are valid
  granted,  \* group_service_grants that are valid
  phase,    \* services.status; None is NULL, as for an app
  owner,    \* services.owner_group_id
  parts,    \* service_apps
  check,    \* progress of each check
  desk      \* progress of each operator request

tables == <<status, home, direct, shared, seats, placed, within, granted, phase, owner, parts>>
gateVars == <<tables, check, desk>>

Resting == [pc |-> "idle", user |-> None, app |-> None, group |-> None, answer |-> None,
            seen |-> {}, edits |-> 0]

\* seen and edits are history: the true answers while the check runs, and the
\* number of rows written meanwhile, up to 2.
Checking == [pc : {"idle", "direct", "home", "shared", "service", "answered"},
             user : User \cup {None}, app : App \cup {None}, group : Group \cup {None},
             answer : BOOLEAN \cup {None}, seen : SUBSET BOOLEAN, edits : 0..2]

AtRest == [users |-> {}, groups |-> {}, to |-> None, apps |-> {}, period |-> None]

\* users and apps still to be written; with `to` set, the users' groups first.
Errand == [users : SUBSET User, groups : SUBSET Group,
           to : {None} \cup [regroup : SUBSET User, group : Group \cup {None}],
           apps : SUBSET App, period : Period \cup {None}]

GateTypeOK ==
  /\ status \in [App -> Status \cup {None}]
  /\ home \in [User -> Group \cup {None}]
  /\ direct \in [User -> [App -> Period \cup {None}]]
  /\ shared \in [Group -> [App -> Period \cup {None}]]
  /\ seats \subseteq Path /\ placed \subseteq seats
  /\ within \subseteq User \X Group
  /\ granted \subseteq Group \X Service
  /\ phase \in [Service -> Status \cup {None}] /\ owner \in [Service -> Group \cup {None}]
  /\ parts \subseteq Service \X App
  /\ check \in [Check -> Checking]
  /\ desk \in [Desk -> Errand]

-----------------------------------------------------------------------------
(* The parts of the question                                               *)

Open(a) == status[a] \in {None, "active"}

Shared(g, a) == g # None /\ shared[g][a] = "valid"

\* An owner needs no grant, for a service whose status is 'active' and not NULL.
Owns(g, s) == owner[s] = g /\ phase[s] = "active"

\* Group by group: membership, then grant or ownership, then assignment.  A grant counts
\* whatever the status of the service is.
Through(u, g, s) ==
  /\ <<u, g, s>> \in seats /\ <<u, g>> \in within
  /\ <<g, s>> \in granted \/ Owns(g, s)

Assigned(u, a) == \E g \in Group, s \in Service : <<s, a>> \in parts /\ Through(u, g, s)

\* What checkPermission answers when nothing is written meanwhile.
Permitted(u, a) ==
  /\ Open(a)
  /\ direct[u][a] = "valid" \/ Shared(home[u], a) \/ Assigned(u, a)

\* GET /: the apps shown on their own, and those shown under a service.
StandaloneAnyStatus(u) == {a \in App :
  direct[u][a] = "valid" \/ (direct[u][a] = None /\ Shared(home[u], a))}
StandaloneApps(u) == {a \in App :
  /\ Open(a)
  /\ direct[u][a] = "valid" \/ (direct[u][a] = None /\ Shared(home[u], a))}
ServiceApps(u, s) == {a \in App :
  <<s, a>> \in parts /\ Open(a) /\ \E g \in Group : Through(u, g, s)}

\* getEntitlements: the JOINs drop an assignment without facility or role.
Entitlements(u, s) == {g \in Group : Through(u, g, s) /\ <<u, g, s>> \in placed}

\* /entitlements/me, of a token that u gave to the client a: the services a is part of
\* that are active, by 'active' or by NULL; without one the answer is 403.
Listed(a) == {s \in Service : <<s, a>> \in parts /\ phase[s] \in {None, "active"}}
EntitlementsMe(u, a) == [s \in Listed(a) |-> Entitlements(u, s)]

\* /admin/api/user-details: a user's own row hides the group's, valid or not.
UserDetails(u) == [a \in App |->
  IF direct[u][a] # None THEN [source |-> "user", period |-> direct[u][a]]
  ELSE IF home[u] # None /\ shared[home[u]][a] # None
       THEN [source |-> "group", period |-> shared[home[u]][a]] ELSE None]

-----------------------------------------------------------------------------
(* checkPermission                                                         *)

AskOn(k, pc) == check' = [check EXCEPT ![k].pc = pc]
Answer(k, b) == check' = [check EXCEPT ![k].pc = "answered", ![k].answer = b]
Reading == UNCHANGED <<tables, desk>>

\* SELECT the status of the app.
StartCheck(k, u, a) ==
  /\ check[k].pc = "idle"
  /\ check' = [check EXCEPT ![k] =
       [Resting EXCEPT !.pc = IF Open(a) THEN "direct" ELSE "answered",
                       !.answer = IF Open(a) THEN None ELSE FALSE,
                       !.user = u, !.app = a, !.seen = {Permitted(u, a)}]]
  /\ Reading

ReadDirect(k) ==
  /\ check[k].pc = "direct"
  /\ IF direct[check[k].user][check[k].app] = "valid" THEN Answer(k, TRUE)
     ELSE AskOn(k, "home")
  /\ Reading

ReadHomeFinal(k) ==
  LET g == home[check[k].user] IN
  /\ check[k].pc = "home"
  /\ check' = [check EXCEPT ![k].pc = IF g = None THEN "answered" ELSE "shared",
                            ![k].answer = IF g = None THEN FALSE ELSE None,
                            ![k].group = g]
  /\ Reading

ReadHome(k) ==
  LET g == home[check[k].user] IN
  /\ check[k].pc = "home"
  /\ check' = [check EXCEPT ![k].pc = IF g = None THEN "service" ELSE "shared",
                            ![k].group = g]
  /\ Reading

\* The group's row may have been read for a group the user has left since.
ReadShared(k) ==
  /\ check[k].pc = "shared"
  /\ IF Shared(check[k].group, check[k].app) THEN Answer(k, TRUE)
     ELSE AskOn(k, "service")
  /\ Reading

ReadService(k) ==
  /\ check[k].pc = "service"
  /\ Answer(k, Assigned(check[k].user, check[k].app))
  /\ Reading

UseAnswer(k) ==
  /\ check[k].pc = "answered"
  /\ check' = [check EXCEPT ![k] = Resting]
  /\ Reading

-----------------------------------------------------------------------------
(* Writers: one row each                                                   *)

\* The checks under way see one more answer that was true for a moment.
Noticed ==
  LET truth == [x \in User \X App |-> Permitted(x[1], x[2])'] IN
  check' = [k \in Check |->
    IF check[k].pc \in {"idle", "answered"} THEN check[k]
    ELSE [check[k] EXCEPT !.seen = @ \cup {truth[<<check[k].user, check[k].app>>]},
                          !.edits = IF @ < 2 THEN @ + 1 ELSE 2]]

PutDirect(u, a, v) ==
  /\ direct' = [direct EXCEPT ![u][a] = v]
  /\ UNCHANGED <<status, home, shared, seats, placed, within, granted, phase, owner, parts>>
PutShared(g, a, v) ==
  /\ shared' = [shared EXCEPT ![g][a] = v]
  /\ UNCHANGED <<status, home, direct, seats, placed, within, granted, phase, owner, parts>>
PutHome(u, g) ==
  /\ home' = [home EXCEPT ![u] = g]
  /\ UNCHANGED <<status, direct, shared, seats, placed, within, granted, phase, owner, parts>>

\* /admin/api/user/permission/grant: one upsert for each app.
StartGrant(d, u, as, v) ==
  /\ desk[d] = AtRest /\ as # {}
  /\ desk' = [desk EXCEPT ![d] = [AtRest EXCEPT !.users = {u}, !.apps = as, !.period = v]]
  /\ UNCHANGED <<tables, check>>

\* /admin/api/group/permission/grant
StartGroupGrant(d, g, as, v) ==
  /\ desk[d] = AtRest /\ as # {}
  /\ desk' = [desk EXCEPT ![d] = [AtRest EXCEPT !.groups = {g}, !.apps = as, !.period = v]]
  /\ UNCHANGED <<tables, check>>

\* /admin/users/bulk: a group for all users, then an app for all users; either may
\* be left out, and None as the group is __CLEAR__.
StartBulk(d, us, as, to) ==
  /\ desk[d] = AtRest /\ us # {} /\ (as # {} \/ to # None)
  /\ desk' = [desk EXCEPT ![d] = [AtRest EXCEPT !.users = us, !.apps = as, !.to = to,
                                                !.period = "valid"]]
  /\ UNCHANGED <<tables, check>>

RegroupNextLiteral(d) ==
  LET e == desk[d].to IN
  /\ e # None
  /\ \E u \in e.regroup :
       /\ PutHome(u, IF e.group = None THEN "__CLEAR__" ELSE e.group)
       /\ desk' = [desk EXCEPT ![d] =
            IF e.regroup # {u} THEN [@ EXCEPT !.to.regroup = e.regroup \ {u}]
            ELSE IF @.apps = {} THEN AtRest ELSE [@ EXCEPT !.to = None]]
  /\ Noticed

\* UPDATE users SET group_id, one user.
RegroupNext(d) ==
  LET e == desk[d].to IN
  /\ e # None
  /\ \E u \in e.regroup :
       /\ PutHome(u, e.group)
       /\ desk' = [desk EXCEPT ![d] =
            IF e.regroup # {u} THEN [@ EXCEPT !.to.regroup = e.regroup \ {u}]
            ELSE IF @.apps = {} THEN AtRest ELSE [@ EXCEPT !.to = None]]
  /\ Noticed

\* One upsert: the next app of one user or group, or the next user of one app.
GrantNext(d) ==
  LET e == desk[d] IN
  /\ e.to = None
  /\ \E a \in e.apps :
       \/ \E u \in e.users :
            /\ PutDirect(u, a, e.period)
            /\ desk' = [desk EXCEPT ![d] =
                 IF e.users = {u} /\ e.apps = {a} THEN AtRest
                 ELSE IF e.users = {u} THEN [e EXCEPT !.apps = e.apps \ {a}]
                 ELSE [e EXCEPT !.users = e.users \ {u}]]
       \/ \E g \in e.groups :
            /\ PutShared(g, a, e.period)
            /\ desk' = [desk EXCEPT ![d] =
                 IF e.apps = {a} THEN AtRest ELSE [e EXCEPT !.apps = e.apps \ {a}]]
  /\ Noticed

\* A statement throws, or the isolate ends.
AbortErrand(d) ==
  /\ desk[d] # AtRest
  /\ desk' = [desk EXCEPT ![d] = AtRest]
  /\ UNCHANGED <<tables, check>>

SetUserGroup(u, g)       == PutHome(u, g) /\ Noticed /\ UNCHANGED desk
RevokePermission(u, a)   == PutDirect(u, a, None) /\ Noticed /\ UNCHANGED desk
RevokeGroupPermission(g, a) == PutShared(g, a, None) /\ Noticed /\ UNCHANGED desk

\* /admin/apps/toggle and the handlers that decide on an app
SetStatus(a, v) ==
  /\ status' = [status EXCEPT ![a] = v]
  /\ UNCHANGED <<home, direct, shared, seats, placed, within, granted, phase, owner, parts, desk>>
  /\ Noticed

Toggled(S, x) == IF x \in S THEN S \ {x} ELSE S \cup {x}

\* The handlers of assignments, memberships, grants and services write one row of
\* the service path (modules SeatBudget, Directory and Catalog have them in full).
ChangePath ==
  /\ \/ \E x \in Path : /\ seats' = Toggled(seats, x)
                        /\ placed' \in {placed \ {x}, (placed \cup {x}) \cap seats'}
                        /\ UNCHANGED <<within, granted, parts>>
     \/ \E x \in User \X Group :
          within' = Toggled(within, x) /\ UNCHANGED <<seats, placed, granted, parts>>
     \/ \E x \in Group \X Service :
          granted' = Toggled(granted, x) /\ UNCHANGED <<seats, placed, within, parts>>
     \/ \E x \in Service \X App :
          parts' = Toggled(parts, x) /\ UNCHANGED <<seats, placed, within, granted>>
  /\ UNCHANGED <<status, home, direct, shared, phase, owner, desk>>
  /\ Noticed

\* /admin/am/services/approve: one batch.  The UPDATE finds a service that is pending;
\* for an owner's service it grants the owner and the groups above it in any case, and
\* one such row already there refuses the batch.
ApproveService(s) ==
  /\ \/ phase' = phase
     \/ phase[s] = "closed" /\ phase' = [phase EXCEPT ![s] = "active"]
  /\ IF owner[s] = None THEN granted' = granted
     ELSE \E path \in SUBSET Group :
            /\ owner[s] \in path /\ \A g \in path : <<g, s>> \notin granted
            /\ granted' = granted \cup (path \X {s})
  /\ UNCHANGED <<status, home, direct, shared, seats, placed, within, owner, parts, desk>>
  /\ Noticed

\* /group-admin/api/service/reapply: the row is pending again, and may have been
\* approved since the request read that it was rejected.
ReapplyService(s) ==
  /\ owner[s] # None /\ phase[s] = "active"
  /\ phase' = [phase EXCEPT ![s] = "closed"]
  /\ UNCHANGED <<status, home, direct, shared, seats, placed, within, granted, owner, parts, desk>>
  /\ Noticed

\* deleteServiceCascade: one batch.  The id then stands for the service created next:
\* the operator's, of nobody and active, or a group's own, pending.
ReplaceService(s, g) ==
  /\ seats' = {x \in seats : x[3] # s} /\ placed' = {x \in placed : x[3] # s}
  /\ granted' = {x \in granted : x[2] # s} /\ parts' = {x \in parts : x[1] # s}
  /\ owner' = [owner EXCEPT ![s] = g]
  /\ phase' = [phase EXCEPT ![s] = IF g = None THEN "active" ELSE "closed"]
  /\ UNCHANGED <<status, home, direct, shared, within, desk>>
  /\ Noticed

Ages == {<<"future", "valid">>, <<"valid", "over">>}

\* Time passes between checks; one row begins or ends to be valid.
TimePassesBy ==
  /\ \A k \in Check : check[k].pc = "idle"
  /\ \/ \E u \in User, a \in App, v \in Period : /\ <<direct[u][a], v>> \in Ages /\ PutDirect(u, a, v)
     \/ \E g \in Group, a \in App, v \in Period : /\ <<shared[g][a], v>> \in Ages /\ PutShared(g, a, v)
  /\ UNCHANGED <<check, desk>>

-----------------------------------------------------------------------------
Checks(k, users) ==
  \/ \E u \in users, a \in App : StartCheck(k, u, a)
  \/ ReadDirect(k) \/ ReadHome(k) \/ ReadShared(k) \/ ReadService(k) \/ UseAnswer(k)

Errands(d) ==
  \/ \E u \in User, as \in SUBSET App, v \in Period : StartGrant(d, u, as, v)
  \/ \E g \in Group, as \in SUBSET App, v \in Period : StartGroupGrant(d, g, as, v)
  \/ \E us \in SUBSET User, as \in SUBSET App :
       \/ StartBulk(d, us, as, None)
       \/ \E g \in Group \cup {None} : StartBulk(d, us, as, [regroup |-> us, group |-> g])
  \/ RegroupNext(d) \/ GrantNext(d) \/ AbortErrand(d)

SingleRows(users) ==
  \/ \E u \in users, g \in Group \cup {None} : SetUserGroup(u, g)
  \/ \E u \in users, a \in App : RevokePermission(u, a)
  \/ \E g \in Group, a \in App : RevokeGroupPermission(g, a)
  \/ \E a \in App, v \in Status : SetStatus(a, v)

Services ==
  \E s \in Service : \/ ApproveService(s) \/ ReapplyService(s)
                   \/ \E g \in Group \cup {None} : ReplaceService(s, g)

\* Requests begin on any rows.
GateInit ==
  /\ GateTypeOK
  /\ check = [k \in Check |-> Resting] /\ desk = [d \in Desk |-> AtRest]

GateStep ==
  \/ \E k \in Check : Checks(k, User)
  \/ \E d \in Desk : Errands(d)
  \/ SingleRows(User) \/ ChangePath \/ Services \/ TimePassesBy

GateSpec == GateInit /\ [][GateStep]_gateVars

-----------------------------------------------------------------------------
(* Properties                                                              *)

\* checkPermission is five SELECTs and not one: its answer was the true one at
\* some moment while it ran, unless more than one row was written meanwhile.
CheckMomentary ==
  \A k \in Check : check[k].pc = "answered" /\ check[k].edits < 2
                     => check[k].answer \in check[k].seen

\* The queries agree.  What the dashboard or the entitlements of a service show
\* opens; what opens and is not shown is a group's app hidden behind a row of the
\* user's own that is over or not yet valid.  The entitlements of a client are those
\* of the services the dashboard shows it under, but for an assignment without
\* facility or role and for a service granted and not active, which the dashboard
\* and checkPermission open and /entitlements/me leaves out.
QueriesAgree ==
  \A u \in User, a \in App :
    LET shown == a \in StandaloneApps(u) \/ \E s \in Service : a \in ServiceApps(u, s)
        told == EntitlementsMe(u, a)
        Entitled(s) == s \in DOMAIN told /\ told[s] # {}
    IN /\ shown => Permitted(u, a)
       /\ Permitted(u, a) /\ ~shown => /\ direct[u][a] \in {"future", "over"}
                                       /\ UserDetails(u)[a].source = "user"
       /\ \A s \in Service :
            /\ Entitled(s) /\ Open(a) => a \in ServiceApps(u, s)
            /\ a \in ServiceApps(u, s) /\ ~Entitled(s) =>
                 \/ \E g \in Group : <<u, g, s>> \in seats \ placed
                 \/ phase[s] = "closed" /\ \E g \in Group : <<u, g, s>> \in seats
                                                           /\ <<g, s>> \in granted
=============================================================================
