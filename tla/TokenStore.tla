---------------------------- MODULE TokenStore ----------------------------
(***************************************************************************)
(* The tables auth_codes and app_sessions of the identity provider and the *)
(* handlers that spend their rows: POST /oauth/token (both grants) and     *)
(* POST /oauth/revoke.  Every handler is a process of Proc and every D1    *)
(* statement it awaits is one action, so the statements of concurrent      *)
(* requests interleave as they do on Workers.  A handler may stop between  *)
(* two statements (Abort).                                                 *)
(*                                                                         *)
(* Rows are written once: besides auth_codes.used_at no column is ever     *)
(* updated.  So `row' keeps the columns by id and authCodes / appSessions  *)
(* say which rows exist.  An app_sessions row holds one access token and   *)
(* one refresh token (both unique); the id in Token stands for all three.  *)
(*                                                                         *)
(* Issuing codes and the statements of the logout, consent and account     *)
(* handlers are single statements here; OidcProvider composes them.        *)
(***************************************************************************)
EXTENDS Naturals, FiniteSets

CONSTANTS
  User, App,    \* ids of users and apps (relying parties)
  PublicApp,    \* the apps that never register a client_secret; the others may
                \* clear theirs, and then need no secret
  Scopes,       \* the scope sets clients ask for
  Offline,      \* the scope value offline_access
  Code, Token,  \* ids generateToken may draw: bound the rows ever inserted
  Proc,         \* concurrent requests to /oauth/token and /oauth/revoke
  CodeTTL,      \* life of a code (300 s in the code)
  AccessTTL,    \* life of an access token (3600 s in the code)
  MaxTime,      \* bound of the clock
  None          \* SQL NULL, and "no row yet"

Cap == Code \cup Token
Time == 0 .. MaxTime

Grant == [user : User, app : App, scope : Scopes,
          authTime : Time \cup {None}, expires : Nat]

ASSUME ConstantsOK ==
  /\ PublicApp \subseteq App
  /\ Code \cap Token = {}
  /\ CodeTTL \in Nat /\ AccessTTL \in Nat /\ MaxTime \in Nat
  /\ None \notin Cap /\ None \notin Nat /\ None \notin Grant

VARIABLES
  now,          \* Math.floor(Date.now() / 1000)
  users, apps,  \* rows of users and apps
  permitted,    \* the <<user, app>> pairs checkPermission allows
  authCodes,    \* rows of auth_codes
  usedCodes,    \* those ever given a used_at
  pkce,         \* codes inserted with a code_challenge
  appSessions,  \* rows of app_sessions
  row,          \* the columns of each row ever inserted
  req,          \* progress of each request
  parent,       \* history: the code or refresh token a token was issued for
  family,       \* history: the code at the start of a token's chain
  killed        \* history: families whose row a revocation deleted

world   == <<users, apps, permitted>>
codeTab == <<authCodes, usedCodes, pkce>>
vars    == <<now, world, codeTab, appSessions, row, req, parent, family, killed>>

Idle == [pc |-> "idle", cap |-> None, at |-> 0]

Minted      == {x \in Cap : row[x] # None}
FamilyOf(x) == IF x \in Code THEN x ELSE family[x]

TypeOK ==
  /\ now \in Time
  /\ users \subseteq User
  /\ apps \subseteq App
  /\ permitted \subseteq User \X App
  /\ authCodes \subseteq Code
  /\ usedCodes \subseteq Code
  /\ pkce \subseteq Code
  /\ appSessions \subseteq Token
  /\ row \in [Cap -> Grant \cup {None}]
  /\ req \in [Proc -> [pc : {"idle", "claim", "verify", "user", "insert",
                             "permission", "denied", "lookup", "consume",
                             "revoke"},
                       cap : Cap \cup {None}, at : Time]]
  /\ parent \in [Token -> Cap \cup {None}]
  /\ family \in [Token -> Code \cup {None}]
  /\ killed \subseteq Code

Init ==
  /\ now = 0
  /\ users = User /\ apps = App /\ permitted = User \X App
  /\ authCodes = {} /\ usedCodes = {} /\ pkce = {} /\ appSessions = {}
  /\ row = [x \in Cap |-> None]
  /\ req = [p \in Proc |-> Idle]
  /\ parent = [t \in Token |-> None] /\ family = [t \in Token |-> None]
  /\ killed = {}

Goto(p, label) == req' = [req EXCEPT ![p].pc = label]
Answer(p)      == req' = [req EXCEPT ![p] = Idle]

CodeRowUnscoped(u, a, scope, authTime) ==
  [user |-> u, app |-> a, scope |-> {}, authTime |-> authTime,
   expires |-> now + CodeTTL]

\* The columns of a new code; a missing scope has become openid by now.
CodeRow(u, a, scope, authTime) ==
  [user |-> u, app |-> a, scope |-> scope, authTime |-> authTime,
   expires |-> now + CodeTTL]

\* INSERT INTO auth_codes
IssueCode(u, a, scope, authTime, challenged) ==
  /\ \E c \in Code \ Minted :
       /\ authCodes' = authCodes \cup {c}
       /\ row' = [row EXCEPT ![c] = CodeRow(u, a, scope, authTime)]
       /\ pkce' = IF challenged THEN pkce \cup {c} ELSE pkce
  /\ UNCHANGED <<usedCodes, appSessions, parent, family, killed>>

-----------------------------------------------------------------------------
(* grant_type=authorization_code                                           *)

\* SELECT the code; go on when it is unused and not expired.
PresentCode(p, c) ==
  /\ req[p] = Idle
  /\ c \in authCodes \ usedCodes
  /\ now <= row[c].expires
  /\ req' = [req EXCEPT ![p] = [pc |-> "claim", cap |-> c, at |-> now]]
  /\ UNCHANGED <<now, world, codeTab, appSessions, row, parent, family, killed>>

ClaimableUnchecked(c, at) == c \in authCodes

\* The WHERE clause of the claiming UPDATE, with the time read before it.
Claimable(c, at) ==
  /\ c \in authCodes \ usedCodes
  /\ at <= row[c].expires

\* UPDATE auth_codes SET used_at: the request that changes the row goes on,
\* any other answers invalid_grant.
ClaimCode(p) ==
  LET c == req[p].cap IN
  /\ req[p].pc = "claim"
  /\ \/ /\ Claimable(c, req[p].at)
        /\ usedCodes' = usedCodes \cup {c}
        /\ Goto(p, "verify")
     \/ /\ ~Claimable(c, req[p].at)
        /\ Answer(p)
        /\ UNCHANGED usedCodes
  /\ UNCHANGED <<now, world, authCodes, pkce, appSessions, row, parent, family, killed>>

ClientAuthenticatedLax(a, secretOK, usedPkce) ==
  IF a \in apps \ PublicApp THEN secretOK ELSE TRUE

\* A registered secret must be presented; without one PKCE must have been used.
\* An app whose row is gone has no registered secret.
ClientAuthenticated(a, secretOK, usedPkce) ==
  IF a \in apps \ PublicApp THEN secretOK ELSE usedPkce

\* The code is spent by now: a mismatch of client_id or redirect_uri, a wrong
\* verifier or a failed client authentication answers an error and leaves it so.
VerifyClient(p) ==
  LET c == req[p].cap IN
  /\ req[p].pc = "verify"
  /\ \E bindingOK, verifierOK, secretOK \in BOOLEAN :
       IF /\ bindingOK
          /\ c \in pkce => verifierOK
          /\ ClientAuthenticated(row[c].app, secretOK, c \in pkce)
       THEN Goto(p, "user") ELSE Answer(p)
  /\ UNCHANGED <<now, world, codeTab, appSessions, row, parent, family, killed>>

\* SELECT the code's user.
LookupCodeUser(p) ==
  /\ req[p].pc = "user"
  /\ IF row[req[p].cap].user \in users THEN Goto(p, "insert") ELSE Answer(p)
  /\ UNCHANGED <<now, world, codeTab, appSessions, row, parent, family, killed>>

-----------------------------------------------------------------------------
(* issueOidcTokens, for both grants                                        *)

SuccessorRedated(g) == [g EXCEPT !.authTime = now, !.expires = now + AccessTTL]

\* A code without an auth_time (a session from before the column existed)
\* dates the authentication to the first token.
Successor(g) ==
  [g EXCEPT !.authTime = IF g.authTime = None THEN now ELSE g.authTime,
            !.expires  = now + AccessTTL]

InsertToken(p) ==
  LET x == req[p].cap IN
  /\ req[p].pc = "insert"
  /\ \E t \in Token \ Minted :
       /\ appSessions' = appSessions \cup {t}
       /\ row' = [row EXCEPT ![t] = Successor(row[x])]
       /\ parent' = [parent EXCEPT ![t] = x]
       /\ family' = [family EXCEPT ![t] = FamilyOf(x)]
  /\ Answer(p)
  /\ UNCHANGED <<now, world, codeTab, killed>>

-----------------------------------------------------------------------------
(* grant_type=refresh_token                                                *)

\* SELECT the session and authenticate its client.  The refresh token was only
\* handed out when offline_access was granted.
PresentRefresh(p, t) ==
  /\ req[p] = Idle
  /\ t \in appSessions
  /\ Offline \in row[t].scope
  /\ req' = [req EXCEPT ![p] = [pc |-> "permission", cap |-> t, at |-> now]]
  /\ UNCHANGED <<now, world, codeTab, appSessions, row, parent, family, killed>>

\* await checkPermission
CheckRefreshPermission(p) ==
  LET g == row[req[p].cap] IN
  /\ req[p].pc = "permission"
  /\ Goto(p, IF <<g.user, g.app>> \in permitted THEN "lookup" ELSE "denied")
  /\ UNCHANGED <<now, world, codeTab, appSessions, row, parent, family, killed>>

\* Deleting rows of app_sessions, other than by rotation, ends their families.
RevokeSessions(S) ==
  /\ appSessions' = appSessions \ S
  /\ killed' = killed \cup {family[t] : t \in S \cap appSessions}

\* Permission is gone: DELETE the session and answer invalid_grant.
DropDenied(p) ==
  /\ req[p].pc = "denied"
  /\ RevokeSessions({req[p].cap})
  /\ Answer(p)
  /\ UNCHANGED <<now, world, codeTab, row, parent, family>>

LookupRefreshUser(p) ==
  /\ req[p].pc = "lookup"
  /\ IF row[req[p].cap].user \in users THEN Goto(p, "consume") ELSE Answer(p)
  /\ UNCHANGED <<now, world, codeTab, appSessions, row, parent, family, killed>>

ConsumeRefreshUnchecked(p) ==
  /\ req[p].pc = "consume"
  /\ appSessions' = appSessions \ {req[p].cap}
  /\ Goto(p, "insert")
  /\ UNCHANGED <<now, world, codeTab, row, parent, family, killed>>

\* DELETE by refresh token: the request that deletes the row goes on, any other
\* answers "refresh token already used".
ConsumeRefresh(p) ==
  LET t == req[p].cap IN
  /\ req[p].pc = "consume"
  /\ \/ /\ t \in appSessions
        /\ appSessions' = appSessions \ {t}
        /\ Goto(p, "insert")
     \/ /\ t \notin appSessions
        /\ Answer(p)
        /\ UNCHANGED appSessions
  /\ UNCHANGED <<now, world, codeTab, row, parent, family, killed>>

-----------------------------------------------------------------------------
(* POST /oauth/revoke                                                      *)

\* SELECT the session by either token and authenticate its client.
PresentRevoke(p, t) ==
  /\ req[p] = Idle
  /\ t \in appSessions
  /\ req' = [req EXCEPT ![p] = [pc |-> "revoke", cap |-> t, at |-> now]]
  /\ UNCHANGED <<now, world, codeTab, appSessions, row, parent, family, killed>>

\* DELETE by row id.
DeleteRevoked(p) ==
  /\ req[p].pc = "revoke"
  /\ RevokeSessions({req[p].cap})
  /\ Answer(p)
  /\ UNCHANGED <<now, world, codeTab, row, parent, family>>

\* The isolate is evicted, the client goes away or a statement throws.
Abort(p) ==
  /\ req[p] # Idle
  /\ Answer(p)
  /\ UNCHANGED <<now, world, codeTab, appSessions, row, parent, family, killed>>

-----------------------------------------------------------------------------
(* Statements of other handlers on these tables                            *)

\* DELETE FROM app_sessions WHERE user_id (logout, password change and reset)
DeleteUserSessions(u) ==
  /\ RevokeSessions({t \in appSessions : row[t].user = u})
  /\ UNCHANGED <<codeTab, row, parent, family>>

\* DELETE FROM app_sessions WHERE user_id AND app_id (consent revocation)
DeleteGrantSessions(u, a) ==
  /\ RevokeSessions({t \in appSessions : row[t].user = u /\ row[t].app = a})
  /\ UNCHANGED <<codeTab, row, parent, family>>

\* DELETE FROM auth_codes WHERE user_id AND app_id (consent revocation)
DeleteGrantCodes(u, a) ==
  /\ authCodes' = {c \in authCodes : ~(row[c].user = u /\ row[c].app = a)}
  /\ UNCHANGED <<usedCodes, pkce, appSessions, row, parent, family, killed>>

\* The batch of /admin/users/delete.  Memberships and assignments are not part
\* of it: whether checkPermission still finds a path for the id is left open.
DeleteUser(u) ==
  /\ u \in users
  /\ users' = users \ {u}
  /\ permitted' \in {permitted, permitted \ ({u} \X App)}
  /\ authCodes' = {c \in authCodes : row[c].user # u}
  /\ RevokeSessions({t \in appSessions : row[t].user = u})
  /\ UNCHANGED <<now, apps, usedCodes, pkce, row, req, parent, family>>

\* The batch of /admin/apps/delete; service_apps is not part of it.
DeleteApp(a) ==
  /\ a \in apps
  /\ apps' = apps \ {a}
  /\ permitted' \in {permitted, permitted \ (User \X {a})}
  /\ authCodes' = {c \in authCodes : row[c].app # a}
  /\ RevokeSessions({t \in appSessions : row[t].app = a})
  /\ UNCHANGED <<now, users, usedCodes, pkce, row, req, parent, family>>

\* Anything that changes what checkPermission answers for the pair.
TogglePermission(u, a) ==
  /\ permitted' = IF <<u, a>> \in permitted THEN permitted \ {<<u, a>>}
                                            ELSE permitted \cup {<<u, a>>}
  /\ UNCHANGED <<now, users, apps, codeTab, appSessions, row, req, parent, family, killed>>

Tick ==
  /\ now < MaxTime
  /\ now' = now + 1
  /\ UNCHANGED <<world, codeTab, appSessions, row, req, parent, family, killed>>

-----------------------------------------------------------------------------
RequestStep(p) ==
  \/ \E c \in Code : PresentCode(p, c)
  \/ ClaimCode(p) \/ VerifyClient(p) \/ LookupCodeUser(p) \/ InsertToken(p)
  \/ \E t \in Token : PresentRefresh(p, t) \/ PresentRevoke(p, t)
  \/ CheckRefreshPermission(p) \/ DropDenied(p) \/ LookupRefreshUser(p)
  \/ ConsumeRefresh(p) \/ DeleteRevoked(p) \/ Abort(p)

\* One statement on the tables by a handler that is not a request of Proc.
Statement ==
  \/ \E u \in User, a \in App, scope \in Scopes,
        authTime \in 0 .. now \cup {None}, challenged \in BOOLEAN :
       IssueCode(u, a, scope, authTime, challenged)
  \/ \E u \in User : DeleteUserSessions(u)
  \/ \E u \in User, a \in App : DeleteGrantSessions(u, a) \/ DeleteGrantCodes(u, a)

Environment ==
  \/ \E u \in User : DeleteUser(u)
  \/ \E a \in App : DeleteApp(a)
  \/ \E u \in User, a \in App : TogglePermission(u, a)
  \/ Tick

Next ==
  \/ \E p \in Proc : RequestStep(p)
  \/ Statement /\ UNCHANGED <<now, world, req>>
  \/ Environment

Spec == Init /\ [][Next]_vars

-----------------------------------------------------------------------------
(* Properties                                                              *)

\* A code or a refresh token is exchanged at most once, however many requests
\* present it at the same time: no two tokens were issued for the same one.
SingleSuccessor ==
  \A s, t \in Token \cap Minted : parent[s] = parent[t] => s = t

\* Rotation replaces: one authorization never has two sessions at a time, so a
\* copied refresh token cannot fork the chain.
OneSessionPerFamily ==
  \A s, t \in appSessions : family[s] = family[t] => s = t

\* Once a revocation, a logout, a denied refresh or a deletion has removed the
\* session of an authorization, no request in flight brings the authorization
\* back: neither a stale refresh nor a second exchange of its code.
RevocationFinal ==
  /\ \A t \in appSessions : family[t] \notin killed
  /\ \A p \in Proc : req[p].pc = "insert" => FamilyOf(req[p].cap) \notin killed

\* User, client and scope of every token are those of the code at the start of
\* its chain, and all tokens of a chain carry one auth_time, the code's if any.
GrantPreserved ==
  \A t \in Token \cap Minted :
    LET g == row[t]  o == row[family[t]] IN
    /\ <<g.user, g.app, g.scope>> = <<o.user, o.app, o.scope>>
    /\ g.authTime # None
    /\ o.authTime # None => g.authTime = o.authTime
    /\ \A s \in Token \cap Minted :
         family[s] = family[t] => row[s].authTime = g.authTime

\* Every token of a client without a secret descends from a code that was bound
\* to a code_challenge, however often it has been rotated since.
PublicClientUsedPkce ==
  \A t \in Token \cap Minted : row[t].app \in PublicApp => family[t] \in pkce

\* The request has spent a code or a refresh token and not yet inserted the
\* session it stands for.
Moving(p) == req[p].pc \in {"verify", "user", "insert"}

StatusOf(c) ==
  IF row[c] = None THEN "none"
  ELSE IF \E p \in Proc : Moving(p) /\ FamilyOf(req[p].cap) = c THEN "moving"
  ELSE IF \E t \in appSessions : family[t] = c THEN "held"
  ELSE IF c \in authCodes \ usedCodes THEN "offered"
  ELSE "void"

Ledger == INSTANCE AuthorizationLedger
            WITH Authz <- Code, status <- [c \in Code |-> StatusOf(c)]

\* The two tables and their handlers keep the promise of AuthorizationLedger:
\* every code stands for one authorization that changes hands, is never held
\* twice and never returns once it is void.
ImplementsLedger == Ledger!Spec
=============================================================================
