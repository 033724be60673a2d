--------------------------- MODULE OidcProvider ---------------------------
(***************************************************************************)
(* The identity provider around TokenStore: logging in, GET /authorize,     *)
(* POST /authorize/decision, GET /logout, /oidc/logout and                  *)
(* /account/revoke-consent, with the tables sessions and consents.  Each of *)
(* these requests is a process of Web; as in TokenStore one awaited D1      *)
(* statement is one action and a request may stop between two of them.      *)
(*                                                                         *)
(* Reads that only feed the next statement are merged: a session row and    *)
(* the user row looked up by it are read in one step, which leaves out only *)
(* answers to the login page.                                              *)
(***************************************************************************)
EXTENDS TokenStore

CONSTANTS
  Session,   \* ids generateToken may draw for rows of sessions
  Web,       \* concurrent browser requests
  SsoTTL     \* life of a session (86400 s in the code)

\* A row of sessions.  One older than the column auth_time has NULL there.
Login  == [user : User, authTime : Time \cup {None}, expires : Nat]
Legacy == [user : User, authTime : {None}, expires : 0 .. SsoTTL]

ASSUME ProviderConstantsOK ==
  /\ SsoTTL \in Nat
  /\ None \notin Scopes /\ None \notin Session /\ None \notin Login

VARIABLES
  sso,        \* rows of sessions that exist
  sessRow,    \* the columns of each row of sessions ever inserted
  consents,   \* the scope stored for a user and an app
  flow,       \* progress of each browser request
  approved,   \* history: what a user approved on the consent page
  signedOut,  \* history: authorizations a logout has ended
  withdrawn   \* history: authorizations a consent revocation has ended

pvars == <<sso, sessRow, consents, flow, approved, signedOut, withdrawn>>

Resting == [pc |-> "idle", user |-> None, app |-> None, scope |-> None,
            authTime |-> 0, sid |-> None]

Flow == [pc : {"idle", "login", "gate", "consent", "decide", "record", "emit",
               "dropTokens", "dropSession", "dropConsent", "dropGrant", "dropCodes"},
         user : User \cup {None}, app : App \cup {None}, scope : Scopes \cup {None},
         authTime : Time \cup {None}, sid : Session \cup {None}]

ProviderTypeOK ==
  /\ TypeOK
  /\ sso \subseteq Session
  /\ sessRow \in [Session -> Login \cup {None}]
  /\ consents \in [User -> [App -> Scopes \cup {None}]]
  /\ flow \in [Web -> Flow]
  /\ approved \subseteq User \X App \X Scopes
  /\ signedOut \subseteq Code
  /\ withdrawn \subseteq Code

\* The first requests may meet sessions begun before the column was added.
ProviderInit ==
  /\ Init
  /\ sessRow \in [Session -> Legacy \cup {None}]
  /\ sso = {s \in Session : sessRow[s] # None}
  /\ consents = [u \in User |-> [a \in App |-> None]]
  /\ flow = [w \in Web |-> Resting]
  /\ approved = {} /\ signedOut = {} /\ withdrawn = {}

Begin(w, f)   == flow[w] = Resting /\ flow' = [flow EXCEPT ![w] = f]
Proceed(w, l) == flow' = [flow EXCEPT ![w].pc = l]
Respond(w)    == flow' = [flow EXCEPT ![w] = Resting]

\* A statement on TokenStore's tables by a browser request.
StoreOnly == UNCHANGED <<now, world, req>>

\* getSessionRow and the user it names: the row exists and has not expired.
SignedIn(s) ==
  /\ s \in sso
  /\ now < sessRow[s].expires
  /\ sessRow[s].user \in users

-----------------------------------------------------------------------------
(* POST /login and /login/2fa, from the point where the user is verified   *)

StartLogin(w, u) ==
  /\ u \in users
  /\ Begin(w, [Resting EXCEPT !.pc = "login", !.user = u])
  /\ UNCHANGED <<vars, sso, sessRow, consents, approved, signedOut, withdrawn>>

\* createSession: INSERT INTO sessions
CreateSession(w) ==
  /\ flow[w].pc = "login"
  /\ \E s \in Session :
       /\ sessRow[s] = None
       /\ sessRow' = [sessRow EXCEPT ![s] =
            [user |-> flow[w].user, authTime |-> now, expires |-> now + SsoTTL]]
       /\ sso' = sso \cup {s}
  /\ Respond(w)
  /\ UNCHANGED <<vars, consents, approved, signedOut, withdrawn>>

-----------------------------------------------------------------------------
(* GET /authorize and POST /authorize/decision                             *)

AuthTimeRestarted(s) == now

\* session?.auth_time ?? null
AuthTimeOf(s) == sessRow[s].authTime

\* Read app and session.  prompt=login, an exceeded max_age (to which a NULL
\* auth_time is 0) and any error of the parameters answer at once and change
\* nothing; a request without them goes on.
StartAuthorize(w, s, a, scope) ==
  /\ a \in apps
  /\ SignedIn(s)
  /\ \E l \in {"gate", "decide"} :
       Begin(w, [Resting EXCEPT !.pc = l, !.user = sessRow[s].user, !.app = a,
                                !.scope = scope, !.authTime = AuthTimeOf(s)])
  /\ UNCHANGED <<vars, sso, sessRow, consents, approved, signedOut, withdrawn>>

\* await checkPermission.  After it the decision handler looks at the button,
\* which may say no.
CheckGate(w) ==
  /\ flow[w].pc \in {"gate", "decide"}
  /\ \/ /\ <<flow[w].user, flow[w].app>> \in permitted
        /\ Proceed(w, IF flow[w].pc = "gate" THEN "consent" ELSE "record")
     \/ /\ \/ <<flow[w].user, flow[w].app>> \notin permitted
           \/ flow[w].pc = "decide"
        /\ Respond(w)
  /\ UNCHANGED <<vars, sso, sessRow, consents, approved, signedOut, withdrawn>>

HasConsentUnscoped(u, a, scope) == consents[u][a] # None

\* scopesCovered(existingConsent.scope, scope)
HasConsent(u, a, scope) ==
  /\ consents[u][a] # None
  /\ scope \subseteq consents[u][a]

\* SELECT the stored consent; without one that covers the request, or with
\* prompt=consent, the consent page (or consent_required) is the answer.
CheckConsent(w) ==
  /\ flow[w].pc = "consent"
  /\ \/ /\ HasConsent(flow[w].user, flow[w].app, flow[w].scope)
        /\ Proceed(w, "emit")
     \/ Respond(w)
  /\ UNCHANGED <<vars, sso, sessRow, consents, approved, signedOut, withdrawn>>

\* INSERT INTO consents ... ON CONFLICT DO UPDATE: the last approval replaces
\* the stored scope, it does not add to it.
RecordConsent(w) ==
  LET f == flow[w] IN
  /\ f.pc = "record"
  /\ consents' = [consents EXCEPT ![f.user][f.app] = f.scope]
  /\ approved' = approved \cup {<<f.user, f.app, f.scope>>}
  /\ Proceed(w, "emit")
  /\ UNCHANGED <<vars, sso, sessRow, signedOut, withdrawn>>

\* issueAuthorizationCode
EmitCode(w) ==
  LET f == flow[w] IN
  /\ f.pc = "emit"
  /\ \E challenged \in BOOLEAN : IssueCode(f.user, f.app, f.scope, f.authTime, challenged)
  /\ StoreOnly
  /\ Respond(w)
  /\ UNCHANGED <<sso, sessRow, consents, approved, signedOut, withdrawn>>

-----------------------------------------------------------------------------
(* GET /logout and /oidc/logout                                            *)

\* The authorizations of a user that have been exchanged for tokens.
Exchanged(u) == {family[t] : t \in {t \in Token \cap Minted : row[t].user = u}}

\* The session row names the user; expiry is not asked for.
StartLogout(w, s) ==
  /\ s \in sso
  /\ Begin(w, [Resting EXCEPT !.pc = "dropTokens", !.user = sessRow[s].user,
                              !.sid = s])
  /\ UNCHANGED <<vars, sso, sessRow, consents, approved, signedOut, withdrawn>>

\* /oidc/logout without a session row: the user is the sub of an id_token_hint,
\* which some exchange of the user's has returned.
StartHintedLogout(w, t) ==
  /\ t \in Minted
  /\ Begin(w, [Resting EXCEPT !.pc = "dropTokens", !.user = row[t].user])
  /\ UNCHANGED <<vars, sso, sessRow, consents, approved, signedOut, withdrawn>>

\* DELETE FROM app_sessions WHERE user_id.  /oidc/logout goes on when it throws.
LogoutTokens(w) ==
  LET f == flow[w] IN
  /\ f.pc = "dropTokens"
  /\ \/ /\ DeleteUserSessions(f.user) /\ StoreOnly
        /\ signedOut' = signedOut \cup Exchanged(f.user)
     \/ UNCHANGED <<vars, signedOut>>
  /\ IF f.sid = None THEN Respond(w) ELSE Proceed(w, "dropSession")
  /\ UNCHANGED <<sso, sessRow, consents, approved, withdrawn>>

\* DELETE FROM sessions WHERE id
LogoutSession(w) ==
  /\ flow[w].pc = "dropSession"
  /\ sso' = sso \ {flow[w].sid}
  /\ Respond(w)
  /\ UNCHANGED <<vars, sessRow, consents, approved, signedOut, withdrawn>>

-----------------------------------------------------------------------------
(* POST /account/revoke-consent: three statements, not a batch             *)

CodesOf(u, a) == {c \in Code \cap Minted : row[c].user = u /\ row[c].app = a}

StartRevokeConsent(w, s, a) ==
  LET u == sessRow[s].user IN
  /\ SignedIn(s)
  /\ Begin(w, [Resting EXCEPT !.pc = "dropConsent", !.user = u, !.app = a])
  /\ UNCHANGED <<vars, sso, sessRow, consents, approved, signedOut, withdrawn>>

DropConsent(w) ==
  /\ flow[w].pc = "dropConsent"
  /\ consents' = [consents EXCEPT ![flow[w].user][flow[w].app] = None]
  /\ Proceed(w, "dropGrant")
  /\ UNCHANGED <<vars, sso, sessRow, approved, signedOut, withdrawn>>

DropGrantSessions(w) ==
  /\ flow[w].pc = "dropGrant"
  /\ DeleteGrantSessions(flow[w].user, flow[w].app) /\ StoreOnly
  /\ Proceed(w, "dropCodes")
  /\ UNCHANGED <<sso, sessRow, consents, approved, signedOut, withdrawn>>

DropGrantCodes(w) ==
  /\ flow[w].pc = "dropCodes"
  /\ DeleteGrantCodes(flow[w].user, flow[w].app) /\ StoreOnly
  /\ withdrawn' = withdrawn \cup CodesOf(flow[w].user, flow[w].app)
  /\ Respond(w)
  /\ UNCHANGED <<sso, sessRow, consents, approved, signedOut>>

\* The request stops between two statements.
AbortFlow(w) ==
  /\ flow[w] # Resting
  /\ Respond(w)
  /\ UNCHANGED <<vars, sso, sessRow, consents, approved, signedOut, withdrawn>>

-----------------------------------------------------------------------------
(* Other handlers                                                          *)

\* The password handlers delete the user's sessions (/change-password keeps its
\* own) and then, in a statement of its own, the user's rows of app_sessions.
EndSsoSessions(u, kept) ==
  /\ sso' = {s \in sso : sessRow[s].user # u \/ s \in kept}
  /\ UNCHANGED <<vars, sessRow, consents, flow, approved, signedOut, withdrawn>>

EndUserTokens(u) ==
  /\ DeleteUserSessions(u) /\ StoreOnly
  /\ UNCHANGED pvars

\* /admin/users/delete also deletes the user's rows of sessions; consents stay.
RemoveUser(u) ==
  /\ DeleteUser(u)
  /\ sso' = {s \in sso : sessRow[s].user # u}
  /\ UNCHANGED <<sessRow, consents, flow, approved, signedOut, withdrawn>>

StoreStep ==
  /\ \/ \E p \in Proc : RequestStep(p)
     \/ \E a \in App : DeleteApp(a)
     \/ \E u \in User, a \in App : TogglePermission(u, a)
     \/ Tick
  /\ UNCHANGED pvars

-----------------------------------------------------------------------------
FlowStep(w) ==
  \/ \E u \in User : StartLogin(w, u)
  \/ CreateSession(w)
  \/ \E s \in Session, a \in App, scope \in Scopes : StartAuthorize(w, s, a, scope)
  \/ CheckGate(w) \/ CheckConsent(w) \/ RecordConsent(w) \/ EmitCode(w)
  \/ \E s \in Session : StartLogout(w, s)
  \/ \E t \in Token : StartHintedLogout(w, t)
  \/ LogoutTokens(w) \/ LogoutSession(w)
  \/ \E s \in Session, a \in App : StartRevokeConsent(w, s, a)
  \/ DropConsent(w) \/ DropGrantSessions(w) \/ DropGrantCodes(w)
  \/ AbortFlow(w)

ProviderNext ==
  \/ \E w \in Web : FlowStep(w)
  \/ \E u \in User : RemoveUser(u) \/ EndUserTokens(u)
  \/ \E u \in User, kept \in SUBSET Session : Cardinality(kept) < 2 /\ EndSsoSessions(u, kept)
  \/ StoreStep

ProviderSpec == ProviderInit /\ [][ProviderNext]_<<vars, pvars>>

-----------------------------------------------------------------------------
(* Properties                                                              *)

\* Whatever has been revoked, replaced, rotated or raced since: one approval of
\* the user covers the whole scope of every code and token ever issued.
ScopeApproved ==
  \A x \in Minted : \E s \in Scopes :
    <<row[x].user, row[x].app, s>> \in approved /\ row[x].scope \subseteq s

\* What a session of the user says of the login it began with.
LoginSaid(u, at) ==
  \E s \in Session :
    sessRow[s] # None /\ sessRow[s].user = u /\ sessRow[s].authTime = at

\* The moment the first token of its authorization was inserted.
DatedByExchange(x) ==
  \E t \in Token \cap Minted :
    parent[t] = family[x] /\ row[t].expires = row[x].authTime + AccessTTL

\* auth_time of every code and token is what a session of that user says of its
\* login, not the moment of some redirect, exchange or refresh.  The exception is
\* a session older than the column, which says NULL: its codes carry NULL on, and
\* their tokens, however often refreshed, the moment of the first exchange.
AuthTimeGenuine ==
  \A x \in Minted :
    LET at == row[FamilyOf(x)].authTime IN
    /\ LoginSaid(row[x].user, at)
    /\ IF x \in Token /\ at = None THEN DatedByExchange(x) ELSE row[x].authTime = at

\* What the comment at /oidc/logout says: after a logout has deleted the user's
\* rows of app_sessions, the authorizations behind them hold no session.
LogoutEndsTokens == \A t \in appSessions : family[t] \notin signedOut

\* What the comment in /account/revoke-consent says: once it has answered, no
\* authorization the user had given the app before has a session.
RevocationEndsTokens == \A t \in appSessions : family[t] \notin withdrawn
=============================================================================
