----------------------------- MODULE Accounts -----------------------------
(***************************************************************************)
(* Passwords, the second factor, password resets and invitations: the       *)
(* tables users, sessions, password_resets and invitations, with every      *)
(* handler that writes a password, a second factor or a login session.      *)
(* A request is a process; one awaited D1 statement is one action.          *)
(*                                                                         *)
(* Attempts refused by the rate limiter change nothing here (RateLimiter).  *)
(* The statements of these handlers on app_sessions are in OidcProvider.    *)
(* A wrong password, code or token is answered at once and is no action.    *)
(***************************************************************************)
EXTENDS Naturals

CONSTANTS
  User,       \* ids randomUUID may draw for rows of users
  Email,      \* addresses, compared without case in the code
  Password,   \* passwords; nobody sets one that was set before
  Secret,     \* secrets of a second factor
  Session,    \* ids of rows of sessions
  Reset,      \* ids of rows of password_resets
  Invite,     \* ids of rows of invitations
  Proc,       \* concurrent requests
  SsoTTL,     \* life of a session (86400 s)
  PreTTL,     \* life of the cookie between password and code (300 s)
  MailTTL,    \* life of a reset (3600 s) or an invitation (604800 s)
  Latency,    \* a request takes at most so long
  MaxTime,    \* bound: seconds
  None

Time == 0..MaxTime
Factor == [secret : Secret, sealed : BOOLEAN]
Row == [email : Email, pw : Password, cost : {"old", "current"},
        totp : Factor \cup {None}]
LoginRow == [user : User, authTime : Time, basis : Password, factor : BOOLEAN]
Cookie == [user : User, exp : Nat, basis : Password]
Mail == [user : User, exp : Nat]
Invitation == [email : Email, exp : Nat]

ASSUME AccountsConstantsOK ==
  /\ SsoTTL \in Nat /\ PreTTL \in Nat /\ MailTTL \in Nat /\ Latency \in Nat
  /\ MaxTime \in Nat
  /\ None \notin Row /\ None \notin Factor /\ None \notin LoginRow
  /\ None \notin Mail /\ None \notin Invitation
  /\ None \notin User \cup Email \cup Password \cup Secret \cup Session
               \cup Reset \cup Invite

VARIABLES
  now,       \* Date.now() in seconds
  users,     \* rows of users
  sessions,  \* rows of sessions
  pre,       \* pre_2fa_token cookies in browsers (a JWT: no row)
  resets,    \* rows of password_resets
  invites,   \* rows of invitations
  req,       \* progress of each request
  past,      \* history of each account, see Past
  claims     \* history: how often a reset was used

rows == <<users, sessions, pre, resets, invites>>
avars == <<now, rows, req, past, claims>>

Resting == [pc |-> "idle", user |-> None, email |-> None, pw |-> None, totp |-> None,
            sid |-> None, basis |-> None, since |-> 0]

Request ==
  [pc : {"idle", "rehash", "admit", "seal", "insert", "enable", "disable", "set",
         "dropSessions", "accept", "dropInvite"},
   user : User \cup {None}, email : Email \cup {None}, pw : Password \cup {None},
   totp : Factor \cup {None}, sid : Session \cup Invite \cup {None},
   basis : Password \cup {None}, since : Time]

\* pw, totp: the last values an owner set; setAt, enabledAt: when;
\* wasOld, wasPlain: the hash or secret was once stored in an older form;
\* cut: the request that set pw stopped before it deleted the sessions
Past == [pw : Password, totp : Secret \cup {None}, setAt : Time, enabledAt : Time,
         wasOld : BOOLEAN, wasPlain : BOOLEAN, cut : BOOLEAN]

AccountsTypeOK ==
  /\ now \in Time
  /\ users \in [User -> Row \cup {None}]
  /\ sessions \in [Session -> LoginRow \cup {None}]
  /\ pre \subseteq Cookie
  /\ resets \in [Reset -> Mail \cup {None}]
  /\ invites \in [Invite -> Invitation \cup {None}]
  /\ req \in [Proc -> Request]
  /\ past \in [User -> Past \cup {None}]
  /\ claims \in [Reset -> Nat]

Exists(u) == users[u] # None

\* What past[u] is when an account appears with row r.
Fresh(r) == [pw |-> r.pw, totp |-> IF r.totp = None THEN None ELSE r.totp.secret,
             setAt |-> now, enabledAt |-> now, wasOld |-> r.cost = "old",
             wasPlain |-> r.totp # None /\ ~r.totp.sealed, cut |-> FALSE]

\* The tables as an installation may have them: some accounts, some of them with a
\* hash of a lower cost or a second factor stored before secrets were encrypted.
AccountsInit ==
  /\ now = 0
  /\ users \in [User -> Row \cup {None}]
  /\ \A u, v \in User : (u # v /\ Exists(u) /\ Exists(v)) => users[u].email # users[v].email
  /\ past = [u \in User |-> IF Exists(u) THEN Fresh(users[u]) ELSE None]
  /\ sessions = [s \in Session |-> None]
  /\ pre = {}
  /\ resets = [r \in Reset |-> None]
  /\ invites = [i \in Invite |-> None]
  /\ req = [p \in Proc |-> Resting]
  /\ claims = [r \in Reset |-> 0]

Begin(p, r) == req[p] = Resting /\ req' = [req EXCEPT ![p] = [r EXCEPT !.since = now]]
Proceed(p, l) == req' = [req EXCEPT ![p].pc = l]
Respond(p) == req' = [req EXCEPT ![p] = Resting]

\* getUser: the session has not expired and its user exists
SignedIn(s) ==
  /\ sessions[s] # None
  /\ now < sessions[s].authTime + SsoTTL
  /\ Exists(sessions[s].user)

\* Nobody sets a password that somebody has already set.
New(pw) ==
  /\ \A u \in User : Exists(u) => pw # past[u].pw /\ pw # users[u].pw
  /\ \A s \in Session : sessions[s] # None => pw # sessions[s].basis
  /\ \A c \in pre : pw # c.basis
  /\ \A q \in Proc : pw # req[q].pw /\ pw # req[q].basis

\* Ids are random and never drawn twice; one that nothing refers to is as good as new.
Drawn(i) == \A q \in Proc : req[q].sid # i

-----------------------------------------------------------------------------
(* POST /login                                                             *)

\* SELECT the user and verify the password against the hash read
StartLogin(p, u) ==
  /\ Exists(u)
  /\ Begin(p, [Resting EXCEPT
       !.pc = IF users[u].cost = "old" THEN "rehash" ELSE "admit",
       !.user = u, !.pw = users[u].pw, !.totp = users[u].totp, !.basis = users[u].pw])
  /\ UNCHANGED <<now, rows, past, claims>>

\* UPDATE users SET ... WHERE id = ?: no row, no change
Update(u, r) == IF Exists(u) THEN [users EXCEPT ![u] = r] ELSE users

RehashAll(p) ==
  /\ req[p].pc \in {"rehash", "admit"}
  /\ users' = Update(req[p].user, [users[req[p].user] EXCEPT !.pw = req[p].pw,
                                                             !.cost = "current"])
  /\ Proceed(p, "admit")
  /\ UNCHANGED <<now, sessions, pre, resets, invites, past, claims>>

\* UPDATE users SET password_hash: the same password at the current cost
Rehash(p) ==
  /\ req[p].pc = "rehash"
  /\ users' = Update(req[p].user, [users[req[p].user] EXCEPT !.pw = req[p].pw,
                                                             !.cost = "current"])
  /\ Proceed(p, "admit")
  /\ UNCHANGED <<now, sessions, pre, resets, invites, past, claims>>

\* createSession: INSERT INTO sessions
InsertSession(u, basis, factor) ==
  \E s \in Session :
    /\ sessions[s] = None /\ Drawn(s)
    /\ sessions' = [sessions EXCEPT ![s] = [user |-> u, authTime |-> now,
                                            basis |-> basis, factor |-> factor]]

AdmitAll(p) ==
  /\ req[p].pc = "admit"
  /\ InsertSession(req[p].user, req[p].basis, FALSE)
  /\ Respond(p)
  /\ UNCHANGED <<now, users, pre, resets, invites, past, claims>>

\* Without a second factor (in the row read) the user is signed in.
Admit(p) ==
  /\ req[p].pc = "admit" /\ req[p].totp = None
  /\ InsertSession(req[p].user, req[p].basis, FALSE)
  /\ Respond(p)
  /\ UNCHANGED <<now, users, pre, resets, invites, past, claims>>

\* With one, the browser gets a signed cookie and is sent to /login/2fa.
AskCode(p) ==
  /\ req[p].pc = "admit" /\ req[p].totp # None
  /\ pre' = pre \cup {[user |-> req[p].user, exp |-> now + PreTTL, basis |-> req[p].basis]}
  /\ Respond(p)
  /\ UNCHANGED <<now, users, sessions, resets, invites, past, claims>>

-----------------------------------------------------------------------------
(* POST /login/2fa                                                         *)

LateCode(p, c) ==
  /\ c \in pre
  /\ Exists(c.user) /\ users[c.user].totp # None
  /\ Begin(p, [Resting EXCEPT
       !.pc = IF users[c.user].totp.sealed THEN "insert" ELSE "seal",
       !.user = c.user, !.totp = users[c.user].totp, !.basis = c.basis])
  /\ UNCHANGED <<now, rows, past, claims>>

\* The cookie is valid, the user has a second factor and the code is right.
StartCode(p, c) ==
  /\ c \in pre /\ now < c.exp
  /\ Exists(c.user) /\ users[c.user].totp # None
  /\ Begin(p, [Resting EXCEPT
       !.pc = IF users[c.user].totp.sealed THEN "insert" ELSE "seal",
       !.user = c.user, !.totp = users[c.user].totp, !.basis = c.basis])
  /\ UNCHANGED <<now, rows, past, claims>>

\* Lazy migration: UPDATE users SET two_factor_secret to the secret read, encrypted
Seal(p) ==
  /\ req[p].pc = "seal"
  /\ users' = Update(req[p].user, [users[req[p].user] EXCEPT
                       !.totp = [req[p].totp EXCEPT !.sealed = TRUE]])
  /\ Proceed(p, "insert")
  /\ UNCHANGED <<now, sessions, pre, resets, invites, past, claims>>

\* createSession, then the browser drops the cookie it presented
AdmitCode(p) ==
  /\ req[p].pc = "insert"
  /\ InsertSession(req[p].user, req[p].basis, TRUE)
  /\ \E used \in SUBSET {c \in pre : c.user = req[p].user} : pre' = pre \ used
  /\ Respond(p)
  /\ UNCHANGED <<now, users, resets, invites, past, claims>>

-----------------------------------------------------------------------------
(* POST /user/2fa/setup and /user/2fa/disable                              *)

StartEnable(p, s, x) ==
  /\ SignedIn(s)
  /\ Begin(p, [Resting EXCEPT !.pc = "enable", !.user = sessions[s].user,
                              !.totp = [secret |-> x, sealed |-> TRUE]])
  /\ UNCHANGED <<now, rows, past, claims>>

\* disable verifies the password against the row read
StartDisable(p, s) ==
  /\ SignedIn(s)
  /\ Begin(p, [Resting EXCEPT !.pc = "disable", !.user = sessions[s].user])
  /\ UNCHANGED <<now, rows, past, claims>>

\* UPDATE users SET two_factor_secret
StoreFactor(p) ==
  /\ req[p].pc \in {"enable", "disable"}
  /\ users' = Update(req[p].user, [users[req[p].user] EXCEPT !.totp = req[p].totp])
  /\ LET u == req[p].user IN
     past' = IF ~Exists(u) THEN past
             ELSE IF req[p].totp = None THEN [past EXCEPT ![u] = [past[u] EXCEPT !.totp = None]]
             ELSE [past EXCEPT ![u] = [past[u] EXCEPT !.totp = req[p].totp.secret,
                                                      !.enabledAt = now]]
  /\ Respond(p)
  /\ UNCHANGED <<now, sessions, pre, resets, invites, claims>>

-----------------------------------------------------------------------------
(* POST /change-password, /forgot-password and /reset-password             *)

\* The current password is verified against the row read with the session.
StartChange(p, s, pw) ==
  /\ SignedIn(s) /\ New(pw)
  /\ Begin(p, [Resting EXCEPT !.pc = "set", !.user = sessions[s].user, !.pw = pw, !.sid = s])
  /\ UNCHANGED <<now, rows, past, claims>>

AskResetByEmail(u) ==
  /\ Exists(u)
  /\ \E r \in Reset :
       /\ resets[r] = None /\ claims[r] = 0
       /\ resets' = [resets EXCEPT ![r] = [user |-> users[u].email, exp |-> now + MailTTL]]
  /\ UNCHANGED <<now, users, sessions, pre, invites, req, past, claims>>

\* SELECT the user, INSERT INTO password_resets.  A row for a user deleted between
\* the two could never set anything and is left out.
AskReset(u) ==
  /\ Exists(u)
  /\ \E r \in Reset :
       /\ resets[r] = None /\ claims[r] = 0
       /\ resets' = [resets EXCEPT ![r] = [user |-> u, exp |-> now + MailTTL]]
  /\ UNCHANGED <<now, users, sessions, pre, invites, req, past, claims>>

ReadReset(p, r, pw) ==
  /\ resets[r] # None /\ New(pw) /\ now < resets[r].exp
  /\ Begin(p, [Resting EXCEPT !.pc = "set", !.user = resets[r].user, !.pw = pw])
  /\ claims' = [claims EXCEPT ![r] = @ + 1]
  /\ UNCHANGED <<now, rows, past>>

\* DELETE FROM password_resets WHERE token = ? AND expires_at > ? RETURNING user_id
ClaimReset(p, r, pw) ==
  /\ resets[r] # None /\ New(pw) /\ now < resets[r].exp
  /\ resets' = [resets EXCEPT ![r] = None]
  /\ claims' = [claims EXCEPT ![r] = @ + 1]
  /\ Begin(p, [Resting EXCEPT !.pc = "set", !.user = resets[r].user, !.pw = pw])
  /\ UNCHANGED <<now, users, sessions, pre, invites, past>>

\* UPDATE users SET password_hash.  The session of a change counts as one of the
\* new password from here on.
SetPassword(p) ==
  /\ req[p].pc = "set"
  /\ users' = Update(req[p].user, [users[req[p].user] EXCEPT !.pw = req[p].pw,
                                                             !.cost = "current"])
  /\ LET u == req[p].user IN
     past' = IF ~Exists(u) THEN past
             ELSE [past EXCEPT ![u] = [past[u] EXCEPT !.pw = req[p].pw, !.setAt = now,
                                                      !.cut = FALSE]]
  /\ sessions' = [s \in Session |->
       IF s = req[p].sid /\ sessions[s] # None
       THEN [sessions[s] EXCEPT !.basis = req[p].pw] ELSE sessions[s]]
  /\ Proceed(p, "dropSessions")
  /\ UNCHANGED <<now, pre, resets, invites, claims>>

\* The password p has set is still the last one set.
Latest(p) == Exists(req[p].user) /\ past[req[p].user].pw = req[p].pw

SessionsOf(u) == {s \in Session : sessions[s] # None /\ sessions[s].user = u}

\* DELETE FROM sessions WHERE user_id = ? (AND id != ?, when a password is changed)
DropSessions(p) ==
  /\ req[p].pc = "dropSessions"
  /\ sessions' = [s \in Session |->
       IF s \in SessionsOf(req[p].user) /\ s # req[p].sid THEN None ELSE sessions[s]]
  /\ Respond(p)
  /\ UNCHANGED <<now, users, pre, resets, invites, past, claims>>

-----------------------------------------------------------------------------
(* POST /signup, /admin/invite and /invite                                 *)

\* INSERT INTO users; UNIQUE(email) makes it fail for a known address
Enrol(e, pw) ==
  /\ \A u \in User : Exists(u) => users[u].email # e
  /\ \E u \in User :
       /\ ~Exists(u) /\ SessionsOf(u) = {}
       /\ \A c \in pre : c.user # u
       /\ \A q \in Proc : req[q].user # u
       /\ LET r == [email |-> e, pw |-> pw, cost |-> "current", totp |-> None]
          IN  users' = [users EXCEPT ![u] = r] /\ past' = [past EXCEPT ![u] = Fresh(r)]

SignUp(e, pw) ==
  /\ New(pw) /\ Enrol(e, pw)
  /\ UNCHANGED <<now, sessions, pre, resets, invites, req, claims>>

\* INSERT INTO invitations
SendInvite(e) ==
  /\ \E i \in Invite :
       /\ invites[i] = None /\ Drawn(i)
       /\ invites' = [invites EXCEPT ![i] = [email |-> e, exp |-> now + MailTTL]]
  /\ UNCHANGED <<now, users, sessions, pre, resets, req, past, claims>>

\* SELECT FROM invitations
StartAccept(p, i, pw) ==
  /\ invites[i] # None /\ now < invites[i].exp /\ New(pw)
  /\ Begin(p, [Resting EXCEPT !.pc = "accept", !.email = invites[i].email,
                              !.pw = pw, !.sid = i])
  /\ UNCHANGED <<now, rows, past, claims>>

InsertInvited(p) ==
  /\ req[p].pc = "accept"
  /\ Enrol(req[p].email, req[p].pw)
  /\ Proceed(p, "dropInvite")
  /\ UNCHANGED <<now, sessions, pre, resets, invites, claims>>

\* DELETE FROM invitations WHERE id = ?
DropInvite(p) ==
  /\ req[p].pc = "dropInvite"
  /\ invites' = [invites EXCEPT ![req[p].sid] = None]
  /\ Respond(p)
  /\ UNCHANGED <<now, users, sessions, pre, resets, past, claims>>

-----------------------------------------------------------------------------
(* Everything else                                                         *)

\* GET /logout: DELETE FROM sessions WHERE id = ?
Logout(s) ==
  /\ sessions[s] # None
  /\ sessions' = [sessions EXCEPT ![s] = None]
  /\ UNCHANGED <<now, users, pre, resets, invites, req, past, claims>>

\* POST /admin/users/delete: one batch.  Invitations are deleted by their sender, who
\* is not in the model, so any may go.
DeleteUser(u) ==
  /\ Exists(u)
  /\ users' = [users EXCEPT ![u] = None]
  /\ past' = [past EXCEPT ![u] = None]
  /\ sessions' = [s \in Session |-> IF s \in SessionsOf(u) THEN None ELSE sessions[s]]
  /\ resets' = [r \in Reset |->
       IF resets[r] # None /\ resets[r].user = u THEN None ELSE resets[r]]
  /\ \E gone \in SUBSET Invite :
       invites' = [i \in Invite |-> IF i \in gone THEN None ELSE invites[i]]
  /\ UNCHANGED <<now, pre, req, claims>>

\* A statement throws, the isolate is evicted, or INSERT INTO users finds the address
\* taken.
Abort(p) ==
  /\ req[p] # Resting
  /\ past' = IF req[p].pc = "dropSessions" /\ Latest(p)
             THEN [past EXCEPT ![req[p].user].cut = TRUE] ELSE past
  /\ Respond(p)
  /\ UNCHANGED <<now, rows, claims>>

\* No request outlives Latency.
Tick ==
  /\ now < MaxTime
  /\ \A p \in Proc : req[p] # Resting => now < req[p].since + Latency
  /\ now' = now + 1
  /\ UNCHANGED <<rows, req, past, claims>>

Step(p) ==
  \/ \E u \in User : StartLogin(p, u)
  \/ Rehash(p) \/ Admit(p) \/ AskCode(p)
  \/ \E c \in pre : StartCode(p, c)
  \/ Seal(p) \/ AdmitCode(p)
  \/ \E s \in Session, x \in Secret : StartEnable(p, s, x)
  \/ \E s \in Session : StartDisable(p, s)
  \/ StoreFactor(p)
  \/ \E s \in Session, pw \in Password : StartChange(p, s, pw)
  \/ \E r \in Reset, pw \in Password : ClaimReset(p, r, pw)
  \/ SetPassword(p) \/ DropSessions(p)
  \/ \E i \in Invite, pw \in Password : StartAccept(p, i, pw)
  \/ InsertInvited(p) \/ DropInvite(p) \/ Abort(p)

AccountsNext ==
  \/ \E p \in Proc : Step(p)
  \/ \E u \in User : AskReset(u) \/ DeleteUser(u)
  \/ \E e \in Email : SendInvite(e) \/ (\E pw \in Password : SignUp(e, pw))
  \/ \E s \in Session : Logout(s)
  \/ Tick

AccountsSpec == AccountsInit /\ [][AccountsNext]_avars

-----------------------------------------------------------------------------
(* A mailed reset sets at most one password, however many requests present  *)
(* it at the same time.                                                     *)
ResetOnce == \A r \in Reset : claims[r] <= 1

(* The password and the second factor in force are the last ones their      *)
(* owner set.  Only an account once stored with an older hash or a plain    *)
(* secret can fall back, because the upgrade at login writes what it read.  *)
SettingsKept ==
  \A u \in User : Exists(u) =>
    /\ users[u].pw = past[u].pw \/ past[u].wasOld
    /\ \/ users[u].totp = None /\ past[u].totp = None
       \/ users[u].totp # None /\ users[u].totp.secret = past[u].totp
       \/ past[u].wasPlain

Changing(u) == \E p \in Proc : req[p].pc = "dropSessions" /\ req[p].user = u

(* Once a change or reset of a password has been answered, the sessions of  *)
(* earlier passwords are gone, except those of logins that were under way:  *)
(* none of these begins later than PreTTL + 2 * Latency after the change.   *)
StaleAccessBounded ==
  \A s \in Session :
    LET u == sessions[s].user IN
    (sessions[s] # None /\ Exists(u) /\ sessions[s].basis # past[u].pw)
      => \/ Changing(u) \/ past[u].cut \/ past[u].wasOld
         \/ /\ sessions[s].authTime >= past[u].setAt
            /\ sessions[s].authTime <= past[u].setAt + PreTTL + 2 * Latency

(* While an account has a second factor, nobody signs in with the password  *)
(* alone, except by a login under way when the factor was enabled.          *)
FactorAsked ==
  \A s \in Session :
    LET u == sessions[s].user IN
    (sessions[s] # None /\ Exists(u) /\ ~sessions[s].factor /\ users[u].totp # None)
      => past[u].wasPlain \/ sessions[s].authTime <= past[u].enabledAt + Latency
=============================================================================
