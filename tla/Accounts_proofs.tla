--------------------------- MODULE Accounts_proofs ---------------------------
(***************************************************************************)
(* What module Accounts claims, for any users, sessions and lifetimes and   *)
(* any number of concurrent requests, and what the limiter in front of its  *)
(* endpoints claims, for any limit, window and keys.                        *)
(***************************************************************************)
EXTENDS Accounts, RateLimiter, TLAPS

-----------------------------------------------------------------------------
(* Requests                                                                *)

\* The assumptions on the constants, one conjunct each.
LEMMA AccountsConstantFacts ==
  /\ SsoTTL \in Nat /\ PreTTL \in Nat /\ MailTTL \in Nat /\ Latency \in Nat /\ MaxTime \in Nat
  /\ None \notin Row /\ None \notin Factor /\ None \notin LoginRow
  /\ None \notin Mail /\ None \notin Invitation
  /\ None \notin User /\ None \notin Email /\ None \notin Password /\ None \notin Session
  /\ None \notin Reset /\ None \notin Invite
  BY AccountsConstantsOK DEF AccountsConstantsOK

\* What a request holds where it needs it.
Sound(j) ==
  /\ j.pc \in {"rehash", "admit"} =>
       j.user \in User /\ j.pw \in Password /\ j.basis \in Password
  /\ j.pc \in {"seal", "insert"} =>
       j.user \in User /\ j.basis \in Password /\ j.totp \in Factor
  /\ j.pc = "enable" => j.user \in User /\ j.totp \in Factor /\ j.totp.sealed
  /\ j.pc = "disable" => j.user \in User /\ j.totp = None
  /\ j.pc \in {"set", "dropSessions"} => j.user \in User /\ j.pw \in Password
  /\ j.pc = "accept" => j.email \in Email /\ j.pw \in Password /\ j.sid \in Invite
  /\ j.pc = "dropInvite" => j.sid \in Invite

Typed == AccountsTypeOK /\ \A p \in Proc : Sound(req[p])

\* p's request is now j, the others are what they were.
Put(p, j) ==
  /\ req' \in [Proc -> Request] /\ req'[p] = j /\ Sound(j)
  /\ \A q \in Proc : q # p => req'[q] = req[q]

\* A request p that begins: what it has read.
Begun(p) ==
  /\ UNCHANGED <<now, users, sessions, pre, past>>
  /\ req[p].pc = "idle" /\ Put(p, req'[p])
  /\ req'[p].pc \in {"rehash", "admit", "seal", "insert", "enable", "disable", "set", "accept"}
  /\ req'[p].since = now
  /\ req'[p].pc \in {"rehash", "admit"} =>
       /\ Exists(req'[p].user)
       /\ req'[p].totp = users[req'[p].user].totp /\ req'[p].basis = users[req'[p].user].pw
       /\ req'[p].pc = "rehash" => users[req'[p].user].cost = "old"
  /\ req'[p].pc \in {"seal", "insert"} =>
       /\ \E c \in pre : now < c.exp /\ c.user = req'[p].user /\ c.basis = req'[p].basis
       /\ Exists(req'[p].user) /\ req'[p].totp = users[req'[p].user].totp
       /\ req'[p].pc = "seal" => ~req'[p].totp.sealed
  /\ req'[p].pc = "set" =>
       /\ \A q \in Proc : req'[p].pw # req[q].pw
       /\ req'[p].sid \in Session => sessions[req'[p].sid] # None
                                     /\ sessions[req'[p].sid].user = req'[p].user

LEMMA RestingFits ==
  /\ Resting \in Request /\ Sound(Resting) /\ Resting.pc = "idle"
  /\ Resting.totp = None /\ Resting.sid = None
  BY AccountsConstantFacts DEF Resting, Request, Sound, Time

LEMMA ResponsePut ==
  ASSUME Typed, NEW p \in Proc, Respond(p)
  PROVE  Put(p, Resting)
  BY RestingFits DEF Typed, AccountsTypeOK, Respond, Put

\* A request that goes on keeps all but its place.
LEMMA ProceedPut ==
  ASSUME Typed, NEW p \in Proc,
         NEW l \in {"admit", "insert", "dropSessions", "dropInvite"}, Proceed(p, l),
         l = "admit" => req[p].pc = "rehash", l = "insert" => req[p].pc = "seal",
         l = "dropSessions" => req[p].pc = "set", l = "dropInvite" => req[p].pc = "accept"
  PROVE  /\ Put(p, req'[p]) /\ req'[p].pc = l
         /\ req'[p].user = req[p].user /\ req'[p].pw = req[p].pw /\ req'[p].totp = req[p].totp
         /\ req'[p].sid = req[p].sid /\ req'[p].basis = req[p].basis
         /\ req'[p].since = req[p].since
<1>1. req[p] \in Request /\ Sound(req[p]) /\ req \in [Proc -> Request]
  BY DEF Typed, AccountsTypeOK
<1>2. req' = [req EXCEPT ![p] = [req[p] EXCEPT !.pc = l]]
  BY DEF Proceed
<1> DEFINE j == [req[p] EXCEPT !.pc = l]
<1>3. /\ j \in Request /\ j.pc = l /\ j.user = req[p].user /\ j.pw = req[p].pw
      /\ j.totp = req[p].totp /\ j.sid = req[p].sid /\ j.basis = req[p].basis
      /\ j.since = req[p].since /\ j.email = req[p].email
  BY <1>1 DEF Request
<1> HIDE DEF j
<1>4. Sound(j)
  BY <1>1, <1>3 DEF Sound
<1>5. req'[p] = j /\ req' \in [Proc -> Request] /\ \A q \in Proc : q # p => req'[q] = req[q]
  BY <1>1, <1>2, <1>3 DEF j
<1> QED BY <1>3, <1>4, <1>5 DEF Put

LEMMA BeginPut ==
  ASSUME Typed, NEW p \in Proc, NEW r, Begin(p, r),
         [r EXCEPT !.since = now] \in Request, Sound([r EXCEPT !.since = now])
  PROVE  Put(p, [r EXCEPT !.since = now]) /\ req[p].pc = "idle"
  BY RestingFits DEF Typed, AccountsTypeOK, Begin, Put

Starts(p) ==
  \/ \E u \in User : StartLogin(p, u)
  \/ \E c \in pre : StartCode(p, c)
  \/ \E s \in Session, x \in Secret : StartEnable(p, s, x)
  \/ \E s \in Session : StartDisable(p, s)
  \/ \E s \in Session, pw \in Password : StartChange(p, s, pw)
  \/ \E r \in Reset, pw \in Password : ClaimReset(p, r, pw)
  \/ \E i \in Invite, pw \in Password : StartAccept(p, i, pw)

LEMMA StartsBegin ==
  ASSUME Typed, NEW p \in Proc, Starts(p)
  PROVE  Begun(p)
<1> USE AccountsConstantFacts DEF Typed, AccountsTypeOK
<1>0. now \in Time
  OBVIOUS
<1>1. ASSUME NEW u \in User, StartLogin(p, u) PROVE Begun(p)
  <2> DEFINE l == IF users[u].cost = "old" THEN "rehash" ELSE "admit"
             j == [Resting EXCEPT !.pc = l, !.user = u, !.pw = users[u].pw,
                                  !.totp = users[u].totp, !.basis = users[u].pw]
             k == [j EXCEPT !.since = now]
  <2>1. users[u] \in Row /\ Exists(u) /\ Begin(p, j) /\ UNCHANGED <<now, users, sessions, pre, past>>
    BY <1>1 DEF StartLogin, Exists, rows
  <2>2. /\ k \in Request /\ k.pc = l /\ k.user = u /\ k.pw = users[u].pw
        /\ k.totp = users[u].totp /\ k.basis = users[u].pw /\ k.since = now
    BY <2>1, <1>0 DEF Resting, Request, Row
  <2>3. Sound(k)
    BY <2>1, <2>2 DEF Sound, Row
  <2> HIDE DEF k
  <2>4. Put(p, k) /\ req[p].pc = "idle"
    BY <2>1, <2>2, <2>3, BeginPut DEF k
  <2> QED BY <2>1, <2>2, <2>4 DEF Begun, Put
<1>2. ASSUME NEW c \in pre, StartCode(p, c) PROVE Begun(p)
  <2> DEFINE u == c.user
             l == IF users[u].totp.sealed THEN "insert" ELSE "seal"
             j == [Resting EXCEPT !.pc = l, !.user = u, !.totp = users[u].totp, !.basis = c.basis]
             k == [j EXCEPT !.since = now]
  <2>1. /\ c \in Cookie /\ now < c.exp /\ u \in User /\ c.basis \in Password
        /\ users[u] \in Row /\ Exists(u) /\ Begin(p, j) /\ users[u].totp \in Factor
        /\ UNCHANGED <<now, users, sessions, pre, past>>
    BY <1>2 DEF StartCode, Exists, rows, Cookie, Row
  <2>2. /\ k \in Request /\ k.pc = l /\ k.user = u
        /\ k.totp = users[u].totp /\ k.basis = c.basis /\ k.since = now
    BY <2>1, <1>0 DEF Resting, Request, Row
  <2>3. Sound(k)
    BY <2>1, <2>2 DEF Sound, Row
  <2> HIDE DEF k
  <2>4. Put(p, k) /\ req[p].pc = "idle"
    BY <2>1, <2>2, <2>3, BeginPut DEF k
  <2>5. k.pc = "seal" => ~users[u].totp.sealed
    BY <2>2
  <2> QED BY <2>1, <2>2, <2>4, <2>5 DEF Begun, Put
<1>3. ASSUME NEW s \in Session, NEW x \in Secret, StartEnable(p, s, x) PROVE Begun(p)
  <2> DEFINE j == [Resting EXCEPT !.pc = "enable", !.user = sessions[s].user,
                                  !.totp = [secret |-> x, sealed |-> TRUE]]
             k == [j EXCEPT !.since = now]
  <2>1. /\ sessions[s].user \in User /\ Begin(p, j)
        /\ UNCHANGED <<now, users, sessions, pre, past>>
    BY <1>3 DEF StartEnable, SignedIn, LoginRow, rows
  <2>2. /\ k \in Request /\ k.pc = "enable" /\ k.user \in User /\ k.since = now
        /\ k.totp \in Factor /\ k.totp.sealed
    BY <2>1, <1>0 DEF Resting, Request, Factor
  <2>3. Sound(k)
    BY <2>2 DEF Sound
  <2> HIDE DEF k
  <2>4. Put(p, k) /\ req[p].pc = "idle"
    BY <2>1, <2>2, <2>3, BeginPut DEF k
  <2> QED BY <2>1, <2>2, <2>4 DEF Begun, Put
<1>4. ASSUME NEW s \in Session, StartDisable(p, s) PROVE Begun(p)
  <2> DEFINE j == [Resting EXCEPT !.pc = "disable", !.user = sessions[s].user]
             k == [j EXCEPT !.since = now]
  <2>1. /\ sessions[s].user \in User /\ Begin(p, j)
        /\ UNCHANGED <<now, users, sessions, pre, past>>
    BY <1>4 DEF StartDisable, SignedIn, LoginRow, rows
  <2>2. k \in Request /\ k.pc = "disable" /\ k.user \in User /\ k.since = now /\ k.totp = None
    BY <2>1, <1>0 DEF Resting, Request
  <2>3. Sound(k)
    BY <2>2 DEF Sound
  <2> HIDE DEF k
  <2>4. Put(p, k) /\ req[p].pc = "idle"
    BY <2>1, <2>2, <2>3, BeginPut DEF k
  <2> QED BY <2>1, <2>2, <2>4 DEF Begun, Put
<1>5. ASSUME NEW s \in Session, NEW pw \in Password, StartChange(p, s, pw) PROVE Begun(p)
  <2> DEFINE j == [Resting EXCEPT !.pc = "set", !.user = sessions[s].user, !.pw = pw, !.sid = s]
             k == [j EXCEPT !.since = now]
  <2>1. /\ sessions[s] # None /\ sessions[s].user \in User /\ Begin(p, j)
        /\ UNCHANGED <<now, users, sessions, pre, past>> /\ \A q \in Proc : pw # req[q].pw
    BY <1>5 DEF StartChange, SignedIn, LoginRow, rows, New
  <2>2. /\ k \in Request /\ k.pc = "set" /\ k.user = sessions[s].user /\ k.since = now
        /\ k.pw = pw /\ k.sid = s
    BY <2>1, <1>0 DEF Resting, Request
  <2>3. Sound(k)
    BY <2>1, <2>2 DEF Sound
  <2> HIDE DEF k
  <2>4. Put(p, k) /\ req[p].pc = "idle"
    BY <2>1, <2>2, <2>3, BeginPut DEF k
  <2> QED BY <2>1, <2>2, <2>4 DEF Begun, Put
<1>6. ASSUME NEW r \in Reset, NEW pw \in Password, ClaimReset(p, r, pw) PROVE Begun(p)
  <2> DEFINE j == [Resting EXCEPT !.pc = "set", !.user = resets[r].user, !.pw = pw]
             k == [j EXCEPT !.since = now]
  <2>1. /\ resets[r].user \in User /\ Begin(p, j)
        /\ UNCHANGED <<now, users, sessions, pre, past>> /\ \A q \in Proc : pw # req[q].pw
    BY <1>6 DEF ClaimReset, Mail, New
  <2>2. /\ k \in Request /\ k.pc = "set" /\ k.user = resets[r].user /\ k.since = now
        /\ k.pw = pw /\ k.sid = None
    BY <2>1, <1>0 DEF Resting, Request
  <2>3. Sound(k)
    BY <2>1, <2>2 DEF Sound
  <2> HIDE DEF k
  <2>4. Put(p, k) /\ req[p].pc = "idle"
    BY <2>1, <2>2, <2>3, BeginPut DEF k
  <2> QED BY <2>1, <2>2, <2>4 DEF Begun, Put
<1>7. ASSUME NEW i \in Invite, NEW pw \in Password, StartAccept(p, i, pw) PROVE Begun(p)
  <2> DEFINE j == [Resting EXCEPT !.pc = "accept", !.email = invites[i].email, !.pw = pw, !.sid = i]
             k == [j EXCEPT !.since = now]
  <2>1. /\ invites[i].email \in Email /\ Begin(p, j)
        /\ UNCHANGED <<now, users, sessions, pre, past>>
    BY <1>7 DEF StartAccept, Invitation, rows
  <2>2. /\ k \in Request /\ k.pc = "accept" /\ k.since = now
        /\ k.pw = pw /\ k.sid = i /\ k.email \in Email
    BY <2>1, <1>0 DEF Resting, Request
  <2>3. Sound(k)
    BY <2>2 DEF Sound
  <2> HIDE DEF k
  <2>4. Put(p, k) /\ req[p].pc = "idle"
    BY <2>1, <2>2, <2>3, BeginPut DEF k
  <2> QED BY <2>1, <2>2, <2>4 DEF Begun, Put
<1> QED BY <1>1, <1>2, <1>3, <1>4, <1>5, <1>6, <1>7 DEF Starts

-----------------------------------------------------------------------------
(* What each statement does                                                *)

LEMMA Updated ==
  ASSUME Typed, NEW u \in User, NEW r, Exists(u) => r \in Row, users' = Update(u, r)
  PROVE  /\ users' \in [User -> Row \cup {None}] /\ \A v \in User : v # u => users'[v] = users[v]
         /\ users'[u] = IF Exists(u) THEN r ELSE users[u]
         /\ \A v \in User : Exists(v)' <=> Exists(v)
  BY AccountsConstantFacts DEF Typed, AccountsTypeOK, Update, Exists

LEMMA Rehashes ==
  ASSUME Typed, NEW p \in Proc, Rehash(p)
  PROVE  /\ Put(p, req'[p]) /\ req[p].pc = "rehash" /\ req'[p].pc = "admit"
         /\ req'[p].user = req[p].user /\ req'[p].pw = req[p].pw /\ req'[p].totp = req[p].totp
         /\ req'[p].sid = req[p].sid /\ req'[p].basis = req[p].basis
         /\ req'[p].since = req[p].since
         /\ users' \in [User -> Row \cup {None}] /\ \A v \in User : Exists(v)' <=> Exists(v)
         /\ \A v \in User : v # req[p].user => users'[v] = users[v]
         /\ req[p].user \in User
         /\ Exists(req[p].user) => /\ users'[req[p].user].pw = req[p].pw
                                   /\ users'[req[p].user].cost = "current"
                                   /\ users'[req[p].user].totp = users[req[p].user].totp
         /\ UNCHANGED <<now, sessions, pre, resets, invites, past, claims>>
<1> DEFINE u == req[p].user
           r == [users[u] EXCEPT !.pw = req[p].pw, !.cost = "current"]
<1>1. /\ Proceed(p, "admit") /\ users' = Update(u, r) /\ req[p].pc = "rehash"
      /\ UNCHANGED <<now, sessions, pre, resets, invites, past, claims>>
  BY DEF Rehash
<1>2. Sound(req[p]) /\ u \in User /\ req[p].pw \in Password
  BY <1>1 DEF Typed, Sound
<1>3. Exists(u) => users[u] \in Row
  BY <1>2 DEF Typed, AccountsTypeOK, Exists
<1>4. Exists(u) => r \in Row /\ r.pw = req[p].pw /\ r.cost = "current" /\ r.totp = users[u].totp
  BY <1>2, <1>3 DEF Row
<1> HIDE DEF r
<1>5. /\ users' \in [User -> Row \cup {None}] /\ \A v \in User : v # u => users'[v] = users[v]
      /\ users'[u] = IF Exists(u) THEN r ELSE users[u]
      /\ \A v \in User : Exists(v)' <=> Exists(v)
  BY <1>1, <1>2, <1>4, Updated
<1> QED BY <1>1, <1>2, <1>4, <1>5, ProceedPut

LEMMA Seals ==
  ASSUME Typed, NEW p \in Proc, Seal(p)
  PROVE  /\ Put(p, req'[p]) /\ req[p].pc = "seal" /\ req'[p].pc = "insert"
         /\ req'[p].user = req[p].user /\ req'[p].pw = req[p].pw /\ req'[p].totp = req[p].totp
         /\ req'[p].sid = req[p].sid /\ req'[p].basis = req[p].basis
         /\ req'[p].since = req[p].since
         /\ users' \in [User -> Row \cup {None}] /\ \A v \in User : Exists(v)' <=> Exists(v)
         /\ \A v \in User : v # req[p].user => users'[v] = users[v]
         /\ req[p].user \in User
         /\ Exists(req[p].user) => /\ users'[req[p].user].pw = users[req[p].user].pw
                                   /\ users'[req[p].user].cost = users[req[p].user].cost
                                   /\ users'[req[p].user].totp \in Factor
                                   /\ users'[req[p].user].totp.sealed
         /\ UNCHANGED <<now, sessions, pre, resets, invites, past, claims>>
<1> DEFINE u == req[p].user
           x == [req[p].totp EXCEPT !.sealed = TRUE]
           r == [users[u] EXCEPT !.totp = x]
<1>1. /\ Proceed(p, "insert") /\ users' = Update(u, r) /\ req[p].pc = "seal"
      /\ UNCHANGED <<now, sessions, pre, resets, invites, past, claims>>
  BY DEF Seal
<1>2. Sound(req[p]) /\ u \in User /\ req[p].totp \in Factor
  BY <1>1 DEF Typed, Sound
<1>x. x \in Factor /\ x.sealed
  BY <1>2 DEF Factor
<1> HIDE DEF x
<1>3. Exists(u) => users[u] \in Row
  BY <1>2 DEF Typed, AccountsTypeOK, Exists
<1>4. Exists(u) => r \in Row /\ r.pw = users[u].pw /\ r.cost = users[u].cost /\ r.totp = x
  BY <1>2, <1>3, <1>x DEF Row
<1> HIDE DEF r
<1>5. /\ users' \in [User -> Row \cup {None}] /\ \A v \in User : v # u => users'[v] = users[v]
      /\ users'[u] = IF Exists(u) THEN r ELSE users[u]
      /\ \A v \in User : Exists(v)' <=> Exists(v)
  BY <1>1, <1>2, <1>4, Updated DEF r, x
<1> QED BY <1>1, <1>2, <1>x, <1>4, <1>5, ProceedPut

\* Each account that is there has its history.
Known == \A u \in User : Exists(u) => past[u] \in Past

LEMMA Stores ==
  ASSUME Typed, Known, NEW p \in Proc, StoreFactor(p)
  PROVE  /\ Put(p, Resting) /\ req[p].pc \in {"enable", "disable"} /\ req[p].user \in User
         /\ users' \in [User -> Row \cup {None}] /\ past' \in [User -> Past \cup {None}]
         /\ \A v \in User : Exists(v)' <=> Exists(v)
         /\ \A v \in User : v # req[p].user \/ ~Exists(v) => users'[v] = users[v] /\ past'[v] = past[v]
         /\ Exists(req[p].user) =>
              LET r == users'[req[p].user]
                  h == past[req[p].user]
                  k == past'[req[p].user] IN
              /\ r.pw = users[req[p].user].pw /\ r.cost = users[req[p].user].cost
              /\ r.totp = req[p].totp
              /\ k \in Past /\ k.pw = h.pw /\ k.setAt = h.setAt /\ k.cut = h.cut
              /\ k.wasOld = h.wasOld /\ k.wasPlain = h.wasPlain
              /\ req[p].totp = None => k.totp = None /\ k.enabledAt = h.enabledAt
              /\ req[p].totp # None => k.totp = req[p].totp.secret /\ k.enabledAt = now
                                       /\ req[p].totp \in Factor /\ req[p].totp.sealed
         /\ UNCHANGED <<now, sessions, pre, resets, invites, claims>>
<1> USE AccountsConstantFacts
<1> DEFINE u == req[p].user
           x == req[p].totp
           r == [users[u] EXCEPT !.totp = x]
           k == IF x = None THEN [past[u] EXCEPT !.totp = None]
                ELSE [past[u] EXCEPT !.totp = x.secret, !.enabledAt = now]
<1>1. /\ Respond(p) /\ users' = Update(u, r) /\ req[p].pc \in {"enable", "disable"}
      /\ past' = IF Exists(u) THEN [past EXCEPT ![u] = k] ELSE past
      /\ UNCHANGED <<now, sessions, pre, resets, invites, claims>>
  BY DEF StoreFactor
<1>2. Sound(req[p]) /\ u \in User /\ x \in Factor \cup {None} /\ (x # None => x \in Factor /\ x.sealed)
  BY <1>1 DEF Typed, Sound
<1>3. Exists(u) => users[u] \in Row /\ past[u] \in Past
  BY <1>2 DEF Typed, AccountsTypeOK, Exists, Known
<1>4. Exists(u) => r \in Row /\ r.pw = users[u].pw /\ r.cost = users[u].cost /\ r.totp = x
  BY <1>2, <1>3 DEF Row
<1>t. now \in Time /\ past \in [User -> Past \cup {None}]
  BY DEF Typed, AccountsTypeOK
<1>5. Exists(u) => /\ k \in Past /\ k.pw = past[u].pw /\ k.setAt = past[u].setAt
                   /\ k.cut = past[u].cut /\ k.wasOld = past[u].wasOld
                   /\ k.wasPlain = past[u].wasPlain
                   /\ x = None => k.totp = None /\ k.enabledAt = past[u].enabledAt
                   /\ x # None => k.totp = x.secret /\ k.enabledAt = now
  <2>1. CASE x = None
    BY <2>1, <1>3 DEF Past
  <2>2. CASE x # None
    <3>1. x.secret \in Secret /\ x \in Factor
      BY <2>2, <1>2 DEF Factor
    <3> QED BY <2>2, <3>1, <1>3, <1>t DEF Past
  <2> QED BY <2>1, <2>2
<1> HIDE DEF r, k
<1>6. /\ users' \in [User -> Row \cup {None}] /\ \A v \in User : v # u => users'[v] = users[v]
      /\ users'[u] = IF Exists(u) THEN r ELSE users[u]
      /\ \A v \in User : Exists(v)' <=> Exists(v)
  BY <1>1, <1>2, <1>4, Updated DEF r
<1>7. /\ past' \in [User -> Past \cup {None}]
      /\ \A v \in User : v # u \/ ~Exists(v) => past'[v] = past[v]
      /\ Exists(u) => past'[u] = k
  BY <1>1, <1>2, <1>5, <1>t
<1>8. \A v \in User : v # u \/ ~Exists(v) => users'[v] = users[v]
  BY <1>6
<1>9. Put(p, Resting)
  BY <1>1, ResponsePut
<1> QED BY <1>1, <1>2, <1>4, <1>5, <1>6, <1>7, <1>8, <1>9

LEMMA SetsPassword ==
  ASSUME Typed, Known, NEW p \in Proc, SetPassword(p)
  PROVE  /\ Put(p, req'[p]) /\ req[p].pc = "set" /\ req'[p].pc = "dropSessions"
         /\ req'[p].user = req[p].user /\ req'[p].pw = req[p].pw /\ req'[p].totp = req[p].totp
         /\ req'[p].sid = req[p].sid /\ req'[p].basis = req[p].basis
         /\ req'[p].since = req[p].since
         /\ req[p].user \in User /\ req[p].pw \in Password
         /\ users' \in [User -> Row \cup {None}] /\ past' \in [User -> Past \cup {None}]
         /\ \A v \in User : Exists(v)' <=> Exists(v)
         /\ \A v \in User : v # req[p].user \/ ~Exists(v) => users'[v] = users[v] /\ past'[v] = past[v]
         /\ Exists(req[p].user) =>
              LET r == users'[req[p].user]
                  h == past[req[p].user]
                  k == past'[req[p].user] IN
              /\ r.pw = req[p].pw /\ r.cost = "current" /\ r.totp = users[req[p].user].totp
              /\ k \in Past /\ k.pw = req[p].pw /\ k.setAt = now /\ k.cut = FALSE
              /\ k.wasOld = h.wasOld /\ k.wasPlain = h.wasPlain
              /\ k.totp = h.totp /\ k.enabledAt = h.enabledAt
         /\ sessions' \in [Session -> LoginRow \cup {None}]
         /\ \A s \in Session :
              /\ s # req[p].sid \/ sessions[s] = None => sessions'[s] = sessions[s]
              /\ sessions'[s] # None =>
                   /\ sessions[s] # None /\ sessions'[s].user = sessions[s].user
                   /\ sessions'[s].authTime = sessions[s].authTime
                   /\ sessions'[s].factor = sessions[s].factor
                   /\ s = req[p].sid => sessions'[s].basis = req[p].pw
         /\ UNCHANGED <<now, pre, resets, invites, claims>>
<1> USE AccountsConstantFacts
<1> DEFINE u == req[p].user
           w == req[p].pw
           r == [users[u] EXCEPT !.pw = w, !.cost = "current"]
           k == [past[u] EXCEPT !.pw = w, !.setAt = now, !.cut = FALSE]
<1>1. /\ Proceed(p, "dropSessions") /\ users' = Update(u, r) /\ req[p].pc = "set"
      /\ past' = IF Exists(u) THEN [past EXCEPT ![u] = k] ELSE past
      /\ sessions' = [s \in Session |-> IF s = req[p].sid /\ sessions[s] # None
                                        THEN [sessions[s] EXCEPT !.basis = w] ELSE sessions[s]]
      /\ UNCHANGED <<now, pre, resets, invites, claims>>
  BY DEF SetPassword
<1>2. Sound(req[p]) /\ u \in User /\ w \in Password
  BY <1>1 DEF Typed, Sound
<1>3. Exists(u) => users[u] \in Row /\ past[u] \in Past
  BY <1>2 DEF Typed, AccountsTypeOK, Exists, Known
<1>t. /\ now \in Time /\ past \in [User -> Past \cup {None}]
      /\ sessions \in [Session -> LoginRow \cup {None}]
  BY DEF Typed, AccountsTypeOK
<1>4. Exists(u) => r \in Row /\ r.pw = w /\ r.cost = "current" /\ r.totp = users[u].totp
  BY <1>2, <1>3 DEF Row
<1>5. Exists(u) => /\ k \in Past /\ k.pw = w /\ k.setAt = now /\ k.cut = FALSE
                   /\ k.wasOld = past[u].wasOld /\ k.wasPlain = past[u].wasPlain
                   /\ k.totp = past[u].totp /\ k.enabledAt = past[u].enabledAt
  BY <1>2, <1>3, <1>t DEF Past
<1> HIDE DEF r, k
<1>6. /\ users' \in [User -> Row \cup {None}] /\ \A v \in User : v # u => users'[v] = users[v]
      /\ users'[u] = IF Exists(u) THEN r ELSE users[u]
      /\ \A v \in User : Exists(v)' <=> Exists(v)
  BY <1>1, <1>2, <1>4, Updated DEF r
<1>7. /\ past' \in [User -> Past \cup {None}]
      /\ \A v \in User : v # u \/ ~Exists(v) => past'[v] = past[v]
      /\ Exists(u) => past'[u] = k
  BY <1>1, <1>2, <1>5, <1>t
<1>8. \A v \in User : v # u \/ ~Exists(v) => users'[v] = users[v]
  BY <1>6
<1>9. ASSUME NEW s \in Session
      PROVE  /\ sessions'[s] \in LoginRow \cup {None}
             /\ s # req[p].sid \/ sessions[s] = None => sessions'[s] = sessions[s]
             /\ sessions'[s] # None =>
                  /\ sessions[s] # None /\ sessions'[s].user = sessions[s].user
                  /\ sessions'[s].authTime = sessions[s].authTime
                  /\ sessions'[s].factor = sessions[s].factor
                  /\ s = req[p].sid => sessions'[s].basis = w
  <2>1. CASE s = req[p].sid /\ sessions[s] # None
    <3>1. sessions[s] \in LoginRow /\ sessions'[s] = [sessions[s] EXCEPT !.basis = w]
      BY <2>1, <1>1, <1>t
    <3> QED BY <2>1, <3>1, <1>2 DEF LoginRow
  <2>2. CASE ~(s = req[p].sid /\ sessions[s] # None)
    <3>1. sessions'[s] = sessions[s]
      BY <2>2, <1>1
    <3> QED BY <2>2, <3>1, <1>t
  <2> QED BY <2>1, <2>2
<1>10. sessions' \in [Session -> LoginRow \cup {None}]
  <2>1. sessions' = [s \in Session |-> sessions'[s]]
    BY <1>1
  <2> QED BY <1>9, <2>1
<1>11. /\ Put(p, req'[p]) /\ req'[p].pc = "dropSessions"
       /\ req'[p].user = req[p].user /\ req'[p].pw = req[p].pw /\ req'[p].totp = req[p].totp
       /\ req'[p].sid = req[p].sid /\ req'[p].basis = req[p].basis
       /\ req'[p].since = req[p].since
  BY <1>1, ProceedPut
<1> QED BY <1>1, <1>2, <1>4, <1>5, <1>6, <1>7, <1>8, <1>9, <1>10, <1>11

\* A session row appears, under an id that no request holds.
Opened(u, b, f) ==
  /\ sessions' \in [Session -> LoginRow \cup {None}]
  /\ \E s \in Session :
       /\ sessions[s] = None /\ \A q \in Proc : req[q].sid # s
       /\ sessions'[s] # None /\ sessions'[s].user = u /\ sessions'[s].authTime = now
       /\ sessions'[s].basis = b /\ sessions'[s].factor = f
       /\ \A t \in Session : t # s => sessions'[t] = sessions[t]

LEMMA Opens ==
  ASSUME Typed, NEW u \in User, NEW b \in Password, NEW f \in BOOLEAN, InsertSession(u, b, f)
  PROVE  Opened(u, b, f)
<1> USE AccountsConstantFacts DEF Typed, AccountsTypeOK
<1> DEFINE r == [user |-> u, authTime |-> now, basis |-> b, factor |-> f]
<1>1. PICK s \in Session : /\ sessions[s] = None /\ Drawn(s)
                           /\ sessions' = [sessions EXCEPT ![s] = r]
  BY DEF InsertSession
<1>2. /\ r \in LoginRow /\ r # None /\ r.user = u /\ r.authTime = now /\ r.basis = b
      /\ r.factor = f
  BY DEF LoginRow
<1> HIDE DEF r
<1>3. sessions' \in [Session -> LoginRow \cup {None}]
  BY <1>1, <1>2
<1>4. sessions'[s] = r /\ \A t \in Session : t # s => sessions'[t] = sessions[t]
  BY <1>1
<1> QED BY <1>1, <1>2, <1>3, <1>4 DEF Opened, Drawn

LEMMA Admits ==
  ASSUME Typed, NEW p \in Proc, Admit(p)
  PROVE  /\ Put(p, Resting) /\ req[p].pc = "admit" /\ req[p].totp = None
         /\ req[p].user \in User /\ Opened(req[p].user, req[p].basis, FALSE)
         /\ UNCHANGED <<now, users, pre, resets, invites, past, claims>>
<1>1. req[p].pc = "admit" /\ req[p].user \in User /\ req[p].basis \in Password
  BY DEF Admit, Typed, Sound
<1> QED BY <1>1, Opens, ResponsePut DEF Admit

LEMMA AdmitsCode ==
  ASSUME Typed, NEW p \in Proc, AdmitCode(p)
  PROVE  /\ Put(p, Resting) /\ req[p].pc = "insert"
         /\ req[p].user \in User /\ Opened(req[p].user, req[p].basis, TRUE)
         /\ pre' \subseteq pre
         /\ UNCHANGED <<now, users, resets, invites, past, claims>>
<1>1. req[p].pc = "insert" /\ req[p].user \in User /\ req[p].basis \in Password
  BY DEF AdmitCode, Typed, Sound
<1> QED BY <1>1, Opens, ResponsePut DEF AdmitCode

LEMMA AsksCode ==
  ASSUME Typed, NEW p \in Proc, AskCode(p)
  PROVE  /\ Put(p, Resting) /\ req[p].pc = "admit"
         /\ \E c \in Cookie : /\ pre' = pre \cup {c} /\ c.user = req[p].user
                              /\ c.exp = now + PreTTL /\ c.basis = req[p].basis
         /\ UNCHANGED <<now, users, sessions, resets, invites, past, claims>>
<1> DEFINE c == [user |-> req[p].user, exp |-> now + PreTTL, basis |-> req[p].basis]
<1>1. req[p].pc = "admit" /\ req[p].user \in User /\ req[p].basis \in Password /\ now \in Time
  BY DEF AskCode, Typed, AccountsTypeOK, Sound
<1>2. /\ c \in Cookie /\ c.user = req[p].user /\ c.exp = now + PreTTL /\ c.basis = req[p].basis
  BY <1>1, AccountsConstantFacts DEF Cookie, Time
<1>3. pre' = pre \cup {c}
  BY DEF AskCode
<1> HIDE DEF c
<1> QED BY <1>1, <1>2, <1>3, ResponsePut DEF AskCode

\* An account appears that nothing refers to.
Enrolled(pw) ==
  /\ users' \in [User -> Row \cup {None}] /\ past' \in [User -> Past \cup {None}]
  /\ \E u \in User :
       /\ ~Exists(u) /\ Exists(u)'
       /\ \A s \in Session : sessions[s] # None => sessions[s].user # u
       /\ \A c \in pre : c.user # u
       /\ \A q \in Proc : req[q].user # u
       /\ \A v \in User : v # u => users'[v] = users[v] /\ past'[v] = past[v]
       /\ users'[u].pw = pw /\ users'[u].cost = "current" /\ users'[u].totp = None
       /\ past'[u] \in Past /\ past'[u].pw = pw /\ past'[u].totp = None
       /\ past'[u].setAt = now /\ past'[u].enabledAt = now

LEMMA Enrols ==
  ASSUME Typed, NEW e \in Email, NEW pw \in Password, Enrol(e, pw)
  PROVE  Enrolled(pw)
<1> USE AccountsConstantFacts DEF Typed, AccountsTypeOK
<1> DEFINE r == [email |-> e, pw |-> pw, cost |-> "current", totp |-> None]
<1>1. PICK u \in User :
        /\ ~Exists(u) /\ SessionsOf(u) = {} /\ (\A c \in pre : c.user # u)
        /\ \A q \in Proc : req[q].user # u
        /\ users' = [users EXCEPT ![u] = r] /\ past' = [past EXCEPT ![u] = Fresh(r)]
  BY DEF Enrol
<1>2. r \in Row /\ r.pw = pw /\ r.cost = "current" /\ r.totp = None
  BY DEF Row
<1> DEFINE k == Fresh(r)
<1> HIDE DEF r
<1>3. /\ k \in Past /\ k.pw = pw /\ k.totp = None /\ k.setAt = now /\ k.enabledAt = now
  BY <1>2 DEF Fresh, Past
<1> HIDE DEF k
<1>4. /\ users' \in [User -> Row \cup {None}] /\ past' \in [User -> Past \cup {None}]
      /\ \A v \in User : v # u => users'[v] = users[v] /\ past'[v] = past[v]
      /\ users'[u] = r /\ past'[u] = k
  BY <1>1, <1>2, <1>3 DEF k
<1>5. \A s \in Session : sessions[s] # None => sessions[s].user # u
  BY <1>1 DEF SessionsOf
<1>6. Exists(u)'
  BY <1>2, <1>4 DEF Exists
<1> QED BY <1>1, <1>2, <1>3, <1>4, <1>5, <1>6 DEF Enrolled

\* The steps that leave the accounts, what was read of them and the time alone.
Quiet ==
  /\ UNCHANGED <<now, users, sessions, pre, past>>
  /\ \/ UNCHANGED req
     \/ \E p \in Proc : req[p].pc = "dropInvite" /\ Put(p, Resting)

\* Sessions end.
Ended ==
  /\ sessions' \in [Session -> LoginRow \cup {None}]
  /\ \A s \in Session : sessions'[s] \in {sessions[s], None}

LEMMA Drops ==
  ASSUME Typed, NEW p \in Proc, DropSessions(p)
  PROVE  /\ Put(p, Resting) /\ req[p].pc = "dropSessions" /\ Ended
         /\ \A s \in Session : sessions'[s] # None /\ sessions[s].user = req[p].user => s = req[p].sid
         /\ UNCHANGED <<now, users, pre, resets, invites, past, claims>>
  BY ResponsePut DEF DropSessions, Ended, SessionsOf, Typed, AccountsTypeOK

LEMMA Aborts ==
  ASSUME Typed, Known, NEW p \in Proc, Abort(p)
  PROVE  /\ Put(p, Resting) /\ past' \in [User -> Past \cup {None}]
         /\ \A v \in User :
              \/ past'[v] = past[v]
              \/ /\ Exists(v) /\ past'[v] \in Past /\ past'[v].cut = TRUE
                 /\ past'[v].pw = past[v].pw /\ past'[v].setAt = past[v].setAt
                 /\ past'[v].wasOld = past[v].wasOld /\ past'[v].wasPlain = past[v].wasPlain
                 /\ past'[v].totp = past[v].totp /\ past'[v].enabledAt = past[v].enabledAt
         /\ req[p].pc = "dropSessions" /\ Latest(p) => past'[req[p].user].cut = TRUE
         /\ UNCHANGED <<now, users, sessions, pre, resets, invites, claims>>
<1> DEFINE u == req[p].user
           k == [past[u] EXCEPT !.cut = TRUE]
<1>1. Put(p, Resting)
  BY ResponsePut DEF Abort
<1>2. UNCHANGED <<now, users, sessions, pre, resets, invites, claims>>
  BY DEF Abort, rows
<1>3. past \in [User -> Past \cup {None}]
  BY DEF Typed, AccountsTypeOK
<1>4. CASE req[p].pc = "dropSessions" /\ Latest(p)
  <2>1. u \in User /\ Exists(u)
    BY <1>4 DEF Typed, Sound, Latest
  <2>2. past[u] \in Past
    BY <2>1 DEF Known
  <2>3. /\ k \in Past /\ k.cut = TRUE /\ k.pw = past[u].pw /\ k.setAt = past[u].setAt
        /\ k.wasOld = past[u].wasOld /\ k.wasPlain = past[u].wasPlain
        /\ k.totp = past[u].totp /\ k.enabledAt = past[u].enabledAt
    BY <2>2 DEF Past
  <2>4. past' = [past EXCEPT ![u] = k]
    BY <1>4 DEF Abort
  <2> HIDE DEF k
  <2>5. past'[u] = k /\ past' \in [User -> Past \cup {None}] /\ \A v \in User : v # u => past'[v] = past[v]
    BY <1>3, <2>1, <2>3, <2>4
  <2> QED BY <1>1, <1>2, <2>1, <2>3, <2>5
<1>5. CASE ~(req[p].pc = "dropSessions" /\ Latest(p))
  <2>1. past' = past
    BY <1>5 DEF Abort
  <2> QED BY <1>1, <1>2, <1>3, <1>5, <2>1
<1> QED BY <1>4, <1>5

\* INSERT INTO users, of an invitation or by signing up.
Enrolling ==
  /\ UNCHANGED <<now, sessions, pre>>
  /\ \E pw \in Password :
       /\ Enrolled(pw)
       /\ \/ UNCHANGED req
          \/ \E p \in Proc : /\ Put(p, req'[p]) /\ req[p].pc = "accept" /\ req'[p].pc = "dropInvite"
                             /\ req'[p].since = req[p].since /\ req'[p].pw = req[p].pw

Deleted(u) ==
  /\ users' = [users EXCEPT ![u] = None] /\ past' = [past EXCEPT ![u] = None] /\ Ended
  /\ \A s \in Session : sessions'[s] # None => sessions[s].user # u
  /\ UNCHANGED <<now, pre, req>>

LEMMA AccountsKinds ==
  ASSUME Typed, AccountsNext
  PROVE  \/ \E p \in Proc : \/ Begun(p) \/ Rehash(p) \/ Seal(p) \/ StoreFactor(p) \/ SetPassword(p)
                            \/ Admit(p) \/ AdmitCode(p) \/ AskCode(p) \/ DropSessions(p) \/ Abort(p)
         \/ Enrolling \/ Quiet
         \/ \E u \in User : Deleted(u)
         \/ Ended /\ UNCHANGED <<now, users, pre, req, past>>
         \/ Tick
<1>1. ASSUME NEW p \in Proc, InsertInvited(p) PROVE Enrolling
  <2>1. req[p].pc = "accept" /\ req[p].email \in Email /\ req[p].pw \in Password
    BY <1>1 DEF InsertInvited, Typed, Sound
  <2>2. Enrolled(req[p].pw) /\ UNCHANGED <<now, sessions, pre>>
    BY <1>1, <2>1, Enrols DEF InsertInvited
  <2>3. /\ Put(p, req'[p]) /\ req'[p].pc = "dropInvite" /\ req'[p].since = req[p].since
        /\ req'[p].pw = req[p].pw
    BY <1>1, <2>1, ProceedPut DEF InsertInvited
  <2> QED BY <2>1, <2>2, <2>3 DEF Enrolling
<1>2. ASSUME NEW p \in Proc, DropInvite(p) PROVE Quiet
  BY <1>2, ResponsePut DEF DropInvite, Quiet
<1>3. ASSUME NEW u \in User, AskReset(u) PROVE Quiet
  BY <1>3 DEF AskReset, Quiet
<1>4. ASSUME NEW e \in Email, SendInvite(e) PROVE Quiet
  BY <1>4 DEF SendInvite, Quiet
<1>5. ASSUME NEW e \in Email, NEW pw \in Password, SignUp(e, pw) PROVE Enrolling
  BY <1>5, Enrols DEF SignUp, Enrolling
<1>6. ASSUME NEW u \in User, DeleteUser(u) PROVE Deleted(u)
  BY <1>6 DEF DeleteUser, Deleted, Ended, SessionsOf, Typed, AccountsTypeOK
<1>7. ASSUME NEW s \in Session, Logout(s) PROVE Ended /\ UNCHANGED <<now, users, pre, req, past>>
  BY <1>7 DEF Logout, Ended, Typed, AccountsTypeOK
<1> QED BY <1>1, <1>2, <1>3, <1>4, <1>5, <1>6, <1>7, StartsBegin DEF AccountsNext, Step, Starts

RowsOK ==
  /\ now \in Time /\ users \in [User -> Row \cup {None}]
  /\ sessions \in [Session -> LoginRow \cup {None}] /\ pre \subseteq Cookie
  /\ req \in [Proc -> Request] /\ (\A q \in Proc : Sound(req[q]))
  /\ past \in [User -> Past \cup {None}] /\ Known

LEMMA TypesStep ==
  ASSUME Typed, Known, AccountsNext
  PROVE  RowsOK'
<1> USE DEF RowsOK
<1>t. /\ now \in Time /\ users \in [User -> Row \cup {None}]
      /\ sessions \in [Session -> LoginRow \cup {None}] /\ pre \subseteq Cookie
      /\ req \in [Proc -> Request] /\ (\A q \in Proc : Sound(req[q]))
      /\ past \in [User -> Past \cup {None}] /\ Known
  BY DEF Typed, AccountsTypeOK
<1>p. ASSUME NEW p \in Proc, Put(p, req'[p]) \/ Put(p, Resting)
      PROVE  req' \in [Proc -> Request] /\ \A q \in Proc : Sound(req'[q])
  BY <1>p, <1>t DEF Put
<1>k. ASSUME UNCHANGED <<users, past>> PROVE Known'
  BY <1>k, <1>t DEF Known, Exists
<1>1. ASSUME NEW p \in Proc, Begun(p) PROVE RowsOK'
  BY <1>1, <1>t, <1>p, <1>k DEF Begun
<1>2. ASSUME NEW p \in Proc, Rehash(p) \/ Seal(p) PROVE RowsOK'
  <2>1. /\ users' \in [User -> Row \cup {None}] /\ Put(p, req'[p])
        /\ UNCHANGED <<now, sessions, pre, past>> /\ \A v \in User : Exists(v)' <=> Exists(v)
    BY <1>2, Rehashes, Seals
  <2>2. Known'
    BY <2>1, <1>t DEF Known
  <2> QED BY <2>1, <2>2, <1>t, <1>p
<1>3. ASSUME NEW p \in Proc, StoreFactor(p) PROVE RowsOK'
  <2>1. /\ users' \in [User -> Row \cup {None}] /\ past' \in [User -> Past \cup {None}]
        /\ Put(p, Resting) /\ UNCHANGED <<now, sessions, pre>>
    BY <1>3, Stores
  <2>2. /\ \A v \in User : Exists(v)' <=> Exists(v)
        /\ \A v \in User : v # req[p].user => past'[v] = past[v]
        /\ Exists(req[p].user) => past'[req[p].user] \in Past
    BY <1>3, Stores
  <2>3. Known'
    BY <2>2, <1>t DEF Known
  <2> QED BY <2>1, <2>3, <1>t, <1>p
<1>4. ASSUME NEW p \in Proc, SetPassword(p) PROVE RowsOK'
  <2>1. /\ users' \in [User -> Row \cup {None}] /\ past' \in [User -> Past \cup {None}]
        /\ sessions' \in [Session -> LoginRow \cup {None}]
        /\ Put(p, req'[p]) /\ UNCHANGED <<now, pre>>
    BY <1>4, SetsPassword
  <2>2. /\ \A v \in User : Exists(v)' <=> Exists(v)
        /\ \A v \in User : v # req[p].user => past'[v] = past[v]
        /\ Exists(req[p].user) => past'[req[p].user] \in Past
    BY <1>4, SetsPassword
  <2>3. Known'
    BY <2>2, <1>t DEF Known
  <2> QED BY <2>1, <2>3, <1>t, <1>p
<1>5. ASSUME NEW p \in Proc, Admit(p) PROVE RowsOK'
  BY <1>5, Admits, <1>t, <1>p, <1>k DEF Opened
<1>6. ASSUME NEW p \in Proc, AdmitCode(p) PROVE RowsOK'
  BY <1>6, AdmitsCode, <1>t, <1>p, <1>k DEF Opened
<1>7. ASSUME NEW p \in Proc, AskCode(p) PROVE RowsOK'
  <2>1. Put(p, Resting) /\ UNCHANGED <<now, users, sessions, past>> /\ pre' \subseteq Cookie
    BY <1>7, <1>t, AsksCode
  <2> QED BY <2>1, <1>t, <1>p, <1>k
<1>8. ASSUME NEW p \in Proc, DropSessions(p) PROVE RowsOK'
  BY <1>8, <1>t, <1>p, <1>k, Drops DEF Ended
<1>9. ASSUME NEW p \in Proc, Abort(p) PROVE RowsOK'
  <2>1. /\ Put(p, Resting) /\ past' \in [User -> Past \cup {None}]
        /\ \A v \in User : past'[v] = past[v] \/ past'[v] \in Past
        /\ UNCHANGED <<now, users, sessions, pre>>
    BY <1>9, Aborts
  <2>2. Known'
    BY <2>1, <1>t DEF Known, Exists
  <2> QED BY <2>1, <2>2, <1>t, <1>p
<1>10. CASE Enrolling
  <2>1. PICK pw \in Password : Enrolled(pw)
    BY <1>10 DEF Enrolling
  <2>2. Known'
    BY <2>1, <1>t DEF Known, Enrolled, Exists
  <2>3. req' \in [Proc -> Request] /\ \A q \in Proc : Sound(req'[q])
    BY <1>10, <1>t, <1>p DEF Enrolling
  <2> QED BY <1>10, <1>t, <2>1, <2>2, <2>3 DEF Enrolling, Enrolled
<1>11. CASE Quiet
  BY <1>11, <1>t, <1>p, <1>k DEF Quiet
<1>12. ASSUME NEW u \in User, Deleted(u) PROVE RowsOK'
  <2>1. Known'
    BY <1>12, <1>t DEF Known, Exists, Deleted
  <2> QED BY <1>12, <2>1, <1>t DEF Deleted, Ended
<1>13. CASE Ended /\ UNCHANGED <<now, users, pre, req, past>>
  BY <1>13, <1>t, <1>k DEF Ended
<1>14. CASE Tick
  <2>1. now' \in Time /\ UNCHANGED <<users, sessions, pre, req, past>>
    BY <1>14, <1>t, AccountsConstantFacts DEF Tick, Time, rows
  <2> QED BY <2>1, <1>t, <1>k
<1> HIDE DEF RowsOK
<1>15. ASSUME NEW p \in Proc,
              \/ Begun(p) \/ Rehash(p) \/ Seal(p) \/ StoreFactor(p) \/ SetPassword(p)
              \/ Admit(p) \/ AdmitCode(p) \/ AskCode(p) \/ DropSessions(p) \/ Abort(p)
       PROVE  RowsOK'
  BY <1>15, <1>1, <1>2, <1>3, <1>4, <1>5, <1>6, <1>7, <1>8, <1>9
<1> QED BY <1>10, <1>11, <1>12, <1>13, <1>14, <1>15, AccountsKinds

\* A reset that is there has not been used.
Unspent == \A r \in Reset : resets[r] # None => claims[r] = 0

MailsOK ==
  /\ resets \in [Reset -> Mail \cup {None}] /\ invites \in [Invite -> Invitation \cup {None}]
  /\ claims \in [Reset -> Nat] /\ Unspent /\ ResetOnce

LEMMA MailStep ==
  ASSUME Typed, MailsOK, AccountsNext
  PROVE  MailsOK'
<1> USE AccountsConstantFacts DEF Typed, AccountsTypeOK, Unspent, ResetOnce, MailsOK
<1>t. now \in Time /\ now \in Nat
  BY DEF Time
<1>a. ASSUME UNCHANGED <<resets, invites, claims>> PROVE MailsOK'
  BY <1>a
<1>1. ASSUME NEW p \in Proc, Step(p), ~\E r \in Reset, pw \in Password : ClaimReset(p, r, pw),
             ~DropInvite(p)
      PROVE  MailsOK'
  BY <1>1, <1>a DEF Step, StartLogin, Rehash, Admit, AskCode, StartCode, Seal, AdmitCode, StartEnable,
     StartDisable, StoreFactor, StartChange, SetPassword, DropSessions, StartAccept,
     InsertInvited, Abort, rows
<1>2. ASSUME NEW p \in Proc, NEW r \in Reset, NEW pw \in Password, ClaimReset(p, r, pw) PROVE MailsOK'
  BY <1>2 DEF ClaimReset
<1>3. ASSUME NEW p \in Proc, DropInvite(p) PROVE MailsOK'
  BY <1>3 DEF DropInvite
<1>4. ASSUME NEW u \in User, AskReset(u) PROVE MailsOK'
  <2>1. [user |-> u, exp |-> now + MailTTL] \in Mail
    BY <1>t DEF Mail
  <2> QED BY <1>4, <2>1 DEF AskReset
<1>5. ASSUME NEW u \in User, DeleteUser(u) PROVE MailsOK'
  <2>1. PICK gone \in SUBSET Invite :
          invites' = [i \in Invite |-> IF i \in gone THEN None ELSE invites[i]]
    BY <1>5 DEF DeleteUser
  <2>2. invites' \in [Invite -> Invitation \cup {None}]
    BY <2>1
  <2> QED BY <1>5, <2>2 DEF DeleteUser
<1>6. ASSUME NEW e \in Email, SendInvite(e) PROVE MailsOK'
  <2>1. [email |-> e, exp |-> now + MailTTL] \in Invitation
    BY <1>t DEF Invitation
  <2> QED BY <1>6, <2>1 DEF SendInvite
<1>7. ASSUME NEW e \in Email, NEW pw \in Password, SignUp(e, pw) PROVE MailsOK'
  BY <1>7, <1>a DEF SignUp
<1>8. ASSUME NEW s \in Session, Logout(s) PROVE MailsOK'
  BY <1>8, <1>a DEF Logout
<1>9. CASE Tick
  BY <1>9, <1>a DEF Tick, rows
<1> HIDE DEF Typed, AccountsTypeOK, Unspent, ResetOnce, MailsOK
<1> QED BY <1>1, <1>2, <1>3, <1>4, <1>5, <1>6, <1>7, <1>8, <1>9 DEF AccountsNext

-----------------------------------------------------------------------------
(* Times                                                                   *)

\* No request outlives Latency; nothing that has happened lies in the future.
Clocks ==
  /\ \A p \in Proc : req[p].pc # "idle" => req[p].since <= now /\ now <= req[p].since + Latency
  /\ \A s \in Session : sessions[s] # None => sessions[s].authTime <= now
  /\ \A u \in User : Exists(u) => past[u].setAt <= now /\ past[u].enabledAt <= now
  /\ \A c \in pre : c.exp <= now + PreTTL

LEMMA ClocksStep ==
  ASSUME Typed, RowsOK, Clocks, AccountsNext
  PROVE  Clocks'
<1>t. /\ now \in Nat /\ Latency \in Nat /\ PreTTL \in Nat
      /\ \A p \in Proc : req[p].since \in Nat
      /\ \A s \in Session : sessions[s] # None => sessions[s].authTime \in Nat
      /\ \A u \in User : Exists(u) => past[u].setAt \in Nat /\ past[u].enabledAt \in Nat
      /\ \A c \in pre : c.exp \in Nat
      /\ Resting.pc = "idle" /\ Known
  BY AccountsConstantFacts, RestingFits DEF RowsOK, Known, Time, Request, LoginRow, Past, Cookie
<1> USE <1>t DEF Clocks
<1>a. ASSUME UNCHANGED now, UNCHANGED <<users, past>>, UNCHANGED pre,
             \A s \in Session : sessions'[s] \in {sessions[s], None},
             NEW p \in Proc, Put(p, req'[p]), req'[p].since \in {now, req[p].since},
             req[p].pc = "idle" => req'[p].since = now
      PROVE  Clocks'
  BY <1>a DEF Put, Exists
<1>b. ASSUME UNCHANGED now, NEW p \in Proc, Put(p, Resting)
      PROVE  \A q \in Proc : req'[q].pc # "idle" => req'[q].since <= now' /\ now' <= req'[q].since + Latency
  BY <1>b DEF Put
<1>1. ASSUME NEW p \in Proc, Begun(p) PROVE Clocks'
  BY <1>1, <1>a DEF Begun
<1>2. ASSUME NEW p \in Proc, Rehash(p) \/ Seal(p) PROVE Clocks'
  <2>1. /\ Put(p, req'[p]) /\ req'[p].since = req[p].since /\ req[p].pc # "idle"
        /\ UNCHANGED <<now, sessions, pre, past>> /\ \A v \in User : Exists(v)' <=> Exists(v)
    BY <1>2, Rehashes, Seals
  <2> QED BY <2>1 DEF Put
<1>3. ASSUME NEW p \in Proc, StoreFactor(p) PROVE Clocks'
  <2>1. Put(p, Resting) /\ UNCHANGED <<now, sessions, pre>>
    BY <1>3, Stores
  <2>2. ASSUME NEW v \in User, Exists(v)' PROVE past'[v].setAt <= now /\ past'[v].enabledAt <= now
    BY <1>3, <2>2, Stores
  <2> QED BY <2>1, <2>2, <1>b
<1>4. ASSUME NEW p \in Proc, SetPassword(p) PROVE Clocks'
  <2>1. /\ Put(p, req'[p]) /\ req'[p].since = req[p].since /\ req[p].pc = "set"
        /\ UNCHANGED <<now, pre>>
    BY <1>4, SetsPassword
  <2>2. ASSUME NEW v \in User, Exists(v)' PROVE past'[v].setAt <= now /\ past'[v].enabledAt <= now
    <3>1. Exists(v)
      BY <1>4, <2>2, SetsPassword
    <3>2. CASE v # req[p].user
      BY <3>1, <3>2, <1>4, SetsPassword
    <3>3. CASE v = req[p].user
      <4>1. past'[v].setAt = now /\ past'[v].enabledAt = past[v].enabledAt
        BY <3>1, <3>3, <1>4, SetsPassword
      <4> QED BY <3>1, <4>1
    <3> QED BY <3>2, <3>3
  <2>3. ASSUME NEW s \in Session, sessions'[s] # None PROVE sessions'[s].authTime <= now
    BY <1>4, <2>3, SetsPassword
  <2>4. \A q \in Proc : req'[q].pc # "idle" => req'[q].since <= now /\ now <= req'[q].since + Latency
    BY <2>1 DEF Put
  <2> QED BY <2>1, <2>2, <2>3, <2>4
<1>5. ASSUME NEW p \in Proc, Admit(p) \/ AdmitCode(p) PROVE Clocks'
  <2>1. /\ Put(p, Resting) /\ UNCHANGED <<now, users, past>> /\ pre' \subseteq pre
        /\ \E u, b, f : Opened(u, b, f)
    BY <1>5, Admits, AdmitsCode
  <2>2. \A s \in Session : sessions'[s] # None => sessions'[s].authTime <= now
    BY <2>1 DEF Opened
  <2> QED BY <2>1, <2>2, <1>b DEF Exists
<1>6. ASSUME NEW p \in Proc, AskCode(p) PROVE Clocks'
  <2>1. Put(p, Resting) /\ UNCHANGED <<now, users, sessions, past>>
    BY <1>6, AsksCode
  <2>2. \A c \in pre' : c.exp <= now + PreTTL
    BY <1>6, AsksCode
  <2> QED BY <2>1, <2>2, <1>b DEF Exists
<1>7. ASSUME NEW p \in Proc, DropSessions(p) PROVE Clocks'
  BY <1>7, <1>b, Drops DEF Exists, Ended
<1>8. ASSUME NEW p \in Proc, Abort(p) PROVE Clocks'
  <2>1. Put(p, Resting) /\ UNCHANGED <<now, users, sessions, pre>>
    BY <1>8, Aborts
  <2>2. ASSUME NEW v \in User, Exists(v) PROVE past'[v].setAt <= now /\ past'[v].enabledAt <= now
    BY <1>8, <2>2, Aborts
  <2> QED BY <2>1, <2>2, <1>b DEF Exists
<1>9. CASE Enrolling
  <2>1. PICK pw \in Password : Enrolled(pw)
    BY <1>9 DEF Enrolling
  <2>2. \A v \in User : Exists(v)' => past'[v].setAt <= now /\ past'[v].enabledAt <= now
    BY <2>1 DEF Enrolled, Exists
  <2>3. \A q \in Proc : req'[q].pc # "idle" => req'[q].since <= now /\ now <= req'[q].since + Latency
    BY <1>9 DEF Enrolling, Put
  <2> QED BY <1>9, <2>2, <2>3 DEF Enrolling
<1>10. CASE Quiet
  BY <1>10, <1>b DEF Quiet, Exists
<1>11. ASSUME NEW u \in User, Deleted(u) PROVE Clocks'
  <2>1. \A v \in User : Exists(v)' => Exists(v) /\ past'[v] = past[v]
    BY <1>11 DEF Deleted, Exists, RowsOK
  <2> QED BY <1>11, <2>1 DEF Deleted, Ended
<1>12. CASE Ended /\ UNCHANGED <<now, users, pre, req, past>>
  BY <1>12 DEF Ended, Exists
<1>13. CASE Tick
  <2>1. now' = now + 1 /\ UNCHANGED <<users, sessions, pre, req, past>>
    BY <1>13 DEF Tick, rows
  <2>2. \A p \in Proc : req[p].pc # "idle" => now < req[p].since + Latency
    BY <1>13 DEF Tick
  <2> QED BY <2>1, <2>2 DEF Exists
<1> HIDE DEF Clocks
<1>14. ASSUME NEW p \in Proc,
              \/ Begun(p) \/ Rehash(p) \/ Seal(p) \/ StoreFactor(p) \/ SetPassword(p)
              \/ Admit(p) \/ AdmitCode(p) \/ AskCode(p) \/ DropSessions(p) \/ Abort(p)
       PROVE  Clocks'
  BY <1>14, <1>1, <1>2, <1>3, <1>4, <1>5, <1>6, <1>7, <1>8
<1> QED BY <1>9, <1>10, <1>11, <1>12, <1>13, <1>14, AccountsKinds

-----------------------------------------------------------------------------
(* Passwords and second factors                                            *)

\* Rows and requests that an older form can still be written back by.
Older ==
  /\ \A u \in User : Exists(u) =>
       /\ users[u].cost = "old" => past[u].wasOld
       /\ users[u].totp # None /\ ~users[u].totp.sealed => past[u].wasPlain
  /\ \A p \in Proc : Exists(req[p].user) =>
       /\ req[p].pc = "rehash" => past[req[p].user].wasOld
       /\ req[p].pc = "seal" => past[req[p].user].wasPlain

\* What the two flags are may change only with the account.
SameFlags(v) == past'[v].wasOld = past[v].wasOld /\ past'[v].wasPlain = past[v].wasPlain

\* The processes that matter to Older name the accounts they read.
LEMMA OlderRequests ==
  ASSUME Typed, RowsOK, Older, NEW p \in Proc,
         Put(p, req'[p]) \/ Put(p, Resting),
         req'[p].pc \notin {"rehash", "seal"},
         \A v \in User : Exists(v)' => Exists(v) /\ SameFlags(v)
  PROVE  \A q \in Proc : users'[req'[q].user] # None =>
           /\ req'[q].pc = "rehash" => past'[req'[q].user].wasOld
           /\ req'[q].pc = "seal" => past'[req'[q].user].wasPlain
<1> SUFFICES ASSUME NEW q \in Proc, q # p, users'[req'[q].user] # None, req'[q].pc \in {"rehash", "seal"}
             PROVE  /\ req'[q].pc = "rehash" => past'[req'[q].user].wasOld
                    /\ req'[q].pc = "seal" => past'[req'[q].user].wasPlain
  OBVIOUS
<1>1. req'[q] = req[q] /\ req[q].user \in User
  BY DEF Put, RowsOK, Sound
<1> QED BY <1>1 DEF Older, SameFlags, Exists

LEMMA OlderStep ==
  ASSUME Typed, RowsOK, Older, SettingsKept, AccountsNext
  PROVE  Older' /\ SettingsKept'
<1> DEFINE Asked == \A q \in Proc : users'[req'[q].user] # None =>
                       /\ req'[q].pc = "rehash" => past'[req'[q].user].wasOld
                       /\ req'[q].pc = "seal" => past'[req'[q].user].wasPlain
           Fine(v) == /\ users'[v].cost = "old" => past'[v].wasOld
                      /\ users'[v].totp # None /\ ~users'[v].totp.sealed => past'[v].wasPlain
                      /\ users'[v].pw = past'[v].pw \/ past'[v].wasOld
                      /\ \/ users'[v].totp = None /\ past'[v].totp = None
                         \/ users'[v].totp # None /\ users'[v].totp.secret = past'[v].totp
                         \/ past'[v].wasPlain
<1>t. /\ Known /\ Resting.pc = "idle" /\ \A p \in Proc : Sound(req[p])
      /\ users \in [User -> Row \cup {None}]
  BY RestingFits DEF RowsOK
<1>g. ASSUME Asked, \A v \in User : Exists(v)' => Fine(v) PROVE Older' /\ SettingsKept'
  BY <1>g DEF Older, SettingsKept, Exists
<1>o. \A v \in User : Exists(v) =>
        /\ users[v].cost = "old" => past[v].wasOld
        /\ users[v].totp # None /\ ~users[v].totp.sealed => past[v].wasPlain
        /\ users[v].pw = past[v].pw \/ past[v].wasOld
        /\ \/ users[v].totp = None /\ past[v].totp = None
           \/ users[v].totp # None /\ users[v].totp.secret = past[v].totp
           \/ past[v].wasPlain
  BY DEF Older, SettingsKept
<1>s. ASSUME NEW v \in User, Exists(v), users'[v] = users[v], past'[v] = past[v]
      PROVE  Fine(v) /\ SameFlags(v)
  BY <1>s, <1>o DEF SameFlags
<1>a. ASSUME UNCHANGED <<users, past>>, NEW p \in Proc, Put(p, req'[p]) \/ Put(p, Resting),
             req'[p].pc \notin {"rehash", "seal"}
      PROVE  Older' /\ SettingsKept'
  <2>1. \A v \in User : Exists(v)' => Exists(v) /\ SameFlags(v) /\ Fine(v)
    BY <1>a, <1>s DEF Exists
  <2>2. Asked
    BY <1>a, <2>1, OlderRequests
  <2> HIDE DEF Fine, Asked
  <2> QED BY <2>1, <2>2, <1>g
<1>b. ASSUME UNCHANGED <<users, past, req>> PROVE Older' /\ SettingsKept'
  BY <1>b DEF Older, SettingsKept, Exists
<1>1. ASSUME NEW p \in Proc, Begun(p) PROVE Older' /\ SettingsKept'
  <2>1. CASE req'[p].pc \notin {"rehash", "seal"}
    BY <1>1, <2>1, <1>a DEF Begun
  <2>2. CASE req'[p].pc \in {"rehash", "seal"}
    <3>1. /\ UNCHANGED <<users, past>> /\ Exists(req'[p].user) /\ req'[p].user \in User
          /\ req'[p].pc = "rehash" => users[req'[p].user].cost = "old"
          /\ req'[p].pc = "seal" => /\ users[req'[p].user].totp = req'[p].totp
                                    /\ req'[p].totp \in Factor /\ ~req'[p].totp.sealed
          /\ \A q \in Proc : q # p => req'[q] = req[q]
      BY <1>1, <2>2 DEF Begun, Put, Sound
    <3>2. req'[p].totp \in Factor => req'[p].totp # None
      BY AccountsConstantFacts
    <3>3. Asked
      BY <3>1, <3>2 DEF Older, Exists
    <3>4. \A v \in User : Exists(v)' => Fine(v)
      BY <3>1, <1>s DEF Exists
    <3> HIDE DEF Fine, Asked
    <3> QED BY <3>3, <3>4, <1>g
  <2> QED BY <2>1, <2>2
<1>2. ASSUME NEW p \in Proc, Rehash(p) PROVE Older' /\ SettingsKept'
  <2>1. /\ Put(p, req'[p]) /\ req'[p].pc = "admit" /\ UNCHANGED past /\ req[p].pc = "rehash"
        /\ req[p].user \in User /\ \A v \in User : Exists(v)' <=> Exists(v)
    BY <1>2, Rehashes
  <2>2. \A v \in User : v # req[p].user => users'[v] = users[v]
    BY <1>2, Rehashes
  <2>3. Exists(req[p].user) => /\ users'[req[p].user].cost = "current"
                               /\ users'[req[p].user].totp = users[req[p].user].totp
                               /\ past[req[p].user].wasOld
    BY <1>2, <2>1, Rehashes DEF Older
  <2>4. \A v \in User : Exists(v)' => SameFlags(v) /\ Fine(v)
    BY <2>1, <2>2, <2>3, <1>s, <1>o DEF SameFlags
  <2>5. Asked
    BY <2>1, <2>4, OlderRequests
  <2> HIDE DEF Fine, Asked
  <2> QED BY <2>4, <2>5, <1>g
<1>3. ASSUME NEW p \in Proc, Seal(p) PROVE Older' /\ SettingsKept'
  <2>1. /\ Put(p, req'[p]) /\ req'[p].pc = "insert" /\ UNCHANGED past /\ req[p].pc = "seal"
        /\ req[p].user \in User /\ \A v \in User : Exists(v)' <=> Exists(v)
    BY <1>3, Seals
  <2>2. \A v \in User : v # req[p].user => users'[v] = users[v]
    BY <1>3, Seals
  <2>3. Exists(req[p].user) => /\ users'[req[p].user].pw = users[req[p].user].pw
                               /\ users'[req[p].user].cost = users[req[p].user].cost
                               /\ past[req[p].user].wasPlain
    BY <1>3, <2>1, Seals DEF Older
  <2>4. \A v \in User : Exists(v)' => SameFlags(v) /\ Fine(v)
    BY <2>1, <2>2, <2>3, <1>s, <1>o DEF SameFlags
  <2>5. Asked
    BY <2>1, <2>4, OlderRequests
  <2> HIDE DEF Fine, Asked
  <2> QED BY <2>4, <2>5, <1>g
<1>4. ASSUME NEW p \in Proc, StoreFactor(p) PROVE Older' /\ SettingsKept'
  <2> DEFINE u == req[p].user
  <2>1. /\ Put(p, Resting) /\ u \in User /\ \A v \in User : Exists(v)' <=> Exists(v)
        /\ \A v \in User : v # u => users'[v] = users[v] /\ past'[v] = past[v]
    BY <1>4, <1>t, Stores
  <2>2. Exists(u) => /\ users'[u].pw = users[u].pw /\ users'[u].cost = users[u].cost
                     /\ users'[u].totp = req[p].totp /\ past'[u].pw = past[u].pw /\ SameFlags(u)
                     /\ req[p].totp = None => past'[u].totp = None
                     /\ req[p].totp # None => past'[u].totp = req[p].totp.secret
                                              /\ req[p].totp.sealed
    BY <1>4, <1>t, Stores DEF SameFlags
  <2>3. Exists(u) => Fine(u)
    BY <2>1, <2>2, <1>o DEF SameFlags
  <2>4. \A v \in User : Exists(v)' => SameFlags(v) /\ Fine(v)
    <3> HIDE DEF Fine
    <3> QED BY <2>1, <2>2, <2>3, <1>s
  <2>5. Asked
    BY <2>1, <2>4, <1>t, OlderRequests DEF Put
  <2> HIDE DEF Fine, Asked
  <2> QED BY <2>4, <2>5, <1>g
<1>5. ASSUME NEW p \in Proc, SetPassword(p) PROVE Older' /\ SettingsKept'
  <2> DEFINE u == req[p].user
  <2>1. /\ Put(p, req'[p]) /\ u \in User /\ \A v \in User : Exists(v)' <=> Exists(v)
        /\ \A v \in User : v # u => users'[v] = users[v] /\ past'[v] = past[v]
        /\ req'[p].pc = "dropSessions"
    BY <1>5, <1>t, SetsPassword
  <2>2. Exists(u) => /\ users'[u].pw = req[p].pw /\ users'[u].cost = "current"
                     /\ users'[u].totp = users[u].totp /\ past'[u].pw = req[p].pw /\ SameFlags(u)
                     /\ past'[u].totp = past[u].totp
    BY <1>5, <1>t, SetsPassword DEF SameFlags
  <2>3. Exists(u) => Fine(u)
    BY <2>1, <2>2, <1>o DEF SameFlags
  <2>4. \A v \in User : Exists(v)' => SameFlags(v) /\ Fine(v)
    <3> HIDE DEF Fine
    <3> QED BY <2>1, <2>2, <2>3, <1>s
  <2>5. Asked
    BY <2>1, <2>4, OlderRequests
  <2> HIDE DEF Fine, Asked
  <2> QED BY <2>4, <2>5, <1>g
<1>6. ASSUME NEW p \in Proc, Admit(p) \/ AdmitCode(p) \/ AskCode(p) \/ DropSessions(p)
      PROVE  Older' /\ SettingsKept'
  <2>1. Put(p, Resting) /\ UNCHANGED <<users, past>>
    BY <1>6, Admits, AdmitsCode, AsksCode, Drops
  <2> QED BY <2>1, <1>a, <1>t DEF Put
<1>7. ASSUME NEW p \in Proc, Abort(p) PROVE Older' /\ SettingsKept'
  <2>1. Put(p, Resting) /\ UNCHANGED users /\ \A v \in User : Exists(v)' <=> Exists(v)
    BY <1>7, <1>t, Aborts DEF Exists
  <2>2. \A v \in User : SameFlags(v) /\ past'[v].pw = past[v].pw /\ past'[v].totp = past[v].totp
    BY <1>7, <1>t, Aborts DEF SameFlags
  <2>3. \A v \in User : Exists(v)' => SameFlags(v) /\ Fine(v)
    BY <2>1, <2>2, <1>o DEF SameFlags
  <2>4. Asked
    BY <2>1, <2>3, <1>t, OlderRequests DEF Put
  <2> HIDE DEF Fine, Asked
  <2> QED BY <2>3, <2>4, <1>g
<1>8. CASE Enrolling
  <2>1. PICK pw \in Password : Enrolled(pw)
    BY <1>8 DEF Enrolling
  <2>2. PICK u \in User :
          /\ \A q \in Proc : req[q].user # u
          /\ \A v \in User : v # u => users'[v] = users[v] /\ past'[v] = past[v]
          /\ users'[u].pw = pw /\ users'[u].cost = "current" /\ users'[u].totp = None
          /\ past'[u].pw = pw /\ past'[u].totp = None
    BY <2>1 DEF Enrolled
  <2>3. \A v \in User : v # u /\ Exists(v)' => Exists(v) /\ Fine(v) /\ SameFlags(v)
    BY <2>2, <1>s DEF Exists
  <2>4. Fine(u)
    BY <2>2
  <2>5. Asked
    <3> SUFFICES ASSUME NEW q \in Proc, users'[req'[q].user] # None, req'[q].pc \in {"rehash", "seal"}
                 PROVE  /\ req'[q].pc = "rehash" => past'[req'[q].user].wasOld
                        /\ req'[q].pc = "seal" => past'[req'[q].user].wasPlain
      OBVIOUS
    <3>1. req'[q] = req[q]
      BY <1>8 DEF Enrolling, Put
    <3>2. req[q].user \in User /\ req[q].user # u
      BY <2>2, <3>1, <1>t DEF Sound
    <3> QED BY <2>3, <3>1, <3>2 DEF Older, SameFlags, Exists
  <2> HIDE DEF Fine, Asked
  <2>6. \A v \in User : Exists(v)' => Fine(v)
    BY <2>3, <2>4
  <2> QED BY <2>5, <2>6, <1>g
<1>9. CASE Quiet
  <2>1. CASE UNCHANGED req
    BY <1>9, <2>1, <1>b DEF Quiet
  <2>2. ASSUME NEW p \in Proc, Put(p, Resting) PROVE Older' /\ SettingsKept'
    BY <1>9, <2>2, <1>a, <1>t DEF Quiet, Put
  <2> QED BY <1>9, <2>1, <2>2 DEF Quiet
<1>10. ASSUME NEW u \in User, Deleted(u) PROVE Older' /\ SettingsKept'
  <2>1. /\ \A v \in User : Exists(v)' => v # u /\ Exists(v)
        /\ \A v \in User : v # u => users'[v] = users[v] /\ past'[v] = past[v]
        /\ UNCHANGED req
    BY <1>10 DEF Deleted, Exists, RowsOK
  <2>2. \A v \in User : Exists(v)' => Fine(v) /\ SameFlags(v)
    BY <2>1, <1>s
  <2>3. Asked
    <3> SUFFICES ASSUME NEW q \in Proc, users'[req[q].user] # None, req[q].pc \in {"rehash", "seal"}
                 PROVE  /\ req[q].pc = "rehash" => past'[req[q].user].wasOld
                        /\ req[q].pc = "seal" => past'[req[q].user].wasPlain
      BY <2>1
    <3>1. req[q].user \in User
      BY <1>t DEF Sound
    <3> QED BY <2>1, <3>1 DEF Older, Exists
  <2> HIDE DEF Fine, Asked
  <2> QED BY <2>2, <2>3, <1>g
<1>11. CASE Ended /\ UNCHANGED <<now, users, pre, req, past>>
  BY <1>11, <1>b
<1>12. CASE Tick
  BY <1>12, <1>b DEF Tick, rows
<1> HIDE DEF Older, SettingsKept
<1>13. ASSUME NEW p \in Proc,
              \/ Begun(p) \/ Rehash(p) \/ Seal(p) \/ StoreFactor(p) \/ SetPassword(p)
              \/ Admit(p) \/ AdmitCode(p) \/ AskCode(p) \/ DropSessions(p) \/ Abort(p)
       PROVE  Older' /\ SettingsKept'
  BY <1>13, <1>1, <1>2, <1>3, <1>4, <1>5, <1>6, <1>7
<1> QED BY <1>8, <1>9, <1>10, <1>11, <1>12, <1>13, AccountsKinds

-----------------------------------------------------------------------------
(* Where requests, sessions, cookies and accounts come from                *)

Same(q) ==
  /\ req'[q].user = req[q].user /\ req'[q].pw = req[q].pw /\ req'[q].totp = req[q].totp
  /\ req'[q].sid = req[q].sid /\ req'[q].basis = req[q].basis /\ req'[q].since = req[q].since

RequestFrom(q) ==
  \/ Begun(q) \/ req'[q] = req[q] \/ req'[q].pc \in {"idle", "dropInvite"}
  \/ Same(q) /\ req[q].pc = "rehash" /\ req'[q].pc = "admit"
  \/ Same(q) /\ req[q].pc = "seal" /\ req'[q].pc = "insert"
  \/ Same(q) /\ req[q].pc = "set" /\ req'[q].pc = "dropSessions" /\ SetPassword(q)

LEMMA RequestsFrom ==
  ASSUME Typed, RowsOK, AccountsNext
  PROVE  \A q \in Proc : RequestFrom(q)
<1> SUFFICES ASSUME NEW q \in Proc PROVE RequestFrom(q)
  OBVIOUS
<1>t. Known /\ Resting.pc = "idle"
  BY RestingFits DEF RowsOK
<1>a. ASSUME NEW p \in Proc, Put(p, Resting) PROVE RequestFrom(q)
  BY <1>a, <1>t DEF Put, RequestFrom
<1>b. ASSUME UNCHANGED req PROVE RequestFrom(q)
  BY <1>b DEF RequestFrom
<1>1. ASSUME NEW p \in Proc, Begun(p) PROVE RequestFrom(q)
  BY <1>1 DEF RequestFrom, Begun, Put
<1>2. ASSUME NEW p \in Proc, Rehash(p) PROVE RequestFrom(q)
  BY <1>2, Rehashes DEF RequestFrom, Put, Same
<1>3. ASSUME NEW p \in Proc, Seal(p) PROVE RequestFrom(q)
  BY <1>3, Seals DEF RequestFrom, Put, Same
<1>4. ASSUME NEW p \in Proc, SetPassword(p) PROVE RequestFrom(q)
  BY <1>4, <1>t, SetsPassword DEF RequestFrom, Put, Same
<1>5. ASSUME NEW p \in Proc,
             StoreFactor(p) \/ Admit(p) \/ AdmitCode(p) \/ AskCode(p) \/ DropSessions(p) \/ Abort(p)
      PROVE  RequestFrom(q)
  BY <1>5, <1>a, <1>t, Stores, Admits, AdmitsCode, AsksCode, Drops, Aborts
<1>6. CASE Enrolling
  BY <1>6, <1>b DEF Enrolling, Put, RequestFrom
<1>7. CASE Quiet
  BY <1>7, <1>a, <1>b DEF Quiet
<1>8. ASSUME NEW u \in User, Deleted(u) PROVE RequestFrom(q)
  BY <1>8, <1>b DEF Deleted
<1>9. CASE Tick
  BY <1>9, <1>b DEF Tick
<1>10. ASSUME NEW p \in Proc,
              \/ Begun(p) \/ Rehash(p) \/ Seal(p) \/ StoreFactor(p) \/ SetPassword(p)
              \/ Admit(p) \/ AdmitCode(p) \/ AskCode(p) \/ DropSessions(p) \/ Abort(p)
       PROVE  RequestFrom(q)
  BY <1>10, <1>1, <1>2, <1>3, <1>4, <1>5
<1> QED BY <1>b, <1>6, <1>7, <1>8, <1>9, <1>10, AccountsKinds

\* A session stays what it was, but for the password it stands for, or is opened.
SessionFrom(s) ==
  \/ /\ sessions[s] # None /\ sessions'[s].user = sessions[s].user
     /\ sessions'[s].authTime = sessions[s].authTime /\ sessions'[s].factor = sessions[s].factor
     /\ \/ sessions'[s].basis = sessions[s].basis
        \/ \E p \in Proc : /\ SetPassword(p) /\ req[p].sid = s
                           /\ sessions'[s].basis = req[p].pw
  \/ /\ sessions[s] = None /\ sessions'[s].authTime = now /\ UNCHANGED <<now, users, past>>
     /\ \A q \in Proc : req[q].sid # s
     /\ \E p \in Proc : /\ sessions'[s].user = req[p].user /\ sessions'[s].basis = req[p].basis
                        /\ Put(p, Resting)
                        /\ \/ req[p].pc = "admit" /\ req[p].totp = None
                           \/ req[p].pc = "insert" /\ sessions'[s].factor

LEMMA SessionsFrom ==
  ASSUME Typed, RowsOK, AccountsNext
  PROVE  \A s \in Session : sessions'[s] # None => SessionFrom(s)
<1> SUFFICES ASSUME NEW s \in Session, sessions'[s] # None PROVE SessionFrom(s)
  OBVIOUS
<1>t. Known
  BY DEF RowsOK
<1>a. ASSUME sessions'[s] = sessions[s] PROVE SessionFrom(s)
  BY <1>a DEF SessionFrom
<1>b. ASSUME Ended PROVE SessionFrom(s)
  BY <1>b, <1>a DEF Ended
<1>1. ASSUME NEW p \in Proc, Begun(p) PROVE SessionFrom(s)
  BY <1>1, <1>a DEF Begun
<1>2. ASSUME NEW p \in Proc, Rehash(p) \/ Seal(p) \/ StoreFactor(p) \/ AskCode(p) \/ Abort(p)
      PROVE  SessionFrom(s)
  BY <1>2, <1>a, <1>t, Rehashes, Seals, Stores, AsksCode, Aborts
<1>3. ASSUME NEW p \in Proc, SetPassword(p) PROVE SessionFrom(s)
  <2>1. /\ sessions[s] # None /\ sessions'[s].user = sessions[s].user
        /\ sessions'[s].authTime = sessions[s].authTime /\ sessions'[s].factor = sessions[s].factor
        /\ s # req[p].sid => sessions'[s] = sessions[s]
        /\ s = req[p].sid => sessions'[s].basis = req[p].pw
    BY <1>3, <1>t, SetsPassword
  <2> QED BY <1>3, <2>1 DEF SessionFrom
<1>4. ASSUME NEW p \in Proc, Admit(p) PROVE SessionFrom(s)
  <2>1. /\ Put(p, Resting) /\ req[p].pc = "admit" /\ req[p].totp = None
        /\ Opened(req[p].user, req[p].basis, FALSE) /\ UNCHANGED <<now, users, past>>
    BY <1>4, Admits
  <2> QED BY <2>1, <1>a DEF Opened, SessionFrom
<1>5. ASSUME NEW p \in Proc, AdmitCode(p) PROVE SessionFrom(s)
  <2>1. /\ Put(p, Resting) /\ req[p].pc = "insert"
        /\ Opened(req[p].user, req[p].basis, TRUE) /\ UNCHANGED <<now, users, past>>
    BY <1>5, AdmitsCode
  <2> QED BY <2>1, <1>a DEF Opened, SessionFrom
<1>6. ASSUME NEW p \in Proc, DropSessions(p) PROVE SessionFrom(s)
  BY <1>6, <1>b, Drops
<1>7. CASE Enrolling \/ Quiet \/ Tick
  BY <1>7, <1>a DEF Enrolling, Quiet, Tick, rows
<1>8. ASSUME NEW u \in User, Deleted(u) PROVE SessionFrom(s)
  BY <1>8, <1>b DEF Deleted
<1>9. ASSUME NEW p \in Proc,
             \/ Begun(p) \/ Rehash(p) \/ Seal(p) \/ StoreFactor(p) \/ SetPassword(p)
             \/ Admit(p) \/ AdmitCode(p) \/ AskCode(p) \/ DropSessions(p) \/ Abort(p)
      PROVE  SessionFrom(s)
  BY <1>9, <1>1, <1>2, <1>3, <1>4, <1>5, <1>6
<1> QED BY <1>b, <1>7, <1>8, <1>9, AccountsKinds

CookieFrom(c) ==
  \/ c \in pre
  \/ /\ c.exp = now + PreTTL /\ UNCHANGED <<now, users, past>>
     /\ \E p \in Proc : req[p].pc = "admit" /\ c.user = req[p].user /\ c.basis = req[p].basis

LEMMA CookiesFrom ==
  ASSUME Typed, RowsOK, AccountsNext
  PROVE  \A c \in pre' : CookieFrom(c)
<1> SUFFICES ASSUME NEW c \in pre' PROVE CookieFrom(c)
  OBVIOUS
<1>t. Known
  BY DEF RowsOK
<1>a. ASSUME pre' \subseteq pre PROVE CookieFrom(c)
  BY <1>a DEF CookieFrom
<1>1. ASSUME NEW p \in Proc, Begun(p) PROVE CookieFrom(c)
  BY <1>1, <1>a DEF Begun
<1>2. ASSUME NEW p \in Proc,
             \/ Rehash(p) \/ Seal(p) \/ StoreFactor(p) \/ SetPassword(p) \/ Admit(p)
             \/ AdmitCode(p) \/ DropSessions(p) \/ Abort(p)
      PROVE  CookieFrom(c)
  BY <1>2, <1>a, <1>t, Rehashes, Seals, Stores, SetsPassword, Admits, AdmitsCode, Drops, Aborts
<1>3. ASSUME NEW p \in Proc, AskCode(p) PROVE CookieFrom(c)
  BY <1>3, AsksCode DEF CookieFrom
<1>4. CASE Enrolling \/ Quiet \/ Tick
  BY <1>4, <1>a DEF Enrolling, Quiet, Tick, rows
<1>5. ASSUME NEW u \in User, Deleted(u) PROVE CookieFrom(c)
  BY <1>5, <1>a DEF Deleted
<1>6. ASSUME NEW p \in Proc,
             \/ Begun(p) \/ Rehash(p) \/ Seal(p) \/ StoreFactor(p) \/ SetPassword(p)
             \/ Admit(p) \/ AdmitCode(p) \/ AskCode(p) \/ DropSessions(p) \/ Abort(p)
      PROVE  CookieFrom(c)
  BY <1>6, <1>1, <1>2, <1>3
<1> QED BY <1>a, <1>4, <1>5, <1>6, AccountsKinds

\* An account is new and nothing refers to it, or its history goes on.
AccountFrom(v) ==
  \/ /\ ~Exists(v) /\ users'[v].totp = None /\ UNCHANGED <<now, sessions, pre>>
     /\ \A s \in Session : sessions[s] # None => sessions[s].user # v
     /\ \A c \in pre : c.user # v
     /\ \A q \in Proc : req[q].user # v
  \/ /\ Exists(v) /\ SameFlags(v) /\ now' >= now
     /\ \/ /\ past'[v].pw = past[v].pw /\ past'[v].setAt = past[v].setAt
           /\ past[v].cut => past'[v].cut
        \/ \E p \in Proc : SetPassword(p) /\ req[p].user = v /\ past'[v].setAt = now'
                           /\ past'[v].pw = req[p].pw
     /\ \/ users'[v].totp = None \/ past'[v].wasPlain \/ past'[v].enabledAt = now'
        \/ users[v].totp # None /\ past'[v].enabledAt = past[v].enabledAt

LEMMA AccountsFrom ==
  ASSUME Typed, RowsOK, Older, AccountsNext
  PROVE  \A v \in User : Exists(v)' => AccountFrom(v)
<1> SUFFICES ASSUME NEW v \in User, Exists(v)' PROVE AccountFrom(v)
  OBVIOUS
<1>t. Known /\ now \in Nat /\ now >= now
  BY AccountsConstantFacts DEF RowsOK, Time
<1>a. ASSUME users'[v] = users[v], past'[v] = past[v], now' >= now PROVE AccountFrom(v)
  BY <1>a DEF AccountFrom, SameFlags, Exists
<1>b. ASSUME UNCHANGED <<now, users, past>> PROVE AccountFrom(v)
  BY <1>a, <1>b, <1>t
<1>1. ASSUME NEW p \in Proc, Begun(p) PROVE AccountFrom(v)
  BY <1>1, <1>b DEF Begun
<1>2. ASSUME NEW p \in Proc, Rehash(p) PROVE AccountFrom(v)
  <2>1. CASE v # req[p].user
    BY <2>1, <1>2, <1>a, <1>t, Rehashes
  <2>2. CASE v = req[p].user
    <3>1. Exists(v) /\ users'[v].totp = users[v].totp /\ UNCHANGED <<now, past>>
      BY <2>2, <1>2, Rehashes
    <3> QED BY <3>1, <1>t DEF AccountFrom, SameFlags
  <2> QED BY <2>1, <2>2
<1>3. ASSUME NEW p \in Proc, Seal(p) PROVE AccountFrom(v)
  <2>1. CASE v # req[p].user
    BY <2>1, <1>3, <1>a, <1>t, Seals
  <2>2. CASE v = req[p].user
    <3>1. Exists(v) /\ past[v].wasPlain /\ UNCHANGED <<now, past>>
      BY <2>2, <1>3, Seals DEF Older
    <3> QED BY <3>1, <1>t DEF AccountFrom, SameFlags
  <2> QED BY <2>1, <2>2
<1>4. ASSUME NEW p \in Proc, StoreFactor(p) PROVE AccountFrom(v)
  <2>1. CASE v # req[p].user
    BY <2>1, <1>4, <1>a, <1>t, Stores
  <2>2. CASE v = req[p].user
    <3>1. Exists(v) /\ UNCHANGED now
      BY <2>2, <1>4, <1>t, Stores
    <3>2. /\ past'[v].pw = past[v].pw /\ past'[v].setAt = past[v].setAt /\ past'[v].cut = past[v].cut
          /\ SameFlags(v) /\ users'[v].totp = req[p].totp
          /\ req[p].totp # None => past'[v].enabledAt = now
      BY <2>2, <3>1, <1>4, <1>t, Stores DEF SameFlags
    <3> QED BY <3>1, <3>2, <1>t DEF AccountFrom
  <2> QED BY <2>1, <2>2
<1>5. ASSUME NEW p \in Proc, SetPassword(p) PROVE AccountFrom(v)
  <2>1. CASE v # req[p].user
    BY <2>1, <1>5, <1>a, <1>t, SetsPassword
  <2>2. CASE v = req[p].user
    <3>1. Exists(v) /\ UNCHANGED now
      BY <2>2, <1>5, <1>t, SetsPassword
    <3>2. /\ past'[v].pw = req[p].pw /\ past'[v].setAt = now
          /\ SameFlags(v) /\ users'[v].totp = users[v].totp /\ past'[v].enabledAt = past[v].enabledAt
      BY <2>2, <3>1, <1>5, <1>t, SetsPassword DEF SameFlags
    <3> QED BY <2>2, <3>1, <3>2, <1>5, <1>t DEF AccountFrom
  <2> QED BY <2>1, <2>2
<1>6. ASSUME NEW p \in Proc, Admit(p) \/ AdmitCode(p) \/ AskCode(p) \/ DropSessions(p)
      PROVE  AccountFrom(v)
  BY <1>6, <1>b, Admits, AdmitsCode, AsksCode, Drops
<1>7. ASSUME NEW p \in Proc, Abort(p) PROVE AccountFrom(v)
  <2>1. UNCHANGED <<now, users>> /\ Exists(v)
    BY <1>7, <1>t, Aborts DEF Exists
  <2>2. CASE past'[v] = past[v]
    BY <2>1, <2>2, <1>a, <1>t
  <2>3. CASE past'[v] # past[v]
    <3>1. /\ past'[v].pw = past[v].pw /\ past'[v].setAt = past[v].setAt /\ past'[v].cut
          /\ SameFlags(v) /\ past'[v].enabledAt = past[v].enabledAt
      BY <2>3, <1>7, <1>t, Aborts DEF SameFlags
    <3> QED BY <2>1, <3>1, <1>t DEF AccountFrom
  <2> QED BY <2>2, <2>3
<1>8. CASE Enrolling
  <2>1. PICK pw \in Password : Enrolled(pw)
    BY <1>8 DEF Enrolling
  <2>2. PICK u \in User :
          /\ ~Exists(u) /\ users'[u].totp = None
          /\ \A s \in Session : sessions[s] # None => sessions[s].user # u
          /\ \A c \in pre : c.user # u
          /\ \A q \in Proc : req[q].user # u
          /\ \A w \in User : w # u => users'[w] = users[w] /\ past'[w] = past[w]
    BY <2>1 DEF Enrolled
  <2>3. UNCHANGED <<now, sessions, pre>>
    BY <1>8 DEF Enrolling
  <2>4. CASE v = u
    BY <2>2, <2>3, <2>4 DEF AccountFrom
  <2>5. CASE v # u
    BY <2>2, <2>3, <2>5, <1>a, <1>t
  <2> QED BY <2>4, <2>5
<1>9. CASE Quiet
  BY <1>9, <1>b DEF Quiet
<1>10. ASSUME NEW u \in User, Deleted(u) PROVE AccountFrom(v)
  <2>1. v # u
    BY <1>10 DEF Deleted, Exists, RowsOK
  <2> QED BY <1>10, <2>1, <1>a, <1>t DEF Deleted
<1>11. CASE Tick
  BY <1>11, <1>a, <1>t DEF Tick, rows
<1>12. ASSUME NEW p \in Proc,
              \/ Begun(p) \/ Rehash(p) \/ Seal(p) \/ StoreFactor(p) \/ SetPassword(p)
              \/ Admit(p) \/ AdmitCode(p) \/ AskCode(p) \/ DropSessions(p) \/ Abort(p)
       PROVE  AccountFrom(v)
  BY <1>12, <1>1, <1>2, <1>3, <1>4, <1>5, <1>6, <1>7
<1> QED BY <1>b, <1>8, <1>9, <1>10, <1>11, <1>12, AccountsKinds

-----------------------------------------------------------------------------
(* The second factor                                                       *)

\* A login that has read a row without a second factor began before one was set.
Asking ==
  \A p \in Proc :
    LET u == req[p].user IN
    (req[p].pc \in {"rehash", "admit"} /\ req[p].totp = None /\ Exists(u))
      => users[u].totp = None \/ past[u].wasPlain \/ req[p].since <= past[u].enabledAt

LEMMA ClockFacts ==
  ASSUME RowsOK
  PROVE  /\ now \in Nat /\ Latency \in Nat /\ PreTTL \in Nat
         /\ \A p \in Proc : req[p].since \in Nat
         /\ \A s \in Session : sessions[s] # None => sessions[s].authTime \in Nat
                                                     /\ sessions[s].user \in User
         /\ \A u \in User : Exists(u) => past[u].setAt \in Nat /\ past[u].enabledAt \in Nat
         /\ \A c \in pre : c.exp \in Nat /\ c.user \in User
         /\ \A p \in Proc : req[p].pc \in {"rehash", "admit", "seal", "insert", "set", "dropSessions"}
                              => req[p].user \in User
  BY AccountsConstantFacts DEF RowsOK, Known, Time, Request, LoginRow, Past, Cookie, Sound

LEMMA FactorsStep ==
  ASSUME Typed, RowsOK, RowsOK', Clocks, Clocks', Older, Asking, FactorAsked, AccountsNext
  PROVE  Asking' /\ FactorAsked'
<1>n. /\ now \in Nat /\ Latency \in Nat
      /\ \A p \in Proc : req[p].since \in Nat
      /\ \A s \in Session : sessions[s] # None => sessions[s].authTime \in Nat
      /\ \A u \in User : Exists(u) => past[u].enabledAt \in Nat
  BY ClockFacts
<1>m. /\ \A p \in Proc : req'[p].pc \in {"rehash", "admit"} => req'[p].user \in User
      /\ \A s \in Session : sessions'[s] # None => sessions'[s].user \in User
      /\ now' \in Nat
  BY AccountsConstantFacts DEF RowsOK, Sound, LoginRow, Time
<1>1. ASSUME NEW q \in Proc, req'[q].pc \in {"rehash", "admit"}, req'[q].totp = None,
             users'[req'[q].user] # None
      PROVE  \/ users'[req'[q].user].totp = None \/ past'[req'[q].user].wasPlain
             \/ req'[q].since <= past'[req'[q].user].enabledAt
  <2> DEFINE u == req'[q].user
  <2>1. u \in User /\ RequestFrom(q)
    BY <1>1, <1>m, RequestsFrom
  <2>2. CASE Begun(q)
    BY <1>1, <2>2 DEF Begun
  <2>3. CASE ~Begun(q)
    <3>1. /\ req[q].pc \in {"rehash", "admit"} /\ req[q].totp = None /\ req[q].user = u
          /\ req[q].since = req'[q].since
      BY <1>1, <2>1, <2>3 DEF RequestFrom, Same
    <3>2. AccountFrom(u)
      BY <1>1, <2>1, AccountsFrom DEF Exists
    <3>3. req[q].since <= now
      BY <3>1 DEF Clocks
    <3>4. Exists(u) => users[u].totp = None \/ past[u].wasPlain \/ req[q].since <= past[u].enabledAt
      BY <3>1 DEF Asking
    <3> HIDE DEF u
    <3>5. CASE ~Exists(u)
      BY <3>2, <3>5 DEF AccountFrom, u
    <3>6. CASE Exists(u)
      <4>1. SameFlags(u) /\ now' >= now
        BY <3>2, <3>6 DEF AccountFrom
      <4>2. \/ users'[u].totp = None \/ past'[u].wasPlain \/ past'[u].enabledAt = now'
            \/ users[u].totp # None /\ past'[u].enabledAt = past[u].enabledAt
        BY <3>2, <3>6 DEF AccountFrom
      <4>3. CASE users'[u].totp = None \/ past'[u].wasPlain
        BY <4>3 DEF u
      <4>4. CASE past'[u].enabledAt = now'
        <5>1. req'[q].since <= past'[u].enabledAt
          BY <3>1, <3>3, <4>1, <4>4, <1>n, <1>m
        <5> QED BY <5>1 DEF u
      <4>5. CASE users[u].totp # None /\ past'[u].enabledAt = past[u].enabledAt
        BY <3>1, <3>4, <3>6, <4>1, <4>5 DEF SameFlags, u
      <4> QED BY <4>2, <4>3, <4>4, <4>5
    <3> QED BY <3>5, <3>6
  <2> QED BY <2>2, <2>3
<1>2. ASSUME NEW s \in Session, sessions'[s] # None, users'[sessions'[s].user] # None,
             ~sessions'[s].factor, users'[sessions'[s].user].totp # None
      PROVE  \/ past'[sessions'[s].user].wasPlain
             \/ sessions'[s].authTime <= past'[sessions'[s].user].enabledAt + Latency
  <2> DEFINE u == sessions'[s].user
             t == sessions'[s].authTime
  <2>1. u \in User /\ SessionFrom(s)
    BY <1>2, <1>m, SessionsFrom
  <2>2. CASE /\ sessions[s] # None /\ u = sessions[s].user /\ t = sessions[s].authTime
             /\ sessions'[s].factor = sessions[s].factor
    <3>1. AccountFrom(u)
      BY <1>2, <2>1, AccountsFrom DEF Exists
    <3>2. Exists(u)
      BY <2>2, <3>1 DEF AccountFrom
    <3>3. /\ SameFlags(u) /\ now' >= now
          /\ \/ past'[u].wasPlain \/ past'[u].enabledAt = now'
             \/ users[u].totp # None /\ past'[u].enabledAt = past[u].enabledAt
      BY <1>2, <3>1, <3>2 DEF AccountFrom
    <3>4. t <= now /\ t \in Nat
      BY <2>2, <1>n DEF Clocks
    <3>5. users[u].totp # None => past[u].wasPlain \/ t <= past[u].enabledAt + Latency
      BY <1>2, <2>2, <3>2 DEF FactorAsked
    <3> HIDE DEF u, t
    <3>6. CASE past'[u].wasPlain
      BY <3>6 DEF u
    <3>7. CASE past'[u].enabledAt = now'
      <4>1. t <= past'[u].enabledAt + Latency
        BY <3>3, <3>4, <3>7, <1>n, <1>m
      <4> QED BY <4>1 DEF u, t
    <3>8. CASE users[u].totp # None /\ past'[u].enabledAt = past[u].enabledAt
      <4>1. past'[u].wasPlain \/ t <= past'[u].enabledAt + Latency
        BY <3>3, <3>5, <3>8 DEF SameFlags
      <4> QED BY <4>1 DEF u, t
    <3> QED BY <3>3, <3>6, <3>7, <3>8
  <2>3. ASSUME t = now, UNCHANGED <<now, users, past>>,
               NEW p \in Proc, u = req[p].user, req[p].pc = "admit", req[p].totp = None
        PROVE  past'[u].wasPlain \/ t <= past'[u].enabledAt + Latency
    <3>1. /\ users[u].totp # None /\ Exists(u) /\ past'[u] = past[u]
      BY <1>2, <2>3 DEF Exists
    <3>2. past[u].wasPlain \/ req[p].since <= past[u].enabledAt
      BY <2>3, <3>1 DEF Asking
    <3>3. now <= req[p].since + Latency
      BY <2>3 DEF Clocks
    <3>4. past[u].enabledAt \in Nat /\ req[p].since \in Nat
      BY <2>1, <3>1, <1>n
    <3> HIDE DEF u, t
    <3> QED BY <2>3, <3>1, <3>2, <3>3, <3>4, <1>n
  <2> QED BY <1>2, <2>1, <2>2, <2>3 DEF SessionFrom
<1> QED BY <1>1, <1>2 DEF Asking, FactorAsked, Exists

-----------------------------------------------------------------------------
(* Logins with an earlier password                                         *)

\* b is the password v has, or was seen at most d after it was replaced.
Seen(v, b, t, d) == b = past[v].pw \/ past[v].wasOld \/ t <= past[v].setAt + d

\* What a login goes by was the password when the login or its cookie began.
LoginsOK ==
  /\ \A p \in Proc : req[p].pc \in {"rehash", "admit"} /\ Exists(req[p].user) =>
       Seen(req[p].user, req[p].basis, req[p].since, 0)
  /\ \A c \in pre : Exists(c.user) => Seen(c.user, c.basis, c.exp, Latency + PreTTL)
  /\ \A p \in Proc : req[p].pc \in {"seal", "insert"} /\ Exists(req[p].user) =>
       Seen(req[p].user, req[p].basis, req[p].since, Latency + PreTTL)

\* An account that goes on keeps what was seen of it.
LEMMA SeenKept ==
  ASSUME RowsOK, RowsOK', NEW v \in User, Exists(v), AccountFrom(v),
         NEW b, NEW t \in Nat, NEW d \in Nat, t <= now + d, Seen(v, b, t, d)
  PROVE  b = past'[v].pw \/ past'[v].wasOld \/ t <= past'[v].setAt + d
<1>1. now \in Nat /\ now' \in Nat
  BY AccountsConstantFacts DEF RowsOK, Time
<1>2. SameFlags(v) /\ now' >= now
  BY DEF AccountFrom
<1>3. CASE past'[v].pw = past[v].pw /\ past'[v].setAt = past[v].setAt
  BY <1>2, <1>3 DEF Seen, SameFlags
<1>4. CASE past'[v].setAt = now'
  <2>1. \A n, m \in Nat : t <= n + d /\ m >= n => t <= m + d
    OBVIOUS
  <2> QED BY <1>1, <1>2, <1>4, <2>1
<1> QED BY <1>3, <1>4 DEF AccountFrom

LEMMA LoginsStep ==
  ASSUME Typed, RowsOK, RowsOK', Clocks, Older, SettingsKept, LoginsOK, AccountsNext
  PROVE  LoginsOK'
<1>n. /\ now \in Nat /\ Latency \in Nat /\ PreTTL \in Nat
      /\ \A p \in Proc : req[p].since \in Nat
      /\ \A u \in User : Exists(u) => past[u].setAt \in Nat
      /\ \A c \in pre : c.exp \in Nat /\ c.user \in User
      /\ \A p \in Proc : req[p].pc \in {"rehash", "admit", "seal", "insert"} => req[p].user \in User
  BY ClockFacts
<1>m. /\ \A p \in Proc : req'[p].pc \in {"rehash", "admit", "seal", "insert"} => req'[p].user \in User
      /\ \A c \in pre' : c.user \in User
  BY DEF RowsOK, Sound, Cookie
<1> DEFINE D == Latency + PreTTL
<1>d. D \in Nat /\ 0 \in Nat
  BY <1>n
<1> HIDE DEF D
<1>1. ASSUME NEW q \in Proc, req'[q].pc \in {"rehash", "admit"}, users'[req'[q].user] # None
      PROVE  \/ req'[q].basis = past'[req'[q].user].pw \/ past'[req'[q].user].wasOld
             \/ req'[q].since <= past'[req'[q].user].setAt + 0
  <2>1. RequestFrom(q) /\ req'[q].user \in User
    BY <1>1, <1>m, RequestsFrom
  <2>2. CASE Begun(q)
    <3>1. /\ Exists(req'[q].user) /\ req'[q].basis = users[req'[q].user].pw /\ UNCHANGED <<users, past>>
      BY <1>1, <2>2 DEF Begun
    <3> QED BY <2>1, <3>1 DEF SettingsKept
  <2>3. CASE ~Begun(q)
    <3>1. /\ req[q].pc \in {"rehash", "admit"} /\ req[q].basis = req'[q].basis
          /\ req[q].since = req'[q].since /\ req[q].user = req'[q].user
      BY <1>1, <2>1, <2>3 DEF RequestFrom, Same
    <3>2. AccountFrom(req[q].user) /\ req[q].user \in User
      BY <1>1, <2>1, <3>1, AccountsFrom DEF Exists
    <3>3. Exists(req[q].user)
      BY <3>2 DEF AccountFrom
    <3>4. Seen(req[q].user, req[q].basis, req[q].since, 0)
      BY <3>1, <3>3 DEF LoginsOK
    <3>5. req[q].since <= now + 0 /\ req[q].since \in Nat
      BY <3>1, <1>n DEF Clocks
    <3>6. \/ req[q].basis = past'[req[q].user].pw \/ past'[req[q].user].wasOld
          \/ req[q].since <= past'[req[q].user].setAt + 0
      BY <3>2, <3>3, <3>4, <3>5, <1>d, SeenKept
    <3> QED BY <3>1, <3>6
  <2> QED BY <2>2, <2>3
<1>2. ASSUME NEW c \in pre', users'[c.user] # None
      PROVE  \/ c.basis = past'[c.user].pw \/ past'[c.user].wasOld
             \/ c.exp <= past'[c.user].setAt + D
  <2>1. CookieFrom(c) /\ c.user \in User
    BY <1>m, CookiesFrom
  <2>2. CASE c \in pre
    <3>1. AccountFrom(c.user)
      BY <1>2, <2>1, AccountsFrom DEF Exists
    <3>2. Exists(c.user)
      BY <2>2, <3>1 DEF AccountFrom
    <3>3. Seen(c.user, c.basis, c.exp, D)
      BY <2>2, <3>2 DEF LoginsOK, D
    <3>4. c.exp <= now + D /\ c.exp \in Nat
      <4>1. c.exp <= now + PreTTL /\ c.exp \in Nat
        BY <2>2, <1>n DEF Clocks
      <4> QED BY <4>1, <1>n DEF D
    <3> QED BY <2>1, <3>1, <3>2, <3>3, <3>4, <1>d, SeenKept
  <2>3. ASSUME c.exp = now + PreTTL, UNCHANGED <<now, users, past>>,
               NEW p \in Proc, req[p].pc = "admit", c.user = req[p].user, c.basis = req[p].basis
        PROVE  \/ c.basis = past'[c.user].pw \/ past'[c.user].wasOld
               \/ c.exp <= past'[c.user].setAt + D
    <3>1. Exists(req[p].user) /\ past[req[p].user].setAt \in Nat
      BY <1>2, <2>1, <2>3, <1>n DEF Exists
    <3>2. Seen(req[p].user, req[p].basis, req[p].since, 0)
      BY <2>3, <3>1 DEF LoginsOK
    <3>3. now <= req[p].since + Latency /\ req[p].since \in Nat
      BY <2>3, <1>n DEF Clocks
    <3>4. req[p].since <= past[req[p].user].setAt + 0 => c.exp <= past[req[p].user].setAt + D
      BY <2>3, <3>1, <3>3, <1>n DEF D
    <3> QED BY <2>3, <3>2, <3>4 DEF Seen
  <2> QED BY <2>1, <2>2, <2>3 DEF CookieFrom
<1>3. ASSUME NEW q \in Proc, req'[q].pc \in {"seal", "insert"}, users'[req'[q].user] # None
      PROVE  \/ req'[q].basis = past'[req'[q].user].pw \/ past'[req'[q].user].wasOld
             \/ req'[q].since <= past'[req'[q].user].setAt + D
  <2>1. RequestFrom(q) /\ req'[q].user \in User
    BY <1>3, <1>m, RequestsFrom
  <2>2. CASE Begun(q)
    <3>1. UNCHANGED <<now, users, past>> /\ req'[q].since = now
      BY <2>2 DEF Begun
    <3>2. PICK c \in pre : now < c.exp /\ c.user = req'[q].user /\ c.basis = req'[q].basis
      BY <1>3, <2>2 DEF Begun
    <3>3. Exists(c.user) /\ past[c.user].setAt \in Nat /\ c.exp \in Nat
      BY <1>3, <2>1, <3>1, <3>2, <1>n DEF Exists
    <3>4. Seen(c.user, c.basis, c.exp, D)
      BY <3>2, <3>3 DEF LoginsOK, D
    <3>5. c.exp <= past[c.user].setAt + D => now <= past[c.user].setAt + D
      BY <3>2, <3>3, <1>n, <1>d
    <3> QED BY <3>1, <3>2, <3>4, <3>5 DEF Seen
  <2>3. CASE ~Begun(q)
    <3>1. /\ req[q].pc \in {"seal", "insert"} /\ req[q].basis = req'[q].basis
          /\ req[q].since = req'[q].since /\ req[q].user = req'[q].user
      BY <1>3, <2>1, <2>3 DEF RequestFrom, Same
    <3>2. AccountFrom(req[q].user) /\ req[q].user \in User
      BY <1>3, <2>1, <3>1, AccountsFrom DEF Exists
    <3>3. Exists(req[q].user)
      BY <3>2 DEF AccountFrom
    <3>4. Seen(req[q].user, req[q].basis, req[q].since, D)
      BY <3>1, <3>3 DEF LoginsOK, D
    <3>5. req[q].since <= now + D /\ req[q].since \in Nat
      BY <3>1, <1>n, <1>d DEF Clocks
    <3>6. \/ req[q].basis = past'[req[q].user].pw \/ past'[req[q].user].wasOld
          \/ req[q].since <= past'[req[q].user].setAt + D
      BY <3>2, <3>3, <3>4, <3>5, <1>d, SeenKept
    <3> QED BY <3>1, <3>6
  <2> QED BY <2>2, <2>3
<1> QED BY <1>1, <1>2, <1>3 DEF LoginsOK, Seen, Exists, D

-----------------------------------------------------------------------------
(* Requests that set a password                                            *)

SettersOK ==
  /\ \A p \in Proc :
       (req[p].pc \in {"set", "dropSessions"} /\ req[p].sid \in Session /\ sessions[req[p].sid] # None)
         => sessions[req[p].sid].user = req[p].user
  /\ \A p \in Proc :
       (req[p].pc = "dropSessions" /\ Latest(p) /\ req[p].sid \in Session /\ sessions[req[p].sid] # None)
         => sessions[req[p].sid].basis = req[p].pw
  /\ \A p, q \in Proc :
       (p # q /\ req[p].pc \in {"set", "dropSessions"} /\ req[q].pc \in {"set", "dropSessions"})
         => req[p].pw # req[q].pw

LEMMA SettersStep ==
  ASSUME Typed, RowsOK, RowsOK', Older, SettersOK, AccountsNext
  PROVE  SettersOK'
<1>f. \A q \in Proc : RequestFrom(q)
  BY RequestsFrom
<1>k. Known
  BY DEF RowsOK
\* The request was there before, with the same data, or has just begun.
<1>g. ASSUME NEW q \in Proc, req'[q].pc \in {"set", "dropSessions"}, ~Begun(q)
      PROVE  /\ req[q].pc \in {"set", "dropSessions"} /\ req'[q].sid = req[q].sid
             /\ req'[q].user = req[q].user /\ req'[q].pw = req[q].pw
             /\ req'[q].pc = "dropSessions" => req[q].pc = "dropSessions" \/ SetPassword(q)
  BY <1>f, <1>g DEF RequestFrom, Same
<1>1. ASSUME NEW q \in Proc, req'[q].pc \in {"set", "dropSessions"}, req'[q].sid \in Session,
             sessions'[req'[q].sid] # None
      PROVE  sessions'[req'[q].sid].user = req'[q].user
  <2>1. CASE Begun(q)
    <3>1. req'[q].pc = "set" /\ UNCHANGED sessions
      BY <1>1, <2>1 DEF Begun
    <3> QED BY <1>1, <2>1, <3>1 DEF Begun
  <2>2. CASE ~Begun(q)
    <3>1. SessionFrom(req[q].sid) /\ req'[q].sid = req[q].sid /\ req'[q].user = req[q].user
          /\ req[q].pc \in {"set", "dropSessions"} /\ req[q].sid \in Session
      BY <1>1, <2>2, <1>g, SessionsFrom
    <3>2. sessions[req[q].sid] # None /\ sessions'[req[q].sid].user = sessions[req[q].sid].user
      BY <3>1 DEF SessionFrom
    <3> QED BY <3>1, <3>2 DEF SettersOK
  <2> QED BY <2>1, <2>2
<1>2. ASSUME NEW q \in Proc, req'[q].pc = "dropSessions", users'[req'[q].user] # None,
             past'[req'[q].user].pw = req'[q].pw, req'[q].sid \in Session,
             sessions'[req'[q].sid] # None
      PROVE  sessions'[req'[q].sid].basis = req'[q].pw
  <2>1. ~Begun(q)
    BY <1>2 DEF Begun
  <2> DEFINE s == req[q].sid
             u == req[q].user
  <2>2. /\ req'[q].sid = s /\ req'[q].user = u /\ req'[q].pw = req[q].pw /\ s \in Session
        /\ req[q].pc = "dropSessions" \/ SetPassword(q)
    BY <1>2, <2>1, <1>g
  <2>3. CASE SetPassword(q)
    BY <1>2, <2>2, <2>3, <1>k, SetsPassword
  <2>4. CASE req[q].pc = "dropSessions"
    <3>1. u \in User /\ AccountFrom(u)
      BY <1>2, <2>2, <2>4, AccountsFrom DEF RowsOK, Sound, Exists
    <3>2. Exists(u)
      BY <3>1 DEF AccountFrom
    <3>3. SessionFrom(s)
      BY <1>2, <2>2, SessionsFrom
    <3>4. sessions[s] # None
      BY <3>3 DEF SessionFrom
    <3>5. sessions[s].user = u
      BY <2>2, <2>4, <3>4 DEF SettersOK
    <3>6. \A p \in Proc : SetPassword(p) /\ req[p].user = u => past'[u].pw # req[q].pw
      <4> SUFFICES ASSUME NEW p \in Proc, SetPassword(p), req[p].user = u
                   PROVE  past'[u].pw # req[q].pw
        OBVIOUS
      <4>0. Exists(req[p].user)
        BY <3>2
      <4>1. req[p].pc = "set" /\ past'[req[p].user].pw = req[p].pw
        BY <4>0, <1>k, SetsPassword
      <4>2. p # q
        BY <2>4, <4>1
      <4> QED BY <2>4, <4>1, <4>2 DEF SettersOK
    <3>7. past'[u].pw = past[u].pw
      BY <1>2, <2>2, <3>1, <3>2, <3>6 DEF AccountFrom
    <3>8. sessions[s].basis = req[q].pw
      BY <1>2, <2>2, <2>4, <3>2, <3>4, <3>7 DEF SettersOK, Latest
    <3>9. \A p \in Proc : SetPassword(p) /\ req[p].sid = s => FALSE
      <4> SUFFICES ASSUME NEW p \in Proc, SetPassword(p), req[p].sid = s PROVE FALSE
        OBVIOUS
      <4>1. req[p].pc = "set"
        BY <1>k, SetsPassword
      <4>2. req[p].user = u
        BY <2>2, <3>4, <3>5, <4>1 DEF SettersOK
      <4> QED BY <1>2, <2>2, <3>6, <4>2
    <3>10. sessions'[s].basis = sessions[s].basis
      BY <3>3, <3>4, <3>9 DEF SessionFrom
    <3> HIDE DEF s, u
    <3> QED BY <2>2, <3>8, <3>10 DEF s, u
  <2> QED BY <2>2, <2>3, <2>4
<1>3. ASSUME NEW p \in Proc, NEW q \in Proc, p # q, req'[p].pc \in {"set", "dropSessions"},
             req'[q].pc \in {"set", "dropSessions"}
      PROVE  req'[p].pw # req'[q].pw
  <2>1. CASE Begun(p)
    BY <1>3, <2>1 DEF Begun, Put
  <2>2. CASE Begun(q)
    BY <1>3, <2>2 DEF Begun, Put
  <2>3. CASE ~Begun(p) /\ ~Begun(q)
    BY <1>3, <2>3, <1>g DEF SettersOK
  <2> QED BY <2>1, <2>2, <2>3
<1> QED BY <1>1, <1>2, <1>3 DEF SettersOK, Latest, Exists

\* A request that still has to delete the sessions waits, deletes them or stops.
LEMMA DropsFrom ==
  ASSUME Typed, RowsOK, AccountsNext, NEW q \in Proc, req[q].pc = "dropSessions"
  PROVE  req'[q] = req[q] \/ DropSessions(q) \/ Abort(q)
<1>k. Known
  BY DEF RowsOK
<1>1. ASSUME NEW p \in Proc, p # q, Put(p, req'[p]) \/ Put(p, Resting) PROVE req'[q] = req[q]
  BY <1>1 DEF Put
<1>2. ASSUME NEW p \in Proc, Begun(p) PROVE req'[q] = req[q]
  BY <1>2, <1>1 DEF Begun
<1>3. ASSUME NEW p \in Proc,
             \/ Rehash(p) \/ Seal(p) \/ StoreFactor(p) \/ SetPassword(p)
             \/ Admit(p) \/ AdmitCode(p) \/ AskCode(p)
      PROVE  req'[q] = req[q]
  BY <1>3, <1>1, <1>k, Rehashes, Seals, Stores, SetsPassword, Admits, AdmitsCode, AsksCode
<1>4. ASSUME NEW p \in Proc, DropSessions(p) \/ Abort(p), p # q PROVE req'[q] = req[q]
  BY <1>4, <1>1, <1>k, Drops, Aborts
<1>5. CASE Enrolling
  BY <1>5, <1>1 DEF Enrolling
<1>6. CASE Quiet
  BY <1>6, <1>1 DEF Quiet
<1>7. ASSUME NEW u \in User, Deleted(u) PROVE req'[q] = req[q]
  BY <1>7 DEF Deleted
<1>8. CASE Tick
  BY <1>8 DEF Tick
<1> QED BY <1>2, <1>3, <1>4, <1>5, <1>6, <1>7, <1>8, AccountsKinds

-----------------------------------------------------------------------------
(* Sessions of earlier passwords                                           *)

Late(t, from) == t >= from /\ t <= from + PreTTL + 2 * Latency

\* Like StaleAccessBounded, and the request that will delete the session is the one
\* whose password is in force.
StaleOK ==
  \A s \in Session :
    LET u == sessions[s].user IN
    (sessions[s] # None /\ Exists(u) /\ sessions[s].basis # past[u].pw)
      => \/ past[u].cut \/ past[u].wasOld \/ Late(sessions[s].authTime, past[u].setAt)
         \/ \E q \in Proc : req[q].pc = "dropSessions" /\ req[q].user = u /\ req[q].pw = past[u].pw

LEMMA StaleStep ==
  ASSUME Typed, RowsOK, RowsOK', Clocks, Older, LoginsOK, SettersOK, StaleOK, AccountsNext
  PROVE  StaleOK'
<1>n. /\ now \in Nat /\ Latency \in Nat /\ PreTTL \in Nat
      /\ \A p \in Proc : req[p].since \in Nat
      /\ \A u \in User : Exists(u) => past[u].setAt \in Nat
  BY ClockFacts
<1>k. Known
  BY DEF RowsOK
<1> SUFFICES ASSUME NEW s \in Session, sessions'[s] # None, users'[sessions'[s].user] # None,
                    sessions'[s].basis # past'[sessions'[s].user].pw
             PROVE  \/ past'[sessions'[s].user].cut \/ past'[sessions'[s].user].wasOld
                    \/ Late(sessions'[s].authTime, past'[sessions'[s].user].setAt)
                    \/ \E q \in Proc : /\ req'[q].pc = "dropSessions"
                                       /\ req'[q].user = sessions'[s].user
                                       /\ req'[q].pw = past'[sessions'[s].user].pw
  BY DEF StaleOK, Exists, Late
<1> DEFINE u == sessions'[s].user
           b == sessions'[s].basis
           t == sessions'[s].authTime
           Goal == \/ past'[u].cut \/ past'[u].wasOld \/ Late(t, past'[u].setAt)
                   \/ \E q \in Proc : /\ req'[q].pc = "dropSessions" /\ req'[q].user = u
                                      /\ req'[q].pw = past'[u].pw
<1> SUFFICES Goal
  OBVIOUS
<1>1. u \in User /\ users'[u] # None /\ b # past'[u].pw /\ SessionFrom(s)
  BY SessionsFrom DEF RowsOK, LoginRow
<1>2. ASSUME t = now, UNCHANGED <<now, users, past>>, NEW p \in Proc,
             u = req[p].user, b = req[p].basis, req[p].pc \in {"admit", "insert"}
      PROVE  Goal
  <2>1. Exists(u) /\ past'[u] = past[u]
    BY <1>1, <1>2 DEF Exists
  <2>2. /\ past[u].setAt \in Nat /\ req[p].since \in Nat /\ past[u].setAt <= now
        /\ now <= req[p].since + Latency
    BY <1>1, <1>2, <1>n, <2>1 DEF Clocks
  <2>3. Seen(u, b, req[p].since, IF req[p].pc = "admit" THEN 0 ELSE Latency + PreTTL)
    BY <1>2, <2>1 DEF LoginsOK
  <2>4. \/ past[u].wasOld \/ req[p].since <= past[u].setAt
        \/ req[p].since <= past[u].setAt + (Latency + PreTTL)
    <3> HIDE DEF u, b
    <3> QED BY <2>1, <2>2, <2>3, <1>1 DEF Seen
  <2>5. \A a, n, d, l, f \in Nat :
          a <= n /\ n <= f + l /\ (f <= a \/ f <= a + (l + d)) => n >= a /\ n <= a + d + 2 * l
    OBVIOUS
  <2>6. past[u].wasOld \/ Late(now, past[u].setAt)
    <3> HIDE DEF u
    <3> QED BY <2>2, <2>4, <2>5, <1>n DEF Late
  <2> HIDE DEF t, u
  <2> QED BY <1>2, <2>1, <2>6
<1>3. CASE /\ sessions[s] # None /\ u = sessions[s].user /\ t = sessions[s].authTime
           /\ \/ b = sessions[s].basis
              \/ \E p \in Proc : SetPassword(p) /\ req[p].sid = s /\ b = req[p].pw
  <2>1. AccountFrom(u)
    BY <1>1, AccountsFrom DEF Exists
  <2>2. Exists(u)
    BY <1>3, <2>1 DEF AccountFrom
  <2>3. ASSUME NEW p \in Proc, SetPassword(p), req[p].user = u PROVE Goal
    <3>1. Exists(req[p].user)
      BY <2>2, <2>3
    <3>2. /\ req'[p].pc = "dropSessions" /\ req'[p].user = req[p].user /\ req'[p].pw = req[p].pw
          /\ past'[req[p].user].pw = req[p].pw
      BY <2>3, <3>1, <1>k, SetsPassword
    <3> HIDE DEF u
    <3> QED BY <2>3, <3>2
  <2>4. CASE ~\E p \in Proc : SetPassword(p) /\ req[p].user = u
    <3>1. /\ past'[u].pw = past[u].pw /\ past'[u].setAt = past[u].setAt
          /\ (past[u].cut => past'[u].cut) /\ past'[u].wasOld = past[u].wasOld
      BY <2>1, <2>2, <2>4 DEF AccountFrom, SameFlags
    <3>2. b = sessions[s].basis
      <4> SUFFICES ASSUME NEW p \in Proc, SetPassword(p), req[p].sid = s PROVE FALSE
        BY <1>3
      <4>1. req[p].pc = "set"
        BY <1>k, SetsPassword
      <4>2. req[p].user = u
        BY <1>3, <4>1 DEF SettersOK
      <4> QED BY <2>4, <4>2
    <3>3. \/ past[u].cut \/ past[u].wasOld \/ Late(sessions[s].authTime, past[u].setAt)
          \/ \E q \in Proc : req[q].pc = "dropSessions" /\ req[q].user = u /\ req[q].pw = past[u].pw
      BY <1>1, <1>3, <2>2, <3>1, <3>2 DEF StaleOK
    <3>4. ASSUME NEW q \in Proc, req[q].pc = "dropSessions", req[q].user = u, req[q].pw = past[u].pw
          PROVE  Goal
      <4>1. CASE req'[q] = req[q]
        BY <3>1, <3>4, <4>1
      <4>2. Latest(q)
        BY <2>2, <3>4 DEF Latest
      <4>3. CASE Abort(q)
        <5>1. past'[req[q].user].cut = TRUE
          BY <3>4, <4>2, <4>3, <1>k, Aborts
        <5> HIDE DEF u
        <5> QED BY <3>4, <5>1
      <4>4. CASE DropSessions(q)
        <5>1. req[q].sid = s
          BY <1>3, <3>4, <4>4, Drops
        <5>2. sessions[s].basis = req[q].pw
          BY <1>3, <3>4, <4>2, <5>1 DEF SettersOK
        <5> QED BY <1>1, <3>1, <3>2, <3>4, <5>2
      <4> QED BY <3>4, <4>1, <4>3, <4>4, DropsFrom
    <3>5. CASE past[u].cut \/ past[u].wasOld \/ Late(sessions[s].authTime, past[u].setAt)
      <4> HIDE DEF u, t
      <4> QED BY <1>3, <3>1, <3>5
    <3> HIDE DEF Goal
    <3> QED BY <3>3, <3>4, <3>5
  <2> HIDE DEF Goal
  <2> QED BY <2>3, <2>4
<1> HIDE DEF Goal, u, b, t
<1> QED BY <1>1, <1>2, <1>3 DEF SessionFrom, u, b, t

-----------------------------------------------------------------------------
(* The invariant                                                           *)

AccountsInv ==
  /\ RowsOK /\ MailsOK /\ Clocks /\ Older /\ SettingsKept
  /\ Asking /\ FactorAsked /\ LoginsOK /\ SettersOK /\ StaleOK

LEMMA InvTyped ==
  ASSUME RowsOK, MailsOK
  PROVE  Typed
  BY DEF RowsOK, MailsOK, Typed, AccountsTypeOK

LEMMA InvInit ==
  ASSUME AccountsInit
  PROVE  AccountsInv
<1> USE AccountsConstantFacts, RestingFits
<1>1. /\ now = 0 /\ users \in [User -> Row \cup {None}] /\ pre = {}
      /\ past = [u \in User |-> IF Exists(u) THEN Fresh(users[u]) ELSE None]
      /\ sessions = [s \in Session |-> None] /\ resets = [r \in Reset |-> None]
      /\ invites = [i \in Invite |-> None] /\ req = [p \in Proc |-> Resting]
      /\ claims = [r \in Reset |-> 0]
  BY DEF AccountsInit
<1>2. ASSUME NEW u \in User, Exists(u)
      PROVE  LET r == users[u] IN
             /\ past[u] \in Past /\ past[u].setAt = now /\ past[u].enabledAt = now
             /\ r \in Row /\ past[u].pw = r.pw
             /\ past[u].totp = IF r.totp = None THEN None ELSE r.totp.secret
             /\ past[u].wasOld = (r.cost = "old")
             /\ past[u].wasPlain = (r.totp # None /\ ~r.totp.sealed)
  <2> DEFINE r == users[u]
  <2>1. r \in Row /\ past[u] = Fresh(r) /\ now \in Time
    BY <1>1, <1>2 DEF Exists, Time
  <2>2. r.totp # None => r.totp \in Factor /\ r.totp.secret \in Secret
    BY <2>1 DEF Row, Factor
  <2>3. r.pw \in Password
    BY <2>1 DEF Row
  <2> HIDE DEF r
  <2> QED BY <2>1, <2>2, <2>3 DEF Fresh, Past, r
<1>3. RowsOK
  <2>1. past \in [User -> Past \cup {None}]
    BY <1>1, <1>2
  <2>2. Known
    BY <1>2 DEF Known
  <2> QED BY <1>1, <2>1, <2>2 DEF RowsOK, Time
<1>4. MailsOK
  BY <1>1 DEF MailsOK, Unspent, ResetOnce
<1>5. Clocks
  BY <1>1, <1>2 DEF Clocks
<1>6. Older
  <2>1. \A p \in Proc : req[p].pc = "idle"
    BY <1>1
  <2>2. \A u \in User : Exists(u) =>
          /\ users[u].cost = "old" => past[u].wasOld
          /\ users[u].totp # None /\ ~users[u].totp.sealed => past[u].wasPlain
    BY <1>2
  <2> QED BY <2>1, <2>2 DEF Older
<1>7. SettingsKept
  BY <1>2 DEF SettingsKept
<1>8. Asking /\ FactorAsked /\ LoginsOK /\ SettersOK /\ StaleOK
  BY <1>1 DEF Asking, FactorAsked, LoginsOK, SettersOK, StaleOK
<1> QED BY <1>3, <1>4, <1>5, <1>6, <1>7, <1>8 DEF AccountsInv

LEMMA InvStep ==
  ASSUME AccountsInv, [AccountsNext]_avars
  PROVE  AccountsInv'
<1>1. CASE AccountsNext
  <2>1. /\ RowsOK /\ MailsOK /\ Clocks /\ Older /\ SettingsKept
        /\ Asking /\ FactorAsked /\ LoginsOK /\ SettersOK /\ StaleOK
    BY DEF AccountsInv
  <2>2. Typed /\ Known
    BY <2>1, InvTyped DEF RowsOK
  <2>3. RowsOK'
    BY <1>1, <2>2, TypesStep
  <2>4. MailsOK'
    BY <1>1, <2>1, <2>2, MailStep
  <2>5. Clocks'
    BY <1>1, <2>1, <2>2, ClocksStep
  <2>6. Older' /\ SettingsKept'
    BY <1>1, <2>1, <2>2, OlderStep
  <2>7. Asking' /\ FactorAsked'
    BY <1>1, <2>1, <2>2, <2>3, <2>5, FactorsStep
  <2>8. LoginsOK'
    BY <1>1, <2>1, <2>2, <2>3, LoginsStep
  <2>9. SettersOK'
    BY <1>1, <2>1, <2>2, <2>3, SettersStep
  <2>10. StaleOK'
    BY <1>1, <2>1, <2>2, <2>3, StaleStep
  <2> QED BY <2>3, <2>4, <2>5, <2>6, <2>7, <2>8, <2>9, <2>10 DEF AccountsInv
<1>2. CASE UNCHANGED avars
  <2>1. UNCHANGED <<now, users, sessions, pre, resets, invites, req, past, claims>>
    BY <1>2 DEF avars, rows
  <2>2. RowsOK' /\ MailsOK'
    BY <2>1 DEF AccountsInv, RowsOK, Known, Exists, MailsOK, Unspent, ResetOnce
  <2>3. Clocks' /\ Older' /\ SettingsKept'
    BY <2>1 DEF AccountsInv, Clocks, Older, SettingsKept, Exists
  <2>4. Asking' /\ FactorAsked'
    BY <2>1 DEF AccountsInv, Asking, FactorAsked, Exists
  <2>5. LoginsOK' /\ SettersOK'
    BY <2>1 DEF AccountsInv, LoginsOK, Seen, SettersOK, Latest, Exists
  <2>6. StaleOK'
    BY <2>1 DEF AccountsInv, StaleOK, Late, Exists
  <2> QED BY <2>2, <2>3, <2>4, <2>5, <2>6 DEF AccountsInv
<1> QED BY <1>1, <1>2

(* Every state of the accounts satisfies the invariant the properties below *)
(* rest on: what requests, cookies and sessions go by, and since when.      *)
THEOREM AccountsInvariant == AccountsSpec => []AccountsInv
<1>1. AccountsInit => AccountsInv
  BY InvInit
<1>2. AccountsInv /\ [AccountsNext]_avars => AccountsInv'
  BY InvStep
<1> QED BY <1>1, <1>2, PTL DEF AccountsSpec

(* Users, sessions, resets, invitations and requests keep their types,      *)
(* whatever statements of concurrent handlers come in between.              *)
THEOREM AccountsTypes == AccountsSpec => []AccountsTypeOK
<1>1. AccountsInv => AccountsTypeOK
  BY InvTyped DEF AccountsInv, Typed
<1> QED BY <1>1, AccountsInvariant, PTL

(* DELETE ... RETURNING hands a reset to one request only, so one mail sets *)
(* one password, however many requests present it.                          *)
THEOREM ResetsAreUsedOnce == AccountsSpec => []ResetOnce
<1>1. AccountsInv => ResetOnce
  BY DEF AccountsInv, MailsOK
<1> QED BY <1>1, AccountsInvariant, PTL

(* No login under way undoes the password or the second factor its owner    *)
(* has set, unless the account was once stored in an older form.            *)
THEOREM SettingsAreKept == AccountsSpec => []SettingsKept
<1>1. AccountsInv => SettingsKept
  BY DEF AccountsInv
<1> QED BY <1>1, AccountsInvariant, PTL

(* With a second factor, the password alone admits only a login that was    *)
(* under way when the factor was enabled.                                   *)
THEOREM FactorIsAsked == AccountsSpec => []FactorAsked
<1>1. AccountsInv => FactorAsked
  BY DEF AccountsInv
<1> QED BY <1>1, AccountsInvariant, PTL

(* After a change of password only logins that were under way can still     *)
(* open a session with the old one, and only for PreTTL + 2 * Latency.      *)
THEOREM StaleAccessEnds == AccountsSpec => []StaleAccessBounded
<1>1. AccountsInv => StaleAccessBounded
  <2> SUFFICES ASSUME AccountsInv PROVE StaleAccessBounded
    OBVIOUS
  <2>1. StaleOK
    BY DEF AccountsInv
  <2> QED BY <2>1 DEF StaleOK, StaleAccessBounded, Late, Changing
<1> QED BY <1>1, AccountsInvariant, PTL

-----------------------------------------------------------------------------
(* The rate limiter                                                        *)

\* How many of the attempts let through belong to the window of row l.
Recent(l) == IF l.count < Limit THEN l.count ELSE Limit

Spread(s) ==
  \A i \in 1..Len(s) : i + 2 * Limit \in 1..Len(s) => s[i + 2 * Limit] >= s[i] + Window

\* The attempts s of a key with row l: the recent ones lie in its window, the others
\* before it, and of these all but Limit at least one window before it.
Windowed(l, s) ==
  /\ l \in Bucket /\ l.count >= 1 /\ Recent(l) <= Len(s)
  /\ \A i \in 1..Len(s) :
       /\ i + Recent(l) > Len(s)           => s[i] + Window >= l.resetAt
       /\ i + Recent(l) <= Len(s)          => s[i] + Window <= l.resetAt
       /\ i + Limit + Recent(l) <= Len(s)  => s[i] + 2 * Window <= l.resetAt

KeyOK(l, s, t) ==
  /\ s \in Seq(Nat) /\ (\A i \in 1..Len(s) : s[i] <= t) /\ Spread(s)
  /\ l \in Bucket \cup {NoRow}
  /\ l = NoRow => s = << >>
  /\ l # NoRow => Windowed(l, s) /\ l.resetAt <= t + Window

LimiterInv == clock \in Nat /\ \A k \in Key : KeyOK(limits[k], stamps[k], clock)

LimiterTyped ==
  limits \in [Key -> Bucket \cup {NoRow}] /\ stamps \in [Key -> Seq(Nat)]

LEMMA LimiterConstantFacts ==
  Limit \in Nat /\ Limit >= 1 /\ Window \in Nat /\ Window >= 1 /\ NoRow \notin Bucket
  BY LimiterConstantsOK DEF LimiterConstantsOK, Bucket

LEMMA Appended ==
  ASSUME NEW s \in Seq(Nat), NEW t \in Nat
  PROVE  /\ Append(s, t) \in Seq(Nat) /\ Len(s) \in Nat /\ Len(Append(s, t)) = Len(s) + 1
         /\ \A i \in 1..Len(s) : Append(s, t)[i] = s[i] /\ s[i] \in Nat
         /\ Append(s, t)[Len(s) + 1] = t
  OBVIOUS

\* What Append adds to the span of attempts.
LEMMA SpreadOn ==
  ASSUME NEW s \in Seq(Nat), NEW t \in Nat, Spread(s),
         \A i \in 1..Len(s) : i + 2 * Limit = Len(s) + 1 => s[i] + Window <= t
  PROVE  Spread(Append(s, t))
<1> DEFINE u == Append(s, t)
           n == Len(s)
<1>1. /\ n \in Nat /\ Len(u) = n + 1 /\ u[n + 1] = t
      /\ \A i \in 1..n : u[i] = s[i] /\ s[i] \in Nat
  BY Appended
<1>2. \A i \in 1..n : i + 2 * Limit \in 1..n => s[i + 2 * Limit] >= s[i] + Window
  BY DEF Spread
<1>3. \A i \in 1..n : i + 2 * Limit = n + 1 => s[i] + Window <= t
  OBVIOUS
<1> HIDE DEF u, n
<1> SUFFICES ASSUME NEW i \in 1..(n + 1), i + 2 * Limit \in 1..(n + 1)
             PROVE  u[i + 2 * Limit] >= u[i] + Window
  BY <1>1 DEF Spread, u
<1>4. i \in 1..n /\ i + 2 * Limit >= 1
  BY <1>1, LimiterConstantFacts
<1>5. CASE i + 2 * Limit \in 1..n
  BY <1>1, <1>2, <1>4, <1>5
<1>6. CASE i + 2 * Limit = n + 1
  BY <1>1, <1>3, <1>4, <1>6, LimiterConstantFacts
<1>7. i + 2 * Limit \in 1..n \/ i + 2 * Limit = n + 1
  BY <1>1, <1>4, LimiterConstantFacts
<1> QED BY <1>5, <1>6, <1>7

\* The first attempt of a window.
LEMMA FirstOfWindow ==
  ASSUME NEW t \in Nat, NEW l, NEW s, KeyOK(l, s, t), l = NoRow \/ t >= l.resetAt
  PROVE  KeyOK([count |-> 1, resetAt |-> t + Window], Append(s, t), t)
<1> USE LimiterConstantFacts DEF KeyOK
<1> DEFINE u == Append(s, t)
           n == Len(s)
           m == [count |-> 1, resetAt |-> t + Window]
<1>1. /\ u \in Seq(Nat) /\ n \in Nat /\ Len(u) = n + 1 /\ u[n + 1] = t
      /\ \A i \in 1..n : u[i] = s[i] /\ s[i] \in Nat /\ s[i] <= t
  BY Appended
<1>2. m \in Bucket /\ Recent(m) = 1 /\ m.count = 1 /\ m.resetAt = t + Window
  BY DEF Bucket, Recent
<1>3. ASSUME NEW i \in 1..n, i + Limit <= n PROVE s[i] + Window <= t
  <2>1. l # NoRow
    BY <1>1, <1>3
  <2>2. l.count \in Nat /\ l.resetAt \in Nat /\ Recent(l) \in Nat /\ Recent(l) <= Limit
    BY <2>1 DEF Bucket, Recent
  <2>3. i + Recent(l) <= n
    BY <1>1, <1>3, <2>2
  <2>4. s[i] + Window <= l.resetAt
    BY <2>1, <2>3 DEF Windowed
  <2> QED BY <1>1, <2>1, <2>2, <2>4
<1>4. Spread(u)
  <2>1. ASSUME NEW i \in 1..n, i + 2 * Limit = n + 1 PROVE s[i] + Window <= t
    <3>1. i + Limit <= n
      BY <1>1, <2>1
    <3> QED BY <1>3, <3>1
  <2> QED BY <2>1, SpreadOn
<1>w. n \in Nat /\ s \in Seq(Nat) /\ n = Len(s) /\ l \in Bucket \cup {NoRow}
  BY <1>1
<1> HIDE DEF KeyOK, u, m, n
<1>5. Windowed(m, u)
  <2>1. ASSUME NEW i \in 1..(n + 1)
        PROVE  /\ i + 1 > n + 1          => u[i] + Window >= m.resetAt
               /\ i + 1 <= n + 1         => u[i] + Window <= m.resetAt
               /\ i + Limit + 1 <= n + 1 => u[i] + 2 * Window <= m.resetAt
    <3>1. CASE i = n + 1
      BY <3>1, <1>1, <1>2
    <3>2. CASE i \in 1..n
      <4>1. i + Limit <= n => u[i] + Window <= t
        BY <1>1, <1>3, <3>2
      <4> QED BY <3>2, <4>1, <1>1, <1>2
    <3> QED BY <3>1, <3>2, <1>1
  <2> QED BY <1>1, <1>2, <2>1 DEF Windowed
<1>6. \A i \in 1..Len(u) : u[i] <= t
  BY <1>1
<1> QED BY <1>1, <1>2, <1>4, <1>5, <1>6 DEF u, m, KeyOK

\* A later one, within the limit.
LEMMA NextOfWindow ==
  ASSUME NEW t \in Nat, NEW l, NEW s, KeyOK(l, s, t), l # NoRow, t < l.resetAt, l.count < Limit
  PROVE  KeyOK([l EXCEPT !.count = @ + 1], Append(s, t), t)
<1> USE LimiterConstantFacts DEF KeyOK
<1> DEFINE u == Append(s, t)
           n == Len(s)
           m == [l EXCEPT !.count = @ + 1]
           c == l.count
<1>1. /\ u \in Seq(Nat) /\ n \in Nat /\ Len(u) = n + 1 /\ u[n + 1] = t
      /\ \A i \in 1..n : u[i] = s[i] /\ s[i] \in Nat /\ s[i] <= t
  BY Appended
<1>2. /\ c \in Nat /\ l.resetAt \in Nat /\ m \in Bucket /\ m.count = c + 1
      /\ m.resetAt = l.resetAt
  BY DEF Bucket
<1>3. Recent(l) = c /\ Recent(m) = c + 1
  BY <1>2 DEF Recent
<1>4. /\ c <= n /\ l.resetAt <= t + Window
      /\ \A i \in 1..n : /\ i + c > n          => s[i] + Window >= l.resetAt
                         /\ i + c <= n         => s[i] + Window <= l.resetAt
                         /\ i + Limit + c <= n => s[i] + 2 * Window <= l.resetAt
  BY <1>3 DEF Windowed
<1>5. Spread(u)
  <2>1. ASSUME NEW i \in 1..n, i + 2 * Limit = n + 1 PROVE s[i] + Window <= t
    <3>1. s[i] \in Nat /\ c \in Nat /\ l.resetAt \in Nat /\ c + 1 <= Limit /\ n \in Nat
      BY <1>1, <1>2
    <3> HIDE DEF c, n
    <3>2. i + Limit + c <= n
      BY <2>1, <3>1
    <3>3. s[i] + 2 * Window <= l.resetAt
      BY <1>4, <3>2
    <3> QED BY <1>4, <3>1, <3>3
  <2> QED BY <2>1, SpreadOn
<1> HIDE DEF KeyOK, u, m, n, c
<1>6. Windowed(m, u)
  <2>1. ASSUME NEW i \in 1..(n + 1)
        PROVE  /\ i + c + 1 > n + 1          => u[i] + Window >= m.resetAt
               /\ i + c + 1 <= n + 1         => u[i] + Window <= m.resetAt
               /\ i + Limit + c + 1 <= n + 1 => u[i] + 2 * Window <= m.resetAt
    <3>0. c \in Nat /\ l.resetAt \in Nat /\ m.resetAt = l.resetAt /\ u[n + 1] = t
      BY <1>1, <1>2
    <3>1. CASE i = n + 1
      BY <3>0, <3>1, <1>4
    <3>2. CASE i \in 1..n
      <4>1. u[i] = s[i] /\ s[i] \in Nat /\ n \in Nat
        BY <1>1, <3>2
      <4>2. /\ i + c > n          => s[i] + Window >= l.resetAt
            /\ i + c <= n         => s[i] + Window <= l.resetAt
            /\ i + Limit + c <= n => s[i] + 2 * Window <= l.resetAt
        BY <1>4, <3>2
      <4> QED BY <3>0, <4>1, <4>2
    <3> QED BY <3>1, <3>2, <1>1
  <2> QED BY <1>1, <1>2, <1>3, <1>4, <2>1 DEF Windowed
<1>7. \A i \in 1..Len(u) : u[i] <= t
  BY <1>1
<1>8. m \in Bucket /\ m # NoRow /\ m.resetAt <= t + Window
  BY <1>2, <1>4
<1> QED BY <1>1, <1>5, <1>6, <1>7, <1>8 DEF u, m, KeyOK

\* One that is refused.
LEMMA Refused ==
  ASSUME NEW t \in Nat, NEW l, NEW s, KeyOK(l, s, t), l # NoRow, l.count >= Limit
  PROVE  KeyOK([l EXCEPT !.count = @ + 1], s, t)
<1> USE LimiterConstantFacts DEF KeyOK
<1> DEFINE m == [l EXCEPT !.count = @ + 1]
<1>1. l.count \in Nat /\ m \in Bucket /\ m.count = l.count + 1 /\ m.resetAt = l.resetAt
  BY DEF Bucket
<1>2. Recent(l) = Limit /\ Recent(m) = Limit
  BY <1>1 DEF Recent
<1> HIDE DEF m
<1>3. Windowed(m, s)
  BY <1>1, <1>2 DEF Windowed
<1>4. m # NoRow
  BY <1>1
<1> QED BY <1>1, <1>3, <1>4 DEF m

LEMMA LimiterStarts ==
  ASSUME RateInit
  PROVE  LimiterInv /\ LimiterTyped
<1>1. << >> \in Seq(Nat) /\ Len(<< >>) = 0
  OBVIOUS
<1>2. KeyOK(NoRow, << >>, 0)
  BY <1>1 DEF KeyOK, Spread
<1> QED BY <1>1, <1>2 DEF RateInit, LimiterInv, LimiterTyped

LEMMA LimiterKeeps ==
  ASSUME LimiterInv, LimiterTyped, [RateNext]_rateVars
  PROVE  LimiterInv' /\ LimiterTyped'
<1> USE LimiterConstantFacts DEF LimiterInv, LimiterTyped
\* One key changes.
<1>a. ASSUME NEW k \in Key, NEW l, NEW s, KeyOK(l, s, clock), UNCHANGED clock,
             limits' = [limits EXCEPT ![k] = l], stamps' = [stamps EXCEPT ![k] = s]
      PROVE  LimiterInv' /\ LimiterTyped'
  <2>1. l \in Bucket \cup {NoRow} /\ s \in Seq(Nat)
    BY <1>a DEF KeyOK
  <2>2. LimiterTyped'
    BY <1>a, <2>1
  <2>3. LimiterInv'
    BY <1>a
  <2> QED BY <2>2, <2>3
<1>1. ASSUME NEW k \in Key, Attempt(k) PROVE LimiterInv' /\ LimiterTyped'
  <2> DEFINE l == limits[k]
             s == stamps[k]
             u == Append(s, clock)
             w == [count |-> 1, resetAt |-> clock + Window]
             m == [l EXCEPT !.count = @ + 1]
  <2>0. KeyOK(l, s, clock) /\ UNCHANGED clock /\ limits' = [limits EXCEPT ![k] = Counted(k)]
    BY <1>1 DEF Attempt
  <2>1. CASE l = NoRow \/ clock >= l.resetAt
    <3>1. Counted(k) = w
      BY <2>1 DEF Counted
    <3>2. stamps' = [stamps EXCEPT ![k] = u]
      BY <1>1, <3>1 DEF Attempt
    <3>3. KeyOK(w, u, clock)
      BY <2>0, <2>1, FirstOfWindow
    <3> HIDE DEF u, w
    <3> QED BY <2>0, <3>1, <3>2, <3>3, <1>a
  <2>2. CASE l # NoRow /\ ~(clock >= l.resetAt)
    <3>0. l \in Bucket /\ l.count \in Nat /\ l.resetAt \in Nat /\ clock < l.resetAt
      BY <2>2 DEF Bucket
    <3>1. Counted(k) = m /\ m.count = l.count + 1
      BY <2>2, <3>0 DEF Counted, Bucket
    <3>2. CASE l.count < Limit
      <4>1. stamps' = [stamps EXCEPT ![k] = u]
        BY <1>1, <3>0, <3>1, <3>2 DEF Attempt
      <4>2. KeyOK(m, u, clock)
        BY <2>0, <2>2, <3>0, <3>2, NextOfWindow
      <4> HIDE DEF u, m
      <4> QED BY <2>0, <3>1, <4>1, <4>2, <1>a
    <3>3. CASE l.count >= Limit
      <4>0. Counted(k).count > Limit
        BY <3>0, <3>1, <3>3
      <4>1. stamps' = [stamps EXCEPT ![k] = s]
        <5>1. stamps' = stamps
          BY <1>1, <4>0 DEF Attempt
        <5> QED BY <5>1
      <4>2. KeyOK(m, s, clock)
        BY <2>0, <2>2, <3>3, Refused
      <4> HIDE DEF s, m
      <4> QED BY <2>0, <3>1, <4>1, <4>2, <1>a
    <3> QED BY <3>0, <3>2, <3>3
  <2> QED BY <2>1, <2>2
<1>2. ASSUME NEW k \in Key, Succeed(k) PROVE LimiterInv' /\ LimiterTyped'
  <2>1. << >> \in Seq(Nat) /\ Len(<< >>) = 0
    OBVIOUS
  <2>2. KeyOK(NoRow, << >>, clock)
    BY <2>1 DEF KeyOK, Spread
  <2> QED BY <1>2, <2>2, <1>a DEF Succeed
<1>3. ASSUME TickClock PROVE LimiterInv' /\ LimiterTyped'
  <2>1. clock' = clock + 1 /\ UNCHANGED <<limits, stamps>>
    BY <1>3 DEF TickClock
  <2>2. ASSUME NEW k \in Key PROVE KeyOK(limits[k], stamps[k], clock + 1)
    <3>1. KeyOK(limits[k], stamps[k], clock)
      OBVIOUS
    <3>2. \A i \in 1..Len(stamps[k]) : stamps[k][i] \in Nat /\ stamps[k][i] <= clock + 1
      BY <3>1 DEF KeyOK
    <3>3. limits[k] # NoRow => limits[k].resetAt <= clock + 1 + Window
      BY <3>1 DEF KeyOK, Bucket
    <3> QED BY <3>1, <3>2, <3>3 DEF KeyOK
  <2> QED BY <2>1, <2>2
<1>4. CASE UNCHANGED rateVars
  BY <1>4 DEF rateVars
<1> QED BY <1>1, <1>2, <1>3, <1>4 DEF RateNext

\* What is known of every key: which attempts belong to the window of its row, and how
\* far the others lie back.
THEOREM LimiterInvariant == RateSpec => [](LimiterInv /\ LimiterTyped)
<1>1. RateInit => LimiterInv /\ LimiterTyped
  BY LimiterStarts
<1>2. LimiterInv /\ LimiterTyped /\ [RateNext]_rateVars => (LimiterInv /\ LimiterTyped)'
  BY LimiterKeeps
<1> QED BY <1>1, <1>2, PTL DEF RateSpec

\* The fixed window lets at most 2 * Limit attempts through in any Window seconds, for
\* the limits and windows of all keys.
THEOREM AttemptsAreSpread == RateSpec => []AttemptsSpread
<1>1. LimiterInv => AttemptsSpread
  BY DEF LimiterInv, KeyOK, Spread, AttemptsSpread
<1> QED BY <1>1, LimiterInvariant, PTL

\* Who is refused has made Limit attempts within the last Window seconds.
THEOREM RefusalsAreEarned == RateSpec => []RefusalEarned
<1>1. LimiterInv => RefusalEarned
  <2> SUFFICES ASSUME LimiterInv, NEW k \in Key, Blocked(k)
               PROVE  /\ Len(stamps[k]) >= Limit
                      /\ clock < stamps[k][Len(stamps[k]) - Limit + 1] + Window
    BY DEF RefusalEarned
  <2> DEFINE s == stamps[k]
             n == Len(s)
  <2>1. /\ KeyOK(limits[k], s, clock) /\ limits[k] # NoRow /\ limits[k].count >= Limit
        /\ clock < limits[k].resetAt /\ clock \in Nat
    BY DEF LimiterInv, Blocked
  <2>2. /\ s \in Seq(Nat) /\ n \in Nat /\ \A i \in 1..n : s[i] \in Nat
        /\ Windowed(limits[k], s) /\ limits[k].count \in Nat /\ limits[k].resetAt \in Nat
    BY <2>1 DEF KeyOK, Bucket
  <2>3. Recent(limits[k]) = Limit /\ Limit <= n
    BY <2>1, <2>2, LimiterConstantFacts DEF Recent, Windowed
  <2>4. n - Limit + 1 \in 1..n
    BY <2>2, <2>3, LimiterConstantFacts
  <2>5. s[n - Limit + 1] + Window >= limits[k].resetAt
    <3>1. \A i \in 1..n : i + Limit > n => s[i] + Window >= limits[k].resetAt
      BY <2>2, <2>3 DEF Windowed
    <3>2. n - Limit + 1 + Limit > n
      BY <2>2, LimiterConstantFacts
    <3> HIDE DEF n
    <3> QED BY <2>4, <3>1, <3>2
  <2> QED BY <2>1, <2>2, <2>3, <2>4, <2>5, LimiterConstantFacts
<1> QED BY <1>1, LimiterInvariant, PTL
=============================================================================
