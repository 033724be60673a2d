------------------------ MODULE OidcProvider_proofs ------------------------
(***************************************************************************)
(* The whole provider is one of the environments TokenStore was proved for, *)
(* so its theorems carry over; and what the consent page and the login page *)
(* establish holds for every token, for all values of the constants.        *)
(***************************************************************************)
EXTENDS OidcProvider, TokenStore_proofs

\* The assumptions on the constants, one conjunct each.
LEMMA ProviderConstantFacts ==
  SsoTTL \in Nat /\ None \notin Scopes /\ None \notin Session /\ None \notin Login
  BY ProviderConstantsOK DEF ProviderConstantsOK

-----------------------------------------------------------------------------
(* The inductive invariant of the tables and requests around TokenStore    *)

\* Nobody has logged in in the future.
SessionsOK ==
  /\ sso \subseteq Session
  /\ sessRow \in [Session -> Login \cup {None}]
  /\ \A s \in sso : sessRow[s] # None
  /\ \A s \in Session :
       sessRow[s] # None => sessRow[s].authTime = None \/ sessRow[s].authTime <= now

\* What is stored was approved.
ConsentsOK ==
  /\ consents \in [User -> [App -> Scopes \cup {None}]]
  /\ approved \subseteq User \X App \X Scopes
  /\ \A u \in User, a \in App :
       consents[u][a] # None => <<u, a, consents[u][a]>> \in approved

Logins == {sessRow[s] : s \in Session}

\* One of the logins is of this user and has this auth_time, perhaps NULL.
Said(logins, u, at) == \E l \in logins : l # None /\ l.user = u /\ l.authTime = at

CoveredBy(given, u, a, scope) ==
  \E s \in Scopes : <<u, a, s>> \in given /\ scope \subseteq s

\* A request on its way to a code holds a user and the auth_time of a session of
\* that user, and past the consent check a scope the user approved.
Sane(f, logins, given) ==
  /\ f.pc # "idle" => f.user \in User
  /\ f.pc \in {"gate", "consent", "decide", "record", "emit"} =>
       /\ f.app \in App /\ f.scope \in Scopes
       /\ Said(logins, f.user, f.authTime)
  /\ f.pc \in {"dropConsent", "dropGrant", "dropCodes"} => f.app \in App
  /\ f.pc = "emit" => CoveredBy(given, f.user, f.app, f.scope)

FlowsOK ==
  /\ flow \in [Web -> Flow]
  /\ \A w \in Web : Sane(flow[w], Logins, approved)

Around == SessionsOK /\ ConsentsOK /\ FlowsOK

-----------------------------------------------------------------------------
(* The provider runs TokenStore                                            *)

\* Every step of the provider is a step of TokenStore or leaves its tables alone.
LEMMA StoreStepRefined ==
  ASSUME Chains, Around, [ProviderNext]_<<vars, pvars>>
  PROVE  [Next]_vars
<1> USE DEF Around
<1>1. ASSUME NEW w \in Web, NEW u \in User, StartLogin(w, u) PROVE [Next]_vars
  BY <1>1 DEF StartLogin, Begin
<1>2. ASSUME NEW w \in Web, CreateSession(w) PROVE [Next]_vars
  BY <1>2 DEF CreateSession, Respond
<1>3. ASSUME NEW w \in Web, NEW s \in Session, NEW a \in App, NEW scope \in Scopes, StartAuthorize(w, s, a, scope) PROVE [Next]_vars
  BY <1>3 DEF StartAuthorize, Begin, SignedIn, AuthTimeOf
<1>4. ASSUME NEW w \in Web, CheckGate(w) PROVE [Next]_vars
  BY <1>4 DEF CheckGate, Proceed, Respond
<1>5. ASSUME NEW w \in Web, CheckConsent(w) PROVE [Next]_vars
  BY <1>5 DEF CheckConsent, Proceed, Respond, HasConsent
<1>6. ASSUME NEW w \in Web, RecordConsent(w) PROVE [Next]_vars
  BY <1>6 DEF RecordConsent, Proceed
<1>7. ASSUME NEW w \in Web, EmitCode(w) PROVE [Next]_vars
  <2> DEFINE f == flow[w]
  <2>1. f.user \in User /\ f.app \in App /\ f.scope \in Scopes
    BY <1>7 DEF EmitCode, FlowsOK, Sane
  <2>2. PICK s \in Session : sessRow[s] # None /\ sessRow[s].authTime = f.authTime
    BY <1>7 DEF EmitCode, FlowsOK, Sane, Logins, Said
  <2>3. f.authTime \in 0 .. now \cup {None}
    <3>1. f.authTime \in Time \cup {None} /\ now \in Time
      BY DEF FlowsOK, Flow, Chains, RowsKnown, TypeOK
    <3>2. f.authTime = None \/ f.authTime <= now
      BY <2>2 DEF SessionsOK
    <3>3. QED
      BY <3>1, <3>2, ConstantFacts DEF Time
  <2>5. Statement /\ UNCHANGED <<now, world, req>>
    BY <1>7, <2>1, <2>3 DEF EmitCode, StoreOnly, Statement
  <2>6. QED
    BY <2>5 DEF Next
<1>8. ASSUME NEW w \in Web, NEW s \in Session, StartLogout(w, s) PROVE [Next]_vars
  BY <1>8 DEF StartLogout, Begin
<1>9. ASSUME NEW w \in Web, NEW t \in Token, StartHintedLogout(w, t) PROVE [Next]_vars
  BY <1>9 DEF StartHintedLogout, Begin, Minted, Grant
<1>10. ASSUME NEW w \in Web, LogoutTokens(w) PROVE [Next]_vars
  BY <1>10 DEF LogoutTokens, Proceed, Respond, StoreOnly, FlowsOK, Sane, Next, Statement
<1>11. ASSUME NEW w \in Web, LogoutSession(w) PROVE [Next]_vars
  BY <1>11 DEF LogoutSession, Respond
<1>12. ASSUME NEW w \in Web, NEW s \in Session, NEW a \in App, StartRevokeConsent(w, s, a) PROVE [Next]_vars
  BY <1>12 DEF StartRevokeConsent, Begin, SignedIn
<1>13. ASSUME NEW w \in Web, DropConsent(w) PROVE [Next]_vars
  BY <1>13 DEF DropConsent, Proceed
<1>14. ASSUME NEW w \in Web, DropGrantSessions(w) PROVE [Next]_vars
  BY <1>14 DEF DropGrantSessions, Proceed, StoreOnly, FlowsOK, Sane, Next, Statement
<1>15. ASSUME NEW w \in Web, DropGrantCodes(w) PROVE [Next]_vars
  BY <1>15 DEF DropGrantCodes, Respond, StoreOnly, FlowsOK, Sane, Next, Statement
<1>16. ASSUME NEW w \in Web, AbortFlow(w) PROVE [Next]_vars
  BY <1>16 DEF AbortFlow, Respond
<1>17. ASSUME NEW u \in User, RemoveUser(u) PROVE [Next]_vars
  BY <1>17 DEF RemoveUser, Next, Environment
<1>18. ASSUME NEW u \in User, EndUserTokens(u) PROVE [Next]_vars
  BY <1>18 DEF EndUserTokens, StoreOnly, Next, Statement
<1>19. ASSUME NEW u \in User, NEW kept \in SUBSET Session, EndSsoSessions(u, kept) PROVE [Next]_vars
  BY <1>19 DEF EndSsoSessions
<1>20. ASSUME StoreStep PROVE [Next]_vars
  BY <1>20 DEF StoreStep, Next, Environment
<1>21. ASSUME UNCHANGED <<vars, pvars>> PROVE [Next]_vars
  BY <1>21 DEF vars, pvars
<1>q. QED
  BY <1>1, <1>2, <1>3, <1>4, <1>5, <1>6, <1>7, <1>8, <1>9, <1>10, <1>11, <1>12, <1>13, <1>14, <1>15, <1>16, <1>17, <1>18, <1>19, <1>20, <1>21 DEF ProviderNext, FlowStep

\* The clock never goes back.
LEMMA ClockForward ==
  ASSUME TypeOK, [Next]_vars
  PROVE  now' = now \/ now' = now + 1
  BY DEF Next, RequestStep, Statement, Environment, vars, PresentCode, ClaimCode,
         VerifyClient, LookupCodeUser, InsertToken, PresentRefresh,
         CheckRefreshPermission, DropDenied, LookupRefreshUser, ConsumeRefresh,
         PresentRevoke, DeleteRevoked, Abort, DeleteUser, DeleteApp,
         TogglePermission, Tick

\* Every step keeps the table of sessions sound.
LEMMA SessionsStep ==
  ASSUME Chains, Chains', Around, [ProviderNext]_<<vars, pvars>>
  PROVE  SessionsOK'
<1>0. now \in Time /\ now' \in Time /\ now <= now'
  BY StoreStepRefined, ClockForward, ConstantFacts DEF Chains, RowsKnown, TypeOK, Time
<1>k. \A s \in Session :
        sessRow[s] # None => sessRow[s].authTime = None \/ sessRow[s].authTime <= now'
  <2> SUFFICES ASSUME NEW s \in Session, sessRow[s] # None, sessRow[s].authTime # None
               PROVE  sessRow[s].authTime <= now'
    OBVIOUS
  <2>1. sessRow[s].authTime \in Time /\ sessRow[s].authTime <= now
    BY DEF Around, SessionsOK, Login
  <2>2. QED
    BY <2>1, <1>0, ConstantFacts DEF Time
<1> USE <1>0, ProviderConstantFacts, ConstantFacts DEF Around, SessionsOK, FlowsOK, Sane, pvars, Time, vars
<1>1. ASSUME NEW w \in Web, NEW u \in User, StartLogin(w, u) PROVE SessionsOK'
  BY <1>1 DEF StartLogin, Begin
<1>2. ASSUME NEW w \in Web, CreateSession(w) PROVE SessionsOK'
  <2>1. PICK s \in Session :
          /\ sessRow' = [sessRow EXCEPT ![s] =
               [user |-> flow[w].user, authTime |-> now, expires |-> now + SsoTTL]]
          /\ sso' = sso \cup {s}
    BY <1>2 DEF CreateSession
  <2>2. flow[w].user \in User
    BY <1>2 DEF CreateSession
  <2>3. now' = now
    BY <1>2 DEF CreateSession, vars
  <2> DEFINE l == [user |-> flow[w].user, authTime |-> now, expires |-> now + SsoTTL]
  <2>4. l \in Login /\ l # None /\ l.authTime = now
    <3>1. l \in Login
      BY <2>2 DEF Login
    <3>2. QED
      BY <3>1
  <2> HIDE DEF l
  <2>5. sessRow' = [sessRow EXCEPT ![s] = l]
    BY <2>1 DEF l
  <2>6. QED
    BY <2>1, <2>3, <2>4, <2>5
<1>3. ASSUME NEW w \in Web, NEW s \in Session, NEW a \in App, NEW scope \in Scopes, StartAuthorize(w, s, a, scope) PROVE SessionsOK'
  BY <1>3 DEF StartAuthorize, Begin, SignedIn, AuthTimeOf
<1>4. ASSUME NEW w \in Web, CheckGate(w) PROVE SessionsOK'
  BY <1>4 DEF CheckGate, Proceed, Respond
<1>5. ASSUME NEW w \in Web, CheckConsent(w) PROVE SessionsOK'
  BY <1>5 DEF CheckConsent, Proceed, Respond, HasConsent
<1>6. ASSUME NEW w \in Web, RecordConsent(w) PROVE SessionsOK'
  BY <1>6 DEF RecordConsent, Proceed
<1>7. ASSUME NEW w \in Web, EmitCode(w) PROVE SessionsOK'
  BY <1>7 DEF EmitCode, Respond, StoreOnly
<1>8. ASSUME NEW w \in Web, NEW s \in Session, StartLogout(w, s) PROVE SessionsOK'
  BY <1>8 DEF StartLogout, Begin
<1>9. ASSUME NEW w \in Web, NEW t \in Token, StartHintedLogout(w, t) PROVE SessionsOK'
  BY <1>9 DEF StartHintedLogout, Begin, Minted, Grant
<1>10. ASSUME NEW w \in Web, LogoutTokens(w) PROVE SessionsOK'
  BY <1>10 DEF LogoutTokens, Proceed, Respond, StoreOnly
<1>11. ASSUME NEW w \in Web, LogoutSession(w) PROVE SessionsOK'
  BY <1>11 DEF LogoutSession, Respond
<1>12. ASSUME NEW w \in Web, NEW s \in Session, NEW a \in App, StartRevokeConsent(w, s, a) PROVE SessionsOK'
  BY <1>12 DEF StartRevokeConsent, Begin, SignedIn
<1>13. ASSUME NEW w \in Web, DropConsent(w) PROVE SessionsOK'
  BY <1>13 DEF DropConsent, Proceed
<1>14. ASSUME NEW w \in Web, DropGrantSessions(w) PROVE SessionsOK'
  BY <1>14 DEF DropGrantSessions, Proceed, StoreOnly
<1>15. ASSUME NEW w \in Web, DropGrantCodes(w) PROVE SessionsOK'
  BY <1>15 DEF DropGrantCodes, Respond, StoreOnly
<1>16. ASSUME NEW w \in Web, AbortFlow(w) PROVE SessionsOK'
  BY <1>16 DEF AbortFlow, Respond
<1>17. ASSUME NEW u \in User, RemoveUser(u) PROVE SessionsOK'
  BY <1>17, <1>k DEF RemoveUser
<1>18. ASSUME NEW u \in User, EndUserTokens(u) PROVE SessionsOK'
  BY <1>18 DEF EndUserTokens, StoreOnly
<1>19. ASSUME NEW u \in User, NEW kept \in SUBSET Session, EndSsoSessions(u, kept) PROVE SessionsOK'
  BY <1>19 DEF EndSsoSessions
<1>20. ASSUME StoreStep PROVE SessionsOK'
  BY <1>20, <1>k DEF StoreStep
<1>21. ASSUME UNCHANGED <<vars, pvars>> PROVE SessionsOK'
  BY <1>21 DEF vars, pvars
<1>q. QED
  BY <1>1, <1>2, <1>3, <1>4, <1>5, <1>6, <1>7, <1>8, <1>9, <1>10, <1>11, <1>12, <1>13, <1>14, <1>15, <1>16, <1>17, <1>18, <1>19, <1>20, <1>21 DEF ProviderNext, FlowStep

\* Every step keeps stored consents approved.
LEMMA ConsentsStep ==
  ASSUME Around, [ProviderNext]_<<vars, pvars>>
  PROVE  ConsentsOK' /\ approved \subseteq approved'
<1> USE ProviderConstantFacts DEF Around, ConsentsOK, FlowsOK, Sane, pvars
<1>1. ASSUME NEW w \in Web, NEW u \in User, StartLogin(w, u) PROVE ConsentsOK' /\ approved \subseteq approved'
  BY <1>1 DEF StartLogin, Begin
<1>2. ASSUME NEW w \in Web, CreateSession(w) PROVE ConsentsOK' /\ approved \subseteq approved'
  BY <1>2 DEF CreateSession, Respond
<1>3. ASSUME NEW w \in Web, NEW s \in Session, NEW a \in App, NEW scope \in Scopes, StartAuthorize(w, s, a, scope) PROVE ConsentsOK' /\ approved \subseteq approved'
  BY <1>3 DEF StartAuthorize, Begin, SignedIn, AuthTimeOf
<1>4. ASSUME NEW w \in Web, CheckGate(w) PROVE ConsentsOK' /\ approved \subseteq approved'
  BY <1>4 DEF CheckGate, Proceed, Respond
<1>5. ASSUME NEW w \in Web, CheckConsent(w) PROVE ConsentsOK' /\ approved \subseteq approved'
  BY <1>5 DEF CheckConsent, Proceed, Respond, HasConsent
<1>6. ASSUME NEW w \in Web, RecordConsent(w) PROVE ConsentsOK' /\ approved \subseteq approved'
  <2> DEFINE f == flow[w]
  <2>1. f.user \in User /\ f.app \in App /\ f.scope \in Scopes
    BY <1>6 DEF RecordConsent
  <2>2. /\ consents' = [consents EXCEPT ![f.user][f.app] = f.scope]
        /\ approved' = approved \cup {<<f.user, f.app, f.scope>>}
    BY <1>6 DEF RecordConsent
  <2> HIDE DEF f
  <2>3. QED
    BY <2>1, <2>2
<1>7. ASSUME NEW w \in Web, EmitCode(w) PROVE ConsentsOK' /\ approved \subseteq approved'
  BY <1>7 DEF EmitCode, Respond, StoreOnly
<1>8. ASSUME NEW w \in Web, NEW s \in Session, StartLogout(w, s) PROVE ConsentsOK' /\ approved \subseteq approved'
  BY <1>8 DEF StartLogout, Begin
<1>9. ASSUME NEW w \in Web, NEW t \in Token, StartHintedLogout(w, t) PROVE ConsentsOK' /\ approved \subseteq approved'
  BY <1>9 DEF StartHintedLogout, Begin, Minted, Grant
<1>10. ASSUME NEW w \in Web, LogoutTokens(w) PROVE ConsentsOK' /\ approved \subseteq approved'
  BY <1>10 DEF LogoutTokens, Proceed, Respond, StoreOnly
<1>11. ASSUME NEW w \in Web, LogoutSession(w) PROVE ConsentsOK' /\ approved \subseteq approved'
  BY <1>11 DEF LogoutSession, Respond
<1>12. ASSUME NEW w \in Web, NEW s \in Session, NEW a \in App, StartRevokeConsent(w, s, a) PROVE ConsentsOK' /\ approved \subseteq approved'
  BY <1>12 DEF StartRevokeConsent, Begin, SignedIn
<1>13. ASSUME NEW w \in Web, DropConsent(w) PROVE ConsentsOK' /\ approved \subseteq approved'
  BY <1>13 DEF DropConsent, Proceed
<1>14. ASSUME NEW w \in Web, DropGrantSessions(w) PROVE ConsentsOK' /\ approved \subseteq approved'
  BY <1>14 DEF DropGrantSessions, Proceed, StoreOnly
<1>15. ASSUME NEW w \in Web, DropGrantCodes(w) PROVE ConsentsOK' /\ approved \subseteq approved'
  BY <1>15 DEF DropGrantCodes, Respond, StoreOnly
<1>16. ASSUME NEW w \in Web, AbortFlow(w) PROVE ConsentsOK' /\ approved \subseteq approved'
  BY <1>16 DEF AbortFlow, Respond
<1>17. ASSUME NEW u \in User, RemoveUser(u) PROVE ConsentsOK' /\ approved \subseteq approved'
  BY <1>17 DEF RemoveUser
<1>18. ASSUME NEW u \in User, EndUserTokens(u) PROVE ConsentsOK' /\ approved \subseteq approved'
  BY <1>18 DEF EndUserTokens, StoreOnly
<1>19. ASSUME NEW u \in User, NEW kept \in SUBSET Session, EndSsoSessions(u, kept) PROVE ConsentsOK' /\ approved \subseteq approved'
  BY <1>19 DEF EndSsoSessions
<1>20. ASSUME StoreStep PROVE ConsentsOK' /\ approved \subseteq approved'
  BY <1>20 DEF StoreStep
<1>21. ASSUME UNCHANGED <<vars, pvars>> PROVE ConsentsOK' /\ approved \subseteq approved'
  BY <1>21 DEF vars, pvars
<1>q. QED
  BY <1>1, <1>2, <1>3, <1>4, <1>5, <1>6, <1>7, <1>8, <1>9, <1>10, <1>11, <1>12, <1>13, <1>14, <1>15, <1>16, <1>17, <1>18, <1>19, <1>20, <1>21 DEF ProviderNext, FlowStep

\* A login that happened stays in sessRow, an approval in approved.
LEMMA LoginsKept ==
  ASSUME Around, [ProviderNext]_<<vars, pvars>>
  PROVE  Logins \ {None} \subseteq Logins'
<1>1. \A r \in Session : sessRow[r] # None => sessRow'[r] = sessRow[r]
  BY DEF Around, SessionsOK, ProviderNext, FlowStep, pvars, StoreStep, StartLogin,
         CreateSession, StartAuthorize, CheckGate, CheckConsent, RecordConsent, EmitCode,
         StartLogout, StartHintedLogout, LogoutTokens, LogoutSession, StartRevokeConsent,
         DropConsent, DropGrantSessions, DropGrantCodes, AbortFlow, RemoveUser,
         EndUserTokens, EndSsoSessions
<1>2. QED
  BY <1>1 DEF Logins

\* What backs a request still backs it after more logins and approvals.
LEMMA SaneKept ==
  ASSUME NEW f \in Flow, NEW L, NEW M, NEW A, NEW B,
         L \ {None} \subseteq M, A \subseteq B, Sane(f, L, A)
  PROVE  Sane(f, M, B)
<1>1. \A u, at : Said(L, u, at) => Said(M, u, at)
  BY DEF Said
<1>2. \A u, a, scope : CoveredBy(A, u, a, scope) => CoveredBy(B, u, a, scope)
  BY DEF CoveredBy
<1>3. QED
  BY <1>1, <1>2 DEF Sane

\* Moving one request on leaves the others alone.
LEMMA PutFlow ==
  ASSUME FlowsOK, Logins \ {None} \subseteq Logins', approved \subseteq approved',
         NEW w \in Web, NEW g \in Flow, Sane(g, Logins', approved'),
         flow' = [flow EXCEPT ![w] = g]
  PROVE  FlowsOK'
<1>1. flow' \in [Web -> Flow]
  BY DEF FlowsOK
<1>2. ASSUME NEW v \in Web PROVE Sane(flow'[v], Logins', approved')
  <2>1. CASE v = w
    BY <2>1 DEF FlowsOK
  <2>2. CASE v # w
    <3>1. flow'[v] = flow[v] /\ flow[v] \in Flow /\ Sane(flow[v], Logins, approved)
      BY <2>2 DEF FlowsOK
    <3>2. QED
      BY <3>1, SaneKept
  <2>3. QED
    BY <2>1, <2>2
<1>3. QED
  BY <1>1, <1>2 DEF FlowsOK

\* Every step keeps all requests backed.
LEMMA FlowsStep ==
  ASSUME Chains, Around, [ProviderNext]_<<vars, pvars>>
  PROVE  FlowsOK'
<1>l. Logins \ {None} \subseteq Logins' /\ approved \subseteq approved' /\ FlowsOK
  BY LoginsKept, ConsentsStep DEF Around
<1>r. Resting \in Flow /\ \A L, A : Sane(Resting, L, A)
  <2>1. 0 \in Time
    BY ConstantFacts DEF Time
  <2>2. QED
    BY <2>1 DEF Resting, Flow, Sane
\* A request that answers.
<1>a. ASSUME NEW w \in Web, Respond(w) PROVE FlowsOK'
  BY <1>a, <1>l, <1>r, PutFlow DEF Respond
\* A request that starts.
<1>b. ASSUME NEW w \in Web, NEW g \in Flow, Begin(w, g), Sane(g, Logins', approved')
      PROVE  FlowsOK'
  BY <1>b, <1>l, PutFlow DEF Begin
\* A request that goes on to its next statement.
<1>c. ASSUME NEW w \in Web, NEW l, Proceed(w, l), [flow[w] EXCEPT !.pc = l] \in Flow,
             Sane([flow[w] EXCEPT !.pc = l], Logins', approved')
      PROVE  FlowsOK'
  <2>1. flow' = [flow EXCEPT ![w] = [flow[w] EXCEPT !.pc = l]]
    BY <1>c DEF Proceed, FlowsOK
  <2>2. QED
    BY <1>c, <1>l, <2>1, PutFlow
\* A request that nobody serves keeps what it holds.
<1>d. ASSUME UNCHANGED flow PROVE FlowsOK'
  BY <1>d, <1>l, SaneKept DEF FlowsOK
<1>s. \A w \in Web : flow[w] \in Flow /\ Sane(flow[w], Logins', approved')
  BY <1>l, SaneKept DEF FlowsOK
<1>1. ASSUME NEW w \in Web, NEW u \in User, StartLogin(w, u) PROVE FlowsOK'
  <2> DEFINE g == [Resting EXCEPT !.pc = "login", !.user = u]
  <2>1. g \in Flow /\ Sane(g, Logins', approved')
    BY <1>r DEF Flow, Sane, Resting
  <2>2. QED
    BY <1>1, <1>b, <2>1 DEF StartLogin
<1>2. ASSUME NEW w \in Web, NEW s \in Session, NEW a \in App, NEW scope \in Scopes,
             StartAuthorize(w, s, a, scope)
      PROVE  FlowsOK'
  <2>1. PICK l \in {"gate", "decide"} :
          Begin(w, [Resting EXCEPT !.pc = l, !.user = sessRow[s].user, !.app = a,
                                   !.scope = scope, !.authTime = AuthTimeOf(s)])
    BY <1>2 DEF StartAuthorize
  <2> DEFINE g == [Resting EXCEPT !.pc = l, !.user = sessRow[s].user, !.app = a,
                                  !.scope = scope, !.authTime = AuthTimeOf(s)]
  <2>g. /\ g.pc = l /\ g.user = sessRow[s].user /\ g.app = a
        /\ g.scope = scope /\ g.authTime = sessRow[s].authTime
    BY DEF Resting, AuthTimeOf
  <2>2. sessRow[s] \in Login /\ sessRow[s] # None
    BY <1>2 DEF Around, SessionsOK, StartAuthorize, SignedIn
  <2>3. Said(Logins', g.user, g.authTime)
    <3>1. sessRow[s] \in Logins'
      BY <1>l, <2>2 DEF Logins
    <3>2. QED
      BY <2>2, <2>g, <3>1 DEF Said
  <2>4. g \in Flow
    BY <1>r, <2>2 DEF Resting, AuthTimeOf, Flow, Login
  <2>5. Sane(g, Logins', approved')
    BY <2>2, <2>3, <2>g DEF Sane, Login
  <2>6. QED
    BY <1>b, <2>1, <2>4, <2>5
<1>3. ASSUME NEW w \in Web, CheckGate(w) PROVE FlowsOK'
  <2>1. CASE Respond(w)
    BY <1>a, <2>1
  <2>2. CASE Proceed(w, IF flow[w].pc = "gate" THEN "consent" ELSE "record")
    <3> DEFINE l == IF flow[w].pc = "gate" THEN "consent" ELSE "record"
    <3>1. [flow[w] EXCEPT !.pc = l] \in Flow
      BY <1>s DEF Flow
    <3>2. Sane([flow[w] EXCEPT !.pc = l], Logins', approved')
      BY <1>3, <1>s DEF Flow, Sane, CheckGate
    <3>3. QED
      BY <1>c, <2>2, <3>1, <3>2
  <2>3. QED
    BY <1>3, <2>1, <2>2 DEF CheckGate
<1>4. ASSUME NEW w \in Web, CheckConsent(w) PROVE FlowsOK'
  <2> DEFINE f == flow[w]
  <2>1. CASE Respond(w)
    BY <1>a, <2>1
  <2>2. CASE HasConsent(f.user, f.app, f.scope) /\ Proceed(w, "emit")
    <3>1. [f EXCEPT !.pc = "emit"] \in Flow
      BY <1>s DEF Flow
    <3>2. f.user \in User /\ f.app \in App /\ f.scope \in Scopes
      BY <1>4, <1>s DEF Sane, CheckConsent
    <3>3. CoveredBy(approved', f.user, f.app, f.scope)
      BY <1>l, <2>2, <3>2 DEF CoveredBy, HasConsent, Around, ConsentsOK
    <3>4. Sane([f EXCEPT !.pc = "emit"], Logins', approved')
      BY <1>4, <1>s, <3>2, <3>3 DEF Flow, Sane, CheckConsent
    <3>5. QED
      BY <1>c, <2>2, <3>1, <3>4
  <2>3. QED
    BY <1>4, <2>1, <2>2 DEF CheckConsent
<1>5. ASSUME NEW w \in Web, RecordConsent(w) PROVE FlowsOK'
  <2> DEFINE f == flow[w]
  <2>1. [f EXCEPT !.pc = "emit"] \in Flow
    BY <1>s DEF Flow
  <2>2. f.user \in User /\ f.app \in App /\ f.scope \in Scopes
    BY <1>5, <1>s DEF Sane, RecordConsent
  <2>3. CoveredBy(approved', f.user, f.app, f.scope)
    BY <1>5, <2>2 DEF CoveredBy, RecordConsent
  <2>4. Sane([f EXCEPT !.pc = "emit"], Logins', approved')
    BY <1>5, <1>s, <2>2, <2>3 DEF Flow, Sane, RecordConsent
  <2>5. QED
    BY <1>c, <1>5, <2>1, <2>4 DEF RecordConsent
<1>6. ASSUME NEW w \in Web, NEW s \in Session, StartLogout(w, s) PROVE FlowsOK'
  <2> DEFINE g == [Resting EXCEPT !.pc = "dropTokens", !.user = sessRow[s].user, !.sid = s]
  <2>1. sessRow[s].user \in User
    BY <1>6 DEF Around, SessionsOK, StartLogout, Login
  <2>2. g \in Flow /\ Sane(g, Logins', approved')
    BY <1>r, <2>1 DEF Flow, Sane, Resting
  <2>3. QED
    BY <1>6, <1>b, <2>2 DEF StartLogout
<1>7. ASSUME NEW w \in Web, NEW t \in Token, StartHintedLogout(w, t) PROVE FlowsOK'
  <2> DEFINE g == [Resting EXCEPT !.pc = "dropTokens", !.user = row[t].user]
  <2>1. row[t].user \in User
    BY <1>7 DEF StartHintedLogout, Chains, RowsKnown, TypeOK, Minted, Cap, Grant
  <2>2. g \in Flow /\ Sane(g, Logins', approved')
    BY <1>r, <2>1 DEF Flow, Sane, Resting
  <2>3. QED
    BY <1>7, <1>b, <2>2 DEF StartHintedLogout
<1>8. ASSUME NEW w \in Web, LogoutTokens(w) PROVE FlowsOK'
  <2>1. CASE Respond(w)
    BY <1>a, <2>1
  <2>2. CASE Proceed(w, "dropSession")
    <3>1. [flow[w] EXCEPT !.pc = "dropSession"] \in Flow
      BY <1>s DEF Flow
    <3>2. Sane([flow[w] EXCEPT !.pc = "dropSession"], Logins', approved')
      BY <1>8, <1>s DEF Flow, Sane, LogoutTokens
    <3>3. QED
      BY <1>c, <2>2, <3>1, <3>2
  <2>3. QED
    BY <1>8, <2>1, <2>2 DEF LogoutTokens
<1>9. ASSUME NEW w \in Web, NEW s \in Session, NEW a \in App, StartRevokeConsent(w, s, a)
      PROVE  FlowsOK'
  <2> DEFINE g == [Resting EXCEPT !.pc = "dropConsent", !.user = sessRow[s].user, !.app = a]
  <2>1. sessRow[s].user \in User
    BY <1>9 DEF Around, SessionsOK, StartRevokeConsent, SignedIn, Login
  <2>2. g \in Flow /\ Sane(g, Logins', approved')
    BY <1>r, <2>1 DEF Flow, Sane, Resting
  <2>3. QED
    BY <1>9, <1>b, <2>2 DEF StartRevokeConsent
<1>10. ASSUME NEW w \in Web, NEW l \in {"dropGrant", "dropCodes"}, Proceed(w, l),
              flow[w].pc \in {"dropConsent", "dropGrant"}
       PROVE  FlowsOK'
  <2>1. [flow[w] EXCEPT !.pc = l] \in Flow
    BY <1>s DEF Flow
  <2>2. Sane([flow[w] EXCEPT !.pc = l], Logins', approved')
    BY <1>10, <1>s DEF Flow, Sane
  <2>3. QED
    BY <1>c, <1>10, <2>1, <2>2
<1>11. ASSUME NEW w \in Web, DropConsent(w) \/ DropGrantSessions(w) PROVE FlowsOK'
  BY <1>10, <1>11 DEF DropConsent, DropGrantSessions
<1>12. ASSUME NEW w \in Web,
              \/ CreateSession(w) \/ EmitCode(w) \/ LogoutSession(w)
              \/ DropGrantCodes(w) \/ AbortFlow(w)
       PROVE  FlowsOK'
  BY <1>12, <1>a
     DEF CreateSession, EmitCode, LogoutSession, DropGrantCodes, AbortFlow
<1>13. ASSUME \/ \E u \in User : RemoveUser(u) \/ EndUserTokens(u)
              \/ \E u \in User, kept \in SUBSET Session : EndSsoSessions(u, kept)
              \/ StoreStep
              \/ UNCHANGED <<vars, pvars>>
       PROVE  FlowsOK'
  BY <1>13, <1>d DEF RemoveUser, EndUserTokens, EndSsoSessions, StoreStep, pvars
<1>q. QED
  BY <1>1, <1>2, <1>3, <1>4, <1>5, <1>6, <1>7, <1>8, <1>9, <1>11, <1>12, <1>13
     DEF ProviderNext, FlowStep

-----------------------------------------------------------------------------
(* What codes and tokens carry                                             *)

\* A code or token asks for what an approval covers and descends from a code with the
\* auth_time of a session; where that is NULL, the first exchange has dated it.
Backing(x) ==
  /\ CoveredBy(approved, row[x].user, row[x].app, row[x].scope)
  /\ Said(Logins, row[x].user, row[FamilyOf(x)].authTime)
  /\ x \in Token => /\ row[x].authTime # None
                    /\ row[FamilyOf(x)].authTime = None => DatedByExchange(x)

Backed == \A x \in Minted : Backing(x)

Ancestry == <<row, parent, family>>

\* A step inserts at most one row, a code or a session.
LEMMA RowKinds ==
  ASSUME [ProviderNext]_<<vars, pvars>>
  PROVE  \/ UNCHANGED Ancestry
         \/ \E w \in Web : EmitCode(w)
         \/ \E p \in Proc : InsertToken(p)
<1>1. ASSUME NEW p \in Proc, RequestStep(p), ~InsertToken(p) PROVE UNCHANGED Ancestry
  BY <1>1 DEF Ancestry, RequestStep, PresentCode, ClaimCode, VerifyClient, LookupCodeUser,
              PresentRefresh, CheckRefreshPermission, DropDenied, LookupRefreshUser,
              ConsumeRefresh, PresentRevoke, DeleteRevoked, Abort
<1>2. ASSUME StoreStep PROVE UNCHANGED Ancestry \/ \E p \in Proc : InsertToken(p)
  BY <1>1, <1>2 DEF Ancestry, StoreStep, DeleteApp, TogglePermission, Tick
<1>3. ASSUME NEW w \in Web, FlowStep(w), ~EmitCode(w) PROVE UNCHANGED Ancestry
  BY <1>3 DEF Ancestry, FlowStep, vars, StartLogin, CreateSession, StartAuthorize, CheckGate,
              CheckConsent, RecordConsent, StartLogout, StartHintedLogout, LogoutTokens,
              LogoutSession, StartRevokeConsent, DropConsent, DropGrantSessions,
              DropGrantCodes, AbortFlow, DeleteUserSessions, DeleteGrantSessions,
              DeleteGrantCodes
<1>4. ASSUME NEW u \in User, RemoveUser(u) \/ EndUserTokens(u) PROVE UNCHANGED Ancestry
  BY <1>4 DEF Ancestry, RemoveUser, EndUserTokens, DeleteUser, DeleteUserSessions
<1>5. ASSUME NEW u \in User, NEW kept \in SUBSET Session, EndSsoSessions(u, kept)
      PROVE  UNCHANGED Ancestry
  BY <1>5 DEF Ancestry, EndSsoSessions, vars
<1>6. ASSUME UNCHANGED <<vars, pvars>> PROVE UNCHANGED Ancestry
  BY <1>6 DEF Ancestry, vars
<1>7. QED
  BY <1>2, <1>3, <1>4, <1>5, <1>6 DEF ProviderNext

\* Rows and their descent stay; a step only adds.
Grown ==
  \A x \in Minted :
    /\ x \in Minted' /\ row'[x] = row[x]
    /\ x \in Token => parent'[x] = parent[x] /\ family'[x] = family[x]

\* What backed a row still backs it.
LEMMA BackingKept ==
  ASSUME Chains, Around, Backed, Grown, [ProviderNext]_<<vars, pvars>>, NEW x \in Minted
  PROVE  Backing(x)'
<1>1. Logins \ {None} \subseteq Logins' /\ approved \subseteq approved'
  BY LoginsKept, ConsentsStep
<1>2. /\ FamilyOf(x) \in Minted
      /\ FamilyOf(x)' = FamilyOf(x)
  BY DEF FamilyOf, Grown, Minted, Cap, Chains, RowsKnown, Lineage
<1>3. row'[x] = row[x] /\ row'[FamilyOf(x)] = row[FamilyOf(x)]
  BY <1>2 DEF Grown
<1>4. Backing(x)
  BY DEF Backed
<1>5. CoveredBy(approved', row[x].user, row[x].app, row[x].scope)
  BY <1>1, <1>4 DEF Backing, CoveredBy
<1>6. Said(Logins', row[x].user, row[FamilyOf(x)].authTime)
  BY <1>1, <1>4 DEF Backing, Said
<1>7. ASSUME x \in Token, DatedByExchange(x) PROVE DatedByExchange(x)'
  BY <1>3, <1>7 DEF DatedByExchange, Grown
<1>8. QED
  BY <1>2, <1>3, <1>4, <1>5, <1>6, <1>7 DEF Backing

\* Every step keeps all codes and tokens backed.
LEMMA BackedStep ==
  ASSUME Chains, Around, Backed, [ProviderNext]_<<vars, pvars>>
  PROVE  Backed'
<1>1. Logins \ {None} \subseteq Logins' /\ approved \subseteq approved'
  BY LoginsKept, ConsentsStep
<1>2. TypeOK /\ RowsKnown /\ Lineage
  BY DEF Chains, RowsKnown
<1>3. CASE UNCHANGED Ancestry
  <2>1. Grown /\ Minted' = Minted
    BY <1>3 DEF Ancestry, Grown, Minted
  <2>2. QED
    BY <2>1, BackingKept DEF Backed
<1>4. ASSUME NEW w \in Web, EmitCode(w) PROVE Backed'
  <2> DEFINE f == flow[w]
             g == CodeRow(f.user, f.app, f.scope, f.authTime)
  <2>1. PICK c \in Code \ Minted : row' = [row EXCEPT ![c] = g]
    BY <1>4 DEF EmitCode, IssueCode
  <2>2. UNCHANGED <<parent, family>>
    BY <1>4 DEF EmitCode, IssueCode
  <2>3. f.pc = "emit" /\ Sane(f, Logins, approved)
    BY <1>4 DEF EmitCode, Around, FlowsOK
  <2>4. CoveredBy(approved', f.user, f.app, f.scope) /\ Said(Logins', f.user, f.authTime)
    BY <1>1, <2>3 DEF Sane, CoveredBy, Said
  <2>5. g.user = f.user /\ g.app = f.app /\ g.scope = f.scope /\ g.authTime = f.authTime
    BY DEF CodeRow
  <2> HIDE DEF g
  <2>6. c \in Cap /\ row \in [Cap -> Grant \cup {None}]
    BY <1>2 DEF Cap, TypeOK
  <2>7. Grown /\ Minted' \subseteq Minted \cup {c}
    BY <2>1, <2>2, <2>6 DEF Grown, Minted
  <2>8. Backing(c)'
    <3>1. row'[c] = g /\ FamilyOf(c)' = c /\ c \notin Token
      BY <2>1, <2>6, ConstantFacts DEF FamilyOf
    <3>2. QED
      BY <2>4, <2>5, <3>1 DEF Backing
  <2>9. QED
    BY <2>7, <2>8, BackingKept DEF Backed
<1>5. ASSUME NEW p \in Proc, InsertToken(p) PROVE Backed'
  <2>1. PICK x : x = req[p].cap
    OBVIOUS
  <2> DEFINE g == Successor(row[x])
  <2>2. PICK t \in Token \ Minted : /\ row' = [row EXCEPT ![t] = g]
                                    /\ parent' = [parent EXCEPT ![t] = x]
                                    /\ family' = [family EXCEPT ![t] = FamilyOf(x)]
    BY <1>5, <2>1 DEF InsertToken
  <2>3. x \in Minted /\ x \in Cap /\ row[x] \in Grant
    BY <1>2, <1>5, <2>1 DEF RowsKnown, InsertToken, TypeOK, Minted
  <2>4. /\ g.user = row[x].user /\ g.app = row[x].app /\ g.scope = row[x].scope
        /\ g.authTime # None /\ (row[x].authTime # None => g.authTime = row[x].authTime)
    BY <1>2, <2>3, SuccessorType DEF TypeOK
  <2>5. g.expires = now + AccessTTL /\ (row[x].authTime = None => g.authTime = now)
    BY <2>3 DEF Successor, Grant
  <2> HIDE DEF g
  <2>6. /\ t \in Cap /\ t \in Token /\ t \notin Code /\ row \in [Cap -> Grant \cup {None}]
        /\ parent \in [Token -> Cap \cup {None}] /\ family \in [Token -> Code \cup {None}]
    BY <1>2, ConstantFacts DEF Cap, TypeOK
  <2>7. Grown /\ Minted' \subseteq Minted \cup {t}
    BY <2>2, <2>6 DEF Grown, Minted
  <2>8. PICK c : c = FamilyOf(x)
    OBVIOUS
  <2>9. /\ row'[t] = g /\ parent'[t] = x /\ family'[t] = c /\ FamilyOf(t)' = c
        /\ c \in Minted /\ row'[c] = row[c]
    <3>1. c \in Minted
      BY <1>2, <2>3, <2>8 DEF FamilyOf, RowsKnown, Lineage, Cap
    <3>2. QED
      BY <2>2, <2>6, <2>7, <2>8, <3>1 DEF FamilyOf, Grown
  <2>10. Backing(x)
    BY <2>3 DEF Backed
  <2>11. t \in Minted'
    <3>1. g # None
      BY <1>2, <2>3, SuccessorType, ConstantFacts DEF g, TypeOK
    <3>2. QED
      BY <2>6, <2>9, <3>1 DEF Minted
  <2>12. ASSUME row[c].authTime = None PROVE DatedByExchange(t)'
    <3>1. CASE x \in Code
      BY <2>5, <2>6, <2>8, <2>9, <2>11, <2>12, <3>1 DEF DatedByExchange, FamilyOf
    <3>2. CASE x \in Token /\ x \notin Code
      <4>1. c = family[x] /\ row[x].authTime # None /\ DatedByExchange(x)
        BY <2>8, <2>10, <2>12, <3>2 DEF FamilyOf, Backing
      <4>2. PICK s \in Token \cap Minted :
              parent[s] = family[x] /\ row[s].expires = row[x].authTime + AccessTTL
        BY <4>1 DEF DatedByExchange
      <4>3. s \in Minted' /\ row'[s] = row[s] /\ parent'[s] = parent[s]
        BY <2>7, <4>2 DEF Grown
      <4>4. QED
        BY <2>4, <2>9, <4>1, <4>2, <4>3 DEF DatedByExchange
    <3>3. QED
      BY <2>3, <3>1, <3>2 DEF Cap
  <2>13. /\ CoveredBy(approved', g.user, g.app, g.scope)
         /\ Said(Logins', g.user, row[c].authTime)
    BY <1>1, <2>4, <2>8, <2>10 DEF Backing, CoveredBy, Said
  <2>14. Backing(t)'
    BY <2>4, <2>9, <2>12, <2>13 DEF Backing
  <2>15. QED
    BY <2>7, <2>14, BackingKept DEF Backed
<1>6. QED
  BY <1>3, <1>4, <1>5, RowKinds

-----------------------------------------------------------------------------
(* Theorems                                                                *)

\* The empty provider is sound.
LEMMA AroundInit == ProviderInit => Chains /\ Around /\ Backed
<1> SUFFICES ASSUME ProviderInit PROVE Chains /\ Around /\ Backed
  OBVIOUS
<1>1. Init /\ Chains
  BY ChainsInit DEF ProviderInit
<1>2. SessionsOK
  BY ProviderConstantFacts DEF ProviderInit, SessionsOK, Legacy, Login
<1>3. ConsentsOK
  BY DEF ProviderInit, ConsentsOK
<1>4. FlowsOK
  <2>1. 0 \in Time
    BY ConstantFacts DEF Time
  <2>2. QED
    BY <2>1 DEF ProviderInit, FlowsOK, Resting, Flow, Sane
<1>5. Backed
  BY <1>1 DEF Backed, Init, Minted
<1>6. QED
  BY <1>1, <1>2, <1>3, <1>4, <1>5 DEF Around

\* Every step of the provider keeps it sound.
LEMMA AroundStep ==
  ASSUME Chains, Around, Backed, [ProviderNext]_<<vars, pvars>>
  PROVE  Chains' /\ Around' /\ Backed' /\ [Next]_vars
<1>1. [Next]_vars
  BY StoreStepRefined
<1>2. Chains'
  BY <1>1, ChainsStep
<1>3. SessionsOK'
  BY <1>2, SessionsStep
<1>4. ConsentsOK'
  BY ConsentsStep
<1>5. FlowsOK'
  BY FlowsStep
<1>6. Backed'
  BY BackedStep
<1>7. QED
  BY <1>1, <1>2, <1>3, <1>4, <1>5, <1>6 DEF Around

\* The inductive invariant of the whole provider: what browser requests carry and
\* what codes and tokens say is backed by logins and approvals.
THEOREM AroundInvariant == ProviderSpec => [](Chains /\ Around /\ Backed)
  BY AroundInit, AroundStep, PTL DEF ProviderSpec

\* What logouts and revocations have ended are codes.
Ended == signedOut \subseteq Code /\ withdrawn \subseteq Code

LEMMA EndedStep ==
  ASSUME Chains, Ended, [ProviderNext]_<<vars, pvars>>
  PROVE  Ended'
<1>1. \A u : Exchanged(u) \subseteq Code
  BY DEF Exchanged, Chains, RowsKnown, TypeOK, Minted
<1>2. \A u, a : CodesOf(u, a) \subseteq Code
  BY DEF CodesOf
<1>3. ASSUME NEW w \in Web, LogoutTokens(w) PROVE Ended'
  BY <1>1, <1>3 DEF LogoutTokens, Ended
<1>4. ASSUME NEW w \in Web, DropGrantCodes(w) PROVE Ended'
  BY <1>2, <1>4 DEF DropGrantCodes, Ended
<1>5. ASSUME NEW w \in Web, FlowStep(w), ~LogoutTokens(w), ~DropGrantCodes(w) PROVE Ended'
  BY <1>5 DEF Ended, FlowStep, StartLogin, CreateSession, StartAuthorize, CheckGate,
              CheckConsent, RecordConsent, EmitCode, StartLogout, StartHintedLogout,
              LogoutSession, StartRevokeConsent, DropConsent, DropGrantSessions, AbortFlow
<1>6. ASSUME \/ \E u \in User : RemoveUser(u) \/ EndUserTokens(u)
             \/ \E u \in User, kept \in SUBSET Session : EndSsoSessions(u, kept)
             \/ StoreStep
             \/ UNCHANGED <<vars, pvars>>
      PROVE  Ended'
  BY <1>6 DEF Ended, RemoveUser, EndUserTokens, EndSsoSessions, StoreStep, pvars
<1>7. QED
  BY <1>3, <1>4, <1>5, <1>6 DEF ProviderNext

\* The tables and requests of the provider keep their types.
THEOREM ProviderTypes == ProviderSpec => []ProviderTypeOK
<1>1. ProviderInit => Ended
  BY DEF ProviderInit, Ended
<1>2. Chains /\ Ended /\ [ProviderNext]_<<vars, pvars>> => Ended'
  BY EndedStep
<1>3. Chains /\ Around /\ Ended => ProviderTypeOK
  BY DEF Chains, RowsKnown, Around, SessionsOK, ConsentsOK, FlowsOK, Ended, ProviderTypeOK
<1>4. QED
  BY <1>1, <1>2, <1>3, AroundInvariant, PTL DEF ProviderSpec

\* The handlers of the provider use the two token tables only in ways TokenStore
\* allows, so all of its theorems hold for the provider.
THEOREM RunsTokenStore == ProviderSpec => Spec
<1>1. ProviderInit => Init
  BY DEF ProviderInit
<1>2. Chains /\ Around /\ [ProviderNext]_<<vars, pvars>> => [Next]_vars
  BY StoreStepRefined
<1>3. QED
  BY <1>1, <1>2, AroundInvariant, PTL DEF ProviderSpec, Spec

\* In the whole provider, too, each authorization changes hands one holder at a
\* time and stays void once it is void.
THEOREM ProviderImplementsLedger == ProviderSpec => ImplementsLedger
  BY RunsTokenStore, Refinement

\* Every code and every token ever issued asks for no more than one approval of
\* the user on the consent page covers.
THEOREM EveryScopeApproved == ProviderSpec => []ScopeApproved
<1>1. Backed => ScopeApproved
  BY DEF Backed, Backing, ScopeApproved, CoveredBy
<1>2. QED
  BY <1>1, AroundInvariant, PTL

\* Rows of codes and tokens say of the login what a session of the user says; where that
\* is NULL, tokens say when the code was exchanged, refreshed as often as they may be.
THEOREM EveryAuthTimeGenuine == ProviderSpec => []AuthTimeGenuine
<1>1. Chains /\ Backed /\ GrantPreserved => AuthTimeGenuine
  <2> SUFFICES ASSUME Chains, Backed, GrantPreserved, NEW x \in Minted
               PROVE  LET at == row[FamilyOf(x)].authTime IN
                      /\ LoginSaid(row[x].user, at)
                      /\ IF x \in Token /\ at = None THEN DatedByExchange(x)
                                                      ELSE row[x].authTime = at
    BY DEF AuthTimeGenuine
  <2>1. Backing(x)
    BY DEF Backed
  <2>2. LoginSaid(row[x].user, row[FamilyOf(x)].authTime)
    BY <2>1 DEF Backing, Said, Logins, LoginSaid
  <2>3. CASE x \in Code
    BY <2>2, <2>3, ConstantFacts DEF FamilyOf
  <2>4. CASE x \in Token /\ x \notin Code
    BY <2>1, <2>2, <2>4 DEF FamilyOf, Backing, GrantPreserved
  <2>5. QED
    BY <2>3, <2>4 DEF Minted, Cap
<1>2. QED
  BY <1>1, AroundInvariant, RunsTokenStore, GrantNeverChanges, PTL

-----------------------------------------------------------------------------
(* What a logout and a consent revocation do end                           *)

SignedOutVoid == \A c \in signedOut : StatusOf(c) = "void"
WithdrawnVoid == \A c \in withdrawn : StatusOf(c) = "void"

\* The DELETE of a logout meets no request that has spent the code or the refresh token
\* of an authorization it ends and not yet inserted the new session.
LogoutMeetsNoMove == \A c \in signedOut' \ signedOut : ~MovingFor(c)

\* No such request for the grant is under way while /account/revoke-consent is between
\* its last two statements.
OfGrant(x, f) == row[x].user = f.user /\ row[x].app = f.app

RevocationAlone ==
  \A w \in Web : flow[w].pc = "dropCodes" =>
    \A p \in Proc : Moving(p) => ~OfGrant(req[p].cap, flow[w])

\* Between those two statements the grant has no session.
GrantSilent ==
  \A w \in Web : flow[w].pc = "dropCodes" => \A t \in appSessions : ~OfGrant(t, flow[w])

\* An authorization that nobody holds or moves, and whose code is spent or gone, is void.
LEMMA VoidIf ==
  ASSUME Chains, NEW c \in Code \cap Minted, ~MovingFor(c), ~HeldFor(c),
         c \notin authCodes \ usedCodes
  PROVE  StatusOf(c) = "void"
  BY StatusCases DEF Statuses

\* signedOut grows only by the DELETE of a logout, withdrawn only by that of the codes.
LEMMA EndedKinds ==
  ASSUME [ProviderNext]_<<vars, pvars>>
  PROVE  /\ signedOut' = signedOut \/
              \E w \in Web : LogoutTokens(w) /\ DeleteUserSessions(flow[w].user) /\ StoreOnly
                             /\ signedOut' = signedOut \cup Exchanged(flow[w].user)
         /\ withdrawn' = withdrawn \/ \E w \in Web : DropGrantCodes(w)
<1> DEFINE Kinds ==
     /\ signedOut' = signedOut \/
          \E w \in Web : LogoutTokens(w) /\ DeleteUserSessions(flow[w].user) /\ StoreOnly
                         /\ signedOut' = signedOut \cup Exchanged(flow[w].user)
     /\ withdrawn' = withdrawn \/ \E w \in Web : DropGrantCodes(w)
<1>1. ASSUME NEW w \in Web, LogoutTokens(w) PROVE Kinds
  BY <1>1 DEF LogoutTokens
<1>2. ASSUME NEW w \in Web, DropGrantCodes(w) PROVE Kinds
  BY <1>2 DEF DropGrantCodes
<1>3. ASSUME NEW w \in Web, FlowStep(w), ~LogoutTokens(w), ~DropGrantCodes(w) PROVE Kinds
  BY <1>3 DEF FlowStep, StartLogin, CreateSession, StartAuthorize, CheckGate,
              CheckConsent, RecordConsent, EmitCode, StartLogout, StartHintedLogout,
              LogoutSession, StartRevokeConsent, DropConsent, DropGrantSessions, AbortFlow
<1>4. ASSUME \/ \E u \in User : RemoveUser(u) \/ EndUserTokens(u)
             \/ \E u \in User, kept \in SUBSET Session : EndSsoSessions(u, kept)
             \/ StoreStep
             \/ UNCHANGED <<vars, pvars>>
      PROVE  Kinds
  BY <1>4 DEF RemoveUser, EndUserTokens, EndSsoSessions, StoreStep, pvars
<1>5. QED
  BY <1>1, <1>2, <1>3, <1>4 DEF ProviderNext

\* A logout that meets no move voids every authorization it ends.
LEMMA SignedOutStep ==
  ASSUME Chains, Chains', Around, Provenance, Ended, SignedOutVoid, LogoutMeetsNoMove,
         [ProviderNext]_<<vars, pvars>>
  PROVE  SignedOutVoid'
<1>1. [Next]_vars
  BY StoreStepRefined
<1>2. ASSUME NEW c \in signedOut PROVE StatusOf(c)' = "void"
  BY <1>1, <1>2, VoidStays DEF SignedOutVoid, Ended
<1>3. ASSUME NEW c \in signedOut' \ signedOut PROVE StatusOf(c)' = "void"
  <2>1. PICK w \in Web : /\ DeleteUserSessions(flow[w].user) /\ StoreOnly
                         /\ signedOut' = signedOut \cup Exchanged(flow[w].user)
    BY <1>3, EndedKinds
  <2>2. PICK u : u = flow[w].user
    OBVIOUS
  <2>3. PICK t \in Token \cap Minted : row[t].user = u /\ family[t] = c
    BY <1>3, <2>1, <2>2 DEF Exchanged
  <2>4. /\ UNCHANGED <<usedCodes, row, req, family>>
        /\ appSessions' = appSessions \ {s \in appSessions : row[s].user = u}
    BY <2>1, <2>2 DEF DeleteUserSessions, RevokeSessions, StoreOnly, codeTab
  <2>5. c \in Code /\ c \in Minted /\ c \in usedCodes /\ row[c].user = u
    BY <2>3 DEF Chains, RowsKnown, Lineage, Provenance, GrantPreserved
  <2>6. ~MovingFor(c)'
    <3>1. ~MovingFor(c)
      BY <1>3 DEF LogoutMeetsNoMove
    <3>2. QED
      BY <2>4, <3>1 DEF MovingFor, Moving, FamilyOf
  <2>7. ASSUME NEW s \in appSessions', family'[s] = c PROVE FALSE
    <3>1. s \in appSessions /\ s \in Token \cap Minted /\ family[s] = c /\ row[s].user # u
      BY <2>4, <2>7 DEF Chains, RowsKnown, TypeOK
    <3>2. row[s].user = row[c].user
      BY <3>1 DEF Provenance, GrantPreserved
    <3>3. QED
      BY <2>5, <3>1, <3>2
  <2>8. ~HeldFor(c)' /\ c \in Minted' /\ c \in usedCodes'
    BY <2>4, <2>5, <2>7 DEF HeldFor, Minted
  <2>9. Statuses'
    BY StatusCasesNext
  <2>10. QED
    BY <2>5, <2>6, <2>8, <2>9 DEF Statuses
<1>4. QED
  BY <1>2, <1>3 DEF SignedOutVoid

\* A session that exists after a step existed before, or is of the user and the app of
\* what some request was moving.
LEMMA SessionOrigins ==
  ASSUME Chains, [Next]_vars, NEW t \in appSessions'
  PROVE  \/ t \in appSessions /\ row'[t] = row[t]
         \/ \E p \in Proc : /\ Moving(p)
                            /\ row'[t].user = row[req[p].cap].user
                            /\ row'[t].app = row[req[p].cap].app
<1> DEFINE Old == t \in appSessions /\ row'[t] = row[t]
<1>1. RowsKnown /\ TypeOK /\ appSessions \subseteq Minted
  BY DEF Chains, RowsKnown
<1>2. CASE Quiet
  BY <1>2 DEF Quiet
<1>3. ASSUME NEW p \in Proc, ClaimCode(p) PROVE Old
  BY <1>3 DEF ClaimCode
<1>4. ASSUME NEW p \in Proc, ConsumeRefresh(p) PROVE Old
  BY <1>4 DEF ConsumeRefresh
<1>5. ASSUME NEW p \in Proc, InsertToken(p)
      PROVE  Old \/ ( /\ Moving(p)
                      /\ row'[t].user = row[req[p].cap].user
                      /\ row'[t].app = row[req[p].cap].app )
  <2>1. PICK s \in Token \ Minted :
          /\ appSessions' = appSessions \cup {s}
          /\ row' = [row EXCEPT ![s] = Successor(row[req[p].cap])]
    BY <1>5 DEF InsertToken
  <2>2. Moving(p) /\ row[req[p].cap] \in Grant
    BY <1>1, <1>5 DEF InsertToken, Moving, RowsKnown, TypeOK, Minted
  <2>3. s \in Cap /\ row \in [Cap -> Grant \cup {None}]
    BY <1>1 DEF Cap, TypeOK
  <2>4. CASE t = s
    <3>1. row'[t] = Successor(row[req[p].cap])
      BY <2>1, <2>3, <2>4
    <3>2. QED
      BY <2>2, <3>1 DEF Successor, Grant
  <2>5. CASE t # s
    BY <2>1, <2>3, <2>5
  <2>6. QED
    BY <2>4, <2>5
<1>6. ASSUME NEW u \in User, NEW a \in App, NEW scope \in Scopes,
             NEW authTime \in 0 .. now \cup {None}, NEW challenged \in BOOLEAN,
             IssueCode(u, a, scope, authTime, challenged)
      PROVE  Old
  <2>1. PICK c \in Code \ Minted : row' = [row EXCEPT ![c] = CodeRow(u, a, scope, authTime)]
    BY <1>6 DEF IssueCode
  <2>2. t \in appSessions /\ t # c
    BY <1>1, <1>6 DEF IssueCode
  <2>3. QED
    BY <1>1, <2>1, <2>2 DEF TypeOK
<1>7. QED
  BY <1>1, <1>2, <1>3, <1>4, <1>5, <1>6, StepKinds

\* /account/revoke-consent gets to its last statement only by deleting the sessions.
LEMMA DropCodesFrom ==
  ASSUME FlowsOK, [ProviderNext]_<<vars, pvars>>, NEW w \in Web, flow'[w].pc = "dropCodes"
  PROVE  flow'[w] = flow[w] \/ DropGrantSessions(w)
<1> DEFINE Kept == flow'[w] = flow[w]
<1>1. flow \in [Web -> Flow]
  BY DEF FlowsOK
<1>2. ASSUME NEW v \in Web, Respond(v) PROVE Kept
  BY <1>1, <1>2 DEF Respond, Resting
<1>3. ASSUME NEW v \in Web, NEW g, Begin(v, g), g.pc # "dropCodes" PROVE Kept
  BY <1>1, <1>3 DEF Begin
<1>4. ASSUME NEW v \in Web, NEW l, Proceed(v, l), l # "dropCodes" PROVE Kept
  <2>1. flow' = [flow EXCEPT ![v] = [flow[v] EXCEPT !.pc = l]]
    BY <1>1, <1>4 DEF Proceed
  <2>2. [flow[v] EXCEPT !.pc = l].pc = l
    BY <1>1 DEF Flow
  <2>3. QED
    BY <1>1, <1>4, <2>1, <2>2
<1>5. ASSUME NEW v \in Web, DropGrantSessions(v) PROVE Kept \/ v = w
  BY <1>1, <1>5 DEF DropGrantSessions, Proceed
<1>6. ASSUME NEW v \in Web, NEW u, StartLogin(v, u) PROVE Kept
  BY <1>3, <1>6 DEF StartLogin, Resting
<1>7. ASSUME NEW v \in Web, NEW s, NEW a, NEW scope, StartAuthorize(v, s, a, scope) PROVE Kept
  <2>1. PICK l \in {"gate", "decide"} :
          Begin(v, [Resting EXCEPT !.pc = l, !.user = sessRow[s].user, !.app = a,
                                   !.scope = scope, !.authTime = AuthTimeOf(s)])
    BY <1>7 DEF StartAuthorize
  <2> DEFINE g == [Resting EXCEPT !.pc = l, !.user = sessRow[s].user, !.app = a,
                                  !.scope = scope, !.authTime = AuthTimeOf(s)]
  <2>2. g.pc = l
    BY DEF Resting
  <2> HIDE DEF g
  <2>3. Begin(v, g)
    BY <2>1 DEF g
  <2>4. QED
    BY <1>3, <2>2, <2>3
<1>8. ASSUME NEW v \in Web, CheckGate(v) PROVE Kept
  BY <1>2, <1>4, <1>8 DEF CheckGate
<1>9. ASSUME NEW v \in Web, CheckConsent(v) \/ RecordConsent(v) PROVE Kept
  BY <1>2, <1>4, <1>9 DEF CheckConsent, RecordConsent
<1>10. ASSUME NEW v \in Web, NEW s, StartLogout(v, s) PROVE Kept
  BY <1>3, <1>10 DEF StartLogout, Resting
<1>11. ASSUME NEW v \in Web, NEW t, StartHintedLogout(v, t) PROVE Kept
  BY <1>3, <1>11 DEF StartHintedLogout, Resting
<1>12. ASSUME NEW v \in Web, LogoutTokens(v) \/ LogoutSession(v) \/ DropConsent(v) PROVE Kept
  BY <1>2, <1>4, <1>12 DEF LogoutTokens, LogoutSession, DropConsent
<1>13. ASSUME NEW v \in Web, NEW s, NEW a, StartRevokeConsent(v, s, a) PROVE Kept
  BY <1>3, <1>13 DEF StartRevokeConsent, Resting
<1>14. ASSUME NEW v \in Web,
              CreateSession(v) \/ EmitCode(v) \/ DropGrantCodes(v) \/ AbortFlow(v)
       PROVE  Kept
  BY <1>2, <1>14 DEF CreateSession, EmitCode, DropGrantCodes, AbortFlow
<1>15. ASSUME \/ \E u \in User : RemoveUser(u) \/ EndUserTokens(u)
              \/ \E u \in User, kept \in SUBSET Session : EndSsoSessions(u, kept)
              \/ StoreStep
              \/ UNCHANGED <<vars, pvars>>
       PROVE  Kept
  BY <1>15 DEF RemoveUser, EndUserTokens, EndSsoSessions, StoreStep, pvars
<1>16. ASSUME NEW v \in Web, FlowStep(v) PROVE Kept \/ DropGrantSessions(w)
  BY <1>5, <1>6, <1>7, <1>8, <1>9, <1>10, <1>11, <1>12, <1>13, <1>14, <1>16 DEF FlowStep
<1>17. QED
  BY <1>15, <1>16 DEF ProviderNext

\* Between the two statements the grant stays without a session.
LEMMA SilentStep ==
  ASSUME Chains, Around, RevocationAlone, GrantSilent, [ProviderNext]_<<vars, pvars>>
  PROVE  GrantSilent'
<1>1. [Next]_vars
  BY StoreStepRefined
<1>2. SUFFICES ASSUME NEW w \in Web, flow'[w].pc = "dropCodes", NEW t \in appSessions',
                      row'[t].user = flow'[w].user, row'[t].app = flow'[w].app
               PROVE  FALSE
  BY DEF GrantSilent, OfGrant
<1>3. CASE flow'[w] = flow[w]
  <2>1. \A p \in Proc : Moving(p) => ~OfGrant(req[p].cap, flow[w])
    BY <1>2, <1>3 DEF RevocationAlone
  <2>2. ~(t \in appSessions /\ row'[t] = row[t])
    BY <1>2, <1>3 DEF GrantSilent, OfGrant
  <2>3. QED
    BY <1>1, <1>2, <1>3, <2>1, <2>2, SessionOrigins DEF OfGrant
<1>4. CASE DropGrantSessions(w)
  <2>1. flow'[w].user = flow[w].user /\ flow'[w].app = flow[w].app
    BY <1>4 DEF DropGrantSessions, Proceed, Around, FlowsOK, Flow
  <2>2. /\ appSessions' = appSessions \ {s \in appSessions : row[s].user = flow[w].user
                                                             /\ row[s].app = flow[w].app}
        /\ row' = row
    BY <1>4 DEF DropGrantSessions, DeleteGrantSessions, RevokeSessions
  <2>3. QED
    BY <1>2, <2>1, <2>2
<1>5. QED
  BY <1>2, <1>3, <1>4, DropCodesFrom DEF Around

\* The last statement of a revocation that is alone voids every authorization of the grant.
LEMMA WithdrawnStep ==
  ASSUME Chains, Chains', Around, Provenance, Ended, RevocationAlone, GrantSilent,
         WithdrawnVoid, [ProviderNext]_<<vars, pvars>>
  PROVE  WithdrawnVoid'
<1>1. [Next]_vars
  BY StoreStepRefined
<1>2. ASSUME NEW c \in withdrawn PROVE StatusOf(c)' = "void"
  BY <1>1, <1>2, VoidStays DEF WithdrawnVoid, Ended
<1>3. ASSUME NEW c \in withdrawn' \ withdrawn PROVE StatusOf(c)' = "void"
  <2>1. PICK w \in Web : DropGrantCodes(w)
    BY <1>3, EndedKinds
  <2>2. PICK f : f = flow[w]
    OBVIOUS
  <2>3. c \in Code /\ c \in Minted /\ OfGrant(c, f)
    BY <1>3, <2>1, <2>2 DEF DropGrantCodes, CodesOf, OfGrant
  <2>4. /\ UNCHANGED <<usedCodes, row, req, family, appSessions>>
        /\ authCodes' = {d \in authCodes : ~OfGrant(d, f)}
    BY <2>1, <2>2 DEF DropGrantCodes, DeleteGrantCodes, StoreOnly, OfGrant
  <2>5. f.pc = "dropCodes"
    BY <2>1, <2>2 DEF DropGrantCodes
  <2>6. ASSUME NEW t \in appSessions, family[t] = c PROVE FALSE
    <3>1. OfGrant(t, f)
      BY <2>3, <2>6 DEF Provenance, GrantPreserved, OfGrant, Chains, RowsKnown, TypeOK
    <3>2. QED
      BY <2>2, <2>5, <2>6, <3>1 DEF GrantSilent
  <2>7. ASSUME NEW p \in Proc, Moving(p), FamilyOf(req[p].cap) = c PROVE FALSE
    <3> DEFINE x == req[p].cap
    <3>1. x \in Minted /\ x \in Cap
      BY <2>7 DEF Chains, RowsKnown, Moving, Minted
    <3>2. OfGrant(x, f)
      <4>1. CASE x \in Code
        BY <2>3, <2>7, <4>1 DEF FamilyOf
      <4>2. CASE x \in Token /\ x \notin Code
        BY <2>3, <2>7, <3>1, <4>2 DEF FamilyOf, Provenance, GrantPreserved, OfGrant
      <4>3. QED
        BY <3>1, <4>1, <4>2 DEF Cap
    <3>3. QED
      BY <2>2, <2>5, <2>7, <3>2 DEF RevocationAlone
  <2>8. ~MovingFor(c)' /\ ~HeldFor(c)' /\ c \in Minted' /\ c \notin authCodes'
    BY <2>3, <2>4, <2>6, <2>7 DEF MovingFor, Moving, FamilyOf, HeldFor, Minted
  <2>9. Statuses'
    BY StatusCasesNext
  <2>10. QED
    BY <2>3, <2>8, <2>9 DEF Statuses
<1>4. QED
  BY <1>2, <1>3 DEF WithdrawnVoid

\* What a void authorization lacks.
LEMMA VoidHoldsNothing ==
  ASSUME Chains, NEW t \in appSessions PROVE StatusOf(family[t]) # "void"
<1>1. family[t] \in Code /\ HeldFor(family[t])
  BY DEF Chains, RowsKnown, TypeOK, HeldFor
<1>2. QED
  BY <1>1, StatusCases DEF Statuses

\* Where the families of tokens come from, in the whole provider.
LEMMA ProviderProvenance == ProviderSpec => []Provenance
<1>1. Spec => []Provenance
  BY ProvenanceInit, ProvenanceStep, ChainsInvariant, PTL DEF Spec
<1>2. QED
  BY <1>1, RunsTokenStore, PTL

LEMMA EndedInvariant == ProviderSpec => []Ended
<1>1. ProviderInit => Ended
  BY DEF ProviderInit, Ended
<1>2. Chains /\ Ended /\ [ProviderNext]_<<vars, pvars>> => Ended'
  BY EndedStep
<1>3. QED
  BY <1>1, <1>2, AroundInvariant, PTL DEF ProviderSpec

\* The claim at /oidc/logout, under what it takes to hold: as long as no DELETE of a logout
\* falls between the two halves of an exchange or a refresh, what a logout has ended never
\* has a session again.  This one interleaving is thus the only way around a logout.
THEOREM LogoutEndsUnlessMoving ==
  ProviderSpec /\ [][LogoutMeetsNoMove]_<<vars, pvars>> => []LogoutEndsTokens
<1>1. ProviderInit => SignedOutVoid
  BY DEF ProviderInit, SignedOutVoid
<1>2. /\ Chains /\ Chains' /\ Around /\ Provenance /\ Ended /\ SignedOutVoid
      /\ [LogoutMeetsNoMove]_<<vars, pvars>> /\ [ProviderNext]_<<vars, pvars>>
      => SignedOutVoid'
  <2> SUFFICES ASSUME Chains, Chains', Around, Provenance, Ended, SignedOutVoid,
                      [LogoutMeetsNoMove]_<<vars, pvars>>, [ProviderNext]_<<vars, pvars>>
               PROVE  SignedOutVoid'
    OBVIOUS
  <2>1. LogoutMeetsNoMove
    BY DEF LogoutMeetsNoMove, pvars
  <2>2. QED
    BY <2>1, SignedOutStep
<1>3. Chains /\ SignedOutVoid => LogoutEndsTokens
  BY VoidHoldsNothing DEF SignedOutVoid, LogoutEndsTokens
<1>4. QED
  BY <1>1, <1>2, <1>3, AroundInvariant, ProviderProvenance, EndedInvariant, PTL
     DEF ProviderSpec

\* The claim in /account/revoke-consent, under what it takes to hold: as long as no
\* exchange or refresh of the grant is under way between its last two statements, no
\* authorization it has answered for ever has a session again.
THEOREM RevocationEndsWhenAlone ==
  ProviderSpec /\ []RevocationAlone => []RevocationEndsTokens
<1>1. ProviderInit => WithdrawnVoid /\ GrantSilent
  BY DEF ProviderInit, WithdrawnVoid, GrantSilent, Resting
<1>2. /\ Chains /\ Chains' /\ Around /\ Provenance /\ Ended /\ RevocationAlone
      /\ WithdrawnVoid /\ GrantSilent /\ [ProviderNext]_<<vars, pvars>>
      => WithdrawnVoid' /\ GrantSilent'
  BY WithdrawnStep, SilentStep
<1>3. Chains /\ WithdrawnVoid => RevocationEndsTokens
  BY VoidHoldsNothing DEF WithdrawnVoid, RevocationEndsTokens
<1>4. QED
  BY <1>1, <1>2, <1>3, AroundInvariant, ProviderProvenance, EndedInvariant, PTL
     DEF ProviderSpec
=============================================================================
