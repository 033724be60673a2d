------------------------- MODULE TokenStore_proofs -------------------------
(***************************************************************************)
(* What TokenStore's runs check on small instances, proved for any number  *)
(* of users, apps, codes, tokens, concurrent requests and clock values.    *)
(***************************************************************************)
EXTENDS TokenStore, TLAPS

\* The assumptions on the constants, one conjunct each.
LEMMA ConstantFacts ==
  /\ Code \cap Token = {}
  /\ None \notin Code /\ None \notin Token /\ None \notin Nat /\ None \notin Grant
  /\ CodeTTL \in Nat /\ AccessTTL \in Nat /\ MaxTime \in Nat
  BY ConstantsOK DEF ConstantsOK, Cap

-----------------------------------------------------------------------------
(* The inductive invariant                                                 *)

\* Rows and requests only name rows that were inserted, codes where a handler
\* holds a code and tokens where it holds a refresh token.
RowsKnown ==
  /\ TypeOK
  /\ appSessions \subseteq Minted
  /\ authCodes \cup usedCodes \subseteq Minted
  /\ \A t \in Token \cap Minted : family[t] \in Code
  /\ \A p \in Proc :
       /\ req[p].pc \in {"claim", "verify", "user"} => req[p].cap \in Code
       /\ req[p].pc \in {"permission", "denied", "lookup", "consume", "revoke"}
            => req[p].cap \in Token
       /\ req[p].pc # "idle" => req[p].cap \in Minted

\* A token descends from a spent code, directly or through a token of the same
\* family.
Lineage ==
  \A t \in Token \cap Minted :
    /\ family[t] \in usedCodes
    /\ parent[t] \in usedCodes => parent[t] = family[t]
    /\ parent[t] \in usedCodes \cup (Token \cap Minted)
    /\ parent[t] \notin appSessions

\* What a moving request holds is spent: neither the row of a session nor an
\* unused code, and nothing was issued for it yet.
HeldAlone ==
  \A p \in Proc : Moving(p) =>
    /\ req[p].cap \in usedCodes \cup (Token \cap Minted)
    /\ req[p].cap \notin appSessions
    /\ FamilyOf(req[p].cap) \in usedCodes
    /\ \A t \in Token \cap Minted :
         /\ parent[t] # req[p].cap
         /\ req[p].cap \in Code => family[t] # req[p].cap

\* One session or one moving request per family.
Exclusive ==
  /\ OneSessionPerFamily
  /\ \A p, q \in Proc :
       Moving(p) /\ Moving(q) /\ FamilyOf(req[p].cap) = FamilyOf(req[q].cap) => p = q
  /\ \A t \in appSessions, p \in Proc : Moving(p) => family[t] # FamilyOf(req[p].cap)

\* RevocationFinal, from the moment the code or the refresh token is spent.
Final ==
  /\ killed \subseteq usedCodes
  /\ \A t \in appSessions : family[t] \notin killed
  /\ \A p \in Proc : Moving(p) => FamilyOf(req[p].cap) \notin killed

\* PKCE has been seen by the time a public client's code reaches the user lookup.
PkceSeen ==
  \A p \in Proc :
    /\ req[p].pc \in {"user", "insert"}
    /\ req[p].cap \in Code
    /\ row[req[p].cap].app \in PublicApp
    => req[p].cap \in pkce

Chains == RowsKnown /\ Lineage /\ HeldAlone /\ Exclusive /\ Final /\ SingleSuccessor

-----------------------------------------------------------------------------

\* The empty tables have the right shape.
LEMMA ShapeInit == Init => RowsKnown
  BY ConstantFacts DEF Init, RowsKnown, TypeOK, Minted, Idle, Cap, Time

\* issueOidcTokens writes a row of the right type.
LEMMA SuccessorType ==
  ASSUME now \in Time, NEW g \in Grant
  PROVE  /\ Successor(g) \in Grant
         /\ Successor(g).user = g.user
         /\ Successor(g).app = g.app
         /\ Successor(g).scope = g.scope
         /\ Successor(g).authTime # None
         /\ g.authTime # None => Successor(g).authTime = g.authTime
<1> DEFINE at == IF g.authTime = None THEN now ELSE g.authTime
<1>1. now + AccessTTL \in Nat /\ now # None
  BY ConstantFacts DEF Time
<1>2. at \in Time /\ at # None /\ (g.authTime # None => at = g.authTime)
  BY <1>1 DEF Grant
<1>3. Successor(g) = [g EXCEPT !.authTime = at, !.expires = now + AccessTTL]
  BY DEF Successor
<1> HIDE DEF at
<1>4. Successor(g) = [user |-> g.user, app |-> g.app, scope |-> g.scope,
                      authTime |-> at, expires |-> now + AccessTTL]
  BY <1>3 DEF Grant
<1>5. QED
  BY <1>1, <1>2, <1>4 DEF Grant

\* Every statement keeps the shape of tables and requests.
LEMMA ShapeStep == RowsKnown /\ [Next]_vars => RowsKnown'
<1> SUFFICES ASSUME RowsKnown, [Next]_vars PROVE RowsKnown'
  OBVIOUS
<1> USE ConstantFacts DEF RowsKnown, TypeOK, Minted, Cap, Time, world, codeTab
<1>1. ASSUME NEW p \in Proc, NEW c \in Code, PresentCode(p, c)
      PROVE RowsKnown'
  BY <1>1 DEF PresentCode, Idle
<1>2. ASSUME NEW p \in Proc, ClaimCode(p)
      PROVE RowsKnown'
  BY <1>2 DEF ClaimCode, Claimable, Goto, Answer, Idle
<1>3. ASSUME NEW p \in Proc, VerifyClient(p)
      PROVE RowsKnown'
  <2>1. /\ req[p].pc = "verify"
        /\ Goto(p, "user") \/ Answer(p)
        /\ UNCHANGED <<now, world, codeTab, appSessions, row, parent, family, killed>>
    BY <1>3 DEF VerifyClient
  <2>2. CASE Goto(p, "user")
    BY <2>1, <2>2 DEF Goto
  <2>3. CASE Answer(p)
    BY <2>1, <2>3 DEF Answer, Idle
  <2>4. QED
    BY <2>1, <2>2, <2>3
<1>4. ASSUME NEW p \in Proc, LookupCodeUser(p)
      PROVE RowsKnown'
  BY <1>4 DEF LookupCodeUser, Goto, Answer, Idle
<1>5. ASSUME NEW p \in Proc, InsertToken(p)
      PROVE RowsKnown'
  <2> DEFINE x == req[p].cap
  <2>1. x \in Cap /\ row[x] \in Grant /\ FamilyOf(x) \in Code
    BY <1>5 DEF InsertToken, FamilyOf
  <2>2. Successor(row[x]) \in Grant
    BY <2>1, SuccessorType
  <2> QED
    BY <1>5, <2>1, <2>2 DEF InsertToken, Answer, Idle
<1>6. ASSUME NEW p \in Proc, NEW t \in Token, PresentRefresh(p, t)
      PROVE RowsKnown'
  BY <1>6 DEF PresentRefresh, Idle
<1>7. ASSUME NEW p \in Proc, CheckRefreshPermission(p)
      PROVE RowsKnown'
  BY <1>7 DEF CheckRefreshPermission, Goto
<1>8. ASSUME NEW p \in Proc, DropDenied(p)
      PROVE RowsKnown'
  BY <1>8 DEF DropDenied, RevokeSessions, Answer, Idle
<1>9. ASSUME NEW p \in Proc, LookupRefreshUser(p)
      PROVE RowsKnown'
  BY <1>9 DEF LookupRefreshUser, Goto, Answer, Idle
<1>10. ASSUME NEW p \in Proc, ConsumeRefresh(p)
      PROVE RowsKnown'
  BY <1>10 DEF ConsumeRefresh, Goto, Answer, Idle
<1>11. ASSUME NEW p \in Proc, NEW t \in Token, PresentRevoke(p, t)
      PROVE RowsKnown'
  BY <1>11 DEF PresentRevoke, Idle
<1>12. ASSUME NEW p \in Proc, DeleteRevoked(p)
      PROVE RowsKnown'
  BY <1>12 DEF DeleteRevoked, RevokeSessions, Answer, Idle
<1>13. ASSUME NEW p \in Proc, Abort(p)
      PROVE RowsKnown'
  BY <1>13 DEF Abort, Answer, Idle
<1>14. ASSUME NEW u \in User, NEW a \in App, NEW scope \in Scopes,
             NEW authTime \in 0 .. now \cup {None}, NEW challenged \in BOOLEAN, IssueCode(u, a, scope, authTime, challenged), UNCHANGED <<now, world, req>>
      PROVE RowsKnown'
  BY <1>14 DEF IssueCode, CodeRow, Grant
<1>15. ASSUME NEW u \in User, DeleteUserSessions(u), UNCHANGED <<now, world, req>>
      PROVE RowsKnown'
  BY <1>15 DEF DeleteUserSessions, RevokeSessions
<1>16. ASSUME NEW u \in User, NEW a \in App, DeleteGrantSessions(u, a), UNCHANGED <<now, world, req>>
      PROVE RowsKnown'
  BY <1>16 DEF DeleteGrantSessions, RevokeSessions
<1>17. ASSUME NEW u \in User, NEW a \in App, DeleteGrantCodes(u, a), UNCHANGED <<now, world, req>>
      PROVE RowsKnown'
  BY <1>17 DEF DeleteGrantCodes
<1>18. ASSUME NEW u \in User, DeleteUser(u)
      PROVE RowsKnown'
  BY <1>18 DEF DeleteUser, RevokeSessions
<1>19. ASSUME NEW a \in App, DeleteApp(a)
      PROVE RowsKnown'
  BY <1>19 DEF DeleteApp, RevokeSessions
<1>20. ASSUME NEW u \in User, NEW a \in App, TogglePermission(u, a)
      PROVE RowsKnown'
  BY <1>20 DEF TogglePermission
<1>21. ASSUME Tick
      PROVE RowsKnown'
  BY <1>21 DEF Tick
<1>22. ASSUME UNCHANGED vars
      PROVE RowsKnown'
  BY <1>22 DEF vars
<1> HIDE DEF RowsKnown, TypeOK, Minted, Cap, Time, world, codeTab
<1>r. ASSUME NEW p \in Proc, RequestStep(p) PROVE RowsKnown'
  BY <1>r, <1>1, <1>2, <1>3, <1>4, <1>5, <1>6, <1>7, <1>8, <1>9, <1>10, <1>11, <1>12, <1>13
     DEF RequestStep
<1>s. ASSUME Statement, UNCHANGED <<now, world, req>> PROVE RowsKnown'
  BY <1>s, <1>14, <1>15, <1>16, <1>17 DEF Statement
<1>e. ASSUME Environment PROVE RowsKnown'
  BY <1>e, <1>18, <1>19, <1>20, <1>21 DEF Environment
<1>q. QED
  BY <1>r, <1>s, <1>e, <1>22 DEF Next

-----------------------------------------------------------------------------
(* Steps that neither spend, issue nor insert: they may end sessions, which  *)
(* kills their families, and requests may stop or go on with what they hold. *)

Quiet ==
  /\ UNCHANGED <<usedCodes, row, parent, family>>
  /\ authCodes' \subseteq authCodes
  /\ appSessions' \subseteq appSessions
  /\ killed' = killed \cup {family[t] : t \in appSessions \ appSessions'}
  /\ \A p \in Proc : Moving(p)' => Moving(p) /\ req'[p].cap = req[p].cap

\* A statement that spends and inserts nothing keeps the chains.
LEMMA QuietChains == Chains /\ RowsKnown' /\ Quiet => Chains'
<1> SUFFICES ASSUME Chains, RowsKnown', Quiet PROVE Chains'
  OBVIOUS
<1> USE ConstantFacts DEF Chains, Quiet, RowsKnown, TypeOK, Minted, Cap
<1>1. Lineage'
  BY DEF Lineage
<1>2. HeldAlone'
  BY DEF HeldAlone, FamilyOf
<1>3. Exclusive'
  BY DEF Exclusive, OneSessionPerFamily, FamilyOf
<1>4. Final'
  BY DEF Final, Exclusive, OneSessionPerFamily, Lineage, FamilyOf
<1>5. SingleSuccessor'
  BY DEF SingleSuccessor
<1>6. QED
  BY <1>1, <1>2, <1>3, <1>4, <1>5

\* Every step is quiet, claims a code, consumes a refresh token, or inserts a row.
LEMMA StepKinds ==
  ASSUME RowsKnown, [Next]_vars
  PROVE  \/ Quiet
         \/ \E p \in Proc : ClaimCode(p) /\ usedCodes' # usedCodes
         \/ \E p \in Proc : ConsumeRefresh(p) /\ appSessions' # appSessions
         \/ \E p \in Proc : InsertToken(p)
         \/ \E u \in User, a \in App, scope \in Scopes,
               authTime \in 0 .. now \cup {None}, challenged \in BOOLEAN :
              IssueCode(u, a, scope, authTime, challenged) /\ UNCHANGED req
<1> USE ConstantFacts DEF RowsKnown, TypeOK, Quiet, Moving, Idle, codeTab
<1>1. ASSUME NEW p \in Proc, NEW c \in Code, PresentCode(p, c) PROVE Quiet
  BY <1>1 DEF PresentCode
<1>2. ASSUME NEW p \in Proc, ClaimCode(p), UNCHANGED usedCodes PROVE Quiet
  BY <1>2 DEF ClaimCode, Claimable, Goto, Answer
<1>3. ASSUME NEW p \in Proc, VerifyClient(p) PROVE Quiet
  BY <1>3 DEF VerifyClient, Goto, Answer
<1>4. ASSUME NEW p \in Proc, LookupCodeUser(p) PROVE Quiet
  BY <1>4 DEF LookupCodeUser, Goto, Answer
<1>5. ASSUME NEW p \in Proc, NEW t \in Token, PresentRefresh(p, t) PROVE Quiet
  BY <1>5 DEF PresentRefresh
<1>6. ASSUME NEW p \in Proc, CheckRefreshPermission(p) PROVE Quiet
  BY <1>6 DEF CheckRefreshPermission, Goto
<1>7. ASSUME NEW p \in Proc, DropDenied(p) PROVE Quiet
  BY <1>7 DEF DropDenied, RevokeSessions, Answer
<1>8. ASSUME NEW p \in Proc, LookupRefreshUser(p) PROVE Quiet
  BY <1>8 DEF LookupRefreshUser, Goto, Answer
<1>9. ASSUME NEW p \in Proc, ConsumeRefresh(p), UNCHANGED appSessions PROVE Quiet
  BY <1>9 DEF ConsumeRefresh, Goto, Answer
<1>10. ASSUME NEW p \in Proc, NEW t \in Token, PresentRevoke(p, t) PROVE Quiet
  BY <1>10 DEF PresentRevoke
<1>11. ASSUME NEW p \in Proc, DeleteRevoked(p) PROVE Quiet
  BY <1>11 DEF DeleteRevoked, RevokeSessions, Answer
<1>12. ASSUME NEW p \in Proc, Abort(p) PROVE Quiet
  BY <1>12 DEF Abort, Answer
<1>13. ASSUME NEW u \in User, DeleteUserSessions(u), UNCHANGED req PROVE Quiet
  BY <1>13 DEF DeleteUserSessions, RevokeSessions
<1>14. ASSUME NEW u \in User, NEW a \in App, DeleteGrantSessions(u, a), UNCHANGED req PROVE Quiet
  BY <1>14 DEF DeleteGrantSessions, RevokeSessions
<1>15. ASSUME NEW u \in User, NEW a \in App, DeleteGrantCodes(u, a), UNCHANGED req PROVE Quiet
  BY <1>15 DEF DeleteGrantCodes
<1>16. ASSUME NEW u \in User, DeleteUser(u) PROVE Quiet
  BY <1>16 DEF DeleteUser, RevokeSessions
<1>17. ASSUME NEW a \in App, DeleteApp(a) PROVE Quiet
  BY <1>17 DEF DeleteApp, RevokeSessions
<1>18. ASSUME NEW u \in User, NEW a \in App, TogglePermission(u, a) PROVE Quiet
  BY <1>18 DEF TogglePermission
<1>19. ASSUME Tick PROVE Quiet
  BY <1>19 DEF Tick
<1>20. ASSUME UNCHANGED vars PROVE Quiet
  BY <1>20 DEF vars
<1> HIDE DEF RowsKnown, TypeOK, Quiet, Moving, Idle, codeTab
<1>r. ASSUME NEW p \in Proc, RequestStep(p)
      PROVE  \/ Quiet
             \/ ClaimCode(p) /\ usedCodes' # usedCodes
             \/ ConsumeRefresh(p) /\ appSessions' # appSessions
             \/ InsertToken(p)
  BY <1>r, <1>1, <1>2, <1>3, <1>4, <1>5, <1>6, <1>7, <1>8, <1>9, <1>10, <1>11, <1>12
     DEF RequestStep
<1>s. ASSUME Statement, UNCHANGED req
      PROVE  \/ Quiet
             \/ \E u \in User, a \in App, scope \in Scopes,
                   authTime \in 0 .. now \cup {None}, challenged \in BOOLEAN :
                  IssueCode(u, a, scope, authTime, challenged)
  BY <1>s, <1>13, <1>14, <1>15 DEF Statement
<1>e. ASSUME Environment PROVE Quiet
  BY <1>e, <1>16, <1>17, <1>18, <1>19 DEF Environment
<1>q. QED
  BY <1>r, <1>s, <1>e, <1>20 DEF Next

\* The claiming UPDATE keeps the chains.
LEMMA ClaimChains ==
  ASSUME Chains, RowsKnown', NEW p \in Proc, ClaimCode(p), usedCodes' # usedCodes
  PROVE  Chains'
<1> DEFINE c == req[p].cap
<1> USE ConstantFacts DEF RowsKnown, TypeOK, Minted, Cap, Moving, codeTab
<1>1. /\ c \in Code \ usedCodes /\ usedCodes' = usedCodes \cup {c}
      /\ req' = [req EXCEPT ![p].pc = "verify"]
      /\ UNCHANGED <<appSessions, row, parent, family, killed>>
      /\ RowsKnown /\ Lineage /\ HeldAlone /\ Exclusive /\ Final /\ SingleSuccessor
  BY DEF ClaimCode, Claimable, Goto, Chains
<1>2. /\ Moving(p)' /\ req'[p].cap = c
      /\ \A q \in Proc \ {p} : req'[q] = req[q]
  BY <1>1
<1>3. \A t \in Token \cap Minted : family[t] # c /\ parent[t] # c
  BY <1>1 DEF Lineage
<1>4. Lineage'
  BY <1>1, <1>3 DEF Lineage
<1>5. HeldAlone'
  BY <1>1, <1>2, <1>3 DEF HeldAlone, FamilyOf
<1>6. Exclusive'
  BY <1>1, <1>2, <1>3 DEF Exclusive, HeldAlone, OneSessionPerFamily, FamilyOf
<1>7. Final'
  BY <1>1, <1>2 DEF Final, FamilyOf
<1>8. SingleSuccessor'
  BY <1>1 DEF SingleSuccessor
<1>9. QED
  BY <1>4, <1>5, <1>6, <1>7, <1>8 DEF Chains

\* The DELETE that rotates a refresh token keeps the chains.
LEMMA ConsumeChains ==
  ASSUME Chains, RowsKnown', NEW p \in Proc, ConsumeRefresh(p),
         appSessions' # appSessions
  PROVE  Chains'
<1> DEFINE t == req[p].cap
<1> USE ConstantFacts DEF RowsKnown, TypeOK, Minted, Cap, Moving, codeTab
<1>1. /\ t \in appSessions /\ appSessions' = appSessions \ {t}
      /\ req' = [req EXCEPT ![p].pc = "insert"]
      /\ UNCHANGED <<usedCodes, row, parent, family, killed>>
      /\ RowsKnown /\ Lineage /\ HeldAlone /\ Exclusive /\ Final /\ SingleSuccessor
  BY DEF ConsumeRefresh, Goto, Chains
<1>2. /\ Moving(p)' /\ req'[p].cap = t /\ t \in Token \cap Minted
      /\ \A q \in Proc \ {p} : req'[q] = req[q]
  BY <1>1
<1>3. \A s \in Token \cap Minted : parent[s] # t
  BY <1>1 DEF Lineage
<1>4. Lineage'
  BY <1>1 DEF Lineage
<1>5. HeldAlone'
  BY <1>1, <1>2, <1>3 DEF HeldAlone, Lineage, FamilyOf
<1>6. Exclusive'
  BY <1>1, <1>2 DEF Exclusive, OneSessionPerFamily, FamilyOf
<1>7. Final'
  BY <1>1, <1>2 DEF Final, FamilyOf
<1>8. SingleSuccessor'
  BY <1>1 DEF SingleSuccessor
<1>9. QED
  BY <1>4, <1>5, <1>6, <1>7, <1>8 DEF Chains

\* The INSERT of a session keeps the chains.
LEMMA InsertChains ==
  ASSUME Chains, RowsKnown', NEW p \in Proc, InsertToken(p)
  PROVE  Chains'
<1> DEFINE x == req[p].cap
<1> USE ConstantFacts DEF RowsKnown, TypeOK, Minted, Cap, Moving, codeTab
<1>1. PICK t \in Token \ Minted :
         /\ appSessions' = appSessions \cup {t}
         /\ row' = [row EXCEPT ![t] = Successor(row[x])]
         /\ parent' = [parent EXCEPT ![t] = x]
         /\ family' = [family EXCEPT ![t] = FamilyOf(x)]
  BY DEF InsertToken
<1>2. /\ req' = [req EXCEPT ![p] = Idle]
      /\ UNCHANGED <<usedCodes, killed>>
      /\ Moving(p) /\ x \in Cap
      /\ RowsKnown /\ Lineage /\ HeldAlone /\ Exclusive /\ Final /\ SingleSuccessor
  BY DEF InsertToken, Answer, Chains
<1>3. /\ ~Moving(p)'
      /\ \A q \in Proc \ {p} : req'[q] = req[q]
  BY <1>2 DEF Idle
<1>4. /\ Token \cap Minted' = (Token \cap Minted) \cup {t}
      /\ t \notin appSessions /\ x # t
  <2>1. Successor(row[x]) \in Grant
    BY <1>2, SuccessorType
  <2> QED
    BY <1>1, <1>2, <2>1
<1>5. /\ x \in usedCodes \cup (Token \cap Minted)
      /\ x \notin appSessions
      /\ FamilyOf(x) \in usedCodes \ killed
      /\ x \in Code => FamilyOf(x) = x
      /\ \A s \in Token \cap Minted : parent[s] # x
  BY <1>2 DEF HeldAlone, Final, FamilyOf
<1>6. \A s \in appSessions : family[s] # FamilyOf(x)
  BY <1>2 DEF Exclusive
<1>7. \A q \in Proc \ {p} : Moving(q) =>
        /\ FamilyOf(req[q].cap)' = FamilyOf(req[q].cap)
        /\ FamilyOf(req[q].cap) # FamilyOf(x)
        /\ req[q].cap # t /\ req[q].cap # x
  BY <1>1, <1>2, <1>3 DEF Exclusive, FamilyOf
<1>8. Lineage'
  BY <1>1, <1>2, <1>4, <1>5 DEF Lineage
<1>9. HeldAlone'
  BY <1>1, <1>2, <1>3, <1>4, <1>5, <1>7 DEF HeldAlone, FamilyOf
<1>10. Exclusive'
  BY <1>1, <1>2, <1>3, <1>4, <1>6, <1>7 DEF Exclusive, OneSessionPerFamily
<1>11. Final'
  BY <1>1, <1>2, <1>3, <1>4, <1>5, <1>7 DEF Final
<1>12. SingleSuccessor'
  BY <1>1, <1>2, <1>4, <1>5 DEF SingleSuccessor
<1>13. QED
  BY <1>8, <1>9, <1>10, <1>11, <1>12 DEF Chains

\* The INSERT of a code keeps the chains.
LEMMA IssueChains ==
  ASSUME Chains, RowsKnown', UNCHANGED req,
         NEW u \in User, NEW a \in App, NEW scope \in Scopes,
         NEW authTime \in 0 .. now \cup {None}, NEW challenged \in BOOLEAN,
         IssueCode(u, a, scope, authTime, challenged)
  PROVE  Chains'
<1> USE ConstantFacts DEF RowsKnown, TypeOK, Minted, Cap
<1>1. PICK c \in Code \ Minted :
        row' = [row EXCEPT ![c] = CodeRow(u, a, scope, authTime)]
  BY DEF IssueCode
<1>2. /\ UNCHANGED <<usedCodes, appSessions, parent, family, killed>>
      /\ RowsKnown /\ Lineage /\ HeldAlone /\ Exclusive /\ Final /\ SingleSuccessor
  BY DEF IssueCode, Chains
<1>3. Token \cap Minted' = Token \cap Minted
  BY <1>1, <1>2
<1>4. Lineage'
  BY <1>2, <1>3 DEF Lineage
<1>5. HeldAlone'
  BY <1>2, <1>3 DEF HeldAlone, FamilyOf, Moving
<1>6. Exclusive' /\ Final'
  BY <1>2 DEF Exclusive, OneSessionPerFamily, Final, FamilyOf, Moving
<1>7. SingleSuccessor'
  BY <1>2, <1>3 DEF SingleSuccessor
<1>8. QED
  BY <1>4, <1>5, <1>6, <1>7 DEF Chains

\* Empty tables hold no chain.
LEMMA ChainsInit == Init => Chains
<1> SUFFICES ASSUME Init PROVE Chains
  OBVIOUS
<1>1. RowsKnown
  BY ShapeInit
<1>2. QED
  BY <1>1, ConstantFacts
     DEF Init, Chains, Lineage, HeldAlone, Exclusive, Final, SingleSuccessor,
         OneSessionPerFamily, Minted, Moving, Idle, Cap

\* Every statement keeps the chains.
LEMMA ChainsStep == Chains /\ [Next]_vars => Chains'
<1> SUFFICES ASSUME Chains, [Next]_vars PROVE Chains'
  OBVIOUS
<1>1. RowsKnown /\ RowsKnown'
  BY ShapeStep DEF Chains
<1>2. QED
  BY <1>1, StepKinds, QuietChains, ClaimChains, ConsumeChains, InsertChains,
     IssueChains

\* The inductive invariant: the chains of tokens hang together as Chains says
\* after any number of statements of any number of handlers, in any order.
THEOREM ChainsInvariant == Spec => []Chains
  BY ChainsInit, ChainsStep, PTL DEF Spec

-----------------------------------------------------------------------------
(* What follows for TokenStore's properties                                *)

\* The tables and the requests' locals only ever hold what schema.sql and the
\* handlers put there.
THEOREM TypeCorrect == Spec => []TypeOK
<1>1. Chains => TypeOK
  BY DEF Chains, RowsKnown
<1>2. QED
  BY <1>1, ChainsInvariant, PTL

\* No two sessions were ever issued for one code or for one refresh token,
\* whatever number of requests raced for it.
THEOREM SingleUse == Spec => []SingleSuccessor
<1>1. Chains => SingleSuccessor
  BY DEF Chains
<1>2. QED
  BY <1>1, ChainsInvariant, PTL

\* One authorization has at most one row of app_sessions.
THEOREM NoForkedChain == Spec => []OneSessionPerFamily
<1>1. Chains => OneSessionPerFamily
  BY DEF Chains, Exclusive
<1>2. QED
  BY <1>1, ChainsInvariant, PTL

\* A session that was deleted other than by its own rotation has no successor,
\* present or still to come.
THEOREM NoReturnAfterRevocation == Spec => []RevocationFinal
<1>1. Chains => RevocationFinal
  BY DEF Chains, Final, RevocationFinal, Moving
<1>2. QED
  BY <1>1, ChainsInvariant, PTL

-----------------------------------------------------------------------------
(* What a chain of tokens carries                                          *)

Provenance == GrantPreserved /\ PublicClientUsedPkce /\ PkceSeen

\* Steps that insert no row: rows, families and pkce stay, and a request that
\* holds a code past the PKCE check was past it before or passes it now.
KeepsRows ==
  /\ UNCHANGED <<row, family, pkce>>
  /\ \A q \in Proc :
       LET x == req'[q].cap IN
       /\ req'[q].pc \in {"user", "insert"}
       /\ x \in Code
       => \/ req[q].pc \in {"user", "insert"} /\ x = req[q].cap
          \/ row[x].app \notin PublicApp
          \/ x \in pkce

\* Which steps touch the columns of rows, and which do not.
LEMMA ProvenanceKinds ==
  ASSUME Chains, [Next]_vars
  PROVE  \/ KeepsRows
         \/ \E p \in Proc : InsertToken(p)
         \/ \E u \in User, a \in App, scope \in Scopes,
               authTime \in 0 .. now \cup {None}, challenged \in BOOLEAN :
              IssueCode(u, a, scope, authTime, challenged) /\ UNCHANGED req
<1> USE ConstantFacts DEF KeepsRows, Chains, RowsKnown, TypeOK, Idle, codeTab
<1>1. ASSUME NEW p \in Proc, NEW c \in Code, PresentCode(p, c) PROVE KeepsRows
  BY <1>1 DEF PresentCode
<1>2. ASSUME NEW p \in Proc, ClaimCode(p) PROVE KeepsRows
  BY <1>2 DEF ClaimCode, Goto, Answer
<1>3. ASSUME NEW p \in Proc, VerifyClient(p) PROVE KeepsRows
  BY <1>3 DEF VerifyClient, ClientAuthenticated, Goto, Answer
<1>4. ASSUME NEW p \in Proc, LookupCodeUser(p) PROVE KeepsRows
  BY <1>4 DEF LookupCodeUser, Goto, Answer
<1>5. ASSUME NEW p \in Proc, NEW t \in Token, PresentRefresh(p, t) PROVE KeepsRows
  BY <1>5 DEF PresentRefresh
<1>6. ASSUME NEW p \in Proc, CheckRefreshPermission(p) PROVE KeepsRows
  BY <1>6 DEF CheckRefreshPermission, Goto
<1>7. ASSUME NEW p \in Proc, DropDenied(p) PROVE KeepsRows
  BY <1>7 DEF DropDenied, Answer
<1>8. ASSUME NEW p \in Proc, LookupRefreshUser(p) PROVE KeepsRows
  BY <1>8 DEF LookupRefreshUser, Goto, Answer
<1>9. ASSUME NEW p \in Proc, ConsumeRefresh(p) PROVE KeepsRows
  BY <1>9 DEF ConsumeRefresh, Goto, Answer
<1>10. ASSUME NEW p \in Proc, NEW t \in Token, PresentRevoke(p, t) PROVE KeepsRows
  BY <1>10 DEF PresentRevoke
<1>11. ASSUME NEW p \in Proc, DeleteRevoked(p) PROVE KeepsRows
  BY <1>11 DEF DeleteRevoked, Answer
<1>12. ASSUME NEW p \in Proc, Abort(p) PROVE KeepsRows
  BY <1>12 DEF Abort, Answer
<1>13. ASSUME NEW u \in User, DeleteUserSessions(u), UNCHANGED req PROVE KeepsRows
  BY <1>13 DEF DeleteUserSessions
<1>14. ASSUME NEW u \in User, NEW a \in App, DeleteGrantSessions(u, a), UNCHANGED req PROVE KeepsRows
  BY <1>14 DEF DeleteGrantSessions
<1>15. ASSUME NEW u \in User, NEW a \in App, DeleteGrantCodes(u, a), UNCHANGED req PROVE KeepsRows
  BY <1>15 DEF DeleteGrantCodes
<1>16. ASSUME NEW u \in User, DeleteUser(u) PROVE KeepsRows
  BY <1>16 DEF DeleteUser
<1>17. ASSUME NEW a \in App, DeleteApp(a) PROVE KeepsRows
  BY <1>17 DEF DeleteApp
<1>18. ASSUME NEW u \in User, NEW a \in App, TogglePermission(u, a) PROVE KeepsRows
  BY <1>18 DEF TogglePermission
<1>19. ASSUME Tick PROVE KeepsRows
  BY <1>19 DEF Tick
<1>20. ASSUME UNCHANGED vars PROVE KeepsRows
  BY <1>20 DEF vars
<1> HIDE DEF KeepsRows, Chains, RowsKnown, TypeOK, Idle, codeTab
<1>r. ASSUME NEW p \in Proc, RequestStep(p) PROVE KeepsRows \/ InsertToken(p)
  BY <1>r, <1>1, <1>2, <1>3, <1>4, <1>5, <1>6, <1>7, <1>8, <1>9, <1>10, <1>11, <1>12
     DEF RequestStep
<1>s. ASSUME Statement, UNCHANGED req
      PROVE  \/ KeepsRows
             \/ \E u \in User, a \in App, scope \in Scopes,
                   authTime \in 0 .. now \cup {None}, challenged \in BOOLEAN :
                  IssueCode(u, a, scope, authTime, challenged)
  BY <1>s, <1>13, <1>14, <1>15 DEF Statement
<1>e. ASSUME Environment PROVE KeepsRows
  BY <1>e, <1>16, <1>17, <1>18, <1>19 DEF Environment
<1>q. QED
  BY <1>r, <1>s, <1>e, <1>20 DEF Next

\* A new session takes its grant from what was spent for it.
LEMMA ProvenanceInsert ==
  ASSUME Chains, Provenance, Chains', NEW p \in Proc, InsertToken(p)
  PROVE  Provenance'
<1> DEFINE x == req[p].cap
<1> USE ConstantFacts DEF RowsKnown, TypeOK, Minted, Cap, codeTab
<1>1. PICK t \in Token \ Minted :
         /\ row' = [row EXCEPT ![t] = Successor(row[x])]
         /\ family' = [family EXCEPT ![t] = FamilyOf(x)]
  BY DEF InsertToken
<1>2. /\ req' = [req EXCEPT ![p] = Idle]
      /\ UNCHANGED pkce
      /\ req[p].pc = "insert" /\ x \in Minted
      /\ RowsKnown /\ RowsKnown' /\ Lineage /\ HeldAlone
      /\ GrantPreserved /\ PublicClientUsedPkce /\ PkceSeen
  BY DEF InsertToken, Answer, Chains, Provenance
<1>3. /\ row'[t] = Successor(row[x])
      /\ family'[t] = FamilyOf(x)
      /\ row[x] \in Grant
      /\ FamilyOf(x) \in Code \cap Minted
      /\ \A y \in Cap \ {t} : row'[y] = row[y]
      /\ \A s \in Token \ {t} : family'[s] = family[s]
      /\ Token \cap Minted' = (Token \cap Minted) \cup {t}
  <2>1. x \in Cap /\ row[x] \in Grant
    BY <1>2
  <2>2. Successor(row[x]) \in Grant
    BY <1>2, <2>1, SuccessorType
  <2>3. FamilyOf(x) \in Code \cap Minted
    BY <1>2, <2>1 DEF FamilyOf, Lineage
  <2> QED
    BY <1>1, <1>2, <2>1, <2>2, <2>3
<1>4. LET g == row[x]  o == row[FamilyOf(x)] IN
      /\ <<g.user, g.app, g.scope>> = <<o.user, o.app, o.scope>>
      /\ o.authTime # None => g.authTime = o.authTime
      /\ \A s \in Token \cap Minted : family[s] = FamilyOf(x) =>
           g.authTime # None /\ row[s].authTime = g.authTime
  <2>1. CASE x \in Code
    <3>1. FamilyOf(x) = x /\ \A s \in Token \cap Minted : family[s] # x
      BY <1>2, <2>1 DEF FamilyOf, HeldAlone, Moving
    <3>2. QED
      BY <3>1
  <2>2. CASE x \in Token
    <3>1. FamilyOf(x) = family[x] /\ x \in Token \cap Minted
      BY <1>2, <2>2 DEF FamilyOf
    <3>2. QED
      BY <1>2, <3>1 DEF GrantPreserved
  <2>3. QED
    BY <1>2, <2>1, <2>2
<1>5. /\ <<row'[t].user, row'[t].app, row'[t].scope>>
           = <<row[x].user, row[x].app, row[x].scope>>
      /\ row'[t].authTime # None
      /\ row[x].authTime # None => row'[t].authTime = row[x].authTime
  BY <1>2, <1>3, SuccessorType
<1>6. \A s \in Token \cap Minted : family[s] \in Code /\ family[s] # t /\ s # t
  BY <1>2, <1>1
<1>7. GrantPreserved'
  <2> SUFFICES ASSUME NEW s \in Token \cap Minted'
               PROVE LET g == row'[s]  o == row'[family'[s]] IN
                 /\ <<g.user, g.app, g.scope>> = <<o.user, o.app, o.scope>>
                 /\ g.authTime # None
                 /\ o.authTime # None => g.authTime = o.authTime
                 /\ \A r \in Token \cap Minted' :
                      family'[r] = family'[s] => row'[r].authTime = g.authTime
    BY DEF GrantPreserved
  <2>1. CASE s = t
    <3>1. family'[t] = FamilyOf(x) /\ FamilyOf(x) # t
      BY <1>1, <1>2, <1>3
    <3>2. \A r \in Token \cap Minted' :
             r # t => r \in Token \cap Minted /\ row'[r] = row[r] /\ family'[r] = family[r]
      BY <1>3
    <3>3. \A r \in Token \cap Minted' :
             family'[r] = FamilyOf(x) => row'[r].authTime = row'[t].authTime
      BY <1>4, <1>5, <3>2
    <3>4. row'[FamilyOf(x)] = row[FamilyOf(x)]
      BY <1>1, <1>2, <1>3, <3>1
    <3>5. QED
      BY <1>4, <1>5, <2>1, <3>1, <3>3, <3>4
  <2>2. CASE s # t
    <3>1. s \in Token \cap Minted /\ family'[s] = family[s] /\ row'[s] = row[s]
      BY <1>3, <2>2
    <3>2. row'[family[s]] = row[family[s]]
      BY <1>3, <1>6, <3>1
    <3>3. /\ <<row[s].user, row[s].app, row[s].scope>>
               = <<row[family[s]].user, row[family[s]].app, row[family[s]].scope>>
          /\ row[s].authTime # None
          /\ row[family[s]].authTime # None => row[s].authTime = row[family[s]].authTime
          /\ \A r \in Token \cap Minted :
               family[r] = family[s] => row[r].authTime = row[s].authTime
      BY <1>2, <3>1 DEF GrantPreserved
    <3>4. family[s] = FamilyOf(x) => row'[t].authTime = row[s].authTime
      BY <1>4, <1>5, <3>1
    <3>5. QED
      BY <1>3, <3>1, <3>2, <3>3, <3>4
  <2>3. QED
    BY <2>1, <2>2
<1>8. PublicClientUsedPkce'
  <2>1. row[x].app \in PublicApp => FamilyOf(x) \in pkce
    BY <1>2 DEF PublicClientUsedPkce, PkceSeen, FamilyOf
  <2>2. QED
    BY <1>2, <1>3, <1>5, <2>1 DEF PublicClientUsedPkce
<1>9. PkceSeen'
  <2>1. \A q \in Proc \ {p} : req'[q] = req[q]
    BY <1>2
  <2>2. req'[p].pc = "idle"
    BY <1>2 DEF Idle
  <2>3. \A y \in Code : row'[y] = row[y]
    BY <1>1
  <2>4. QED
    BY <1>2, <2>1, <2>2, <2>3 DEF PkceSeen
<1>10. QED
  BY <1>7, <1>8, <1>9 DEF Provenance

\* A new code is the origin of nothing yet.
LEMMA ProvenanceIssue ==
  ASSUME Chains, Provenance, Chains', UNCHANGED req,
         NEW u \in User, NEW a \in App, NEW scope \in Scopes,
         NEW authTime \in 0 .. now \cup {None}, NEW challenged \in BOOLEAN,
         IssueCode(u, a, scope, authTime, challenged)
  PROVE  Provenance'
<1> USE ConstantFacts DEF RowsKnown, TypeOK, Minted, Cap
<1>1. PICK c \in Code \ Minted :
        /\ row' = [row EXCEPT ![c] = CodeRow(u, a, scope, authTime)]
        /\ pkce \subseteq pkce'
  BY DEF IssueCode
<1>2. /\ UNCHANGED family
      /\ RowsKnown /\ Lineage /\ RowsKnown'
      /\ GrantPreserved /\ PublicClientUsedPkce /\ PkceSeen
  BY DEF IssueCode, Chains, Provenance
<1>3. /\ Token \cap Minted' = Token \cap Minted
      /\ \A s \in Token : row'[s] = row[s]
      /\ \A s \in Token \cap Minted : row'[family[s]] = row[family[s]]
  BY <1>1, <1>2 DEF Lineage
<1>4. GrantPreserved'
  BY <1>2, <1>3 DEF GrantPreserved
<1>5. PublicClientUsedPkce'
  BY <1>1, <1>2, <1>3 DEF PublicClientUsedPkce
<1>6. PkceSeen'
  BY <1>1, <1>2 DEF PkceSeen
<1>7. QED
  BY <1>4, <1>5, <1>6 DEF Provenance

\* Every statement keeps where grants come from.
LEMMA ProvenanceStep ==
  ASSUME Chains, Provenance, Chains', [Next]_vars
  PROVE  Provenance'
<1>1. CASE KeepsRows
  BY <1>1 DEF KeepsRows, Provenance, GrantPreserved, PublicClientUsedPkce, PkceSeen, Minted
<1>2. QED
  BY <1>1, ProvenanceKinds, ProvenanceInsert, ProvenanceIssue

\* Empty tables grant nothing.
LEMMA ProvenanceInit == Init => Provenance
  BY ConstantFacts
     DEF Init, Provenance, GrantPreserved, PublicClientUsedPkce, PkceSeen, Minted,
         Idle, Cap

\* A token grants exactly what the user approved when the code was issued, and
\* its auth_time never moves: rotation cannot refresh the time of authentication.
THEOREM GrantNeverChanges == Spec => []GrantPreserved
<1>1. Spec => []Provenance
  BY ProvenanceInit, ProvenanceStep, ChainsInvariant, PTL DEF Spec
<1>2. Provenance => GrantPreserved
  BY DEF Provenance
<1>3. QED
  BY <1>1, <1>2, PTL

\* A client without a secret holds no token whose code was issued without PKCE.
THEOREM PkceForPublicClients == Spec => []PublicClientUsedPkce
<1>1. Spec => []Provenance
  BY ProvenanceInit, ProvenanceStep, ChainsInvariant, PTL DEF Spec
<1>2. Provenance => PublicClientUsedPkce
  BY DEF Provenance
<1>3. QED
  BY <1>1, <1>2, PTL

-----------------------------------------------------------------------------
(* TokenStore implements AuthorizationLedger                               *)

MovingFor(c) == \E p \in Proc : Moving(p) /\ FamilyOf(req[p].cap) = c
HeldFor(c)   == \E t \in appSessions : family[t] = c

\* The statuses exclude each other, so StatusOf can be read without the order of
\* its cases.
Statuses ==
  \A c \in Code :
    /\ StatusOf(c) = "none" <=> c \notin Minted
    /\ StatusOf(c) = "moving" <=> MovingFor(c)
    /\ StatusOf(c) = "held" <=> HeldFor(c)
    /\ StatusOf(c) = "offered" <=> c \in authCodes \ usedCodes
    /\ StatusOf(c) \in {"none", "moving", "held", "offered", "void"}

\* The status of a code, read off the tables.
LEMMA StatusCases == Chains => Statuses
<1> SUFFICES ASSUME Chains, NEW c \in Code
             PROVE  /\ StatusOf(c) = "none" <=> c \notin Minted
                    /\ StatusOf(c) = "moving" <=> MovingFor(c)
                    /\ StatusOf(c) = "held" <=> HeldFor(c)
                    /\ StatusOf(c) = "offered" <=> c \in authCodes \ usedCodes
                    /\ StatusOf(c) \in {"none", "moving", "held", "offered", "void"}
  BY DEF Statuses
<1>1. MovingFor(c) => c \in usedCodes /\ c \in Minted /\ ~HeldFor(c)
  BY DEF Chains, RowsKnown, HeldAlone, Exclusive, MovingFor, HeldFor
<1>2. HeldFor(c) => c \in usedCodes /\ c \in Minted
  BY DEF Chains, RowsKnown, TypeOK, Lineage, HeldFor
<1>3. c \in authCodes => c \in Minted
  BY DEF Chains, RowsKnown
<1>4. c \in Minted <=> row[c] # None
  BY DEF Minted, Cap
<1>5. StatusOf(c) = IF c \notin Minted THEN "none"
                    ELSE IF MovingFor(c) THEN "moving"
                    ELSE IF HeldFor(c) THEN "held"
                    ELSE IF c \in authCodes \ usedCodes THEN "offered"
                    ELSE "void"
  BY <1>4 DEF StatusOf, MovingFor, HeldFor
<1>6. QED
  BY <1>1, <1>2, <1>3, <1>5

\* The same before and after a step.
LEMMA StatusCasesNext == Chains /\ Chains' => Statuses /\ Statuses'
  BY StatusCases, PTL

\* How a step that moves one authorization looks in the ledger.
LEMMA LedgerSteps ==
  ASSUME NEW c \in Code,
         \A d \in Code \ {c} : StatusOf(d)' = StatusOf(d),
         <<StatusOf(c), StatusOf(c)'>> \in
           {<<"none", "offered">>, <<"offered", "moving">>, <<"held", "moving">>,
            <<"moving", "held">>}
  PROVE  Ledger!Next
<1> DEFINE status == [d \in Code |-> StatusOf(d)]
<1>1. /\ status[c] = StatusOf(c)
      /\ status' = [status EXCEPT ![c] = StatusOf(c)']
  OBVIOUS
<1> HIDE DEF status
<1>2. Ledger!Offer(c) \/ Ledger!Move(c) \/ Ledger!Hold(c)
  BY <1>1 DEF Ledger!Offer, Ledger!Move, Ledger!Hold, status
<1>3. QED
  BY <1>2 DEF Ledger!Next

\* A quiet step voids any number of authorizations.
LEMMA QuietRefines ==
  ASSUME Chains, Chains', Quiet
  PROVE  Ledger!Next
<1> USE DEF Quiet
<1> DEFINE F == {c \in Code : StatusOf(c)' # StatusOf(c)}
<1>1. Statuses /\ Statuses'
  BY StatusCasesNext
<1>2. \A c \in Code : MovingFor(c)' => MovingFor(c)
  BY DEF MovingFor, FamilyOf
<1>3. \A c \in Code : HeldFor(c)' => HeldFor(c)
  BY DEF HeldFor
<1>4. Minted' = Minted
  BY DEF Minted
<1>5. \A c \in F : StatusOf(c)' = "void" /\ StatusOf(c) # "none"
  BY <1>1, <1>2, <1>3, <1>4 DEF Statuses
<1>6. Ledger!Void(F)
  BY <1>5 DEF Ledger!Void
<1>7. QED
  BY <1>6 DEF Ledger!Next

\* Claiming a code is a step of the ledger.
LEMMA ClaimRefines ==
  ASSUME Chains, Chains', NEW p \in Proc, ClaimCode(p), usedCodes' # usedCodes
  PROVE  Ledger!Next
<1> DEFINE c == req[p].cap
<1>1. /\ c \in Code /\ c \in authCodes \ usedCodes /\ usedCodes' = usedCodes \cup {c}
      /\ req'[p].pc = "verify" /\ req'[p].cap = c /\ req[p].pc = "claim"
      /\ \A q \in Proc \ {p} : req'[q] = req[q]
      /\ UNCHANGED <<authCodes, appSessions, row, family>>
  BY DEF Chains, RowsKnown, TypeOK, ClaimCode, Claimable, Goto, codeTab
<1>2. Statuses /\ Statuses'
  BY StatusCasesNext
<1>3. MovingFor(c)' /\ \A d \in Code \ {c} : MovingFor(d)' <=> MovingFor(d)
  BY <1>1 DEF MovingFor, Moving, FamilyOf
<1>4. /\ \A d \in Code : HeldFor(d)' <=> HeldFor(d)
      /\ Minted' = Minted
  BY <1>1 DEF HeldFor, Minted
<1>5. /\ StatusOf(c) = "offered" /\ StatusOf(c)' = "moving"
      /\ \A d \in Code \ {c} : StatusOf(d)' = StatusOf(d)
  BY <1>1, <1>2, <1>3, <1>4 DEF Statuses
<1>6. QED
  BY <1>1, <1>5, LedgerSteps

\* Consuming a refresh token is a step of the ledger.
LEMMA ConsumeRefines ==
  ASSUME Chains, Chains', NEW p \in Proc, ConsumeRefresh(p),
         appSessions' # appSessions
  PROVE  Ledger!Next
<1> DEFINE t == req[p].cap
           c == family[t]
<1>1. /\ t \in appSessions /\ appSessions' = appSessions \ {t}
      /\ req'[p].pc = "insert" /\ req'[p].cap = t /\ req[p].pc = "consume"
      /\ \A q \in Proc \ {p} : req'[q] = req[q]
      /\ UNCHANGED <<authCodes, usedCodes, row, family>>
      /\ t \notin Code /\ c \in Code
  BY ConstantFacts
     DEF Chains, RowsKnown, TypeOK, ConsumeRefresh, Goto, codeTab
<1>2. Statuses /\ Statuses'
  BY StatusCasesNext
<1>3. MovingFor(c)' /\ \A d \in Code \ {c} : MovingFor(d)' <=> MovingFor(d)
  BY <1>1 DEF MovingFor, Moving, FamilyOf
<1>4. HeldFor(c) /\ \A d \in Code \ {c} : HeldFor(d)' <=> HeldFor(d)
  BY <1>1 DEF HeldFor
<1>5. Minted' = Minted
  BY <1>1 DEF Minted
<1>6. /\ StatusOf(c) = "held" /\ StatusOf(c)' = "moving"
      /\ \A d \in Code \ {c} : StatusOf(d)' = StatusOf(d)
  BY <1>1, <1>2, <1>3, <1>4, <1>5 DEF Statuses
<1>7. QED
  BY <1>1, <1>6, LedgerSteps

\* Inserting a session is a step of the ledger.
LEMMA InsertRefines ==
  ASSUME Chains, Chains', NEW p \in Proc, InsertToken(p)
  PROVE  Ledger!Next
<1> USE ConstantFacts
<1>x. PICK x \in Cap : x = req[p].cap
  BY DEF Chains, HeldAlone, RowsKnown, TypeOK, InsertToken, Moving, Minted
<1>c. PICK c \in Code : c = FamilyOf(x)
  BY <1>x DEF Chains, HeldAlone, RowsKnown, TypeOK, InsertToken, Moving
<1>1. PICK t \in Token \ Minted :
         /\ appSessions' = appSessions \cup {t}
         /\ row' = [row EXCEPT ![t] = Successor(row[x])]
         /\ family' = [family EXCEPT ![t] = c]
  BY <1>x, <1>c DEF InsertToken
<1>2. /\ req' = [req EXCEPT ![p] = Idle]
      /\ UNCHANGED <<authCodes, usedCodes>>
      /\ Moving(p)
      /\ TypeOK /\ RowsKnown /\ HeldAlone /\ Exclusive
      /\ t \notin appSessions
  BY DEF InsertToken, Answer, Moving, codeTab, Chains, RowsKnown, HeldAlone, TypeOK
<1>3. Statuses /\ Statuses'
  BY StatusCasesNext
<1>4. ~Moving(p)' /\ \A q \in Proc \ {p} : req'[q] = req[q]
  BY <1>2 DEF TypeOK, Moving, Idle
<1>5. \A q \in Proc \ {p} : Moving(q) => FamilyOf(req[q].cap)' = FamilyOf(req[q].cap)
                                         /\ FamilyOf(req[q].cap) # c
  <2> SUFFICES ASSUME NEW q \in Proc \ {p}, Moving(q)
               PROVE  /\ FamilyOf(req[q].cap)' = FamilyOf(req[q].cap)
                      /\ FamilyOf(req[q].cap) # c
    OBVIOUS
  <2>1. req[q].cap # t
    BY <1>2 DEF RowsKnown, Moving
  <2>2. req[q].cap \in Code \/ req[q].cap \in Token
    BY <1>2 DEF HeldAlone, TypeOK
  <2> QED
    BY <1>x, <1>c, <1>1, <1>2, <1>4, <2>1, <2>2 DEF Exclusive, FamilyOf, TypeOK
<1>6. MovingFor(c) /\ \A d \in Code \ {c} : MovingFor(d)' <=> MovingFor(d)
  BY <1>x, <1>c, <1>2, <1>4, <1>5 DEF MovingFor, Moving
<1>7. HeldFor(c)' /\ \A d \in Code \ {c} : HeldFor(d)' <=> HeldFor(d)
  BY <1>1, <1>2 DEF HeldFor, TypeOK
<1>8. \A d \in Code : d \in Minted' <=> d \in Minted
  BY <1>1, <1>2 DEF Minted, TypeOK
<1>9. /\ StatusOf(c) = "moving" /\ StatusOf(c)' = "held"
      /\ \A d \in Code \ {c} : StatusOf(d)' = StatusOf(d)
  BY <1>2, <1>3, <1>6, <1>7, <1>8 DEF Statuses
<1>10. QED
  BY <1>9, LedgerSteps

\* Issuing a code is a step of the ledger.
LEMMA IssueRefines ==
  ASSUME Chains, Chains', UNCHANGED req,
         NEW u \in User, NEW a \in App, NEW scope \in Scopes,
         NEW authTime \in 0 .. now \cup {None}, NEW challenged \in BOOLEAN,
         IssueCode(u, a, scope, authTime, challenged)
  PROVE  Ledger!Next
<1> USE ConstantFacts
<1>1. PICK c \in Code \ Minted :
        /\ authCodes' = authCodes \cup {c}
        /\ row' = [row EXCEPT ![c] = CodeRow(u, a, scope, authTime)]
  BY DEF IssueCode
<1>2. /\ UNCHANGED <<usedCodes, appSessions, family>>
      /\ RowsKnown /\ RowsKnown' /\ TypeOK
  BY DEF IssueCode, Chains, RowsKnown
<1>3. Statuses /\ Statuses'
  BY StatusCasesNext
<1>4. \A d \in Code : /\ MovingFor(d)' <=> MovingFor(d)
                      /\ HeldFor(d)' <=> HeldFor(d)
  BY <1>2 DEF MovingFor, HeldFor, Moving, FamilyOf
<1>5. \A d \in Code \ {c} : d \in Minted' <=> d \in Minted
  BY <1>1, <1>2 DEF Minted, TypeOK
<1>6. c \notin usedCodes
  BY <1>1, <1>2 DEF RowsKnown
<1>7. /\ StatusOf(c) = "none" /\ StatusOf(c)' = "offered"
      /\ \A d \in Code \ {c} : StatusOf(d)' = StatusOf(d)
  BY <1>1, <1>2, <1>3, <1>4, <1>5, <1>6 DEF Statuses
<1>8. QED
  BY <1>1, <1>7, LedgerSteps

\* Every step is a step of the ledger.
LEMMA StepRefines ==
  ASSUME Chains, Chains', [Next]_vars
  PROVE  Ledger!Next
<1>1. RowsKnown
  BY DEF Chains
<1>2. QED
  BY <1>1, StepKinds, QuietRefines, ClaimRefines, ConsumeRefines, InsertRefines,
     IssueRefines

\* An authorization that is void is void after every step.
LEMMA VoidStays ==
  ASSUME Chains, Chains', [Next]_vars, NEW c \in Code, StatusOf(c) = "void"
  PROVE  StatusOf(c)' = "void"
<1> DEFINE status == [d \in Code |-> StatusOf(d)]
<1>1. status[c] = "void" /\ status'[c] = StatusOf(c)'
  OBVIOUS
<1>2. Ledger!Next
  BY StepRefines
<1> HIDE DEF status
<1>3. \/ \E f \in Code : Ledger!Offer(f) \/ Ledger!Move(f) \/ Ledger!Hold(f)
      \/ \E F \in SUBSET Code : Ledger!Void(F)
  BY <1>2 DEF Ledger!Next
<1>4. status'[c] = "void"
  BY <1>1, <1>3 DEF Ledger!Offer, Ledger!Move, Ledger!Hold, Ledger!Void, status
<1>5. QED
  BY <1>1, <1>4

\* auth_codes, app_sessions and their handlers implement the abstract ledger:
\* every authorization is offered once, changes hands one holder at a time, and
\* never comes back from "void".
THEOREM Refinement == Spec => ImplementsLedger
<1>1. Init => Ledger!Init
  BY DEF Init, Ledger!Init, StatusOf, Cap
<1>2. Chains /\ Chains' /\ [Next]_vars => Ledger!Next
  BY StepRefines
<1>3. QED
  BY <1>1, <1>2, ChainsInvariant, PTL DEF Spec, ImplementsLedger, Ledger!Spec
=============================================================================
