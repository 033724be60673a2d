---------------------------- MODULE MCOidcScenes ----------------------------
(***************************************************************************)
(* OidcProvider for TLC, one scene per behaviour, never mixed:              *)
(*   consent  one session that does not age and a user who stays, without   *)
(*            logging out; two browser requests, for scopes of either kind  *)
(*   times    sessions that begin and expire, one browser request, offline  *)
(*            access, so that tokens outlive sessions; consents stay        *)
(*   legacy   one session older than the column auth_time and no other, one *)
(*            browser request and the refresh of what it was granted        *)
(***************************************************************************)
EXTENDS MCOidcProvider

VARIABLE scene

SceneInit ==
  /\ ProviderInit
  /\ \/ scene \in {"consent", "times"} /\ sso = {}
     \/ scene = "legacy" /\ Cardinality(sso) = 1

\* Bound: how many of the ids for tokens a scene draws.
Tokens(n) == Cardinality({t \in Token : row'[t] # None}) <= n

OneRequest == Cardinality({w \in Web : flow'[w].pc # "idle"}) <= 1

LongLived ==
  \A w \in Web : /\ flow'[w].scope # None => Offline \in flow'[w].scope
                 /\ flow'[w].pc # "dropConsent"

Staying == \A w \in Web : flow'[w].pc # "dropTokens"

SceneNext ==
  /\ ProviderNext
  /\ \/ /\ scene = "consent"
        /\ now' = 0 /\ UNCHANGED users
        /\ Cardinality({s \in Session : sessRow'[s] # None}) <= 1
        /\ Staying /\ Tokens(1)
     \/ scene = "times" /\ OneRequest /\ LongLived /\ Tokens(1)
     \/ /\ scene = "legacy" /\ OneRequest /\ LongLived /\ Tokens(2)
        /\ Staying /\ UNCHANGED <<sessRow, permitted>>
  /\ UNCHANGED scene

SceneSpec == SceneInit /\ [][SceneNext]_<<pvars, vars, scene>>
=============================================================================
