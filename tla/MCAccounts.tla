----------------------------- MODULE MCAccounts -----------------------------
(***************************************************************************)
(* Small instances of Accounts and of RateLimiter for TLC.  The two share   *)
(* no state, and the handlers of Accounts fall into groups that meet in few *)
(* places: a run explores one scene after the other, never mixed.           *)
(*   password  logins, changes and resets, hashes of any cost               *)
(*   late      the same with a second factor, over a longer time            *)
(*   factor    logins while the second factor is set up and disabled        *)
(*   account   sign-ups, invitations, resets and deletions                  *)
(*   limiter   the rate limiter alone                                       *)
(***************************************************************************)
EXTENDS Accounts, RateLimiter, FiniteSets, TLC

CONSTANTS ShortTime  \* bound: seconds of the scenes other than late

VARIABLE scene

vars == <<avars, rateVars, scene>>

\* Rows as the code writes them today
Modern == \A u \in User : Exists(u) =>
  /\ users[u].cost = "current"
  /\ users[u].totp # None => users[u].totp.sealed
Plain == \A u \in User : Exists(u) => users[u].totp = None

MCInit ==
  /\ AccountsInit /\ RateInit
  /\ \/ scene = "password" /\ Plain
     \/ scene = "late" /\ Modern
     \/ scene = "factor"
     \/ scene = "account" /\ Modern /\ Plain
     \/ scene = "limiter" /\ \A u \in User : ~Exists(u)

\* What a step of each scene leaves out
SameUsers == \A u \in User : Exists(u) <=> users'[u] # None
Without(labels) == \A p \in Proc : req'[p].pc \notin labels
Within ==
  /\ scene # "late" => now' <= ShortTime
  /\ \/ scene = "account" /\ Without({"enable", "disable"})
        /\ Cardinality({s \in Session : sessions'[s] # None}) <= 1
     \/ scene \in {"password", "late", "factor"} /\ SameUsers /\ Without({"accept"})
        /\ invites' = invites /\ Cardinality(pre') <= 1
  /\ scene \in {"password", "late"} => Without({"enable", "disable"})
  /\ scene \in {"late", "factor"} => resets' = resets
  /\ scene = "factor" => Without({"set"})

MCNext ==
  /\ UNCHANGED scene
  /\ \/ scene # "limiter" /\ AccountsNext /\ Within /\ UNCHANGED rateVars
     \/ scene = "limiter" /\ RateNext /\ UNCHANGED avars

MCSpec == MCInit /\ [][MCNext]_vars

\* Ids, passwords and secrets are random and nothing orders them.
Symmetry == Permutations(Password) \cup Permutations(Session) \cup Permutations(Secret)
              \cup Permutations(Proc)
=============================================================================
