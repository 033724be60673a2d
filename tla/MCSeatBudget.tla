---------------------------- MODULE MCSeatBudget ----------------------------
(***************************************************************************)
(* Small instances of SeatBudget for TLC.  Assignments and delegated grants *)
(* race with the operator and hardly with each other; TLC explores three    *)
(* scenes one after the other, never mixed:                                 *)
(*   crowd       two assignments at a time in the customers' groups, no     *)
(*               facility                                                   *)
(*   places      one assignment at a time, with and without a facility, in  *)
(*               the customers' and the owner's groups, which may be moved  *)
(*   distribute  two delegated grants at a time in every tree of the groups *)
(*               that are not the owner                                     *)
(***************************************************************************)
EXTENDS SeatBudget, TLC

CONSTANTS
  Guest, Regular,                          \* the users of the places
  CrowdLimits, PlaceLimits, GrantLimits    \* the limits requested in each scene

VARIABLE scene

mcVars == <<vars, scene>>

\* The groups contracts are opened to
Stage == CASE scene = "crowd" -> Customers
           [] scene = "places" -> Customers \cup {Owner}
           [] scene = "distribute" -> Group \ {Owner}
SceneLimits == CASE scene = "crowd" -> CrowdLimits
                 [] scene = "places" -> PlaceLimits
                 [] scene = "distribute" -> GrantLimits
\* Delegated grants do not read the limit of a contract.
ContractLimits == IF scene = "distribute" THEN {Unlimited} ELSE SceneLimits

MCInit ==
  /\ Init
  /\ scene \in {"crowd", "places", "distribute"}
  /\ \A g \in Group : parent[g] # None => {g, parent[g]} \subseteq Stage

MCOperatorStep ==
  \/ \E g \in Stage, k \in Contract, n \in SceneLimits : OperatorGrant(g, k, n)
  \/ \E S \in SUBSET Stage : Withdraw(S)
  \/ \E k \in Contract, g \in Customers, n \in ContractLimits : AddContract(k, g, n)
  \/ \E k \in Contract : DeleteContract(k)
  \/ \E key \in Key : Unassign(key)
  \/ /\ scene = "places"
     /\ \E g \in Movable, h \in Stage \cup {None} : Reparent(g, h)

MCAssignStep(p) ==
  \/ scene = "crowd" /\ \E u \in User, g \in Stage : ReadGrant(p, <<u, g, None>>)
  \/ scene = "places" /\ \E u \in {Guest, Regular}, g \in Stage, f \in Place :
       (f # None => u = Guest) /\ ReadGrant(p, <<u, g, f>>)
  \/ ReadOwner(p) \/ ReadExisting(p) \/ ReadUsed(p) \/ ReadChildSum(p)
  \/ ReadContract(p) \/ ReadTotal(p) \/ ReadRow(p) \/ UpdateRow(p)
  \/ InsertRow(p) \/ AbortAssign(p)

MCGrantStep(p) ==
  \/ \E g \in Stage, k \in Contract, n \in GrantLimits : ReadCustomer(p, g, k, n)
  \/ ReadParent(p) \/ ReadBudget(p) \/ ReadSiblings(p) \/ UpsertGrant(p)
  \/ AbortGrant(p)

MCNext ==
  /\ \/ scene = "crowd" /\ \E p \in AssignProc : MCAssignStep(p)
     \/ /\ scene = "places"
        /\ \E p \in AssignProc : /\ \A q \in AssignProc \ {p} : asg[q] = AsgIdle
                                 /\ MCAssignStep(p)
     \/ scene = "distribute" /\ \E p \in GrantProc : MCGrantStep(p)
     \/ MCOperatorStep
  /\ UNCHANGED scene

MCSpec == MCInit /\ [][MCNext]_mcVars

\* Requests differ in nothing but their progress, groups that are neither customer
\* nor owner in nothing but their place in the tree.
Symmetry == Permutations(AssignProc) \cup Permutations(GrantProc) \cup Permutations(Group \ (Customers \cup {Owner}))
=============================================================================
