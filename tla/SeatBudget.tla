----------------------------- MODULE SeatBudget -----------------------------
(***************************************************************************)
(* Seats of one service: contracts, the grants that open a contract to     *)
(* groups of the tree, and the assignments of users.  Two handlers decide  *)
(* over several D1 statements and are processes, one action a statement:   *)
(* createAssignment (AssignProc) and the delegated grant/add (GrantProc).  *)
(* What the operator and the other handlers do to the same tables is one   *)
(* statement or one batch, and one action, here.                           *)
(*                                                                         *)
(* That the caller may act for the group (getManagedGroupIds,              *)
(* getBillingGroupIds) is decided before the first statement and left out: *)
(* some user may always make each request, with the group itself as its    *)
(* context.  Periods of validity are not read by these handlers; roles are *)
(* columns they only copy.  Limits are natural numbers or NULL, as the     *)
(* forms of the pages send them.  Users, groups and facilities stay.       *)
(***************************************************************************)
EXTENDS Naturals, FiniteSets

CONSTANTS
  User, Group, Facility, Contract,
  AssignProc,   \* concurrent calls of createAssignment
  GrantProc,    \* concurrent delegated grant/add requests
  Owner,        \* the group that owns the service while it is active, or None
  Customers,    \* the groups contracts are made with
  Movable,      \* the groups the operator moves in the tree
  Limits,       \* the seat limits requested
  Unlimited,    \* SQL NULL as a seat_limit
  None          \* SQL NULL elsewhere, and "no row"

Limit == Nat \cup {Unlimited}
Place == Facility \cup {None}
Key   == User \X Group \X Place

ContractRow == [customer : Group, seats : Limit]
GrantRow    == [contract : Contract, seats : Limit]

ASSUME ConstantsOK ==
  /\ IsFiniteSet(User) /\ IsFiniteSet(Group)
  /\ IsFiniteSet(AssignProc) /\ IsFiniteSet(GrantProc)
  /\ Customers \subseteq Group /\ Movable \subseteq Group
  /\ Limits \subseteq Limit /\ Unlimited \notin Nat
  /\ None \notin Group \cup Contract \cup Facility \cup Key
  /\ None \notin ContractRow \cup GrantRow

VARIABLES
  parent,       \* groups.parent_id
  contract,     \* rows of service_contracts
  grant,        \* rows of group_service_grants; UNIQUE(group_id, service_id)
  rows,         \* how many service_user_assignments rows have each key
  asg,          \* progress of each createAssignment
  dist,         \* progress of each delegated grant/add
  peak,         \* history: the highest limit each group's grant has had
  source        \* history: the parent a group's grant was cut from, if any

tables  == <<parent, contract, grant, rows>>
history == <<peak, source>>
vars    == <<tables, asg, dist, history>>

AsgReq  == [pc : {"idle", "owner", "existing", "used", "children", "contract",
                  "total", "row", "update", "insert"},
            key : Key \cup {None}, contract : Contract \cup {None},
            seats : Limit, used : Nat]
DistReq == [pc : {"idle", "parent", "budget", "siblings", "upsert"},
            group : Group \cup {None}, contract : Contract \cup {None},
            want : Nat, from : Group \cup {None}, seats : Nat]

AsgIdle  == [pc |-> "idle", key |-> None, contract |-> None,
             seats |-> Unlimited, used |-> 0]
DistIdle == [pc |-> "idle", group |-> None, contract |-> None, want |-> 0,
             from |-> None, seats |-> 0]

TypeOK ==
  /\ parent \in [Group -> Group \cup {None}]
  /\ contract \in [Contract -> ContractRow \cup {None}]
  /\ grant \in [Group -> GrantRow \cup {None}]
  /\ rows \in [Key -> Nat]
  /\ asg \in [AssignProc -> AsgReq]
  /\ dist \in [GrantProc -> DistReq]
  /\ peak \in [Group -> Limit]
  /\ source \in [Group -> Group \cup {None}]

Init ==
  /\ parent \in [Group -> Group \cup {None}]
  /\ \A g \in Group : parent[g] # None =>   \* the tree: of any shape one level deep
       parent[g] # g /\ parent[parent[g]] = None
  /\ contract = [k \in Contract |-> None]
  /\ grant = [g \in Group |-> None]
  /\ rows = [key \in Key |-> 0]
  /\ asg = [p \in AssignProc |-> AsgIdle]
  /\ dist = [p \in GrantProc |-> DistIdle]
  /\ peak = [g \in Group |-> 0]
  /\ source = [g \in Group |-> None]

-----------------------------------------------------------------------------
(* What the statements compute                                             *)

\* COUNT(DISTINCT user_id) of a group
Occupants(g) == {u \in User : \E f \in Place : rows[<<u, g, f>>] > 0}

\* SUM(seat_limit), which skips NULL, as the number of seats themselves
SeatsOf(g)  == IF grant[g] = None \/ grant[g].seats = Unlimited
               THEN {} ELSE 1 .. grant[g].seats
SeatSum(S)  == Cardinality(UNION {{g} \X SeatsOf(g) : g \in S})
Children(h) == {g \in Group : parent[g] = h}

\* COUNT(DISTINCT user_id) over the grants of a contract
UsersOfContract(k) ==
  UNION {Occupants(g) : g \in {x \in Group : grant[x] # None
                                              /\ grant[x].contract = k}}

Higher(m, n) == IF Unlimited \in {m, n} THEN Unlimited
                ELSE IF m > n THEN m ELSE n

-----------------------------------------------------------------------------
(* createAssignment                                                        *)

UserOf(p)  == asg[p].key[1]
GroupOf(p) == asg[p].key[2]

Assigning == UNCHANGED <<tables, dist, history>>
GoAsg(p, label)  == asg' = [asg EXCEPT ![p].pc = label]
EndAsg(p)        == asg' = [asg EXCEPT ![p] = AsgIdle]

ReadGrantNoLimit(p, key) ==
  /\ asg[p].pc = "idle"
  /\ asg' = [asg EXCEPT ![p] =
       IF grant[key[2]] = None
       THEN [AsgIdle EXCEPT !.pc = "owner", !.key = key]
       ELSE [pc |-> "existing", key |-> key, used |-> 0,
             contract |-> grant[key[2]].contract, seats |-> None]]
  /\ Assigning

\* SELECT the grant
ReadGrant(p, key) ==
  /\ asg[p].pc = "idle"
  /\ asg' = [asg EXCEPT ![p] =
       IF grant[key[2]] = None
       THEN [AsgIdle EXCEPT !.pc = "owner", !.key = key]
       ELSE [pc |-> "existing", key |-> key, used |-> 0,
             contract |-> grant[key[2]].contract, seats |-> grant[key[2]].seats]]
  /\ Assigning

\* SELECT the owner of the service: its own group needs no grant.
ReadOwner(p) ==
  /\ asg[p].pc = "owner"
  /\ IF Owner = GroupOf(p) THEN GoAsg(p, "existing") ELSE EndAsg(p)
  /\ Assigning

Existing(u, g) == u \in Occupants(g)

\* COUNT the user's rows: a user already in the group takes no new seat.
ReadExisting(p) ==
  /\ asg[p].pc = "existing"
  /\ GoAsg(p, IF Existing(UserOf(p), GroupOf(p)) \/ asg[p].contract = None THEN "row"
              ELSE IF asg[p].seats # Unlimited THEN "used" ELSE "contract")
  /\ Assigning

ReadUsed(p) ==
  /\ asg[p].pc = "used"
  /\ asg' = [asg EXCEPT ![p].pc = "children",
                        ![p].used = Cardinality(Occupants(GroupOf(p)))]
  /\ Assigning

FullLate(p) == asg[p].used + SeatSum(Children(GroupOf(p))) > asg[p].seats
Full(p)     == asg[p].used + SeatSum(Children(GroupOf(p))) >= asg[p].seats

\* The seats given to the children come off; answer 'seat' when none is left.
ReadChildSum(p) ==
  /\ asg[p].pc = "children"
  /\ IF Full(p)
     THEN EndAsg(p) ELSE GoAsg(p, "contract")
  /\ Assigning

ReadContract(p) ==
  /\ asg[p].pc = "contract"
  /\ LET k == asg[p].contract
     IN  IF contract[k] # None /\ contract[k].seats # Unlimited
         THEN asg' = [asg EXCEPT ![p].pc = "total", ![p].seats = contract[k].seats]
         ELSE GoAsg(p, "row")
  /\ Assigning

ReadTotal(p) ==
  /\ asg[p].pc = "total"
  /\ IF Cardinality(UsersOfContract(asg[p].contract)) >= asg[p].seats
     THEN EndAsg(p) ELSE GoAsg(p, "row")
  /\ Assigning

FoundByEquality(key) == key[3] # None /\ rows[key] > 0
Found(key)           == rows[key] > 0

\* SELECT the row with this facility, or with facility_id IS NULL
ReadRow(p) ==
  /\ asg[p].pc = "row"
  /\ GoAsg(p, IF Found(asg[p].key) THEN "update" ELSE "insert")
  /\ Assigning

\* UPDATE by id: role and period only, and nothing when the row has gone.
UpdateRow(p) ==
  /\ asg[p].pc = "update"
  /\ EndAsg(p)
  /\ Assigning

\* INSERT; UNIQUE refuses a second row with a facility, and the request fails.
InsertRow(p) ==
  /\ asg[p].pc = "insert"
  /\ LET key == asg[p].key
     IN  \/ /\ key[3] # None /\ rows[key] > 0
            /\ UNCHANGED rows
         \/ /\ key[3] = None \/ rows[key] = 0
            /\ rows' = [rows EXCEPT ![key] = @ + 1]
  /\ EndAsg(p)
  /\ UNCHANGED <<parent, contract, grant, dist, history>>

-----------------------------------------------------------------------------
(* Delegated grant/add                                                     *)

Distributing == UNCHANGED <<tables, asg, history>>
GoDist(p, label) == dist' = [dist EXCEPT ![p].pc = label]
EndDist(p)       == dist' = [dist EXCEPT ![p] = DistIdle]

\* SELECT the contract.  The customer's own grant is held against its limit.
ReadCustomer(p, g, k, n) ==
  /\ dist[p].pc = "idle"
  /\ contract[k] # None
  /\ g = contract[k].customer /\ contract[k].seats # Unlimited => n <= contract[k].seats
  /\ dist' = [dist EXCEPT ![p] =
       [DistIdle EXCEPT !.pc = IF g = contract[k].customer THEN "upsert" ELSE "parent",
                        !.group = g, !.contract = k, !.want = n]]
  /\ Distributing

ReadParent(p) ==
  /\ dist[p].pc = "parent"
  /\ LET h == parent[dist[p].group]
     IN  IF h = None THEN EndDist(p)
         ELSE dist' = [dist EXCEPT ![p].pc = "budget", ![p].from = h]
  /\ Distributing

\* SELECT the parent's grant: it must be on the same contract; a parent
\* without a limit gives without one.
ReadBudget(p) ==
  /\ dist[p].pc = "budget"
  /\ LET up == grant[dist[p].from]
     IN  IF up = None \/ up.contract # dist[p].contract THEN EndDist(p)
         ELSE IF up.seats = Unlimited THEN GoDist(p, "upsert")
         ELSE dist' = [dist EXCEPT ![p].pc = "siblings", ![p].seats = up.seats]
  /\ Distributing

OverBudgetLate(p) ==
  LET siblings == Children(dist[p].from) \ {dist[p].group}
  IN  dist[p].want + SeatSum(siblings) > dist[p].seats + 1

OverBudget(p) ==
  LET siblings == Children(dist[p].from) \ {dist[p].group}
  IN  dist[p].want + SeatSum(siblings) > dist[p].seats

ReadSiblings(p) ==
  /\ dist[p].pc = "siblings"
  /\ IF OverBudget(p) THEN EndDist(p) ELSE GoDist(p, "upsert")
  /\ Distributing

\* INSERT .. ON CONFLICT DO UPDATE, and its trace in the history
PutGrant(g, k, n, from) ==
  /\ grant' = [grant EXCEPT ![g] = [contract |-> k, seats |-> n]]
  /\ peak' = [peak EXCEPT ![g] = Higher(@, n)]
  /\ source' = [source EXCEPT ![g] = from]

\* The foreign key refuses a contract deleted meanwhile.
UpsertGrant(p) ==
  /\ dist[p].pc = "upsert"
  /\ LET d == dist[p]
     IN  IF contract[d.contract] = None THEN UNCHANGED <<grant, peak, source>>
         ELSE PutGrant(d.group, d.contract, d.want, d.from)
  /\ EndDist(p)
  /\ UNCHANGED <<parent, contract, rows, asg>>

-----------------------------------------------------------------------------
(* The other handlers, at their statements                                 *)

\* The operator opens a contract to a group: no limit is compared.
OperatorGrant(g, k, n) ==
  /\ contract[k] # None
  /\ PutGrant(g, k, n, None)
  /\ UNCHANGED <<parent, contract, rows, asg, dist>>

WithdrawGrants(S) ==
  /\ grant' = [g \in Group |-> IF g \in S THEN None ELSE grant[g]]
  /\ source' = [g \in Group |-> IF g \in S THEN None ELSE source[g]]

\* grant/remove, and the withdrawal from the sub-tree of a group that moves
Withdraw(S) ==
  /\ WithdrawGrants(S)
  /\ UNCHANGED <<parent, contract, rows, asg, dist, peak>>

AddContract(k, g, n) ==
  /\ contract[k] = None
  /\ contract' = [contract EXCEPT ![k] = [customer |-> g, seats |-> n]]
  /\ UNCHANGED <<parent, grant, rows, asg, dist, history>>

\* One batch: the grants on the contract, then the contract
DeleteContract(k) ==
  /\ contract[k] # None
  /\ contract' = [contract EXCEPT ![k] = None]
  /\ WithdrawGrants({g \in Group : grant[g] # None /\ grant[g].contract = k})
  /\ UNCHANGED <<parent, rows, asg, dist, peak>>

\* DELETE an assignment by id
Unassign(key) ==
  /\ rows[key] > 0
  /\ rows' = [rows EXCEPT ![key] = @ - 1]
  /\ UNCHANGED <<parent, contract, grant, asg, dist, history>>

\* UPDATE groups SET parent_id, whatever was read before
Reparent(g, h) ==
  /\ h # g /\ h # parent[g]
  /\ parent' = [parent EXCEPT ![g] = h]
  /\ UNCHANGED <<contract, grant, rows, asg, dist, history>>

\* A request stops between two statements.
AbortAssign(p) == asg[p] # AsgIdle /\ EndAsg(p) /\ Assigning
AbortGrant(p)  == dist[p] # DistIdle /\ EndDist(p) /\ Distributing

-----------------------------------------------------------------------------
AssignStep(p) ==
  \/ \E key \in Key : ReadGrant(p, key)
  \/ ReadOwner(p) \/ ReadExisting(p) \/ ReadUsed(p) \/ ReadChildSum(p)
  \/ ReadContract(p) \/ ReadTotal(p) \/ ReadRow(p) \/ UpdateRow(p)
  \/ InsertRow(p) \/ AbortAssign(p)

GrantStep(p) ==
  \/ \E g \in Group, k \in Contract, n \in Limits \ {Unlimited} :
       ReadCustomer(p, g, k, n)
  \/ ReadParent(p) \/ ReadBudget(p) \/ ReadSiblings(p) \/ UpsertGrant(p)
  \/ AbortGrant(p)

OperatorStep ==
  \/ \E g \in Group, k \in Contract, n \in Limits : OperatorGrant(g, k, n)
  \/ \E S \in SUBSET Group : Withdraw(S)
  \/ \E k \in Contract, g \in Customers, n \in Limits : AddContract(k, g, n)
  \/ \E k \in Contract : DeleteContract(k)
  \/ \E key \in Key : Unassign(key)
  \/ \E g \in Movable, h \in Group \cup {None} : Reparent(g, h)

Next ==
  \/ \E p \in AssignProc : AssignStep(p)
  \/ \E p \in GrantProc : GrantStep(p)
  \/ OperatorStep

Spec == Init /\ [][Next]_vars

-----------------------------------------------------------------------------
(* Properties                                                              *)

\* The seat check and the insert are statements apart, and other requests,
\* removals, smaller grants and moves fall in between.  Still a group holds
\* no users before it has had a seat, and from then on fewer than the highest
\* limit its grant ever had plus one for each concurrent request: what
\* createAssignment can oversell.
SeatsBounded ==
  \A g \in Group \ {Owner} :
    peak[g] # Unlimited /\ Occupants(g) # {} =>
      /\ peak[g] > 0
      /\ Cardinality(Occupants(g)) < peak[g] + Cardinality(AssignProc)

\* UNIQUE covers the rows with a facility only.  For those without, the
\* SELECT before the INSERT of createAssignment keeps a key from having more
\* rows than there are concurrent requests, however long the history.
DuplicatesBounded ==
  \A key \in Key :
    rows[key] <= IF key[3] = None THEN Cardinality(AssignProc) ELSE 1

\* The sum of the siblings is read before the upsert, and the parent's grant
\* may shrink, vanish or change contract meanwhile.  Still what a group's
\* administrators have cut from its grant for children that are not moved is at
\* most the highest limit that grant had, once per concurrent request.
SubGrantsBounded ==
  \A h \in Group :
    peak[h] # Unlimited =>
      SeatSum({g \in Group \ Movable : source[g] = h})
        <= Cardinality(GrantProc) * peak[h]

=============================================================================
