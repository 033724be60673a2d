-------------------------- MODULE SeatBudget_proofs --------------------------
(***************************************************************************)
(* Theorems about SeatBudget, for any number of users, groups, contracts,  *)
(* limits and concurrent requests.                                         *)
(*                                                                         *)
(* SeatsBounded is not inductive: a request that has passed the seat check *)
(* will insert later, when the group may be full.  The invariant therefore *)
(* counts the users of such requests with the occupants (Claim): a claim   *)
(* grows only when a request reads that a seat is free, and then by no     *)
(* more than one user for each request.  DuplicatesBounded is strengthened *)
(* in the same way by the requests that are about to insert.               *)
(*                                                                         *)
(* SubGrantsBounded is strengthened to every outcome: whichever of the     *)
(* requests about to cut a grant land, replacing the grants they are about *)
(* and adding what they want, the sum is within the bound                  *)
(* (PledgesBounded).                                                       *)
(***************************************************************************)
EXTENDS SeatBudget, FiniteSetTheorems, TLAPS

Covers(m, n) == m = Unlimited \/ (n # Unlimited /\ n <= m)

\* What a createAssignment has read: the limit is one the grant has had.
AsgOK(p) ==
  LET a == asg[p] IN
  /\ a.pc # "idle" => a.key \in Key
  /\ a.pc = "owner" => a.contract = None
  /\ a.pc \in {"used", "children"} => a.seats # Unlimited
  /\ a.pc \in {"used", "children", "contract", "total"} => a.contract # None
  /\ a.pc \in {"existing", "used", "children"} =>
       IF a.contract = None THEN GroupOf(p) = Owner
       ELSE Covers(peak[GroupOf(p)], a.seats)

DistOK(p) ==
  LET d == dist[p] IN
  /\ d.pc # "idle" => d.group \in Group /\ d.contract \in Contract
  /\ d.pc \in {"budget", "siblings"} => d.from \in Group

GrantsCovered ==
  \A g \in Group : grant[g] # None => Covers(peak[g], grant[g].seats)

Basic ==
  /\ TypeOK
  /\ \A p \in AssignProc : AsgOK(p)
  /\ \A p \in GrantProc : DistOK(p)
  /\ GrantsCovered

\* The users of a group, and of the requests that may yet add themselves
Passed(p) == \/ asg[p].pc \in {"contract", "total", "row", "insert"}
             \/ asg[p].pc = "children" /\ asg[p].used < asg[p].seats
Claimants(g) == {p \in AssignProc : Passed(p) /\ GroupOf(p) = g}
Claim(g)     == Occupants(g) \cup {UserOf(p) : p \in Claimants(g)}

ClaimsBounded ==
  \A g \in Group \ {Owner} :
    peak[g] # Unlimited /\ Claim(g) # {} =>
      /\ peak[g] > 0
      /\ Cardinality(Claim(g)) < peak[g] + Cardinality(AssignProc)

Inserting(key) == {p \in AssignProc : asg[p].pc = "insert" /\ asg[p].key = key}

InsertsBounded ==
  \A key \in Key :
    IF key[3] = None
    THEN rows[key] + Cardinality(Inserting(key)) <= Cardinality(AssignProc)
    ELSE rows[key] <= 1

-----------------------------------------------------------------------------
(* Limits and sums                                                         *)

LEMMA HigherCovers ==
  ASSUME NEW m \in Limit, NEW n \in Limit
  PROVE  Higher(m, n) \in Limit /\ Covers(Higher(m, n), m) /\ Covers(Higher(m, n), n)
BY ConstantsOK DEF Higher, Covers, Limit

LEMMA CoversTransitive ==
  ASSUME NEW l \in Limit, NEW m \in Limit, NEW n \in Limit,
         Covers(l, m), Covers(m, n)
  PROVE  Covers(l, n)
BY ConstantsOK DEF Covers, Limit

LEMMA CoversReflexive ==
  ASSUME NEW m \in Limit
  PROVE  Covers(m, m)
BY DEF Covers, Limit

\* The seats of a set of groups are finitely many: SUM is a number.
LEMMA SeatSumNat ==
  ASSUME TypeOK, NEW S \in SUBSET Group
  PROVE  IsFiniteSet(UNION {{g} \X SeatsOf(g) : g \in S}) /\ SeatSum(S) \in Nat
<1>1. IsFiniteSet(S)
  BY ConstantsOK, FS_Subset
<1>2. \A g \in S : IsFiniteSet({g} \X SeatsOf(g))
  <2> TAKE g \in S
  <2>1. grant[g] = None \/ grant[g] \in GrantRow
    BY DEF TypeOK
  <2>2. IsFiniteSet(SeatsOf(g))
    <3>1. CASE SeatsOf(g) = {}
      BY <3>1, FS_EmptySet
    <3>2. CASE SeatsOf(g) # {}
      <4>1. grant[g].seats \in Nat /\ SeatsOf(g) = 1 .. grant[g].seats
        BY <2>1, <3>2 DEF SeatsOf, GrantRow, Limit
      <4> QED BY <4>1, FS_Interval
    <3> QED BY <3>1, <3>2
  <2>3. IsFiniteSet({g})
    BY FS_Singleton
  <2> QED BY <2>2, <2>3, FS_Product
<1> DEFINE F == {{g} \X SeatsOf(g) : g \in S}
           f == [g \in S |-> {g} \X SeatsOf(g)]
<1>3. f \in Surjection(S, F)
  BY DEF Surjection
<1>4. IsFiniteSet(F)
  BY <1>1, <1>3, FS_Surjection
<1>5. IsFiniteSet(UNION F)
  <2>1. \A T \in F : IsFiniteSet(T)
    BY <1>2
  <2> HIDE DEF F
  <2> QED BY <1>4, <2>1, FS_UNION
<1> QED BY <1>5, FS_CardinalityType DEF SeatSum

LEMMA OccupantsFinite ==
  ASSUME NEW g
  PROVE  IsFiniteSet(Occupants(g)) /\ Cardinality(Occupants(g)) \in Nat
<1>1. Occupants(g) \in SUBSET User
  BY DEF Occupants
<1> QED BY <1>1, ConstantsOK, FS_Subset, FS_CardinalityType

-----------------------------------------------------------------------------
(* What every request has read                                             *)

\* A step of createAssignment touches its own progress and, at the INSERT, rows.
LEMMA AssignFrame ==
  ASSUME TypeOK, NEW p \in AssignProc, AssignStep(p)
  PROVE  /\ UNCHANGED <<parent, contract, grant, dist, peak, source>>
         /\ \A q \in AssignProc \ {p} : asg'[q] = asg[q]
BY DEF TypeOK, AssignStep, ReadGrant, ReadOwner, ReadExisting, ReadUsed, ReadChildSum,
       ReadContract, ReadTotal, ReadRow, UpdateRow, InsertRow, AbortAssign,
       GoAsg, EndAsg, Assigning, tables, history

LEMMA AssignStepOK ==
  ASSUME Basic, NEW p \in AssignProc, AssignStep(p)
  PROVE  /\ asg' \in [AssignProc -> AsgReq]
         /\ rows' \in [Key -> Nat]
         /\ AsgOK(p)'
<1>1. TypeOK /\ AsgOK(p) /\ GrantsCovered
  BY DEF Basic
<1>2. asg \in [AssignProc -> AsgReq] /\ asg[p] \in AsgReq /\ peak' = peak
  BY <1>1, AssignFrame DEF TypeOK
<1>3. AsgIdle \in AsgReq
  BY DEF AsgIdle, AsgReq, Limit
<1>4. ASSUME NEW a \in AsgReq, asg' = [asg EXCEPT ![p] = a]
      PROVE  asg' \in [AssignProc -> AsgReq] /\ asg'[p] = a
  BY <1>2, <1>4
<1>5. ASSUME rows' = rows
      PROVE  rows' \in [Key -> Nat]
  BY <1>1, <1>5 DEF TypeOK
<1>6. ASSUME EndAsg(p)
      PROVE  asg' \in [AssignProc -> AsgReq] /\ AsgOK(p)'
  <2>1. asg' \in [AssignProc -> AsgReq] /\ asg'[p] = AsgIdle
    BY <1>3, <1>4, <1>6 DEF EndAsg
  <2> QED BY <2>1 DEF AsgOK, AsgIdle, GroupOf
<1>7. ASSUME NEW l \in {"existing", "used", "children", "contract", "row", "update", "insert"},
             GoAsg(p, l)
      PROVE  /\ asg' \in [AssignProc -> AsgReq]
             /\ asg'[p] = [asg[p] EXCEPT !.pc = l]
             /\ asg'[p].pc = l /\ asg'[p].key = asg[p].key
             /\ asg'[p].contract = asg[p].contract /\ asg'[p].seats = asg[p].seats
  <2>1. [asg[p] EXCEPT !.pc = l] \in AsgReq
    BY <1>2 DEF AsgReq
  <2>2. asg' = [asg EXCEPT ![p] = [asg[p] EXCEPT !.pc = l]]
    BY <1>7 DEF GoAsg
  <2>3. asg' \in [AssignProc -> AsgReq] /\ asg'[p] = [asg[p] EXCEPT !.pc = l]
    BY <2>1, <2>2, <1>2
  <2> QED BY <2>3, <1>2 DEF AsgReq
<1>8. ASSUME NEW key \in Key, ReadGrant(p, key)
      PROVE  asg' \in [AssignProc -> AsgReq] /\ AsgOK(p)'
  <2>1. key[2] \in Group
    BY DEF Key
  <2>2. CASE grant[key[2]] = None
    <3> DEFINE a == [AsgIdle EXCEPT !.pc = "owner", !.key = key]
    <3>1. a \in AsgReq /\ a.pc = "owner" /\ a.key = key /\ a.contract = None
      BY DEF AsgIdle, AsgReq, Limit
    <3>2. asg' = [asg EXCEPT ![p] = a]
      BY <1>8, <2>2 DEF ReadGrant
    <3>3. asg' \in [AssignProc -> AsgReq] /\ asg'[p] = a
      BY <3>1, <3>2, <1>4
    <3> HIDE DEF a
    <3> QED BY <3>1, <3>3 DEF AsgOK
  <2>3. CASE grant[key[2]] # None
    <3> DEFINE a == [pc |-> "existing", key |-> key, used |-> 0,
                     contract |-> grant[key[2]].contract, seats |-> grant[key[2]].seats]
    <3>1. grant[key[2]] \in GrantRow
      BY <1>1, <2>1, <2>3 DEF TypeOK
    <3>2. a \in AsgReq
      BY <3>1 DEF AsgReq, GrantRow
    <3>3. asg' = [asg EXCEPT ![p] = a]
      BY <1>8, <2>3 DEF ReadGrant
    <3>4. asg' \in [AssignProc -> AsgReq] /\ asg'[p] = a
      BY <3>2, <3>3, <1>4
    <3>5. Covers(peak[key[2]], grant[key[2]].seats)
      BY <1>1, <2>1, <2>3 DEF GrantsCovered
    <3>6. grant[key[2]].contract # None
      BY <3>1, ConstantsOK DEF GrantRow
    <3> QED BY <3>4, <3>5, <3>6, <1>2 DEF AsgOK, GroupOf
  <2> QED BY <2>2, <2>3
<1>9. CASE \E key \in Key : ReadGrant(p, key)
  <2>1. rows' = rows
    BY <1>9 DEF ReadGrant, Assigning, tables
  <2> QED BY <1>5, <1>8, <1>9, <2>1
<1>10. CASE ReadOwner(p)
  <2>1. rows' = rows
    BY <1>10 DEF ReadOwner, Assigning, tables
  <2>2. CASE Owner = GroupOf(p)
    <3>1. GoAsg(p, "existing") /\ asg[p].pc = "owner"
      BY <1>10, <2>2 DEF ReadOwner
    <3>2. asg[p].key \in Key /\ asg[p].contract = None
      BY <1>1, <3>1 DEF AsgOK
    <3>3. /\ asg' \in [AssignProc -> AsgReq] /\ asg'[p].pc = "existing"
          /\ asg'[p].key = asg[p].key /\ asg'[p].contract = asg[p].contract
      BY <1>7, <3>1
    <3> QED BY <1>5, <2>1, <2>2, <3>2, <3>3 DEF AsgOK, GroupOf
  <2>3. CASE Owner # GroupOf(p)
    BY <1>5, <1>6, <1>10, <2>1, <2>3 DEF ReadOwner
  <2> QED BY <2>2, <2>3
<1>11. CASE ReadExisting(p)
  <2>1. rows' = rows /\ asg[p].pc = "existing"
    BY <1>11 DEF ReadExisting, Assigning, tables
  <2>2. PICK l \in {"row", "used", "contract"} :
          /\ GoAsg(p, l)
          /\ l = "used" => asg[p].seats # Unlimited
          /\ l # "row" => asg[p].contract # None
    BY <1>11 DEF ReadExisting
  <2>3. /\ asg' \in [AssignProc -> AsgReq] /\ asg'[p].pc = l
        /\ asg'[p].key = asg[p].key /\ asg'[p].contract = asg[p].contract
        /\ asg'[p].seats = asg[p].seats
    BY <1>7, <2>2
  <2> QED BY <1>1, <1>2, <1>5, <2>1, <2>2, <2>3 DEF AsgOK, GroupOf
<1>12. CASE ReadUsed(p)
  <2> DEFINE n == Cardinality(Occupants(GroupOf(p)))
             a == [asg[p] EXCEPT !.pc = "children", !.used = n]
  <2>1. rows' = rows /\ asg[p].pc = "used"
    BY <1>12 DEF ReadUsed, Assigning, tables
  <2>2. n \in Nat
    BY OccupantsFinite
  <2>3. asg' = [asg EXCEPT ![p] = a]
    BY <1>2, <1>12 DEF ReadUsed
  <2> HIDE DEF n
  <2>4. /\ a \in AsgReq /\ a.pc = "children" /\ a.key = asg[p].key
        /\ a.contract = asg[p].contract /\ a.seats = asg[p].seats
    BY <1>2, <2>2 DEF AsgReq
  <2>5. asg' \in [AssignProc -> AsgReq] /\ asg'[p] = a
    BY <1>4, <2>3, <2>4
  <2> HIDE DEF a
  <2> QED BY <1>1, <1>2, <1>5, <2>1, <2>4, <2>5 DEF AsgOK, GroupOf
<1>13. CASE ReadChildSum(p)
  <2>1. rows' = rows /\ asg[p].pc = "children"
    BY <1>13 DEF ReadChildSum, Assigning, tables
  <2>2. CASE EndAsg(p)
    BY <1>5, <1>6, <2>1, <2>2
  <2>3. CASE GoAsg(p, "contract")
    <3>1. /\ asg' \in [AssignProc -> AsgReq] /\ asg'[p].pc = "contract"
          /\ asg'[p].key = asg[p].key /\ asg'[p].contract = asg[p].contract
      BY <1>7, <2>3
    <3> QED BY <1>1, <1>5, <2>1, <3>1 DEF AsgOK
  <2> QED BY <1>13, <2>2, <2>3 DEF ReadChildSum
<1>14. CASE ReadContract(p)
  <2>1. rows' = rows /\ asg[p].pc = "contract"
    BY <1>14 DEF ReadContract, Assigning, tables
  <2>2. asg[p].key \in Key /\ asg[p].contract \in Contract
    BY <1>1, <1>2, <2>1 DEF AsgOK, AsgReq
  <2>3. CASE contract[asg[p].contract] # None /\ contract[asg[p].contract].seats # Unlimited
    <3> DEFINE n == contract[asg[p].contract].seats
               a == [asg[p] EXCEPT !.pc = "total", !.seats = n]
    <3>1. n \in Limit
      BY <1>1, <2>2, <2>3 DEF TypeOK, ContractRow
    <3>2. asg' = [asg EXCEPT ![p] = a]
      BY <1>2, <1>14, <2>3 DEF ReadContract
    <3> HIDE DEF n
    <3>3. /\ a \in AsgReq /\ a.pc = "total" /\ a.key = asg[p].key
          /\ a.contract = asg[p].contract
      BY <1>2, <3>1 DEF AsgReq
    <3>4. asg' \in [AssignProc -> AsgReq] /\ asg'[p] = a
      BY <1>4, <3>2, <3>3
    <3> HIDE DEF a
    <3> QED BY <1>1, <1>5, <2>1, <3>3, <3>4 DEF AsgOK
  <2>4. CASE GoAsg(p, "row")
    <3>1. /\ asg' \in [AssignProc -> AsgReq] /\ asg'[p].pc = "row"
          /\ asg'[p].key = asg[p].key
      BY <1>7, <2>4
    <3> QED BY <1>5, <2>1, <2>2, <3>1 DEF AsgOK
  <2> QED BY <1>14, <2>3, <2>4 DEF ReadContract
<1>15. CASE ReadTotal(p) \/ ReadRow(p)
  <2>1. rows' = rows /\ asg[p].pc # "idle"
    BY <1>15 DEF ReadTotal, ReadRow, Assigning, tables
  <2>2. CASE EndAsg(p)
    BY <1>5, <1>6, <2>1, <2>2
  <2>3. ASSUME NEW l \in {"row", "update", "insert"}, GoAsg(p, l)
        PROVE  asg' \in [AssignProc -> AsgReq] /\ AsgOK(p)'
    <3>1. /\ asg' \in [AssignProc -> AsgReq] /\ asg'[p].pc = l
          /\ asg'[p].key = asg[p].key
      BY <1>7, <2>3
    <3> QED BY <1>1, <2>1, <3>1 DEF AsgOK
  <2> QED BY <1>5, <1>15, <2>1, <2>2, <2>3 DEF ReadTotal, ReadRow
<1>16. CASE UpdateRow(p) \/ AbortAssign(p)
  BY <1>5, <1>6, <1>16 DEF UpdateRow, AbortAssign, Assigning, tables
<1>17. CASE InsertRow(p)
  <2>1. rows' \in [Key -> Nat]
    BY <1>1, <1>17 DEF InsertRow, TypeOK
  <2> QED BY <1>6, <1>17, <2>1 DEF InsertRow
<1> QED BY <1>9, <1>10, <1>11, <1>12, <1>13, <1>14, <1>15, <1>16, <1>17 DEF AssignStep

\* What happens to a group's grant: it stays, it goes, or its history covers it.
GrantTables ==
  /\ grant' \in [Group -> GrantRow \cup {None}]
  /\ peak' \in [Group -> Limit]
  /\ source' \in [Group -> Group \cup {None}]
  /\ GrantsCovered'
  /\ \A g \in Group : Covers(peak'[g], peak[g])

LEMMA GrantsUnchanged ==
  ASSUME Basic, UNCHANGED <<grant, peak, source>>
  PROVE  GrantTables
BY CoversReflexive DEF Basic, TypeOK, GrantTables, GrantsCovered

LEMMA PutGrantOK ==
  ASSUME Basic, NEW g \in Group, NEW k \in Contract, NEW n \in Limit,
         NEW from \in Group \cup {None}, PutGrant(g, k, n, from)
  PROVE  GrantTables
<1>1. TypeOK /\ GrantsCovered
  BY DEF Basic
<1>2. [contract |-> k, seats |-> n] \in GrantRow
  BY DEF GrantRow
<1>3. Higher(peak[g], n) \in Limit /\ Covers(Higher(peak[g], n), peak[g])
        /\ Covers(Higher(peak[g], n), n)
  BY <1>1, HigherCovers DEF TypeOK
<1>4. /\ grant' \in [Group -> GrantRow \cup {None}]
      /\ peak' \in [Group -> Limit]
      /\ source' \in [Group -> Group \cup {None}]
  BY <1>1, <1>2, <1>3 DEF PutGrant, TypeOK
<1>5. peak'[g] = Higher(peak[g], n) /\ grant'[g].seats = n
  BY <1>1 DEF PutGrant, TypeOK
<1>6. \A h \in Group \ {g} : peak'[h] = peak[h] /\ grant'[h] = grant[h]
  BY <1>1 DEF PutGrant, TypeOK
<1>7. GrantsCovered'
  BY <1>1, <1>3, <1>5, <1>6 DEF GrantsCovered
<1>8. \A h \in Group : Covers(peak'[h], peak[h])
  BY <1>1, <1>3, <1>5, <1>6, CoversReflexive DEF TypeOK
<1> QED BY <1>4, <1>7, <1>8 DEF GrantTables

LEMMA WithdrawGrantsOK ==
  ASSUME Basic, NEW S, WithdrawGrants(S), peak' = peak
  PROVE  GrantTables
<1>1. TypeOK /\ GrantsCovered
  BY DEF Basic
<1>2. /\ grant' \in [Group -> GrantRow \cup {None}]
      /\ source' \in [Group -> Group \cup {None}]
      /\ peak' \in [Group -> Limit]
  BY <1>1 DEF WithdrawGrants, TypeOK
<1>3. \A g \in Group : grant'[g] \in {None, grant[g]}
  BY DEF WithdrawGrants
<1>4. GrantsCovered'
  BY <1>1, <1>3 DEF GrantsCovered
<1>5. \A g \in Group : Covers(peak'[g], peak[g])
  BY <1>1, CoversReflexive DEF TypeOK
<1> QED BY <1>2, <1>4, <1>5 DEF GrantTables

LEMMA GrantStepOK ==
  ASSUME Basic, NEW p \in GrantProc, GrantStep(p)
  PROVE  /\ UNCHANGED <<parent, contract, rows, asg>>
         /\ dist' \in [GrantProc -> DistReq]
         /\ \A q \in GrantProc : DistOK(q)'
         /\ GrantTables
<1>1. TypeOK /\ DistOK(p) /\ \A q \in GrantProc : DistOK(q)
  BY DEF Basic
<1>2. dist \in [GrantProc -> DistReq] /\ dist[p] \in DistReq
  BY <1>1 DEF TypeOK
<1>3. DistIdle \in DistReq
  BY DEF DistIdle, DistReq
<1>4. UNCHANGED <<parent, contract, rows, asg>>
  BY DEF GrantStep, ReadCustomer, ReadParent, ReadBudget, ReadSiblings, UpsertGrant,
         AbortGrant, Distributing, tables, history
<1>5. ASSUME NEW d \in DistReq, dist' = [dist EXCEPT ![p] = d],
             d.pc # "idle" => d.group \in Group /\ d.contract \in Contract,
             d.pc \in {"budget", "siblings"} => d.from \in Group
      PROVE  dist' \in [GrantProc -> DistReq] /\ \A q \in GrantProc : DistOK(q)'
  <2>1. dist' \in [GrantProc -> DistReq]
    BY <1>2, <1>5
  <2>2. DistOK(p)'
    BY <1>2, <1>5 DEF DistOK
  <2>3. ASSUME NEW q \in GrantProc \ {p}
        PROVE  DistOK(q)'
    <3>1. dist'[q] = dist[q]
      BY <1>2, <1>5
    <3> QED BY <1>1, <3>1 DEF DistOK
  <2> QED BY <2>1, <2>2, <2>3
<1>6. ASSUME EndDist(p)
      PROVE  dist' \in [GrantProc -> DistReq] /\ \A q \in GrantProc : DistOK(q)'
  BY <1>3, <1>5, <1>6 DEF EndDist, DistIdle
<1>7. ASSUME GoDist(p, "upsert"), dist[p].pc # "idle"
      PROVE  dist' \in [GrantProc -> DistReq] /\ \A q \in GrantProc : DistOK(q)'
  <2> DEFINE d == [dist[p] EXCEPT !.pc = "upsert"]
  <2>1. /\ d \in DistReq /\ d.pc = "upsert" /\ d.group = dist[p].group
        /\ d.contract = dist[p].contract
    BY <1>2 DEF DistReq
  <2>2. dist' = [dist EXCEPT ![p] = d]
    BY <1>2, <1>7 DEF GoDist
  <2>3. d.group \in Group /\ d.contract \in Contract
    BY <1>1, <1>7, <2>1 DEF DistOK
  <2> HIDE DEF d
  <2> QED BY <1>5, <2>1, <2>2, <2>3
<1>8. ASSUME Distributing
      PROVE  GrantTables
  BY <1>8, GrantsUnchanged DEF Distributing, tables, history
<1>9. ASSUME NEW g \in Group, NEW k \in Contract, NEW n \in Nat, ReadCustomer(p, g, k, n)
      PROVE  dist' \in [GrantProc -> DistReq] /\ \A q \in GrantProc : DistOK(q)'
  <2> DEFINE l == IF g = contract[k].customer THEN "upsert" ELSE "parent"
             d == [DistIdle EXCEPT !.pc = l, !.group = g, !.contract = k, !.want = n]
  <2>1. l \in {"upsert", "parent"}
    OBVIOUS
  <2>2. dist' = [dist EXCEPT ![p] = d]
    BY <1>9 DEF ReadCustomer
  <2> HIDE DEF l
  <2>3. d \in DistReq /\ d.pc = l /\ d.group = g /\ d.contract = k
    BY <2>1 DEF DistReq, DistIdle
  <2> HIDE DEF d
  <2> QED BY <1>5, <2>1, <2>2, <2>3
<1>10. CASE \E g \in Group, k \in Contract, n \in Limits \ {Unlimited} :
              ReadCustomer(p, g, k, n)
  <2>1. Limits \ {Unlimited} \subseteq Nat
    BY ConstantsOK DEF Limit
  <2>2. Distributing
    BY <1>10 DEF ReadCustomer
  <2> QED BY <1>4, <1>8, <1>9, <1>10, <2>1, <2>2
<1>11. CASE ReadParent(p)
  <2>1. dist[p].pc = "parent" /\ Distributing
    BY <1>11 DEF ReadParent
  <2>2. CASE parent[dist[p].group] = None
    BY <1>4, <1>6, <1>8, <1>11, <2>1, <2>2 DEF ReadParent
  <2>3. CASE parent[dist[p].group] # None
    <3> DEFINE h == parent[dist[p].group]
               d == [dist[p] EXCEPT !.pc = "budget", !.from = h]
    <3>1. dist[p].group \in Group /\ dist[p].contract \in Contract
      BY <1>1, <2>1 DEF DistOK
    <3>2. h \in Group
      BY <1>1, <2>3, <3>1 DEF TypeOK
    <3>3. dist' = [dist EXCEPT ![p] = d]
      BY <1>2, <1>11, <2>3 DEF ReadParent
    <3> HIDE DEF h
    <3>4. /\ d \in DistReq /\ d.pc = "budget" /\ d.from = h
          /\ d.group = dist[p].group /\ d.contract = dist[p].contract
      BY <1>2, <3>2 DEF DistReq
    <3> HIDE DEF d
    <3>5. dist' \in [GrantProc -> DistReq] /\ \A q \in GrantProc : DistOK(q)'
      BY <1>5, <3>1, <3>2, <3>3, <3>4
    <3> QED BY <1>4, <1>8, <2>1, <3>5
  <2> QED BY <2>2, <2>3
<1>12. CASE ReadBudget(p)
  <2> DEFINE up == grant[dist[p].from]
  <2>1. dist[p].pc = "budget" /\ Distributing
    BY <1>12 DEF ReadBudget
  <2>2. dist[p].from \in Group /\ dist[p].group \in Group /\ dist[p].contract \in Contract
    BY <1>1, <2>1 DEF DistOK
  <2>3. CASE EndDist(p) \/ GoDist(p, "upsert")
    BY <1>4, <1>6, <1>7, <1>8, <2>1, <2>3
  <2>4. CASE up # None /\ up.seats # Unlimited
               /\ dist' = [dist EXCEPT ![p].pc = "siblings", ![p].seats = up.seats]
    <3> DEFINE d == [dist[p] EXCEPT !.pc = "siblings", !.seats = up.seats]
    <3>1. up.seats \in Nat
      BY <1>1, <2>2, <2>4 DEF TypeOK, GrantRow, Limit
    <3>2. dist' = [dist EXCEPT ![p] = d]
      BY <1>2, <2>4
    <3> HIDE DEF up
    <3>3. /\ d \in DistReq /\ d.pc = "siblings" /\ d.from = dist[p].from
          /\ d.group = dist[p].group /\ d.contract = dist[p].contract
      BY <1>2, <3>1 DEF DistReq
    <3> HIDE DEF d
    <3>4. dist' \in [GrantProc -> DistReq] /\ \A q \in GrantProc : DistOK(q)'
      BY <1>5, <2>2, <3>2, <3>3
    <3> QED BY <1>4, <1>8, <2>1, <3>4
  <2> QED BY <1>12, <2>3, <2>4 DEF ReadBudget
<1>13. CASE ReadSiblings(p)
  BY <1>4, <1>6, <1>7, <1>8, <1>13 DEF ReadSiblings
<1>14. CASE UpsertGrant(p)
  <2>1. dist[p].pc = "upsert" /\ EndDist(p)
    BY <1>14 DEF UpsertGrant
  <2>2. /\ dist[p].group \in Group /\ dist[p].contract \in Contract
        /\ dist[p].want \in Limit /\ dist[p].from \in Group \cup {None}
    BY <1>1, <1>2, <2>1 DEF DistOK, DistReq, Limit
  <2>3. GrantTables
    BY <1>14, <2>2, PutGrantOK, GrantsUnchanged DEF UpsertGrant
  <2> QED BY <1>4, <1>6, <2>1, <2>3
<1>15. CASE AbortGrant(p)
  BY <1>4, <1>6, <1>8, <1>15 DEF AbortGrant
<1> QED BY <1>10, <1>11, <1>12, <1>13, <1>14, <1>15 DEF GrantStep

LEMMA OperatorStepOK ==
  ASSUME Basic, OperatorStep
  PROVE  /\ UNCHANGED <<asg, dist>>
         /\ parent' \in [Group -> Group \cup {None}]
         /\ contract' \in [Contract -> ContractRow \cup {None}]
         /\ rows' \in [Key -> Nat]
         /\ \A key \in Key : rows'[key] <= rows[key]
         /\ GrantTables
<1>1. TypeOK
  BY DEF Basic
<1>2. \A key \in Key : rows[key] <= rows[key]
  BY <1>1 DEF TypeOK
<1>3. CASE \E g \in Group, k \in Contract, n \in Limits : OperatorGrant(g, k, n)
  <2>1. PICK g \in Group, k \in Contract, n \in Limits : OperatorGrant(g, k, n)
    BY <1>3
  <2>2. n \in Limit /\ PutGrant(g, k, n, None)
    BY <2>1, ConstantsOK DEF OperatorGrant
  <2>3. GrantTables
    BY <2>2, PutGrantOK
  <2> QED BY <1>1, <1>2, <2>1, <2>3 DEF OperatorGrant, TypeOK
<1>4. CASE \E S \in SUBSET Group : Withdraw(S)
  BY <1>1, <1>2, <1>4, WithdrawGrantsOK DEF Withdraw, TypeOK
<1>5. CASE \E k \in Contract, g \in Customers, n \in Limits : AddContract(k, g, n)
  <2>1. PICK k \in Contract, g \in Customers, n \in Limits : AddContract(k, g, n)
    BY <1>5
  <2>2. [customer |-> g, seats |-> n] \in ContractRow
    BY ConstantsOK DEF ContractRow
  <2>3. contract' \in [Contract -> ContractRow \cup {None}]
    BY <1>1, <2>1, <2>2 DEF AddContract, TypeOK
  <2>4. UNCHANGED <<grant, peak, source>>
    BY <2>1 DEF AddContract, history
  <2> QED BY <1>1, <1>2, <2>1, <2>3, <2>4, GrantsUnchanged DEF AddContract, TypeOK
<1>6. CASE \E k \in Contract : DeleteContract(k)
  <2>1. PICK k \in Contract : DeleteContract(k)
    BY <1>6
  <2>2. GrantTables
    BY <2>1, WithdrawGrantsOK DEF DeleteContract
  <2> QED BY <1>1, <1>2, <2>1, <2>2 DEF DeleteContract, TypeOK
<1>7. CASE \E key \in Key : Unassign(key)
  <2>1. PICK key \in Key : Unassign(key)
    BY <1>7
  <2>2. rows' \in [Key -> Nat] /\ \A x \in Key : rows'[x] <= rows[x]
    BY <1>1, <2>1 DEF Unassign, TypeOK
  <2>3. UNCHANGED <<grant, peak, source>>
    BY <2>1 DEF Unassign, history
  <2> QED BY <1>1, <2>1, <2>2, <2>3, GrantsUnchanged DEF Unassign, TypeOK
<1>8. CASE \E g \in Movable, h \in Group \cup {None} : Reparent(g, h)
  <2>1. PICK g \in Movable, h \in Group \cup {None} : Reparent(g, h)
    BY <1>8
  <2>2. UNCHANGED <<grant, peak, source>>
    BY <2>1 DEF Reparent, history
  <2> QED BY <1>1, <1>2, <2>1, <2>2, GrantsUnchanged DEF Reparent, TypeOK
<1> QED BY <1>3, <1>4, <1>5, <1>6, <1>7, <1>8 DEF OperatorStep

\* What a request read of a grant stays covered while the history grows.
LEMMA AsgStays ==
  ASSUME Basic, GrantTables, NEW p \in AssignProc, asg'[p] = asg[p]
  PROVE  AsgOK(p)'
<1>1. AsgOK(p) /\ TypeOK
  BY DEF Basic
<1>2. asg[p] \in AsgReq
  BY <1>1 DEF TypeOK
<1>3. ASSUME asg[p].pc \in {"existing", "used", "children"}, asg[p].contract # None
      PROVE  Covers(peak'[GroupOf(p)], asg[p].seats)
  <2>1. GroupOf(p) \in Group
    BY <1>1, <1>3 DEF AsgOK, GroupOf, Key
  <2>2. Covers(peak[GroupOf(p)], asg[p].seats)
    BY <1>1, <1>3 DEF AsgOK
  <2>3. /\ peak[GroupOf(p)] \in Limit /\ peak'[GroupOf(p)] \in Limit
        /\ asg[p].seats \in Limit /\ Covers(peak'[GroupOf(p)], peak[GroupOf(p)])
    BY <1>1, <1>2, <2>1 DEF TypeOK, GrantTables, AsgReq
  <2> QED BY <2>2, <2>3, CoversTransitive
<1> QED BY <1>1, <1>3 DEF AsgOK, GroupOf

THEOREM BasicInit == Init => Basic
<1> SUFFICES ASSUME Init PROVE Basic
  OBVIOUS
<1>1. AsgIdle \in AsgReq /\ DistIdle \in DistReq
  BY DEF AsgIdle, AsgReq, DistIdle, DistReq, Limit
<1>2. 0 \in Limit
  BY DEF Limit
<1>3. TypeOK
  BY <1>1, <1>2 DEF Init, TypeOK
<1>4. \A p \in AssignProc : AsgOK(p)
  BY DEF Init, AsgOK, AsgIdle
<1>5. \A p \in GrantProc : DistOK(p)
  BY DEF Init, DistOK, DistIdle
<1>6. GrantsCovered
  BY DEF Init, GrantsCovered
<1> QED BY <1>3, <1>4, <1>5, <1>6 DEF Basic

THEOREM BasicStep == Basic /\ [Next]_vars => Basic'
<1> SUFFICES ASSUME Basic, [Next]_vars PROVE Basic'
  OBVIOUS
<1>1. TypeOK
  BY DEF Basic
<1>2. CASE \E p \in AssignProc : AssignStep(p)
  <2>1. PICK p \in AssignProc : AssignStep(p)
    BY <1>2
  <2>2. /\ UNCHANGED <<parent, contract, grant, dist, peak, source>>
        /\ \A q \in AssignProc \ {p} : asg'[q] = asg[q]
    BY <1>1, <2>1, AssignFrame
  <2>3. /\ asg' \in [AssignProc -> AsgReq] /\ rows' \in [Key -> Nat] /\ AsgOK(p)'
    BY <2>1, AssignStepOK
  <2>4. GrantTables
    BY <2>2, GrantsUnchanged
  <2>5. \A q \in AssignProc : AsgOK(q)'
    BY <2>2, <2>3, <2>4, AsgStays
  <2>6. \A q \in GrantProc : DistOK(q)'
    BY <2>2 DEF Basic, DistOK
  <2>7. TypeOK'
    BY <1>1, <2>2, <2>3 DEF TypeOK
  <2> QED BY <2>4, <2>5, <2>6, <2>7 DEF Basic, GrantTables
<1>3. CASE \E p \in GrantProc : GrantStep(p)
  <2>1. /\ UNCHANGED <<parent, contract, rows, asg>>
        /\ dist' \in [GrantProc -> DistReq]
        /\ \A q \in GrantProc : DistOK(q)'
        /\ GrantTables
    BY <1>3, GrantStepOK
  <2>2. \A q \in AssignProc : AsgOK(q)'
    BY <2>1, AsgStays
  <2>3. TypeOK'
    BY <1>1, <2>1 DEF TypeOK, GrantTables
  <2> QED BY <2>1, <2>2, <2>3 DEF Basic, GrantTables
<1>4. CASE OperatorStep
  <2>1. /\ UNCHANGED <<asg, dist>>
        /\ parent' \in [Group -> Group \cup {None}]
        /\ contract' \in [Contract -> ContractRow \cup {None}]
        /\ rows' \in [Key -> Nat]
        /\ GrantTables
    BY <1>4, OperatorStepOK
  <2>2. \A q \in AssignProc : AsgOK(q)'
    BY <2>1, AsgStays
  <2>3. \A q \in GrantProc : DistOK(q)'
    BY <2>1 DEF Basic, DistOK
  <2>4. TypeOK'
    BY <1>1, <2>1 DEF TypeOK, GrantTables
  <2> QED BY <2>1, <2>2, <2>3, <2>4 DEF Basic, GrantTables
<1>5. CASE UNCHANGED vars
  <2>1. UNCHANGED <<parent, contract, grant, rows, asg, dist, peak, source>>
    BY <1>5 DEF vars, tables, history
  <2>2. TypeOK'
    BY <1>1, <2>1 DEF TypeOK
  <2>3. GrantTables
    BY <2>1, GrantsUnchanged
  <2>4. \A p \in AssignProc : AsgOK(p)'
    BY <2>1, <2>3, AsgStays
  <2>5. \A p \in GrantProc : DistOK(p)'
    BY <2>1 DEF Basic, DistOK
  <2> QED BY <2>2, <2>3, <2>4, <2>5 DEF Basic, GrantTables
<1> QED BY <1>2, <1>3, <1>4, <1>5 DEF Next

\* The tables and the requests keep their types.
THEOREM SeatTypes == Spec => []TypeOK
<1>1. Basic => TypeOK
  BY DEF Basic
<1> QED BY <1>1, BasicInit, BasicStep, PTL DEF Spec

-----------------------------------------------------------------------------
(* Seats                                                                   *)

\* A set of claims that does not grow stays within a limit that does not fall.
LEMMA ClaimShrinks ==
  ASSUME Basic, ClaimsBounded, Basic',
         NEW g \in Group \ {Owner},
         Claim(g)' \subseteq Claim(g), Covers(peak'[g], peak[g]),
         peak'[g] # Unlimited, Claim(g)' # {}
  PROVE  /\ peak'[g] > 0
         /\ Cardinality(Claim(g)') < peak'[g] + Cardinality(AssignProc)
<1>1. peak[g] \in Nat /\ peak'[g] \in Nat /\ peak[g] <= peak'[g]
  BY DEF Basic, TypeOK, Limit, Covers
<1>2. /\ peak[g] > 0
      /\ Cardinality(Claim(g)) < peak[g] + Cardinality(AssignProc)
  BY <1>1, ConstantsOK DEF ClaimsBounded
<1>3. IsFiniteSet(Claim(g))
  <2>1. \A p \in Claimants(g) : UserOf(p) \in User
    BY DEF Claimants, Passed, Basic, AsgOK, UserOf, Key
  <2>2. Claim(g) \in SUBSET User
    BY <2>1 DEF Claim, Occupants
  <2> QED BY <2>2, ConstantsOK, FS_Subset
<1>4. /\ Cardinality(Claim(g)') <= Cardinality(Claim(g))
      /\ Cardinality(Claim(g)) \in Nat /\ Cardinality(Claim(g)') \in Nat
  BY <1>3, FS_Subset, FS_CardinalityType
<1>5. Cardinality(AssignProc) \in Nat
  BY ConstantsOK, FS_CardinalityType
<1> QED BY <1>1, <1>2, <1>4, <1>5

\* A user for each of some requests: no more users than requests.
LEMMA UsersOfRequests ==
  ASSUME NEW C \in SUBSET AssignProc, NEW h
  PROVE  LET T == {h[q] : q \in C}
         IN  IsFiniteSet(T) /\ Cardinality(T) <= Cardinality(AssignProc)
               /\ Cardinality(T) \in Nat
<1> DEFINE T == {h[q] : q \in C}
           f == [q \in C |-> h[q]]
<1>1. IsFiniteSet(C) /\ Cardinality(C) <= Cardinality(AssignProc)
  BY ConstantsOK, FS_Subset
<1>2. f \in Surjection(C, T)
  BY DEF Surjection
<1>3. IsFiniteSet(T) /\ Cardinality(T) <= Cardinality(C)
  <2> HIDE DEF T, f
  <2> QED BY <1>1, <1>2, FS_Surjection
<1>4. Cardinality(T) \in Nat /\ Cardinality(C) \in Nat /\ Cardinality(AssignProc) \in Nat
  BY <1>1, <1>3, ConstantsOK, FS_CardinalityType
<1> HIDE DEF T, f
<1>5. IsFiniteSet(T) /\ Cardinality(T) <= Cardinality(AssignProc) /\ Cardinality(T) \in Nat
  BY <1>1, <1>3, <1>4
<1> QED BY <1>5 DEF T

\* Claims appear when the occupants are counted, and never elsewhere.
LEMMA ClaimSteps ==
  ASSUME Basic, NEW p \in AssignProc, AssignStep(p),
         NEW g \in Group \ {Owner}, peak[g] # Unlimited,
         ~(ReadUsed(p) /\ GroupOf(p) = g)
  PROVE  Claim(g)' \subseteq Claim(g)
<1>1. TypeOK /\ AsgOK(p)
  BY DEF Basic
<1>2. asg[p] \in AsgReq /\ asg \in [AssignProc -> AsgReq]
  BY <1>1 DEF TypeOK
<1>3. \A q \in AssignProc \ {p} : asg'[q] = asg[q]
  BY <1>1, AssignFrame
<1>4. ASSUME NEW q \in AssignProc \ {p}, q \in Claimants(g)'
      PROVE  UserOf(q)' \in Claim(g)
  <2>1. asg'[q] = asg[q]
    BY <1>3
  <2>2. q \in Claimants(g) /\ UserOf(q)' = UserOf(q)
    BY <1>4, <2>1 DEF Claimants, Passed, GroupOf, UserOf
  <2> QED BY <2>2 DEF Claim
<1>5. ASSUME p \in Claimants(g)', Assigning
      PROVE  UserOf(p)' \in Claim(g)
  <2>1. Passed(p)' /\ GroupOf(p)' = g
    BY <1>5 DEF Claimants
  <2>2. ASSUME asg'[p].key = asg[p].key, Passed(p)
        PROVE  UserOf(p)' \in Claim(g)
    <3>1. p \in Claimants(g) /\ UserOf(p)' = UserOf(p)
      BY <2>1, <2>2 DEF Claimants, GroupOf, UserOf
    <3> QED BY <3>1 DEF Claim
  <2>3. CASE asg' = [asg EXCEPT ![p] = AsgIdle]
    BY <1>2, <2>1, <2>3 DEF Passed, AsgIdle
  <2>4. ASSUME NEW l, GoAsg(p, l)
        PROVE  /\ asg'[p].key = asg[p].key /\ asg'[p].pc = l
               /\ asg'[p].contract = asg[p].contract /\ asg'[p].seats = asg[p].seats
    BY <1>2, <2>4 DEF GoAsg, AsgReq
  <2>5. CASE \E key \in Key : ReadGrant(p, key)
    BY <1>2, <2>1, <2>5 DEF ReadGrant, Passed, AsgIdle
  <2>6. CASE ReadOwner(p)
    BY <2>1, <2>3, <2>4, <2>6 DEF ReadOwner, EndAsg, Passed
  <2>7. CASE ReadExisting(p)
    <3>1. asg[p].pc = "existing"
      BY <2>7 DEF ReadExisting
    <3>2. PICK l \in {"row", "used", "contract"} :
            /\ GoAsg(p, l)
            /\ l = "row" => Existing(UserOf(p), GroupOf(p)) \/ asg[p].contract = None
            /\ l = "contract" => asg[p].contract # None /\ asg[p].seats = Unlimited
      BY <2>7 DEF ReadExisting
    <3>3. asg'[p].key = asg[p].key /\ asg'[p].pc = l
      BY <2>4, <3>2
    <3>4. GroupOf(p) = g
      BY <2>1, <3>3 DEF GroupOf
    <3>5. asg[p].contract # None /\ Covers(peak[g], asg[p].seats)
      BY <1>1, <3>1, <3>4 DEF AsgOK
    <3>6. l # "contract"
      BY <3>2, <3>5 DEF Covers
    <3>7. l = "row"
      BY <2>1, <3>3, <3>6 DEF Passed
    <3>8. UserOf(p) \in Occupants(g)
      BY <3>2, <3>4, <3>5, <3>7 DEF Existing
    <3> QED BY <3>3, <3>8 DEF Claim, UserOf
  <2>8. CASE ReadUsed(p)
    <3>1. asg'[p].key = asg[p].key
      BY <1>2, <2>8 DEF ReadUsed, AsgReq
    <3> QED BY <2>1, <2>8, <3>1 DEF GroupOf
  <2>9. CASE ReadChildSum(p)
    <3>1. asg[p].pc = "children" /\ asg[p].used \in Nat /\ asg[p].seats \in Nat
      BY <1>1, <1>2, <2>9 DEF ReadChildSum, AsgOK, AsgReq, Limit
    <3>2. SeatSum(Children(GroupOf(p))) \in Nat
      BY <1>1, SeatSumNat DEF Children
    <3>3. CASE EndAsg(p)
      BY <2>3, <3>3 DEF EndAsg
    <3>4. CASE ~Full(p) /\ GoAsg(p, "contract")
      <4>1. asg[p].used < asg[p].seats
        BY <3>1, <3>2, <3>4 DEF Full
      <4> QED BY <2>2, <2>4, <3>1, <3>4, <4>1 DEF Passed
    <3> QED BY <2>9, <3>3, <3>4 DEF ReadChildSum
  <2>10. CASE ReadContract(p)
    <3>1. asg[p].pc = "contract"
      BY <2>10 DEF ReadContract
    <3>2. asg'[p].key = asg[p].key
      BY <1>2, <2>10 DEF ReadContract, GoAsg, AsgReq
    <3> QED BY <2>2, <3>1, <3>2 DEF Passed
  <2>11. CASE ReadTotal(p) \/ ReadRow(p)
    <3>1. asg[p].pc \in {"total", "row"}
      BY <2>11 DEF ReadTotal, ReadRow
    <3>2. EndAsg(p) \/ \E l \in {"row", "update", "insert"} : GoAsg(p, l)
      BY <2>11 DEF ReadTotal, ReadRow
    <3> QED BY <2>2, <2>3, <2>4, <3>1, <3>2 DEF Passed, EndAsg
  <2>12. CASE UpdateRow(p) \/ InsertRow(p) \/ AbortAssign(p)
    BY <2>3, <2>12 DEF UpdateRow, InsertRow, AbortAssign, EndAsg
  <2> QED BY <2>5, <2>6, <2>7, <2>8, <2>9, <2>10, <2>11, <2>12 DEF AssignStep
<1>6. CASE InsertRow(p)
  <2>1. asg' = [asg EXCEPT ![p] = AsgIdle] /\ asg[p].pc = "insert"
    BY <1>6 DEF InsertRow, EndAsg
  <2>2. asg[p].key \in Key
    BY <1>1, <2>1 DEF AsgOK
  <2>3. p \notin Claimants(g)'
    BY <1>2, <2>1 DEF Claimants, Passed, AsgIdle
  <2>4. ASSUME NEW u \in Occupants(g)', u \notin Occupants(g)
        PROVE  u \in Claim(g)
    <3>1. PICK f \in Place : rows'[<<u, g, f>>] > 0 /\ u \in User
      BY <2>4 DEF Occupants
    <3>2. <<u, g, f>> \in Key /\ ~(rows[<<u, g, f>>] > 0)
      BY <2>4, <3>1 DEF Occupants, Key
    <3>3. <<u, g, f>> = asg[p].key
      BY <1>1, <1>6, <2>2, <3>1, <3>2 DEF InsertRow, TypeOK
    <3>4. UserOf(p) = u /\ GroupOf(p) = g
      BY <3>3 DEF UserOf, GroupOf
    <3> QED BY <2>1, <3>4 DEF Claim, Claimants, Passed
  <2> QED BY <1>4, <2>3, <2>4 DEF Claim, Claimants
<1>7. CASE ~InsertRow(p)
  <2>1. Assigning
    BY <1>7 DEF AssignStep, ReadGrant, ReadOwner, ReadExisting, ReadUsed, ReadChildSum,
                ReadContract, ReadTotal, ReadRow, UpdateRow, AbortAssign
  <2>2. Occupants(g)' = Occupants(g)
    BY <2>1 DEF Assigning, tables, Occupants
  <2> QED BY <1>4, <1>5, <2>1, <2>2 DEF Claim, Claimants
<1> QED BY <1>6, <1>7

\* A request that counts a free seat claims it, as every other request may have.
LEMMA ClaimAdds ==
  ASSUME Basic, Basic', ClaimsBounded, NEW p \in AssignProc, ReadUsed(p),
         NEW g \in Group \ {Owner}, GroupOf(p) = g, peak[g] # Unlimited,
         Claim(g)' # {}
  PROVE  /\ peak'[g] > 0
         /\ Cardinality(Claim(g)') < peak'[g] + Cardinality(AssignProc)
<1> DEFINE n == Cardinality(Occupants(g))
           T == {asg'[q].key[1] : q \in Claimants(g)'}
<1>1. TypeOK /\ AsgOK(p) /\ asg[p] \in AsgReq /\ asg \in [AssignProc -> AsgReq]
  BY DEF Basic, TypeOK
<1>2. /\ asg[p].pc = "used" /\ Assigning
      /\ asg' = [asg EXCEPT ![p].pc = "children", ![p].used = n]
  BY DEF ReadUsed
<1>3. /\ asg'[p].key = asg[p].key /\ asg'[p].pc = "children"
      /\ asg'[p].used = n /\ asg'[p].seats = asg[p].seats
  BY <1>1, <1>2 DEF AsgReq
<1>4. asg[p].seats \in Nat /\ peak[g] \in Nat /\ asg[p].seats <= peak[g] /\ peak' = peak
  BY <1>1, <1>2 DEF AsgOK, Covers, TypeOK, Limit, AsgReq, Assigning, history
<1>5. Occupants(g)' = Occupants(g) /\ n \in Nat
  BY <1>2, OccupantsFinite DEF Assigning, tables, Occupants
<1>6. Claim(g)' = Occupants(g) \cup T
  BY <1>5 DEF Claim, UserOf
<1>7. CASE n < asg[p].seats
  <2>1. Claimants(g)' \in SUBSET AssignProc
    BY DEF Claimants
  <2> DEFINE h == [q \in AssignProc |-> asg'[q].key[1]]
  <2>2. T = {h[q] : q \in Claimants(g)'}
    BY <2>1
  <2>3. IsFiniteSet(T) /\ Cardinality(T) <= Cardinality(AssignProc) /\ Cardinality(T) \in Nat
    <3> HIDE DEF h, T
    <3> QED BY <2>1, <2>2, UsersOfRequests
  <2>4. IsFiniteSet(Occupants(g))
    BY OccupantsFinite
  <2> HIDE DEF T
  <2>5. Cardinality(Claim(g)') = n + Cardinality(T) - Cardinality(Occupants(g) \cap T)
    BY <1>6, <2>3, <2>4, FS_Union
  <2>6. Cardinality(Occupants(g) \cap T) \in Nat /\ Cardinality(AssignProc) \in Nat
    BY <2>4, ConstantsOK, FS_Subset, FS_CardinalityType
  <2> HIDE DEF n
  <2> QED BY <1>4, <1>5, <1>7, <2>3, <2>5, <2>6
<1>8. CASE ~(n < asg[p].seats)
  <2>1. ASSUME NEW q \in Claimants(g)'
        PROVE  q \in Claimants(g) /\ asg'[q].key[1] = UserOf(q)
    <3>1. q # p
      BY <1>3, <1>8 DEF Claimants, Passed
    <3>2. asg'[q] = asg[q]
      BY <1>1, <1>2, <3>1 DEF Claimants
    <3> QED BY <3>2 DEF Claimants, Passed, GroupOf, UserOf
  <2>2. Claim(g)' \subseteq Claim(g)
    BY <1>6, <2>1 DEF Claim
  <2>3. Covers(peak'[g], peak[g]) /\ peak'[g] # Unlimited
    BY <1>4 DEF Covers
  <2> QED BY <2>2, <2>3, ClaimShrinks
<1> QED BY <1>7, <1>8

LEMMA ClaimsInit == Init => ClaimsBounded
<1> SUFFICES ASSUME Init, NEW g \in Group PROVE Claim(g) = {}
  BY DEF ClaimsBounded
<1>1. Occupants(g) = {}
  <2> SUFFICES ASSUME NEW u \in User, NEW f \in Place, rows[<<u, g, f>>] > 0
               PROVE  FALSE
    BY DEF Occupants
  <2>1. <<u, g, f>> \in Key
    BY DEF Key
  <2>2. rows[<<u, g, f>>] = 0
    BY <2>1 DEF Init
  <2> QED BY <2>2
<1>2. Claimants(g) = {}
  BY DEF Init, Claimants, Passed, AsgIdle
<1> QED BY <1>1, <1>2 DEF Claim

LEMMA ClaimsStep == Basic /\ Basic' /\ ClaimsBounded /\ [Next]_vars => ClaimsBounded'
<1> SUFFICES ASSUME Basic, Basic', ClaimsBounded, [Next]_vars,
                    NEW g \in Group \ {Owner}, peak'[g] # Unlimited, Claim(g)' # {}
             PROVE  /\ peak'[g] > 0
                    /\ Cardinality(Claim(g)') < peak'[g] + Cardinality(AssignProc)
  BY DEF ClaimsBounded
<1>1. TypeOK
  BY DEF Basic
<1>2. ASSUME UNCHANGED asg, \A key \in Key : rows'[key] <= rows[key],
             rows' \in [Key -> Nat]
      PROVE  Claim(g)' \subseteq Claim(g)
  <2>1. Occupants(g)' \subseteq Occupants(g)
    <3> SUFFICES ASSUME NEW u \in User, NEW f \in Place, rows'[<<u, g, f>>] > 0
                 PROVE  rows[<<u, g, f>>] > 0
      BY DEF Occupants
    <3>1. <<u, g, f>> \in Key
      BY DEF Key
    <3>2. /\ rows'[<<u, g, f>>] \in Nat /\ rows[<<u, g, f>>] \in Nat
          /\ rows'[<<u, g, f>>] <= rows[<<u, g, f>>]
      BY <1>1, <1>2, <3>1 DEF TypeOK
    <3> QED BY <3>2
  <2>2. \A q \in AssignProc : asg'[q] = asg[q]
    BY <1>2
  <2>3. Claimants(g)' \subseteq Claimants(g)
    BY <1>2 DEF Claimants, Passed, GroupOf
  <2>4. \A q \in Claimants(g)' : UserOf(q)' = UserOf(q)
    BY <1>2 DEF UserOf
  <2> QED BY <2>1, <2>3, <2>4 DEF Claim
<1>3. CASE \E p \in AssignProc : AssignStep(p)
  <2>1. PICK p \in AssignProc : AssignStep(p)
    BY <1>3
  <2>2. peak' = peak /\ Covers(peak'[g], peak[g])
    BY <1>1, <2>1, AssignFrame, CoversReflexive DEF TypeOK
  <2>3. CASE ReadUsed(p) /\ GroupOf(p) = g
    BY <2>2, <2>3, ClaimAdds
  <2>4. CASE ~(ReadUsed(p) /\ GroupOf(p) = g)
    <3>1. Claim(g)' \subseteq Claim(g)
      BY <2>1, <2>2, <2>4, ClaimSteps
    <3> QED BY <2>2, <3>1, ClaimShrinks
  <2> QED BY <2>3, <2>4
<1>4. CASE \E p \in GrantProc : GrantStep(p)
  <2>1. UNCHANGED <<rows, asg>> /\ GrantTables
    BY <1>4, GrantStepOK
  <2>2. \A key \in Key : rows'[key] <= rows[key]
    BY <1>1, <2>1 DEF TypeOK
  <2> QED BY <1>1, <1>2, <2>1, <2>2, ClaimShrinks DEF GrantTables, TypeOK
<1>5. CASE OperatorStep
  BY <1>2, <1>5, OperatorStepOK, ClaimShrinks DEF GrantTables
<1>6. CASE UNCHANGED vars
  <2>1. UNCHANGED <<rows, asg, peak>>
    BY <1>6 DEF vars, tables, history
  <2>2. \A key \in Key : rows'[key] <= rows[key]
    BY <1>1, <2>1 DEF TypeOK
  <2>3. Covers(peak'[g], peak[g])
    BY <1>1, <2>1, CoversReflexive DEF TypeOK
  <2> QED BY <1>1, <1>2, <2>1, <2>2, <2>3, ClaimShrinks DEF TypeOK
<1> QED BY <1>3, <1>4, <1>5, <1>6 DEF Next

\* createAssignment oversells a group by no more than one seat for each concurrent
\* request, whatever the operator does to grants, contracts and the tree.
THEOREM SeatsHold == Spec => []SeatsBounded
<1>1. Basic /\ ClaimsBounded => SeatsBounded
  <2> SUFFICES ASSUME Basic, ClaimsBounded, NEW g \in Group \ {Owner},
                      peak[g] # Unlimited, Occupants(g) # {}
               PROVE  /\ peak[g] > 0
                      /\ Cardinality(Occupants(g)) < peak[g] + Cardinality(AssignProc)
    BY DEF SeatsBounded
  <2>1. Occupants(g) \subseteq Claim(g) /\ Claim(g) # {}
    BY DEF Claim
  <2>2. /\ peak[g] > 0
        /\ Cardinality(Claim(g)) < peak[g] + Cardinality(AssignProc)
    BY <2>1 DEF ClaimsBounded
  <2>3. \A p \in Claimants(g) : UserOf(p) \in User
    BY DEF Claimants, Passed, Basic, AsgOK, UserOf, Key
  <2>4. IsFiniteSet(Claim(g))
    <3>1. Claim(g) \in SUBSET User
      BY <2>3 DEF Claim, Occupants
    <3> QED BY <3>1, ConstantsOK, FS_Subset
  <2>5. /\ Cardinality(Occupants(g)) <= Cardinality(Claim(g))
        /\ Cardinality(Occupants(g)) \in Nat /\ Cardinality(Claim(g)) \in Nat
    BY <2>1, <2>4, FS_Subset, FS_CardinalityType
  <2>6. peak[g] \in Nat /\ Cardinality(AssignProc) \in Nat
    BY ConstantsOK, FS_CardinalityType DEF Basic, TypeOK, Limit
  <2> QED BY <2>2, <2>5, <2>6
<1> QED BY <1>1, BasicInit, BasicStep, ClaimsInit, ClaimsStep, PTL DEF Spec

-----------------------------------------------------------------------------
(* Duplicate rows                                                          *)

\* Requests come to the INSERT from the SELECT of the row, and from nowhere else.
LEMMA InsertingSteps ==
  ASSUME Basic, NEW p \in AssignProc, AssignStep(p), ~ReadRow(p), NEW key \in Key
  PROVE  /\ Inserting(key)' \subseteq Inserting(key)
         /\ InsertRow(p) => p \notin Inserting(key)'
<1>1. asg \in [AssignProc -> AsgReq] /\ asg[p] \in AsgReq
  BY DEF Basic, TypeOK
<1>2. \A q \in AssignProc \ {p} : asg'[q] = asg[q]
  BY AssignFrame DEF Basic
<1>3. asg'[p].pc # "insert"
  <2>1. ASSUME NEW l, GoAsg(p, l)
        PROVE  asg'[p].pc = l
    BY <1>1, <2>1 DEF GoAsg, AsgReq
  <2>2. CASE EndAsg(p)
    BY <1>1, <2>2 DEF EndAsg, AsgIdle
  <2>3. CASE \E x \in Key : ReadGrant(p, x)
    BY <1>1, <2>3 DEF ReadGrant, AsgIdle
  <2>4. CASE ReadUsed(p)
    BY <1>1, <2>4 DEF ReadUsed, AsgReq
  <2>5. CASE ReadContract(p)
    <3>1. CASE GoAsg(p, "row")
      BY <2>1, <3>1
    <3>2. CASE ~GoAsg(p, "row")
      <4>1. asg' = [asg EXCEPT ![p].pc = "total",
                               ![p].seats = contract[asg[p].contract].seats]
        BY <2>5, <3>2 DEF ReadContract
      <4> QED BY <1>1, <4>1 DEF AsgReq
    <3> QED BY <3>1, <3>2
  <2>6. CASE ReadOwner(p) \/ ReadExisting(p) \/ ReadChildSum(p) \/ ReadTotal(p)
    <3>1. EndAsg(p) \/ \E l \in {"existing", "row", "used", "contract"} : GoAsg(p, l)
      BY <2>6 DEF ReadOwner, ReadExisting, ReadChildSum, ReadTotal
    <3> QED BY <2>1, <2>2, <3>1
  <2>7. CASE UpdateRow(p) \/ InsertRow(p) \/ AbortAssign(p)
    BY <2>2, <2>7 DEF UpdateRow, InsertRow, AbortAssign
  <2> QED BY <2>3, <2>4, <2>5, <2>6, <2>7 DEF AssignStep
<1> QED BY <1>2, <1>3 DEF Inserting

LEMMA InsertingFinite ==
  ASSUME NEW key
  PROVE  /\ IsFiniteSet(Inserting(key)) /\ Cardinality(Inserting(key)) \in Nat
         /\ Cardinality(AssignProc) \in Nat
         /\ Cardinality(Inserting(key)) <= Cardinality(AssignProc)
<1>1. Inserting(key) \in SUBSET AssignProc
  BY DEF Inserting
<1> QED BY <1>1, ConstantsOK, FS_Subset, FS_CardinalityType

\* Fewer rows and fewer requests about to insert break nothing.
LEMMA InsertsShrink ==
  ASSUME Basic, Basic', InsertsBounded, NEW key \in Key,
         Inserting(key)' \subseteq Inserting(key), rows'[key] <= rows[key]
  PROVE  IF key[3] = None
         THEN rows'[key] + Cardinality(Inserting(key)') <= Cardinality(AssignProc)
         ELSE rows'[key] <= 1
<1>1. rows[key] \in Nat /\ rows'[key] \in Nat
  BY DEF Basic, TypeOK
<1>2. /\ Cardinality(Inserting(key)') <= Cardinality(Inserting(key))
      /\ Cardinality(Inserting(key)) \in Nat /\ Cardinality(AssignProc) \in Nat
      /\ Cardinality(Inserting(key)') \in Nat
  BY InsertingFinite, FS_Subset, FS_CardinalityType
<1> QED BY <1>1, <1>2 DEF InsertsBounded

LEMMA InsertsInit == Init => InsertsBounded
<1> SUFFICES ASSUME Init, NEW key \in Key
             PROVE  rows[key] = 0 /\ Cardinality(Inserting(key)) = 0
  <2>1. Cardinality(AssignProc) \in Nat
    BY ConstantsOK, FS_CardinalityType
  <2> QED BY <2>1 DEF InsertsBounded
<1>1. Inserting(key) = {}
  BY DEF Init, Inserting, AsgIdle
<1> QED BY <1>1, FS_EmptySet DEF Init

LEMMA InsertsStep == Basic /\ Basic' /\ InsertsBounded /\ [Next]_vars => InsertsBounded'
<1> SUFFICES ASSUME Basic, Basic', InsertsBounded, [Next]_vars, NEW key \in Key
             PROVE  IF key[3] = None
                    THEN rows'[key] + Cardinality(Inserting(key)') <= Cardinality(AssignProc)
                    ELSE rows'[key] <= 1
  BY DEF InsertsBounded
<1>1. TypeOK /\ rows[key] \in Nat /\ rows'[key] \in Nat
  BY DEF Basic, TypeOK
<1>2. ASSUME asg' = asg, rows'[key] <= rows[key]
      PROVE  IF key[3] = None
             THEN rows'[key] + Cardinality(Inserting(key)') <= Cardinality(AssignProc)
             ELSE rows'[key] <= 1
  <2>1. Inserting(key)' \subseteq Inserting(key)
    BY <1>2 DEF Inserting
  <2> QED BY <1>2, <2>1, InsertsShrink
<1>3. CASE \E p \in AssignProc : AssignStep(p)
  <2>1. PICK p \in AssignProc : AssignStep(p)
    BY <1>3
  <2>2. CASE ReadRow(p)
    <3>1. rows' = rows /\ asg[p].pc = "row"
      BY <2>2 DEF ReadRow, Assigning, tables
    <3>2. CASE asg[p].key = key /\ rows[key] = 0
      <4>1. Inserting(key)' \in SUBSET AssignProc
        BY DEF Inserting
      <4>2. /\ Cardinality(Inserting(key)') <= Cardinality(AssignProc)
            /\ Cardinality(Inserting(key)') \in Nat /\ Cardinality(AssignProc) \in Nat
        BY <4>1, ConstantsOK, FS_Subset, FS_CardinalityType
      <4> QED BY <3>1, <3>2, <4>2
    <3>3. CASE ~(asg[p].key = key /\ rows[key] = 0)
      <4>1. asg \in [AssignProc -> AsgReq] /\ asg[p] \in AsgReq
        BY <1>1 DEF TypeOK
      <4>2. \A q \in AssignProc \ {p} : asg'[q] = asg[q]
        BY <1>1, <2>1, AssignFrame
      <4>3. asg'[p].key = asg[p].key
        BY <2>2, <4>1 DEF ReadRow, GoAsg, AsgReq
      <4>4. asg[p].key = key => asg'[p].pc = "update"
        <5>1. asg[p].key = key => Found(asg[p].key)
          BY <1>1, <3>3 DEF Found
        <5> QED BY <2>2, <4>1, <5>1 DEF ReadRow, GoAsg, AsgReq
      <4>5. Inserting(key)' \subseteq Inserting(key)
        BY <4>2, <4>3, <4>4 DEF Inserting
      <4> QED BY <1>1, <3>1, <4>5, InsertsShrink
    <3> QED BY <3>2, <3>3
  <2>3. CASE InsertRow(p)
    <3>1. /\ Inserting(key)' \subseteq Inserting(key) /\ p \notin Inserting(key)'
          /\ asg[p].pc = "insert"
      <4>1. ~ReadRow(p) /\ asg[p].pc = "insert"
        BY <2>3 DEF ReadRow, InsertRow
      <4> QED BY <2>1, <2>3, <4>1, InsertingSteps
    <3>2. CASE rows'[key] <= rows[key]
      BY <3>1, <3>2, InsertsShrink
    <3>3. CASE ~(rows'[key] <= rows[key])
      <4>1. /\ asg[p].key = key /\ rows'[key] = rows[key] + 1
            /\ key[3] = None \/ rows[key] = 0
        BY <1>1, <2>3, <3>3 DEF InsertRow, TypeOK
      <4>2. p \in Inserting(key)
        BY <3>1, <4>1 DEF Inserting
      <4>3. Inserting(key)' \in SUBSET (Inserting(key) \ {p})
        BY <3>1
      <4>4. /\ IsFiniteSet(Inserting(key) \ {p})
            /\ Cardinality(Inserting(key) \ {p}) = Cardinality(Inserting(key)) - 1
        BY <4>2, InsertingFinite, FS_RemoveElement
      <4>5. /\ Cardinality(Inserting(key)') <= Cardinality(Inserting(key)) - 1
            /\ Cardinality(Inserting(key)') \in Nat
        BY <4>3, <4>4, FS_Subset, FS_CardinalityType
      <4>6. Cardinality(Inserting(key)) \in Nat /\ Cardinality(AssignProc) \in Nat
        BY InsertingFinite
      <4>7. key[3] = None =>
              rows[key] + Cardinality(Inserting(key)) <= Cardinality(AssignProc)
        BY DEF InsertsBounded
      <4> QED BY <1>1, <4>1, <4>5, <4>6, <4>7
    <3> QED BY <3>2, <3>3
  <2>4. CASE ~ReadRow(p) /\ ~InsertRow(p)
    <3>1. Inserting(key)' \subseteq Inserting(key)
      BY <2>1, <2>4, InsertingSteps
    <3>2. rows' = rows
      BY <2>1, <2>4 DEF AssignStep, ReadGrant, ReadOwner, ReadExisting, ReadUsed,
                        ReadChildSum, ReadContract, ReadTotal, UpdateRow, AbortAssign,
                        Assigning, tables
    <3> QED BY <1>1, <3>1, <3>2, InsertsShrink
  <2> QED BY <2>2, <2>3, <2>4
<1>4. CASE \E p \in GrantProc : GrantStep(p)
  <2>1. asg' = asg /\ rows' = rows
    BY <1>4, GrantStepOK
  <2> QED BY <1>1, <1>2, <2>1
<1>5. CASE OperatorStep
  BY <1>2, <1>5, OperatorStepOK
<1>6. CASE UNCHANGED vars
  <2>1. asg' = asg /\ rows' = rows
    BY <1>6 DEF vars, tables
  <2> QED BY <1>1, <1>2, <2>1
<1> QED BY <1>3, <1>4, <1>5, <1>6 DEF Next

\* UNIQUE ignores rows without a facility; the check of createAssignment lets as many
\* of them share a key as there are concurrent requests, and no more.
THEOREM DuplicatesHold == Spec => []DuplicatesBounded
<1>1. Basic /\ InsertsBounded => DuplicatesBounded
  <2> SUFFICES ASSUME Basic, InsertsBounded, NEW key \in Key
               PROVE  rows[key] <= IF key[3] = None THEN Cardinality(AssignProc) ELSE 1
    BY DEF DuplicatesBounded
  <2>1. rows[key] \in Nat
    BY DEF Basic, TypeOK
  <2>2. Cardinality(Inserting(key)) \in Nat /\ Cardinality(AssignProc) \in Nat
    BY InsertingFinite
  <2> QED BY <2>1, <2>2 DEF InsertsBounded
<1> QED BY <1>1, BasicInit, BasicStep, InsertsInit, InsertsStep, PTL DEF Spec

-----------------------------------------------------------------------------
(* What is cut from a grant                                                *)

\* The children, not moved, with a grant cut from h, and the requests about to cut one
Cut(h)     == {g \in Group \ Movable : source[g] = h}
Landing(h) == {p \in GrantProc : /\ dist[p].pc = "upsert" /\ dist[p].from = h
                                 /\ dist[p].group \notin Movable}

\* What would be cut from h once the requests Q have replaced the grants they are about
Left(h, Q) == {g \in Cut(h) : \A p \in Q : dist[p].group # g}
Pledged(Q) == {x \in Q \X Nat : x[2] \in 1 .. dist[x[1]].want}

\* Whichever of the requests land, the bound holds.
PledgesBounded ==
  \A h \in Group : peak[h] # Unlimited =>
    \A Q \in SUBSET Landing(h) :
      SeatSum(Left(h, Q)) + Cardinality(Pledged(Q)) <= Cardinality(GrantProc) * peak[h]

\* Grants are cut from parents, and what a request has read of one is covered.
CutOK(p) ==
  LET d == dist[p] IN
  /\ d.pc \in {"budget", "siblings", "upsert"} /\ d.from # None /\ d.group \notin Movable =>
       parent[d.group] = d.from
  /\ d.pc = "siblings" => Covers(peak[d.from], d.seats)
  /\ d.pc = "upsert" /\ d.from # None => Covers(peak[d.from], d.want)

Sourced ==
  /\ \A g \in Group \ Movable : source[g] # None => parent[g] = source[g]
  /\ \A p \in GrantProc : CutOK(p)

LEMMA SeatSumShrinks ==
  ASSUME TypeOK, NEW S \in SUBSET Group, NEW T \in SUBSET S
  PROVE  SeatSum(T) <= SeatSum(S) /\ SeatSum(T) \in Nat /\ SeatSum(S) \in Nat
<1> DEFINE In(R) == UNION {{g} \X SeatsOf(g) : g \in R}
<1>1. IsFiniteSet(In(S)) /\ SeatSum(S) \in Nat /\ SeatSum(T) \in Nat
  BY SeatSumNat
<1>2. In(T) \in SUBSET In(S)
  OBVIOUS
<1>3. Cardinality(In(T)) <= Cardinality(In(S))
  <2> HIDE DEF In
  <2> QED BY <1>1, <1>2, FS_Subset
<1> QED BY <1>1, <1>3 DEF SeatSum

LEMMA TimesGrows ==
  ASSUME NEW m \in Nat, NEW a \in Nat, NEW b \in Nat, a <= b
  PROVE  m * a <= m * b /\ m * a \in Nat /\ m * b \in Nat
OBVIOUS

\* Requests that want at most n each pledge at most n each.
LEMMA PledgedBounded ==
  ASSUME NEW Q \in SUBSET GrantProc, NEW n \in Nat,
         \A p \in Q : dist[p].want \in Nat /\ dist[p].want <= n
  PROVE  /\ IsFiniteSet(Pledged(Q)) /\ Cardinality(Pledged(Q)) \in Nat
         /\ Cardinality(Q) \in Nat
         /\ Cardinality(Pledged(Q)) <= Cardinality(Q) * n
<1>1. IsFiniteSet(Q)
  BY ConstantsOK, FS_Subset
<1>2. IsFiniteSet(1 .. n) /\ Cardinality(1 .. n) = n
  BY FS_Interval
<1>3. Pledged(Q) \in SUBSET (Q \X (1 .. n))
  BY DEF Pledged
<1>4. IsFiniteSet(Q \X (1 .. n)) /\ Cardinality(Q \X (1 .. n)) = Cardinality(Q) * n
  BY <1>1, <1>2, FS_Product
<1> QED BY <1>1, <1>3, <1>4, FS_Subset, FS_CardinalityType

LEMMA OnePledge ==
  ASSUME NEW p \in GrantProc, NEW Q \in SUBSET (GrantProc \ {p}), dist[p].want \in Nat,
         IsFiniteSet(Pledged(Q))
  PROVE  Cardinality(Pledged(Q \cup {p})) = Cardinality(Pledged(Q)) + dist[p].want
<1> DEFINE n == dist[p].want
           one == {p} \X (1 .. n)
<1>0. n \in Nat
  OBVIOUS
<1> HIDE DEF n
<1>1. IsFiniteSet(1 .. n) /\ Cardinality(1 .. n) = n
  BY <1>0, FS_Interval
<1>2. IsFiniteSet(one) /\ Cardinality(one) = n
  <2>1. IsFiniteSet({p}) /\ Cardinality({p}) = 1
    BY FS_Singleton
  <2>2. IsFiniteSet(one) /\ Cardinality(one) = Cardinality({p}) * Cardinality(1 .. n)
    BY <1>1, <2>1, FS_Product
  <2> QED BY <1>0, <1>1, <2>1, <2>2
<1>3. Pledged(Q \cup {p}) = Pledged(Q) \cup one
  BY DEF Pledged, n
<1>4. Cardinality(Pledged(Q) \cap one) = 0
  <2>1. Pledged(Q) \cap one = {}
    BY DEF Pledged
  <2> QED BY <2>1, FS_EmptySet
<1>5. Cardinality(Pledged(Q)) \in Nat
  BY FS_CardinalityType
<1> HIDE DEF one
<1>6. Cardinality(Pledged(Q) \cup one) = Cardinality(Pledged(Q)) + Cardinality(one) - 0
  BY <1>2, <1>4, FS_Union
<1>7. Cardinality(Pledged(Q \cup {p})) = Cardinality(Pledged(Q)) + Cardinality(one)
  <2> DEFINE a == Cardinality(Pledged(Q))
             b == Cardinality(one)
  <2>1. a \in Nat /\ b \in Nat /\ a + b - 0 = a + b
    BY <1>0, <1>2, <1>5
  <2> QED BY <1>3, <1>6, <2>1
<1> QED BY <1>2, <1>7 DEF n

\* The operator only ends what was cut.
LEMMA OperatorCuts ==
  ASSUME Basic, OperatorStep
  PROVE  /\ \A g \in Group : source'[g] = None \/ (source'[g] = source[g] /\ grant'[g] = grant[g])
         /\ \A g \in Group \ Movable : parent'[g] = parent[g]
<1>1. TypeOK
  BY DEF Basic
<1>2. CASE \E g \in Group, k \in Contract, n \in Limits : OperatorGrant(g, k, n)
  BY <1>1, <1>2 DEF OperatorGrant, PutGrant, TypeOK
<1>3. CASE (\E S \in SUBSET Group : Withdraw(S)) \/ (\E k \in Contract : DeleteContract(k))
  BY <1>1, <1>3 DEF Withdraw, DeleteContract, WithdrawGrants, TypeOK
<1>4. CASE \/ \E k \in Contract, g \in Customers, n \in Limits : AddContract(k, g, n)
           \/ \E key \in Key : Unassign(key)
  BY <1>4 DEF AddContract, Unassign, history
<1>5. CASE \E g \in Movable, h \in Group \cup {None} : Reparent(g, h)
  BY <1>1, <1>5 DEF Reparent, history, TypeOK
<1> QED BY <1>2, <1>3, <1>4, <1>5 DEF OperatorStep

\* What one statement of grant/add does to the requests: they stay, but the one itself.
LEMMA DistFrame ==
  ASSUME Basic, NEW p \in GrantProc, GrantStep(p)
  PROVE  /\ \A q \in GrantProc \ {p} : dist'[q] = dist[q]
         /\ UpsertGrant(p) \/ UNCHANGED <<grant, peak, source>>
<1>1. dist \in [GrantProc -> DistReq]
  BY DEF Basic, TypeOK
<1>2. \A q \in GrantProc \ {p} : dist'[q] = dist[q]
  BY <1>1 DEF GrantStep, ReadCustomer, ReadParent, ReadBudget, ReadSiblings, UpsertGrant,
     AbortGrant, GoDist, EndDist
<1>3. UpsertGrant(p) \/ Distributing
  BY DEF GrantStep, ReadCustomer, ReadParent, ReadBudget, ReadSiblings, AbortGrant
<1> QED BY <1>2, <1>3 DEF Distributing, tables, history

\* How a request comes to be about to write a grant cut from a parent
LEMMA Lands ==
  ASSUME Basic, NEW p \in GrantProc, GrantStep(p), dist'[p].pc = "upsert", dist'[p].from # None
  PROVE  /\ dist'[p].group = dist[p].group /\ dist'[p].want = dist[p].want
         /\ dist'[p].from = dist[p].from /\ dist[p].from \in Group
         /\ \/ ReadBudget(p) /\ grant[dist[p].from] # None /\ grant[dist[p].from].seats = Unlimited
            \/ ReadSiblings(p) /\ ~OverBudget(p)
<1>1. dist \in [GrantProc -> DistReq] /\ dist[p] \in DistReq /\ DistOK(p)
  BY DEF Basic, TypeOK
<1>2. ~EndDist(p)
  BY <1>1 DEF EndDist, DistIdle
<1>3. ~ReadParent(p) /\ ~UpsertGrant(p) /\ ~AbortGrant(p)
  BY <1>1, <1>2 DEF ReadParent, UpsertGrant, AbortGrant, DistReq
<1>4. ASSUME NEW g \in Group, NEW k \in Contract, NEW n \in Limits, ReadCustomer(p, g, k, n)
      PROVE  FALSE
  <2> DEFINE l == IF g = contract[k].customer THEN "upsert" ELSE "parent"
             d == [DistIdle EXCEPT !.pc = l, !.group = g, !.contract = k, !.want = n]
  <2>1. dist' = [dist EXCEPT ![p] = d]
    BY <1>4 DEF ReadCustomer
  <2> HIDE DEF l
  <2>2. d.from = None
    BY DEF DistIdle
  <2> HIDE DEF d
  <2> QED BY <1>1, <2>1, <2>2
<1>5. ReadBudget(p) \/ ReadSiblings(p)
  BY <1>3, <1>4 DEF GrantStep
<1>6. dist[p].pc \in {"budget", "siblings"}
  BY <1>5 DEF ReadBudget, ReadSiblings
<1>7. GoDist(p, "upsert")
  <2>1. CASE ReadSiblings(p)
    BY <1>2, <2>1 DEF ReadSiblings
  <2>2. CASE ReadBudget(p)
    <3>1. dist'[p].pc # "siblings"
      OBVIOUS
    <3> QED BY <1>1, <1>2, <2>2, <3>1 DEF ReadBudget, DistReq
  <2> QED BY <1>5, <2>1, <2>2
<1>8. /\ dist'[p].group = dist[p].group /\ dist'[p].want = dist[p].want
      /\ dist'[p].from = dist[p].from
  BY <1>1, <1>7 DEF GoDist, DistReq
<1>9. dist[p].from \in Group
  BY <1>1, <1>6 DEF DistOK
<1>10. CASE ReadSiblings(p)
  BY <1>2, <1>8, <1>9, <1>10 DEF ReadSiblings
<1>11. CASE ReadBudget(p)
  <2>1. dist'[p].pc # "siblings"
    OBVIOUS
  <2>2. grant[dist[p].from] # None /\ grant[dist[p].from].seats = Unlimited
    BY <1>1, <1>2, <1>11, <2>1 DEF ReadBudget, DistReq
  <2> QED BY <1>8, <1>9, <1>11, <2>2
<1> QED BY <1>5, <1>10, <1>11

\* What has been read of a parent stays covered, and the group where it is.
LEMMA CutStays ==
  ASSUME Basic, GrantTables, Sourced, NEW p \in GrantProc, dist'[p] = dist[p],
         \A g \in Group \ Movable : parent'[g] = parent[g]
  PROVE  CutOK(p)'
<1>1. DistOK(p) /\ CutOK(p) /\ dist[p] \in DistReq /\ peak \in [Group -> Limit]
  BY DEF Basic, TypeOK, Sourced
<1>2. peak' \in [Group -> Limit] /\ \A g \in Group : Covers(peak'[g], peak[g])
  BY DEF GrantTables
<1>3. ASSUME NEW n \in Nat, NEW h \in Group, Covers(peak[h], n) PROVE Covers(peak'[h], n)
  BY <1>1, <1>2, <1>3, CoversTransitive DEF Limit
<1>4. dist[p].pc = "siblings" => Covers(peak'[dist[p].from], dist[p].seats)
  BY <1>1, <1>3 DEF CutOK, DistOK, DistReq
<1>5. dist[p].pc = "upsert" /\ dist[p].from # None => Covers(peak'[dist[p].from], dist[p].want)
  BY <1>1, <1>3 DEF CutOK, DistReq
<1>6. dist[p].pc # "idle" => dist[p].group \in Group
  BY <1>1 DEF DistOK
<1> QED BY <1>1, <1>4, <1>5, <1>6 DEF CutOK

\* A request is about to read the parent's grant, or the siblings, for one reason each.
LEMMA Reads ==
  ASSUME Basic, NEW p \in GrantProc, GrantStep(p)
  PROVE  /\ dist'[p].pc = "budget" => ReadParent(p)
         /\ dist'[p].pc = "siblings" => ReadBudget(p)
<1>1. dist \in [GrantProc -> DistReq] /\ dist[p] \in DistReq
  BY DEF Basic, TypeOK
<1>2. EndDist(p) => dist'[p].pc = "idle"
  BY <1>1 DEF EndDist, DistIdle
<1>3. GoDist(p, "upsert") => dist'[p].pc = "upsert"
  BY <1>1 DEF GoDist, DistReq
<1>4. CASE \E g \in Group, k \in Contract, n \in Limits \ {Unlimited} : ReadCustomer(p, g, k, n)
  <2>1. PICK g \in Group, k \in Contract, n \in Limits \ {Unlimited} : ReadCustomer(p, g, k, n)
    BY <1>4
  <2> DEFINE l == IF g = contract[k].customer THEN "upsert" ELSE "parent"
             d == [DistIdle EXCEPT !.pc = l, !.group = g, !.contract = k, !.want = n]
  <2>2. dist' = [dist EXCEPT ![p] = d]
    BY <2>1 DEF ReadCustomer
  <2>3. l \notin {"budget", "siblings"}
    OBVIOUS
  <2> HIDE DEF l
  <2>4. d.pc = l
    BY DEF DistIdle
  <2> HIDE DEF d
  <2>5. dist'[p].pc = l
    BY <1>1, <2>2, <2>4
  <2> QED BY <2>3, <2>5
<1>5. CASE ReadParent(p)
  <2>1. dist'[p].pc # "siblings"
    <3>1. CASE parent[dist[p].group] = None
      BY <1>2, <1>5, <3>1 DEF ReadParent
    <3>2. CASE parent[dist[p].group] # None
      BY <1>1, <1>5, <3>2 DEF ReadParent, DistReq
    <3> QED BY <3>1, <3>2
  <2> QED BY <1>5, <2>1
<1>6. CASE ReadBudget(p)
  <2> DEFINE up == grant[dist[p].from]
  <2>1. dist'[p].pc # "budget"
    <3>1. CASE EndDist(p) \/ GoDist(p, "upsert")
      BY <1>2, <1>3, <3>1
    <3>2. CASE dist' = [dist EXCEPT ![p].pc = "siblings", ![p].seats = up.seats]
      BY <1>1, <3>2 DEF DistReq
    <3> QED BY <1>6, <3>1, <3>2 DEF ReadBudget
  <2> QED BY <1>6, <2>1
<1>7. CASE ReadSiblings(p) \/ UpsertGrant(p) \/ AbortGrant(p)
  <2>1. EndDist(p) \/ GoDist(p, "upsert")
    BY <1>7 DEF ReadSiblings, UpsertGrant, AbortGrant
  <2> QED BY <1>2, <1>3, <2>1
<1> QED BY <1>4, <1>5, <1>6, <1>7 DEF GrantStep

LEMMA SourcedStep ==
  ASSUME Basic, Basic', Sourced, [Next]_vars
  PROVE  Sourced'
<1>t. TypeOK /\ TypeOK'
  BY DEF Basic
<1>1. CASE UNCHANGED <<parent, dist, peak, source>>
  BY <1>1 DEF Sourced, CutOK
<1>2. ASSUME NEW p \in AssignProc, AssignStep(p) PROVE Sourced'
  BY <1>1, <1>2, <1>t, AssignFrame
<1>3. CASE OperatorStep
  <2>1. GrantTables /\ dist' = dist
    BY <1>3, OperatorStepOK
  <2>2. \A p \in GrantProc : CutOK(p)'
    BY <1>3, <2>1, OperatorCuts, CutStays
  <2> QED BY <1>3, <2>2, OperatorCuts DEF Sourced
<1>4. ASSUME NEW p \in GrantProc, GrantStep(p) PROVE Sourced'
  <2>1. GrantTables /\ parent' = parent
    BY <1>4, GrantStepOK
  <2>2. dist[p] \in DistReq /\ DistOK(p) /\ CutOK(p) /\ dist \in [GrantProc -> DistReq]
        /\ dist'[p] \in DistReq
    BY <1>t DEF Basic, TypeOK, Sourced
  <2>3. \A q \in GrantProc \ {p} : CutOK(q)'
    BY <1>4, <2>1, DistFrame, CutStays
  <2>4. CutOK(p)'
    <3>1. CASE dist'[p].pc = "upsert" /\ dist'[p].from # None
      <4> DEFINE h == dist[p].from
      <4>1. /\ dist'[p].group = dist[p].group /\ dist'[p].want = dist[p].want
            /\ dist'[p].from = h /\ h \in Group /\ dist[p].pc \in {"budget", "siblings"}
            /\ dist'[p].want \in Nat /\ peak[h] \in Limit /\ peak'[h] \in Limit
            /\ Covers(peak'[h], peak[h])
        BY <1>4, <3>1, <2>1, <2>2, <1>t, Lands DEF ReadBudget, ReadSiblings, DistReq, TypeOK, GrantTables
      <4>2. Covers(peak[h], dist[p].want)
        <5>1. CASE grant[h] # None /\ grant[h].seats = Unlimited
          BY <4>1, <5>1, ConstantsOK DEF Basic, GrantsCovered, Covers
        <5>2. CASE ReadSiblings(p) /\ ~OverBudget(p)
          <6> DEFINE sum == SeatSum(Children(h) \ {dist[p].group})
          <6>1. sum \in Nat
            BY <1>t, SeatSumNat DEF Children
          <6>2. dist[p].want + sum <= dist[p].seats /\ dist[p].seats \in Nat /\ dist[p].want \in Nat
            BY <5>2, <2>2, <6>1, <4>1 DEF OverBudget, DistReq
          <6>3. Covers(peak[h], dist[p].seats)
            BY <2>2, <5>2 DEF CutOK, ReadSiblings
          <6> HIDE DEF sum
          <6>4. dist[p].want <= dist[p].seats
            BY <6>1, <6>2
          <6>5. dist[p].want \in Limit /\ dist[p].seats \in Limit
            BY <6>2 DEF Limit
          <6>6. Covers(dist[p].seats, dist[p].want)
            BY <6>2, <6>4, ConstantsOK DEF Covers
          <6> QED BY <4>1, <6>3, <6>5, <6>6, CoversTransitive
        <5> QED BY <1>4, <3>1, <5>1, <5>2, Lands
      <4>3. Covers(peak'[h], dist[p].want)
        BY <4>1, <4>2, CoversTransitive DEF Limit
      <4> QED BY <2>1, <2>2, <3>1, <4>1, <4>3 DEF CutOK
    <3>2. CASE dist'[p].pc \notin {"budget", "siblings"} /\ ~(dist'[p].pc = "upsert" /\ dist'[p].from # None)
      BY <3>2 DEF CutOK
    <3>3. CASE dist'[p].pc = "budget"
      <4>0. ReadParent(p)
        BY <1>4, <3>3, Reads
      <4>1. ReadParent(p) /\ parent[dist[p].group] # None
        BY <2>2, <3>3, <4>0 DEF ReadParent, EndDist, DistIdle
      <4>2. dist'[p].group = dist[p].group /\ dist'[p].from = parent[dist[p].group]
        BY <2>2, <4>1 DEF ReadParent, DistReq
      <4> QED BY <2>1, <3>3, <4>2 DEF CutOK
    <3>4. CASE dist'[p].pc = "siblings"
      <4> DEFINE up == grant[dist[p].from]
      <4>1. ReadBudget(p)
        BY <1>4, <3>4, Reads
      <4>2. up # None /\ dist' = [dist EXCEPT ![p].pc = "siblings", ![p].seats = up.seats]
        BY <2>2, <3>4, <4>1 DEF ReadBudget, GoDist, EndDist, DistIdle, DistReq
      <4>3. /\ dist'[p].group = dist[p].group /\ dist'[p].from = dist[p].from
            /\ dist'[p].seats = up.seats /\ dist[p].pc = "budget"
        BY <2>2, <4>1, <4>2 DEF ReadBudget, DistReq
      <4>4. dist[p].from \in Group /\ peak' = peak
        BY <2>2, <4>1, <4>3 DEF DistOK, ReadBudget, Distributing, history
      <4>5. Covers(peak[dist[p].from], up.seats)
        BY <4>2, <4>4 DEF Basic, GrantsCovered
      <4> QED BY <2>1, <2>2, <3>4, <4>3, <4>4, <4>5 DEF CutOK
    <3> QED BY <3>1, <3>2, <3>3, <3>4
  <2>5. ASSUME NEW g \in Group \ Movable, source'[g] # None PROVE parent'[g] = source'[g]
    <3>1. CASE source'[g] = source[g]
      BY <2>1, <2>5, <3>1 DEF Sourced
    <3>2. CASE source'[g] # source[g]
      <4>1. UpsertGrant(p) /\ dist[p].pc = "upsert"
        BY <1>4, <3>2, DistFrame DEF UpsertGrant
      <4>2. g = dist[p].group /\ source'[g] = dist[p].from
        BY <1>t, <3>2, <4>1 DEF UpsertGrant, PutGrant, TypeOK
      <4> QED BY <2>1, <2>2, <2>5, <4>1, <4>2 DEF CutOK
    <3> QED BY <3>1, <3>2
  <2> QED BY <2>3, <2>4, <2>5 DEF Sourced
<1>5. CASE UNCHANGED vars
  BY <1>1, <1>5 DEF vars, tables, history
<1> QED BY <1>2, <1>3, <1>4, <1>5 DEF Next

LEMMA SourcedInit == Init => Sourced
BY DEF Init, Sourced, CutOK, DistIdle

LEMMA PledgesInit == Init => PledgesBounded
<1> SUFFICES ASSUME Init, NEW h \in Group, NEW Q \in SUBSET Landing(h)
             PROVE  SeatSum(Left(h, Q)) + Cardinality(Pledged(Q))
                      <= Cardinality(GrantProc) * peak[h]
  BY DEF PledgesBounded
<1>1. Left(h, Q) = {} /\ Q = {}
  BY ConstantsOK DEF Init, Left, Cut, Landing, DistIdle
<1>2. SeatSum({}) = 0
  <2>1. UNION {{g} \X SeatsOf(g) : g \in {}} = {}
    OBVIOUS
  <2> QED BY <2>1, FS_EmptySet DEF SeatSum
<1>3. Pledged({}) = {} /\ Cardinality({}) = 0
  BY FS_EmptySet DEF Pledged
<1>4. peak[h] = 0 /\ Cardinality(GrantProc) \in Nat
  BY ConstantsOK, FS_CardinalityType DEF Init
<1> QED BY <1>1, <1>2, <1>3, <1>4

\* What the requests about to cut a grant from h want is within its highest limit.
LEMMA LandingWants ==
  ASSUME Basic, Sourced, NEW h \in Group, peak[h] # Unlimited, NEW Q \in SUBSET Landing(h)
  PROVE  /\ peak[h] \in Nat /\ Q \in SUBSET GrantProc
         /\ \A p \in Q : dist[p].want \in Nat
         /\ IsFiniteSet(Pledged(Q)) /\ Cardinality(Pledged(Q)) \in Nat
         /\ Cardinality(Q) \in Nat /\ Cardinality(Pledged(Q)) <= Cardinality(Q) * peak[h]
<1>1. peak[h] \in Nat /\ Q \in SUBSET GrantProc
  BY DEF Basic, TypeOK, Limit, Landing
<1>2. ASSUME NEW p \in Q PROVE dist[p].want \in Nat /\ dist[p].want <= peak[h]
  <2>1. /\ p \in GrantProc /\ dist[p] \in DistReq /\ CutOK(p)
        /\ dist[p].pc = "upsert" /\ dist[p].from = h
    BY DEF Landing, Basic, TypeOK, Sourced
  <2>2. Covers(peak[h], dist[p].want)
    BY <2>1, ConstantsOK DEF CutOK
  <2> QED BY <2>1, <2>2 DEF DistReq, Covers
<1> QED BY <1>1, <1>2, PledgedBounded

\* Where grants are as they were, so is their sum.
LEMMA SameSeats ==
  ASSUME NEW h \in Group, NEW Q \in SUBSET GrantProc,
         \A g \in Left(h, Q)' : grant'[g] = grant[g]
  PROVE  SeatSum(Left(h, Q))' = SeatSum(Left(h, Q)')
<1>1. \A g \in Left(h, Q)' : SeatsOf(g)' = SeatsOf(g)
  BY DEF SeatsOf
<1>2. {{g} \X SeatsOf(g)' : g \in Left(h, Q)'} = {{g} \X SeatsOf(g) : g \in Left(h, Q)'}
  BY <1>1
<1> QED BY <1>2 DEF SeatSum

\* Requests and grants that stay, and cuts that end, break nothing.
LEMMA PledgesShrink ==
  ASSUME Basic, Basic', Sourced, PledgesBounded, NEW h \in Group, peak'[h] # Unlimited,
         Covers(peak'[h], peak[h]), NEW Q \in SUBSET Landing(h),
         \A p \in Q : dist'[p] = dist[p],
         \A g \in Left(h, Q)' : source'[g] = source[g] /\ grant'[g] = grant[g]
  PROVE  SeatSum(Left(h, Q))' + Cardinality(Pledged(Q))' <= Cardinality(GrantProc) * peak'[h]
<1>1. peak[h] \in Nat /\ peak'[h] \in Nat /\ peak[h] <= peak'[h] /\ peak[h] # Unlimited
  BY ConstantsOK DEF Basic, TypeOK, Limit, Covers
<1>2. Q \in SUBSET GrantProc /\ Cardinality(Pledged(Q)) \in Nat
  BY <1>1, LandingWants
<1>3. Left(h, Q)' \in SUBSET Left(h, Q) /\ Left(h, Q) \in SUBSET Group
  BY DEF Left, Cut
<1>4. SeatSum(Left(h, Q))' <= SeatSum(Left(h, Q))
      /\ SeatSum(Left(h, Q))' \in Nat /\ SeatSum(Left(h, Q)) \in Nat
  <2>1. SeatSum(Left(h, Q))' = SeatSum(Left(h, Q)')
    BY <1>2, SameSeats
  <2> QED BY <1>3, <2>1, SeatSumShrinks DEF Basic
<1>5. Pledged(Q)' = Pledged(Q)
  BY DEF Pledged
<1>6. SeatSum(Left(h, Q)) + Cardinality(Pledged(Q)) <= Cardinality(GrantProc) * peak[h]
  BY <1>1 DEF PledgesBounded
<1>7. /\ Cardinality(GrantProc) * peak[h] <= Cardinality(GrantProc) * peak'[h]
      /\ Cardinality(GrantProc) * peak[h] \in Nat /\ Cardinality(GrantProc) * peak'[h] \in Nat
  BY <1>1, ConstantsOK, FS_CardinalityType, TimesGrows
<1> DEFINE l == Cardinality(GrantProc) * peak[h]
           r == Cardinality(GrantProc) * peak'[h]
<1>8. l <= r /\ l \in Nat /\ r \in Nat /\ SeatSum(Left(h, Q)) + Cardinality(Pledged(Q)) <= l
  BY <1>6, <1>7
<1>9. Cardinality(Pledged(Q))' = Cardinality(Pledged(Q))
  BY <1>5
<1> HIDE DEF l, r
<1>10. SeatSum(Left(h, Q))' + Cardinality(Pledged(Q))' <= r
  BY <1>2, <1>4, <1>8, <1>9
<1> QED BY <1>10 DEF r

\* One request fewer pledges one limit less.
LEMMA OneMore ==
  ASSUME NEW m \in Nat \ {0}, NEW r \in Nat, NEW n \in Nat, NEW a \in Nat, NEW b \in Nat,
         r <= m - 1, a <= r * n, b <= n
  PROVE  b + a <= m * n
<1>1. m - 1 \in Nat /\ r * n = n * r
  OBVIOUS
<1>2. n * r <= n * (m - 1) /\ n * r \in Nat /\ n * (m - 1) \in Nat
  BY <1>1, TimesGrows
<1>3. n * (m - 1) + n = m * n
  OBVIOUS
<1> QED BY <1>1, <1>2, <1>3

\* A request that passes the check of the siblings joins those about to cut from h: with the
\* seats it saw given and its own it stays within one limit, and every other adds at most one.
LEMMA PledgesJoin ==
  ASSUME Basic, Basic', Sourced, Sourced', NEW h \in Group, peak'[h] # Unlimited,
         NEW p \in GrantProc, GrantStep(p), NEW Q \in SUBSET Landing(h)', p \in Q
  PROVE  SeatSum(Left(h, Q))' + Cardinality(Pledged(Q))' <= Cardinality(GrantProc) * peak'[h]
<1> DEFINE R == Q \ {p}
           w == dist[p].want
           n == peak[h]
           sib == Children(h) \ {dist[p].group}
<1>1. p \in Landing(h)' /\ dist'[p].pc = "upsert" /\ dist'[p].from = h /\ h # None
  BY ConstantsOK DEF Landing
<1>2. /\ dist'[p].group = dist[p].group /\ dist'[p].want = w /\ dist[p].from = h
      /\ \/ ReadBudget(p) /\ grant[h] # None /\ grant[h].seats = Unlimited
         \/ ReadSiblings(p) /\ ~OverBudget(p)
  BY <1>1, Lands
<1>3. ~UpsertGrant(p)
  BY <1>2 DEF UpsertGrant, ReadBudget, ReadSiblings
<1>4. grant' = grant /\ source' = source /\ peak' = peak /\ \A q \in GrantProc \ {p} : dist'[q] = dist[q]
  BY <1>3, DistFrame
<1>5. n # Unlimited /\ ReadSiblings(p) /\ ~OverBudget(p)
  <2>1. n # Unlimited
    BY <1>4
  <2>2. ~(grant[h] # None /\ grant[h].seats = Unlimited)
    BY <2>1 DEF Basic, GrantsCovered, Covers
  <2> QED BY <1>2, <2>1, <2>2
<1>6. R \in SUBSET Landing(h) /\ Q \in SUBSET GrantProc
  BY <1>4 DEF Landing
<1>7. /\ n \in Nat /\ R \in SUBSET GrantProc /\ IsFiniteSet(Pledged(R))
      /\ Cardinality(Pledged(R)) \in Nat /\ Cardinality(R) \in Nat
      /\ Cardinality(Pledged(R)) <= Cardinality(R) * n
  BY <1>5, <1>6, LandingWants
<1>8. dist[p] \in DistReq /\ CutOK(p) /\ dist[p].pc = "siblings" /\ w \in Nat
  BY <1>5 DEF Basic, TypeOK, Sourced, ReadSiblings, DistReq
<1>9. /\ SeatSum(Left(h, Q))' <= SeatSum(sib)
      /\ SeatSum(Left(h, Q))' \in Nat /\ SeatSum(sib) \in Nat
  <2>1. Left(h, Q)' \in SUBSET sib
    <3> SUFFICES ASSUME NEW g \in Left(h, Q)' PROVE g \in sib
      OBVIOUS
    <3>1. g \in Group \ Movable /\ source[g] = h /\ g # dist'[p].group
      BY <1>4 DEF Left, Cut
    <3>2. parent[g] = h
      BY <1>1, <3>1 DEF Sourced
    <3> QED BY <1>2, <3>1, <3>2 DEF Children
  <2>2. sib \in SUBSET Group
    BY DEF Children
  <2>3. SeatSum(Left(h, Q))' = SeatSum(Left(h, Q)')
    BY <1>4, <1>6, SameSeats
  <2> QED BY <2>1, <2>2, <2>3, SeatSumShrinks DEF Basic
<1>10. w + SeatSum(sib) <= n
  <2>1. w + SeatSum(sib) <= dist[p].seats /\ dist[p].seats \in Nat
    BY <1>2, <1>5, <1>8, <1>9 DEF OverBudget, DistReq
  <2>2. dist[p].seats <= n
    BY <1>2, <1>5, <1>8 DEF CutOK, Covers
  <2> HIDE DEF w, sib, n
  <2> QED BY <1>7, <1>8, <1>9, <2>1, <2>2
<1>11. Cardinality(Pledged(Q))' = Cardinality(Pledged(R)) + w
  <2>1. Pledged(Q)' = Pledged(R \cup {p})
    <3>1. Q = R \cup {p} /\ \A q \in Q : dist'[q].want = dist[q].want
      BY <1>2, <1>4, <1>6
    <3> QED BY <3>1 DEF Pledged
  <2>2. R \in SUBSET (GrantProc \ {p})
    BY <1>7
  <2>3. Cardinality(Pledged(R \cup {p})) = Cardinality(Pledged(R)) + w
    BY <1>7, <1>8, <2>2, OnePledge
  <2> QED BY <2>1, <2>3
<1>12. Cardinality(GrantProc) \in Nat \ {0} /\ Cardinality(R) <= Cardinality(GrantProc) - 1
  <2>1. IsFiniteSet(GrantProc \ {p}) /\ Cardinality(GrantProc \ {p}) = Cardinality(GrantProc) - 1
    BY ConstantsOK, FS_RemoveElement
  <2>2. R \in SUBSET (GrantProc \ {p})
    BY <1>7
  <2>3. Cardinality(GrantProc) \in Nat /\ Cardinality(GrantProc \ {p}) \in Nat
    BY <2>1, ConstantsOK, FS_CardinalityType
  <2>4. Cardinality(R) <= Cardinality(GrantProc \ {p})
    BY <2>1, <2>2, FS_Subset
  <2> QED BY <1>7, <2>1, <2>3, <2>4
<1> DEFINE a == Cardinality(Pledged(R))
           b == SeatSum(Left(h, Q))' + w
           m == Cardinality(GrantProc)
           r == Cardinality(R)
<1>13. a \in Nat /\ b \in Nat /\ m \in Nat \ {0} /\ r \in Nat /\ n \in Nat
  BY <1>7, <1>8, <1>9, <1>12
<1>14. b <= n
  BY <1>7, <1>8, <1>9, <1>10
<1>15. r <= m - 1 /\ a <= r * n
  BY <1>7, <1>12
<1>16. b + a <= m * n
  <2> HIDE DEF a, b, m, r, n
  <2> QED BY <1>13, <1>14, <1>15, OneMore
<1>17. SeatSum(Left(h, Q))' + Cardinality(Pledged(Q))' = b + a
  BY <1>7, <1>8, <1>9, <1>11
<1> QED BY <1>4, <1>16, <1>17

\* A request that writes its grant only turns what it had pledged into seats.
LEMMA PledgesLand ==
  ASSUME Basic, Basic', Sourced, PledgesBounded, NEW h \in Group, peak'[h] # Unlimited,
         Covers(peak'[h], peak[h]), NEW p \in GrantProc, UpsertGrant(p),
         NEW Q \in SUBSET Landing(h), p \notin Q, \A q \in Q : dist'[q] = dist[q],
         NEW g, g = dist[p].group,
         PutGrant(g, dist[p].contract, dist[p].want, dist[p].from), g \in Left(h, Q)'
  PROVE  SeatSum(Left(h, Q))' + Cardinality(Pledged(Q))' <= Cardinality(GrantProc) * peak'[h]
<1> DEFINE w == dist[p].want
           P == Q \cup {p}
           In(S) == UNION {{x} \X SeatsOf(x) : x \in S}
           one == {g} \X (1 .. w)
<1>1. /\ peak[h] \in Nat /\ peak'[h] \in Nat /\ peak[h] <= peak'[h] /\ peak[h] # Unlimited
      /\ grant \in [Group -> GrantRow \cup {None}] /\ source \in [Group -> Group \cup {None}]
      /\ dist[p] \in DistReq /\ w \in Nat /\ TypeOK
  BY ConstantsOK DEF Basic, TypeOK, Limit, Covers, DistReq
<1>2. g \in Group \ Movable /\ source'[g] = h
  BY DEF Left, Cut
<1>3. P \in SUBSET Landing(h)
  BY <1>1, <1>2 DEF UpsertGrant, PutGrant, Landing
<1>4. SeatSum(Left(h, P)) + Cardinality(Pledged(P)) <= Cardinality(GrantProc) * peak[h]
  BY <1>1, <1>3 DEF PledgesBounded
<1>5. /\ Q \in SUBSET GrantProc /\ IsFiniteSet(Pledged(Q)) /\ Cardinality(Pledged(Q)) \in Nat
  BY <1>1, LandingWants
<1>6. Cardinality(Pledged(P)) = Cardinality(Pledged(Q)) + w
  <2>1. Q \in SUBSET (GrantProc \ {p})
    BY <1>5
  <2> QED BY <1>1, <1>5, <2>1, OnePledge
<1>7. \A x \in Left(h, Q)' \ {g} : x \in Left(h, P) /\ grant'[x] = grant[x]
  BY <1>1, <1>2 DEF PutGrant, Left, Cut
<1>8. SeatsOf(g)' \subseteq 1 .. w
  <2>1. grant'[g] = [contract |-> dist[p].contract, seats |-> w]
    BY <1>1, <1>2 DEF PutGrant
  <2>2. grant'[g].seats = w
    BY <2>1
  <2> QED BY <2>2 DEF SeatsOf
<1>9. UNION {{x} \X SeatsOf(x)' : x \in Left(h, Q)'} \subseteq In(Left(h, P)) \cup one
  <2> DEFINE both == In(Left(h, P)) \cup one
  <2>1. ASSUME NEW x \in Left(h, Q)' PROVE {x} \X SeatsOf(x)' \subseteq both
    <3>1. CASE x = g
      <4>1. {g} \X SeatsOf(g)' \subseteq one
        BY <1>8
      <4> QED BY <3>1, <4>1
    <3>2. CASE x # g
      <4>1. x \in Left(h, P) /\ SeatsOf(x)' = SeatsOf(x)
        BY <1>7, <3>2 DEF SeatsOf
      <4>2. {x} \X SeatsOf(x) \subseteq In(Left(h, P))
        BY <4>1
      <4> QED BY <4>1, <4>2
    <3> QED BY <3>1, <3>2
  <2> HIDE DEF both
  <2>2. UNION {{x} \X SeatsOf(x)' : x \in Left(h, Q)'} \subseteq both
    BY <2>1
  <2> QED BY <2>2 DEF both
<1>10. /\ IsFiniteSet(In(Left(h, P))) /\ SeatSum(Left(h, P)) \in Nat
       /\ SeatSum(Left(h, P)) = Cardinality(In(Left(h, P)))
  <2>1. Left(h, P) \in SUBSET Group
    BY DEF Left, Cut
  <2> QED BY <1>1, <2>1, SeatSumNat DEF SeatSum
<1>11. IsFiniteSet(one) /\ Cardinality(one) = w
  <2>0. w \in Nat
    BY <1>1
  <2> HIDE DEF w
  <2>1. IsFiniteSet(1 .. w) /\ Cardinality(1 .. w) = w
    BY <2>0, FS_Interval
  <2>2. IsFiniteSet({g}) /\ Cardinality({g}) = 1
    BY FS_Singleton
  <2>3. IsFiniteSet(one) /\ Cardinality(one) = Cardinality({g}) * Cardinality(1 .. w)
    BY <2>1, <2>2, FS_Product
  <2> QED BY <2>0, <2>1, <2>2, <2>3
<1> DEFINE A == In(Left(h, P))
           N == UNION {{x} \X SeatsOf(x)' : x \in Left(h, Q)'}
<1>12. N \in SUBSET (A \cup one) /\ IsFiniteSet(A)
  BY <1>9, <1>10
<1>13. SeatSum(Left(h, Q))' = Cardinality(N)
  BY DEF SeatSum
<1>14. Cardinality(N) <= Cardinality(A) + w /\ Cardinality(N) \in Nat /\ Cardinality(A) \in Nat
  <2> HIDE DEF A, one, N, w
  <2>1. /\ IsFiniteSet(A \cup one)
        /\ Cardinality(A \cup one) = Cardinality(A) + Cardinality(one) - Cardinality(A \cap one)
    BY <1>11, <1>12, FS_Union
  <2>2. IsFiniteSet(A \cap one)
    BY <1>12, FS_Subset
  <2>3. Cardinality(N) <= Cardinality(A \cup one) /\ IsFiniteSet(N)
    BY <1>12, <2>1, FS_Subset
  <2>4. /\ Cardinality(N) \in Nat /\ Cardinality(A) \in Nat /\ Cardinality(A \cap one) \in Nat
        /\ Cardinality(A \cup one) \in Nat
    BY <1>12, <2>1, <2>2, <2>3, FS_CardinalityType
  <2> QED BY <1>1, <1>11, <2>1, <2>3, <2>4
<1>15. Pledged(Q)' = Pledged(Q)
  BY DEF Pledged
<1>16. Cardinality(Pledged(Q))' = Cardinality(Pledged(Q))
  BY <1>15
<1> DEFINE l == Cardinality(GrantProc) * peak[h]
           r == Cardinality(GrantProc) * peak'[h]
           c == Cardinality(Pledged(Q))
<1>17. l <= r /\ l \in Nat /\ r \in Nat
  BY <1>1, ConstantsOK, FS_CardinalityType, TimesGrows
<1>18. Cardinality(A) + (c + w) <= l
  BY <1>4, <1>6, <1>10
<1>19. c \in Nat /\ w \in Nat
  BY <1>1, <1>5
<1>20. Cardinality(N) + c <= r
  <2> HIDE DEF A, N, c, l, r, w
  <2> QED BY <1>14, <1>17, <1>18, <1>19
<1> QED BY <1>13, <1>16, <1>20

LEMMA PledgesStep ==
  Basic /\ Basic' /\ Sourced /\ Sourced' /\ PledgesBounded /\ [Next]_vars => PledgesBounded'
<1> SUFFICES ASSUME Basic, Basic', Sourced, Sourced', PledgesBounded, [Next]_vars,
                    NEW h \in Group, peak'[h] # Unlimited, NEW Q \in SUBSET Landing(h)'
             PROVE  SeatSum(Left(h, Q))' + Cardinality(Pledged(Q))'
                      <= Cardinality(GrantProc) * peak'[h]
  BY DEF PledgesBounded
<1>t. TypeOK /\ TypeOK' /\ Covers(peak[h], peak[h])
  BY CoversReflexive DEF Basic, TypeOK
<1>1. CASE UNCHANGED <<parent, grant, dist, peak, source>>
  <2>1. Q \in SUBSET Landing(h) /\ Covers(peak'[h], peak[h])
    BY <1>1, <1>t DEF Landing
  <2> QED BY <1>1, <2>1, PledgesShrink
<1>2. ASSUME NEW p \in AssignProc, AssignStep(p)
      PROVE  UNCHANGED <<parent, grant, dist, peak, source>>
  BY <1>2, <1>t, AssignFrame
<1>3. CASE OperatorStep
  <2>1. dist' = dist /\ Covers(peak'[h], peak[h])
    BY <1>3, OperatorStepOK DEF GrantTables
  <2>2. Q \in SUBSET Landing(h)
    BY <2>1 DEF Landing
  <2>3. \A g \in Left(h, Q)' : source'[g] = source[g] /\ grant'[g] = grant[g]
    <3>1. \A g \in Left(h, Q)' : g \in Group /\ source'[g] # None
      BY ConstantsOK DEF Left, Cut
    <3> QED BY <1>3, <3>1, OperatorCuts
  <2> QED BY <2>1, <2>2, <2>3, PledgesShrink
<1>4. ASSUME NEW p \in GrantProc, GrantStep(p)
      PROVE  SeatSum(Left(h, Q))' + Cardinality(Pledged(Q))' <= Cardinality(GrantProc) * peak'[h]
  <2>1. Covers(peak'[h], peak[h]) /\ \A q \in GrantProc \ {p} : dist'[q] = dist[q]
    BY <1>4, GrantStepOK, DistFrame DEF GrantTables
  <2>2. CASE p \in Q
    BY <1>4, <2>2, PledgesJoin
  <2>3. CASE p \notin Q
    <3>1. Q \in SUBSET Landing(h) /\ \A q \in Q : dist'[q] = dist[q]
      BY <2>1, <2>3 DEF Landing
    <3>2. CASE UNCHANGED <<grant, peak, source>>
      BY <2>1, <3>1, <3>2, PledgesShrink
    <3>3. CASE ~UNCHANGED <<grant, peak, source>>
      <4>1. UpsertGrant(p)
        BY <1>4, <3>3, DistFrame
      <4>2. PutGrant(dist[p].group, dist[p].contract, dist[p].want, dist[p].from)
        BY <3>3, <4>1 DEF UpsertGrant
      <4>3. CASE dist[p].group \in Left(h, Q)'
        BY <2>1, <2>3, <3>1, <4>1, <4>2, <4>3, PledgesLand
      <4>4. CASE dist[p].group \notin Left(h, Q)'
        <5>1. \A g \in Left(h, Q)' : source'[g] = source[g] /\ grant'[g] = grant[g]
          BY <1>t, <4>2, <4>4 DEF PutGrant, TypeOK, Left, Cut
        <5> QED BY <2>1, <3>1, <5>1, PledgesShrink
      <4> QED BY <4>3, <4>4
    <3> QED BY <3>2, <3>3
  <2> QED BY <2>2, <2>3
<1>5. CASE UNCHANGED vars
  BY <1>1, <1>5 DEF vars, tables, history
<1> QED BY <1>1, <1>2, <1>3, <1>4, <1>5 DEF Next

\* The sum of the siblings may be stale when a grant is written; still the seats that a
\* group's administrators cut from its grant stay within its highest limit for each
\* concurrent request of grant/add.
THEOREM SubGrantsHold == Spec => []SubGrantsBounded
<1>1. Basic /\ Sourced /\ PledgesBounded => SubGrantsBounded
  <2> SUFFICES ASSUME Basic, Sourced, PledgesBounded, NEW h \in Group, peak[h] # Unlimited
               PROVE  SeatSum(Cut(h)) <= Cardinality(GrantProc) * peak[h]
    BY DEF SubGrantsBounded, Cut
  <2>1. Left(h, {}) = Cut(h) /\ {} \in SUBSET Landing(h)
    BY DEF Left
  <2>2. SeatSum(Cut(h)) + Cardinality(Pledged({})) <= Cardinality(GrantProc) * peak[h]
    BY <2>1 DEF PledgesBounded
  <2>3. Pledged({}) = {} /\ Cardinality({}) = 0
    BY FS_EmptySet DEF Pledged
  <2>4. SeatSum(Cut(h)) \in Nat
    <3>1. Cut(h) \in SUBSET Group
      BY DEF Cut
    <3> QED BY <3>1, SeatSumNat DEF Basic
  <2> HIDE DEF Cut
  <2>5. SeatSum(Cut(h)) + 0 = SeatSum(Cut(h))
    BY <2>4
  <2> QED BY <2>2, <2>3, <2>5
<1> QED BY <1>1, BasicInit, BasicStep, SourcedInit, SourcedStep, PledgesInit, PledgesStep,
           PTL DEF Spec
=============================================================================
