----------------------------- MODULE Directory -----------------------------
(***************************************************************************)
(* The organisation: the tree of groups, the grants that hang on it, the    *)
(* memberships with their role flags, the applications for such flags, the  *)
(* facilities of groups and the roles their services offer.                 *)
(* groups.parent_id has no foreign key, so it may name a group that is      *)
(* gone; every other reference to a group has one.                          *)
(* A request that takes several statements is a process, one statement an   *)
(* action; the others are one action.                                       *)
(*                                                                         *)
(* The two SELECTs of getManagedGroupIds are taken as one read, as are the  *)
(* checks of isActiveMember and of canApproveFor: no property is about who  *)
(* may act.  Periods of validity are the flag valid, which time changes.    *)
(***************************************************************************)
EXTENDS Naturals, FiniteSets

CONSTANTS
  Group,        \* ids of rows of groups
  User,         \* rows of users; Operator: those getAdmin accepts
  Operator,
  Role,         \* role_type of an application, and the flags of a membership
  Application,  \* ids of rows of role_applications
  Service,      \* ids of rows of services
  Facility,     \* ids of rows of facilities
  Duty,         \* ids of rows of service_role_master
  Proc,         \* concurrent requests
  None,         \* SQL NULL
  Gone          \* no such row

Member == User \X Group
Membership == [flags : SUBSET Role, valid : BOOLEAN]
Form == [user : User, group : Group, role : Role]

ASSUME DirectoryConstantsOK ==
  /\ Operator \subseteq User /\ {"admin", "billing"} \subseteq Role
  /\ IsFiniteSet(Proc) /\ IsFiniteSet(Application)
  /\ Gone # None /\ {None, Gone} \cap (Group \cup User \cup Application \cup Facility \cup Duty) = {}
  /\ Gone \notin Membership /\ Gone \notin {"pending", "approved", "rejected"}

VARIABLES
  tree,       \* parent_id of every row of groups, Gone where there is no row
  grants,     \* rows of group_service_grants, by group and service
  members,    \* rows of group_memberships
  forms,      \* rows of role_applications, without the status
  status,     \* their status, Gone where there is no row
  facility,   \* managing_group_id of every row of facilities, or Gone
  duty,       \* for every row of service_role_master the owner of its service, or Gone
  used,       \* facilities and duties that assignments refer to
  job,        \* progress of each request
  tangled,    \* history: a move was written that another one had overtaken
  held,       \* history: see GrantsFollowTree
  given,      \* history: applications whose flag was set
  contested   \* history: applications decided by several requests, or half decided

tables == <<tree, grants, members, forms, status, facility, duty, used>>
history == <<tangled, held, given, contested>>
dvars == <<tables, job, history>>

Status == {"pending", "approved", "rejected"}
Idle == [pc |-> "idle", group |-> None, to |-> None, set |-> {}, flags |-> {},
         form |-> None, seen |-> {}, stale |-> FALSE]
Job ==
  [pc : {"idle", "move", "withdraw", "delete", "child", "appoint", "upsert", "find",
         "apply", "approve", "flag", "record", "reject", "refuse", "source", "relocate",
         "vacate", "unlist"},
   group : Group \cup {None}, to : Group \cup User \cup Facility \cup Duty \cup Application \cup {None},
   set : SUBSET (Group \cup User), flags : SUBSET Role, form : Form \cup {None},
   seen : SUBSET Group,  \* history: what was below the group of a move or a deletion
   stale : BOOLEAN]      \* history: the tree has been changed by another move since

\* The row, of either table, is there.
InPlace(x) == \/ x \in Facility /\ facility[x] # Gone
              \/ x \in Duty /\ duty[x] # Gone

DirectoryTypeOK ==
  /\ tree \in [Group -> Group \cup {None, Gone}]
  /\ grants \subseteq Group \X Service
  /\ members \in [Member -> Membership \cup {Gone}]
  /\ forms \in [Application -> Form \cup {Gone}]
  /\ status \in [Application -> Status \cup {Gone}]
  /\ facility \in [Facility -> Group \cup {Gone}]
  /\ duty \in [Duty -> Group \cup {None, Gone}]
  /\ \A x \in used : InPlace(x)
  /\ job \in [Proc -> Job]
  /\ tangled \in BOOLEAN
  /\ held \in [Group \X Service -> (SUBSET Group) \cup {None}]
  /\ given \subseteq Application /\ contested \subseteq Application

-----------------------------------------------------------------------------
(* Trees                                                                   *)

\* Every group has a last ancestor: a set closed under "parent" is empty.
Acyclic(t) == \A S \in SUBSET Group : S # {} => \E g \in S : t[g] \notin S

\* The group and its descendants, as the walks down with a visited set collect them
Below(t, g) ==
  LET closed == {C \in SUBSET Group : g \in C /\ \A h \in Group : t[h] \in C => h \in C}
  IN  {d \in Group : \A C \in closed : d \in C}

\* The group and its ancestors, as the walks up collect them
Above(t, g) == {a \in Group : g \in Below(t, a)}

-----------------------------------------------------------------------------

DirectoryInit ==
  /\ tree \in [Group -> Group \cup {None, Gone}] /\ Acyclic(tree)
  /\ grants = {}
  /\ \E rows \in SUBSET Member :
       \E f \in [rows -> SUBSET Role] :
         members = [m \in Member |-> IF m \in rows THEN [flags |-> f[m], valid |-> TRUE]
                                                   ELSE Gone]
  /\ \A m \in Member : members[m] # Gone => tree[m[2]] # Gone
  /\ forms = [a \in Application |-> Gone]
  /\ status = [a \in Application |-> Gone]
  /\ facility \in [Facility -> Group \cup {Gone}]
  /\ \A f \in Facility : facility[f] # Gone => tree[facility[f]] # Gone
  /\ duty = [d \in Duty |-> Gone]
  /\ used = {}
  /\ job = [p \in Proc |-> Idle]
  /\ tangled = FALSE
  /\ held = [x \in Group \X Service |-> None]
  /\ given = {} /\ contested = {}

Exists(g) == tree[g] # Gone
Begin(p, j) == job[p] = Idle /\ job' = [job EXCEPT ![p] = j]
Proceed(p, l) == job' = [job EXCEPT ![p].pc = l]
Respond(p) == job' = [job EXCEPT ![p] = Idle]

\* Members of g (with the flag, if any, and in their period)
Holds(u, g, f) == /\ members[<<u, g>>] # Gone /\ members[<<u, g>>].valid
                  /\ f \in members[<<u, g>>].flags

\* getManagedGroupIds and getBillingGroupIds
Managed(u) == UNION {Below(tree, g) : g \in {h \in Group : Holds(u, h, "admin")
                                                          \/ Holds(u, h, "billing")}}
Billed(u) == UNION {Below(tree, g) : g \in {h \in Group : Holds(u, h, "billing")}}

\* The grants of the groups S
Of(S) == S \X Service
Forget(h, X) == [x \in Group \X Service |-> IF x \in X THEN None ELSE h[x]]

Others == UNCHANGED <<forms, status, facility, duty, used, tangled, given, contested>>

-----------------------------------------------------------------------------
(* /admin/am/groups, /admin/groups and /group-admin/api/group/create       *)

\* A random id: no row has it, no row or request names it.
Unused(g) == /\ ~Exists(g) /\ \A h \in Group : tree[h] # g
             /\ \A p \in Proc : g \notin {job[p].group, job[p].to} \cup job[p].set

\* INSERT INTO groups.  The parent is what the form says: it may be gone by now.
InsertGroup(g, to) ==
  /\ Unused(g) /\ to # g
  /\ tree' = [tree EXCEPT ![g] = to]
  /\ UNCHANGED <<grants, members, job, held>> /\ Others

StartChild(p, u, to, admin) ==
  /\ to \in Managed(u)
  /\ Begin(p, [Idle EXCEPT !.pc = "child", !.group = to, !.to = admin])
  /\ UNCHANGED <<tables, history>>

\* INSERT INTO groups
InsertChild(p) ==
  /\ job[p].pc = "child"
  /\ \E g \in Group :
       /\ Unused(g)
       /\ tree' = [tree EXCEPT ![g] = job[p].group]
       /\ job' = [job EXCEPT ![p].pc = "appoint", ![p].group = g]
  /\ UNCHANGED <<grants, members, held>> /\ Others

\* INSERT INTO group_memberships: the administrator of the new group
Appoint(p) ==
  /\ job[p].pc = "appoint" /\ Exists(job[p].group)
  /\ members[<<job[p].to, job[p].group>>] = Gone
  /\ members' = [members EXCEPT ![<<job[p].to, job[p].group>>] =
                   [flags |-> {"admin"}, valid |-> TRUE]]
  /\ Respond(p)
  /\ UNCHANGED <<tree, grants, held>> /\ Others

-----------------------------------------------------------------------------
(* /admin/am/groups/parent                                                 *)

MoveUnchecked(p, g, to) ==
  /\ Exists(g) /\ to # g
  /\ LET below == IF tree[g] = to THEN {} ELSE Below(tree, g) IN
     Begin(p, [Idle EXCEPT !.pc = "move", !.group = g, !.to = to, !.seen = below,
                           !.set = below])
  /\ UNCHANGED <<tables, history>>

MoveAlone(p, g, to) ==
  /\ Exists(g) /\ to # g /\ g \notin (IF to = None THEN {} ELSE Above(tree, to))
  /\ LET below == IF tree[g] = to THEN {} ELSE Below(tree, g) IN
     Begin(p, [Idle EXCEPT !.pc = "move", !.group = g, !.to = to, !.seen = below,
                           !.set = below \cap {g}])
  /\ UNCHANGED <<tables, history>>

\* SELECT the tree: refuse a move below oneself, collect the groups that move along
StartMove(p, g, to) ==
  /\ Exists(g) /\ to # g /\ g \notin (IF to = None THEN {} ELSE Above(tree, to))
  /\ LET below == IF tree[g] = to THEN {} ELSE Below(tree, g) IN
     Begin(p, [Idle EXCEPT !.pc = "move", !.group = g, !.to = to, !.seen = below,
                           !.set = below])
  /\ UNCHANGED <<tables, history>>

\* UPDATE groups SET parent_id; a group that is gone stays gone
WriteMove(p) ==
  LET g == job[p].group IN
  /\ job[p].pc = "move"
  /\ tree' = IF Exists(g) THEN [tree EXCEPT ![g] = job[p].to] ELSE tree
  /\ held' = IF tree' = tree THEN held
             ELSE Forget(held, Of(Below(tree, g) \ job[p].seen))
  /\ tangled' = (tangled \/ job[p].stale)
  /\ job' = [q \in Proc |->
       IF q = p THEN (IF job[p].set = {} THEN Idle ELSE [job[p] EXCEPT !.pc = "withdraw"])
       ELSE IF job[q].pc = "move" THEN [job[q] EXCEPT !.stale = TRUE] ELSE job[q]]
  /\ UNCHANGED <<grants, members, forms, status, facility, duty, used, given, contested>>

\* DELETE FROM group_service_grants of the groups collected
WithdrawMoved(p) ==
  /\ job[p].pc = "withdraw"
  /\ grants' = grants \ Of(job[p].set)
  /\ held' = Forget(held, Of(job[p].set))
  /\ Respond(p)
  /\ UNCHANGED <<tree, members>> /\ Others

-----------------------------------------------------------------------------
(* /admin/am/groups/delete and /admin/groups/delete                        *)

\* SELECT the tree
StartDelete(p, g) ==
  /\ Exists(g)
  /\ Begin(p, [Idle EXCEPT !.pc = "delete", !.group = g, !.set = Below(tree, g),
                        !.seen = Below(tree, g)])
  /\ UNCHANGED <<tables, history>>

\* A row that the batch leaves refers to g: the foreign key makes it fail.
Referred(g) == \/ \E f \in Facility : facility[f] = g
               \/ \E d \in Duty : duty[d] = g
               \/ \E a \in Application : forms[a] # Gone /\ forms[a].group = g

\* One batch: the grants collected, the memberships, the children, the group
WriteDelete(p) ==
  LET g == job[p].group IN
  /\ job[p].pc = "delete" /\ ~Referred(g)
  /\ grants' = grants \ Of(job[p].set)
  /\ members' = [m \in Member |-> IF m[2] = g THEN Gone ELSE members[m]]
  /\ tree' = [h \in Group |-> IF h = g THEN Gone
                              ELSE IF tree[h] = g THEN None ELSE tree[h]]
  /\ held' = Forget(held, Of((Below(tree, g) \ job[p].seen) \cup job[p].set))
  /\ Respond(p) /\ Others

\* The older page: one batch that leaves the children with the id of the group
DeleteBare(g) ==
  /\ Exists(g) /\ ~Referred(g) /\ grants \cap Of({g}) = {}
  /\ \A u \in User : members[<<u, g>>] = Gone
  /\ tree' = [tree EXCEPT ![g] = Gone]
  /\ held' = Forget(held, Of(Below(tree, g)))
  /\ UNCHANGED <<grants, members, job>> /\ Others

\* grant/add of either kind, as one upsert (SeatBudget has the statements before it)
OpenGrant(g, s) ==
  /\ Exists(g)
  /\ grants' = grants \cup {<<g, s>>}
  /\ held' = [held EXCEPT ![<<g, s>>] = Above(tree, g)]
  /\ UNCHANGED <<tree, members, job>> /\ Others

\* grant/remove of either kind, and the DELETE of a contract
CloseGrants(X) ==
  /\ grants' = grants \ X
  /\ held' = Forget(held, X)
  /\ UNCHANGED <<tree, members, job>> /\ Others

-----------------------------------------------------------------------------
(* membership/add and membership/remove, of the operator and delegated     *)

StartAdd(p, u, g, users, flags) ==
  /\ users # {}
  /\ \/ u \in Operator
     \/ g \in Managed(u) /\ ("billing" \in flags => g \in Billed(u))
  /\ Begin(p, [Idle EXCEPT !.pc = "upsert", !.group = g, !.set = users, !.flags = flags])
  /\ UNCHANGED <<tables, history>>

\* One upsert a user
UpsertMember(p) ==
  /\ job[p].pc = "upsert" /\ Exists(job[p].group)
  /\ \E u \in job[p].set, ok \in BOOLEAN :
       /\ members' = [members EXCEPT ![<<u, job[p].group>>] =
                        [flags |-> job[p].flags, valid |-> ok]]
       /\ job' = [job EXCEPT ![p] = IF job[p].set = {u} THEN Idle
                                    ELSE [job[p] EXCEPT !.set = job[p].set \ {u}]]
  /\ UNCHANGED <<tree, grants, held>> /\ Others

\* DELETE by the id of the row, checked before by a delegate.  Ids are never used
\* again: the statement removes the row that was checked or nothing.
RemoveMember(m) ==
  /\ members[m] # Gone
  /\ members' = [members EXCEPT ![m] = Gone]
  /\ UNCHANGED <<tree, grants, job, held>> /\ Others

\* valid_from or valid_to passes.
TimePasses(m) ==
  /\ members[m] # Gone
  /\ members' = [members EXCEPT ![m].valid = ~@]
  /\ UNCHANGED <<tree, grants, job, held>> /\ Others

-----------------------------------------------------------------------------
(* /group-admin/api/roles/apply, approve and reject                        *)

Elsewhere == UNCHANGED <<tree, grants, facility, duty, used, tangled, held>>

\* A valid member without the flag
StartApply(p, u, g, r) ==
  /\ members[<<u, g>>] # Gone /\ members[<<u, g>>].valid
  /\ r \notin members[<<u, g>>].flags
  /\ Begin(p, [Idle EXCEPT !.pc = "find", !.form = [user |-> u, group |-> g, role |-> r]])
  /\ UNCHANGED <<tables, history>>

Pending(f) == {a \in Application : status[a] = "pending" /\ forms[a] = f}

SkipPending(p) ==
  /\ job[p].pc = "find"
  /\ Proceed(p, "apply")
  /\ UNCHANGED <<tables, history>>

\* SELECT the pending application: if there is one, its reason is replaced
FindPending(p) ==
  /\ job[p].pc = "find"
  /\ IF Pending(job[p].form) = {} THEN Proceed(p, "apply") ELSE Respond(p)
  /\ UNCHANGED <<tables, history>>

\* INSERT INTO role_applications; the group must still be there
InsertForm(p) ==
  /\ job[p].pc = "apply" /\ Exists(job[p].form.group)
  /\ \E a \in Application :
       /\ status[a] = Gone
       /\ forms' = [forms EXCEPT ![a] = job[p].form]
       /\ status' = [status EXCEPT ![a] = "pending"]
  /\ Respond(p)
  /\ UNCHANGED <<members, given, contested>> /\ Elsewhere

Deciding(a) == {p \in Proc : job[p].pc \in {"approve", "flag", "record", "reject", "refuse"}
                             /\ job[p].to = a}

DecideAny(p, a, verb) ==
  /\ status[a] # Gone
  /\ Begin(p, [Idle EXCEPT !.pc = verb, !.to = a])
  /\ contested' = IF Deciding(a) = {} THEN contested ELSE contested \cup {a}
  /\ UNCHANGED <<tables, tangled, held, given>>

\* SELECT the application, which must be pending
StartDecide(p, a, verb) ==
  /\ status[a] = "pending"
  /\ Begin(p, [Idle EXCEPT !.pc = verb, !.to = a])
  /\ contested' = IF Deciding(a) = {} THEN contested ELSE contested \cup {a}
  /\ UNCHANGED <<tables, tangled, held, given>>

\* A billing administrator of the group, or an operator where it has none
CanApprove(u, g) ==
  \/ Holds(u, g, "billing")
  \/ u \in Operator /\ \A v \in User : ~Holds(v, g, "billing")

CheckApprover(p, u) ==
  /\ job[p].pc \in {"approve", "reject"}
  /\ CanApprove(u, forms[job[p].to].group)
  /\ Proceed(p, IF job[p].pc = "approve" THEN "flag" ELSE "refuse")
  /\ UNCHANGED <<tables, history>>

\* UPDATE group_memberships: no row if the applicant has left the group
SetFlag(p) ==
  LET a == job[p].to
      m == <<forms[a].user, forms[a].group>> IN
  /\ job[p].pc = "flag"
  /\ IF members[m] = Gone THEN UNCHANGED <<members, given>>
     ELSE /\ members' = [members EXCEPT ![m].flags = @ \cup {forms[a].role}]
          /\ given' = given \cup {a}
  /\ Proceed(p, "record")
  /\ UNCHANGED <<forms, status, contested>> /\ Elsewhere

RecordVerb(p) ==
  /\ job[p].pc \in {"record", "refuse"}
  /\ status' = [status EXCEPT ![job[p].to] = job[p].pc]
  /\ Respond(p)
  /\ UNCHANGED <<members, forms, given, contested>> /\ Elsewhere

\* UPDATE role_applications SET status = 'approved' or 'rejected'
Record(p) ==
  /\ job[p].pc \in {"record", "refuse"}
  /\ status' = [status EXCEPT ![job[p].to] =
                  IF job[p].pc = "record" THEN "approved" ELSE "rejected"]
  /\ Respond(p)
  /\ UNCHANGED <<members, forms, given, contested>> /\ Elsewhere

\* roles/applications: the list a user is shown, by queries of its own
Inbox(u) ==
  LET mine   == {g \in Group : Holds(u, g, "billing")}
      billed == {g \in Group : \E v \in User : Holds(v, g, "billing")}
  IN  {a \in Application :
        /\ status[a] = "pending" /\ forms[a].user # u
        /\ forms[a].group \in mine \/ (u \in Operator /\ forms[a].group \notin billed)}

-----------------------------------------------------------------------------
(* Facilities                                                              *)

Organised == UNCHANGED <<tree, grants, members, forms, status, history>>

\* INSERT INTO facilities
AddFacility(f, g) ==
  /\ facility[f] = Gone /\ Exists(g)
  /\ facility' = [facility EXCEPT ![f] = g]
  /\ UNCHANGED <<duty, used, job>> /\ Organised

\* By a delegate: the group is managed.
AddManaged(u, f, g) == g \in Managed(u) /\ AddFacility(f, g)

\* The operator: UPDATE facilities; one batch of DELETEs
PlaceFacility(f, g) ==
  /\ facility[f] # Gone /\ Exists(g)
  /\ facility' = [facility EXCEPT ![f] = g]
  /\ UNCHANGED <<duty, used, job>> /\ Organised

DropFacility(f) ==
  /\ facility' = [facility EXCEPT ![f] = Gone]
  /\ used' = used \ {f}
  /\ UNCHANGED <<duty, job>> /\ Organised

\* An assignment that names the facility or role is made, or the last one is removed.
Occupy(x) ==
  /\ InPlace(x)
  /\ used' = IF x \in used THEN used \ {x} ELSE used \cup {x}
  /\ UNCHANGED <<facility, duty, job>> /\ Organised

\* A delegate's move: the target is managed, ...
StartRelocate(p, u, f, g) ==
  /\ g \in Managed(u)
  /\ Begin(p, [Idle EXCEPT !.pc = "source", !.to = f, !.group = g, !.set = Managed(u)])
  /\ UNCHANGED <<tables, history>>

\* ... SELECT the facility: its group is managed, too, ...
CheckSource(p) ==
  /\ job[p].pc = "source" /\ facility[job[p].to] \in job[p].set
  /\ Proceed(p, "relocate")
  /\ UNCHANGED <<tables, history>>

\* ... UPDATE facilities
Relocate(p) ==
  /\ job[p].pc = "relocate" /\ Exists(job[p].group)
  /\ facility' = IF facility[job[p].to] = Gone THEN facility
                 ELSE [facility EXCEPT ![job[p].to] = job[p].group]
  /\ Respond(p)
  /\ UNCHANGED <<duty, used>> /\ Organised

\* A delegate's removal: managed and not in use, then DELETE, which an assignment
\* made in between makes fail
StartVacate(p, u, f) ==
  /\ facility[f] \in Managed(u) /\ f \notin used
  /\ Begin(p, [Idle EXCEPT !.pc = "vacate", !.to = f])
  /\ UNCHANGED <<tables, history>>

Vacate(p) ==
  /\ job[p].pc = "vacate" /\ job[p].to \notin used
  /\ facility' = [facility EXCEPT ![job[p].to] = Gone]
  /\ Respond(p)
  /\ UNCHANGED <<duty, used>> /\ Organised

-----------------------------------------------------------------------------
(* The roles that services offer                                           *)

\* INSERT INTO service_role_master, for a service owned by g or by nobody.  Ids are
\* numbers never used again.
AddDuty(d, g) ==
  /\ duty[d] = Gone /\ (g # None => Exists(g)) /\ \A p \in Proc : job[p].to # d
  /\ duty' = [duty EXCEPT ![d] = g]
  /\ UNCHANGED <<facility, used, job>> /\ Organised

\* By a delegate: the owner is managed.
OfferDuty(u, d, g) == g \in Managed(u) /\ AddDuty(d, g)

\* The operator: one batch, with the assignments
EraseDuty(d) ==
  /\ duty' = [duty EXCEPT ![d] = Gone]
  /\ used' = used \ {d}
  /\ UNCHANGED <<facility, job>> /\ Organised

\* A delegate's removal: as for a facility
StartUnlist(p, u, d) ==
  /\ duty[d] \in Managed(u) /\ d \notin used
  /\ Begin(p, [Idle EXCEPT !.pc = "unlist", !.to = d])
  /\ UNCHANGED <<tables, history>>

Unlist(p) ==
  /\ job[p].pc = "unlist" /\ job[p].to \notin used
  /\ duty' = [duty EXCEPT ![job[p].to] = Gone]
  /\ Respond(p)
  /\ UNCHANGED <<facility, used>> /\ Organised

-----------------------------------------------------------------------------

\* A check refuses, a statement throws (a foreign key, too) or the isolate is evicted.
Abort(p) ==
  /\ job[p] # Idle
  /\ held' = IF job[p].pc = "withdraw" THEN Forget(held, Of(job[p].set)) ELSE held
  /\ contested' = IF job[p].pc = "record" THEN contested \cup {job[p].to} ELSE contested
  /\ Respond(p)
  /\ UNCHANGED <<tables, tangled, given>>

TreeStep(p) ==
  \/ \E u \in User, to \in Group, a \in User : StartChild(p, u, to, a)
  \/ InsertChild(p) \/ Appoint(p)
  \/ \E g \in Group, to \in Group \cup {None} : StartMove(p, g, to)
  \/ WriteMove(p) \/ WithdrawMoved(p)
  \/ \E g \in Group : StartDelete(p, g)
  \/ WriteDelete(p)

MemberStep(p) ==
  \/ \E u \in User, g \in Group, us \in SUBSET User, fs \in SUBSET Role :
       StartAdd(p, u, g, us, fs)
  \/ UpsertMember(p)
  \/ \E u \in User, g \in Group, r \in Role : StartApply(p, u, g, r)
  \/ FindPending(p) \/ InsertForm(p)
  \/ \E a \in Application, verb \in {"approve", "reject"} : StartDecide(p, a, verb)
  \/ \E u \in User : CheckApprover(p, u)
  \/ SetFlag(p) \/ Record(p)

FacilityStep(p) ==
  \/ \E u \in User, f \in Facility, g \in Group : StartRelocate(p, u, f, g)
  \/ CheckSource(p) \/ Relocate(p)
  \/ \E u \in User, f \in Facility : StartVacate(p, u, f)
  \/ Vacate(p)

DutyStep(p) == Unlist(p) \/ \E u \in User, d \in Duty : StartUnlist(p, u, d)

DirectoryNext ==
  \/ \E p \in Proc : TreeStep(p) \/ MemberStep(p) \/ FacilityStep(p) \/ DutyStep(p) \/ Abort(p)
  \/ \E g \in Group : \/ \E to \in Group \cup {None} : InsertGroup(g, to)
                      \/ DeleteBare(g)
                      \/ \E s \in Service : OpenGrant(g, s)
  \/ \E X \in SUBSET grants : CloseGrants(X)
  \/ \E m \in Member : RemoveMember(m) \/ TimePasses(m)
  \/ \E f \in Facility : \/ DropFacility(f)
                         \/ \E g \in Group : AddFacility(f, g) \/ PlaceFacility(f, g)
                         \/ \E u \in User, g \in Group : AddManaged(u, f, g)
  \/ \E d \in Duty : \/ EraseDuty(d) \/ (\E g \in Group \cup {None} : AddDuty(d, g))
                     \/ \E u \in User, g \in Group : OfferDuty(u, d, g)
  \/ \E x \in Facility \cup Duty : Occupy(x)

DirectorySpec == DirectoryInit /\ [][DirectoryNext]_dvars

-----------------------------------------------------------------------------
(* The tree has no cycle, whatever groups are created, moved and deleted,   *)
(* unless a move is written after another one it did not see in its check.  *)
TreeAcyclic == tangled \/ Acyclic(tree)

(* A grant never outlives a change above its group: held is what was above  *)
(* the group when the grant was given, or None once the change could not    *)
(* reach the grant: the group came below the moved one after the tree was   *)
(* read, the request stopped between its two statements, or the older page  *)
(* deleted a group above.                                                   *)
GrantsFollowTree ==
  \A x \in grants :
    \/ held[x] \in {None, Above(tree, x[1])}
    \/ \E p \in Proc : job[p].pc = "withdraw" /\ x[1] \in job[p].set

(* The outcome recorded for an application is the outcome in force, unless  *)
(* two requests decided it at the same time or an approval stopped halfway: *)
(* no rejected application has set a flag.  And the lists miss nobody: what *)
(* is pending is in the list of everyone who may decide it but the          *)
(* applicant's own, and in no other.                                        *)
RoleOutcome ==
  /\ \A a \in Application : status[a] = "rejected" => a \notin given \/ a \in contested
  /\ \A u \in User : Inbox(u) = {a \in Application :
       status[a] = "pending" /\ forms[a].user # u /\ CanApprove(u, forms[a].group)}

(* However requests interleave, one member has at most as many pending      *)
(* applications for a flag as requests can run at the same time.            *)
PendingBounded == \A f \in Form : Cardinality(Pending(f)) <= Cardinality(Proc)
=============================================================================
