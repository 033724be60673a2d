---------------------------- MODULE MCDirectory ----------------------------
(***************************************************************************)
(* Small instances of Directory for TLC, in scenes that are never mixed:    *)
(*   tree     every forest of the groups; they move, go and come, and one   *)
(*            grant at a time follows them                                  *)
(*   roles    one group; its member applies, operator and member decide     *)
(*   sites    two groups in a row, delegated members and a facility, one    *)
(*            request of several statements at a time                       *)
(*   duties   one group whose service offers a role                         *)
(***************************************************************************)
EXTENDS Directory, TLC

CONSTANTS
  Chief,      \* the operator
  Applicant   \* the member who applies

VARIABLE scene

vars == <<dvars, scene>>

Rows == {g \in Group : Exists(g)}

NoMembers == members = [m \in Member |-> Gone]
NoFacility == facility = [f \in Facility |-> Gone]
With(flags) == [flags |-> flags, valid |-> TRUE]

MCInit ==
  /\ scene \in {"tree", "roles", "sites", "duties"}
  /\ tree \in [Group -> Group \cup {None, Gone}] /\ Acyclic(tree)
  /\ CASE scene = "tree" -> NoMembers
       [] scene = "roles" ->
            /\ Cardinality(Rows) = 1
            /\ \E c \in {Gone, With({"billing"})}, a \in {With({}), With({"billing"})} :
                 members = [m \in Member |->
                   IF ~Exists(m[2]) THEN Gone ELSE IF m[1] = Chief THEN c ELSE a]
       [] scene = "duties" ->
            /\ Cardinality(Rows) = 1
            /\ members = [m \in Member |->
                 IF m[1] = Applicant /\ Exists(m[2]) THEN With({"admin"}) ELSE Gone]
       [] scene = "sites" ->
            /\ Cardinality(Rows) = 2
            /\ \E g \in Rows : tree[g] \in Rows
            /\ members = [m \in Member |->
                 IF m[1] = Applicant /\ Exists(m[2]) THEN With({"admin"}) ELSE Gone]
  /\ NoFacility /\ duty = [d \in Duty |-> Gone]
  /\ grants = {} /\ used = {} /\ given = {} /\ contested = {} /\ tangled = FALSE
  /\ forms = [a \in Application |-> Gone] /\ status = [a \in Application |-> Gone]
  /\ job = [p \in Proc |-> Idle]
  /\ held = [x \in Group \X Service |-> None]

TreeScene ==
  \/ \E p \in Proc :
       \/ \E g \in Group, to \in Group \cup {None} : StartMove(p, g, to)
       \/ \E g \in Group : StartDelete(p, g)
       \/ WriteMove(p) \/ WithdrawMoved(p) \/ WriteDelete(p) \/ Abort(p)
  \/ \E g \in Group : \/ \E to \in Group \cup {None} : InsertGroup(g, to)
                      \/ DeleteBare(g)
                      \/ \E s \in Service : grants = {} /\ OpenGrant(g, s)
  \/ CloseGrants(grants)

RoleScene ==
  \/ \E p \in Proc :
       \/ \E g \in Rows : StartApply(p, Applicant, g, "admin")
       \/ \E a \in Application, verb \in {"approve", "reject"} : StartDecide(p, a, verb)
       \/ \E u \in User : CheckApprover(p, u)
       \/ FindPending(p) \/ InsertForm(p) \/ SetFlag(p) \/ Record(p) \/ Abort(p)
  \/ \E g \in Rows : \/ RemoveMember(<<Applicant, g>>) \/ TimePasses(<<Applicant, g>>)
                     \/ DeleteBare(g)

SiteScene ==
  \/ \E p \in Proc :
       /\ \A q \in Proc \ {p} : job[q] = Idle
       /\ \/ FacilityStep(p)
          \/ \E u \in User, to \in Rows : StartChild(p, u, to, Applicant)
          \/ InsertChild(p) \/ Appoint(p)
          \/ \E u \in User, g \in Rows, fs \in SUBSET {"admin"} :
               StartAdd(p, u, g, {Applicant}, fs)
          \/ UpsertMember(p) \/ Abort(p)
  \/ \E m \in Member : RemoveMember(m)
  \/ \E f \in Facility : \/ DropFacility(f) \/ Occupy(f)
                         \/ \E g \in Group : AddFacility(f, g) \/ PlaceFacility(f, g)
                         \/ \E u \in User, g \in Rows : AddManaged(u, f, g)

DutyScene ==
  \/ \E p \in Proc : DutyStep(p) \/ Abort(p)
  \/ \E d \in Duty : \/ EraseDuty(d) \/ Occupy(d)
                     \/ \E g \in Rows \cup {None} : AddDuty(d, g)
                     \/ \E u \in User, g \in Rows : OfferDuty(u, d, g)
  \/ \E m \in Member : RemoveMember(m)
  \/ \E g \in Rows : DeleteBare(g)

MCNext ==
  /\ \/ scene = "tree" /\ TreeScene
     \/ scene = "roles" /\ RoleScene
     \/ scene = "sites" /\ SiteScene
     \/ scene = "duties" /\ DutyScene
  /\ UNCHANGED scene

MCSpec == MCInit /\ [][MCNext]_vars

\* Ids are random, and requests differ in nothing but their progress.
Symmetry == Permutations(Proc) \cup Permutations(Group) \cup Permutations(Application)
=============================================================================
