----------------------------- MODULE MCCatalog -----------------------------
(***************************************************************************)
(* Small instances of Catalog for TLC, in scenes that are never mixed:      *)
(*   apply    one service: created, composed, decided, applied for again    *)
(*   apps     the apps alone                                                *)
(*   walk     approvals while groups are moved                              *)
(*   erase    providers, services and tags created and deleted              *)
(* Somebody administrates and develops for every group; tables start as     *)
(* earlier requests may have left them.                                     *)
(***************************************************************************)
EXTENDS Catalog

CONSTANTS Root, Child

VARIABLE scene

vars == <<dvars, cvars, scene>>

\* In the scene of the moves, the service has been applied for.
CatalogStart ==
  IF scene # "walk" THEN CatalogInit
  ELSE /\ providers = {Foreign, Child}
       /\ services = [s \in Service |-> [owner |-> Child, by |-> Child, status |-> "pending"]]
       /\ apps = [a \in App |-> Gone]
       /\ comp = {} /\ contracts = {} /\ slipped = {} /\ adrift = {}
       /\ tags = [t \in Tag |-> Gone] /\ labels = [l \in Label |-> Gone]
       /\ task = [p \in Clerk |-> NoTask]
       /\ vetted = [a \in App |-> None]
       /\ reviewed = [s \in Service |-> {}]

MCInit ==
  /\ tree = [g \in Group |-> IF g = Child THEN Root ELSE None]
  /\ grants = {} /\ used = {} /\ given = {} /\ contested = {} /\ tangled = FALSE
  /\ members = [m \in Member |-> [flags |-> Role, valid |-> TRUE]]
  /\ forms = [a \in Application |-> Gone] /\ status = [a \in Application |-> Gone]
  /\ facility = [f \in Facility |-> Gone] /\ duty = [d \in Duty |-> Gone]
  /\ job = [p \in Proc |-> Idle]
  /\ held = [x \in Group \X Service |-> None]
  /\ scene \in {"apply", "apps", "walk", "erase"}
  /\ CatalogStart

Apply(p) ==
  \/ \E u \in User : StartService(p, u, Child)
  \/ Found(p) \/ CreateService(p)
  \/ \E s \in Service, e \in SUBSET App : StartApprove(p, s, e) \/ StartReject(p, s, e)
  \/ \E u \in User, s \in Service : StartReapply(p, u, s)
  \/ ReadOwner(p) \/ ReadTree(p) \/ Walk(p) \/ Activate(p) \/ Refuse(p) \/ Reapply(p)
  \/ Drop(p)

Composing(p) ==
  \/ \E u \in User, s \in Service, a \in App, verb \in {"add", "remove"} :
       StartCompose(p, u, s, a, verb)
  \/ \E u \in User : CheckApp(p, u)
  \/ Compose(p)

Editing(p) ==
  \/ \E u \in User, a \in App, verb \in {"edit", "discard"} : StartEdit(p, u, a, verb)
  \/ \E v \in Content : WriteEdit(p, v)
  \/ Discard(p) \/ Drop(p)

OperatorApps ==
  \/ \E a \in App : DecideApp(a) \/ DeleteApp(a)
  \/ \E a \in App, v \in Content : CreateApp(a, v) \/ UpdateApp(a, v)
  \/ \E a \in App, v \in Content, u \in User : RequestApp(u, Child, a, v)

Erasing(p) ==
  \/ \E u \in User : StartService(p, u, Child)
  \/ \E u \in User, s \in Service : StartDrop(p, u, s)
  \/ \E s \in Service : StartErase(p, s)
  \/ \E v \in Provider : StartClose(p, v)
  \/ Found(p) \/ CreateService(p) \/ Strip(p) \/ Cascade(p) \/ RemoveProvider(p) \/ Drop(p)

\* One approval after the other, of a service that a group applied for
Approve(p) ==
  \/ \E s \in Service, e \in SUBSET App : StartApprove(p, s, e)
  \/ ReadOwner(p) \/ ReadTree(p) \/ Walk(p) \/ Activate(p) \/ Drop(p)

Moving(p) ==
  /\ \/ \E g \in Group, to \in Group \cup {None} : StartMove(p, g, to)
     \/ WriteMove(p) \/ WithdrawMoved(p)
  /\ UNCHANGED cvars

MCNext ==
  /\ \/ /\ scene = "apply"
        /\ \/ \E p \in Clerk : Apply(p) \/ Composing(p)
           \/ \E s \in Service : EndContract(s)
           \/ \E s \in Service, a \in App : \/ OperatorCompose(s, a) \/ OperatorDecompose(s, a)
           \/ \E a \in App, u \in User : RequestApp(u, Child, a, CHOOSE v \in Content : TRUE)
           \/ \E a \in App : DecideApp(a)
     \/ scene = "apps" /\ ((\E p \in Clerk : Editing(p)) \/ OperatorApps)
     \/ scene = "walk" /\ (Approve(CHOOSE p \in Clerk : TRUE) \/ (\E p \in Proc : Moving(p)))
     \/ /\ scene = "erase"
        /\ \/ \E p \in Clerk : Erasing(p)
           \/ \E s \in Service : AddService(s)
           \/ TagStep
  /\ UNCHANGED scene

MCSpec == MCInit /\ [][MCNext]_vars /\ CatalogFairness
=============================================================================
