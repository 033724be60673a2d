------------------------------ MODULE Catalog ------------------------------
(***************************************************************************)
(* Services, the apps they are composed of, and tags: what groups apply for *)
(* and what the operator decides, over the groups and grants of Directory.  *)
(* A request that takes several statements is a process of Clerk.           *)
(*                                                                         *)
(* Of an app, its registered addresses and texts are one content.  A task   *)
(* that creates an app or finds an id taken ends there and changes nothing: *)
(* ids are primary keys and names of tags unique.                           *)
(***************************************************************************)
EXTENDS Directory

CONSTANTS
  App,      \* ids of apps, chosen by whoever registers them
  Content,  \* what can be registered for an app
  Tag,      \* tags, by name
  Clerk,    \* concurrent requests
  Foreign   \* a provider the operator has entered

Provider == Group \cup {Foreign}
Label == Service \X Tag

VARIABLES
  providers,  \* rows of service_providers; grp-prov:<g> is g itself
  services,   \* rows of services
  apps,       \* rows of apps
  comp,       \* rows of service_apps
  tags,       \* rows of tags
  labels,     \* rows of service_tags
  contracts,  \* services with a contract made by an approval
  task,       \* progress of each request
  vetted,     \* history: the content of each app when the operator last let it run
  reviewed,   \* history: the apps of each service as the operator last set them
  slipped,    \* history: see ReviewedComposition
  adrift      \* history: services whose status was written over another decision

catalog == <<providers, services, apps, comp, tags, labels, contracts>>
record == <<vetted, reviewed, slipped, adrift>>
cvars == <<catalog, task, record>>

Row == [owner : Group \cup {None}, by : Provider, status : Status \cup {"active"}]
AppRow == [owner : Group \cup {None}, status : Status \cup {"active", "inactive"},
           content : Content]

NoTask == [pc |-> "idle", service |-> None, app |-> None, owner |-> None,
           apps |-> {}, todo |-> {}, tree |-> None, cur |-> None, path |-> {}, row |-> None]

Weighing == {"owner", "tree", "walk", "activate"}
Task ==
  [pc : {"idle", "create", "found", "strip", "cascade", "provider", "add", "remove", "compose",
         "refuse", "reapply", "edit", "discard"} \cup Weighing,
   service : Service \cup {None}, app : App \cup {None}, owner : Group \cup {None},
   apps : SUBSET App, todo : SUBSET Service,
   tree : [Group -> Group \cup {None, Gone}] \cup {None}, cur : Provider \cup {None},
   path : SUBSET Group, row : Status \cup {"active", "inactive", None}]

ASSUME CatalogConstantsOK == Gone \notin Row \cup AppRow

CatalogTypeOK ==
  /\ providers \subseteq Provider
  /\ task \in [Clerk -> Task]
  /\ services \in [Service -> Row \cup {Gone}]
  /\ apps \in [App -> AppRow \cup {Gone}]
  /\ comp \subseteq Service \X App
  /\ tags \in [Tag -> Status \cup {"active", Gone}]
  /\ labels \in [Label -> Status \cup {"active", Gone}]
  /\ contracts \subseteq Service
  /\ vetted \in [App -> Content \cup {None}]
  /\ reviewed \in [Service -> SUBSET App]
  /\ slipped \subseteq Service \X App /\ adrift \subseteq Service

CatalogInit ==
  /\ providers = {Foreign}
  /\ services = [s \in Service |-> Gone]
  /\ apps = [a \in App |-> Gone]
  /\ comp = {} /\ contracts = {}
  /\ tags = [t \in Tag |-> Gone]
  /\ labels = [l \in Label |-> Gone]
  /\ task = [p \in Clerk |-> NoTask]
  /\ vetted = [a \in App |-> None]
  /\ reviewed = [s \in Service |-> {}]
  /\ slipped = {} /\ adrift = {}

Listed(s) == services[s] # Gone
AppsOf(s) == {a \in App : <<s, a>> \in comp}
Start(p, r) == task[p] = NoTask /\ task' = [task EXCEPT ![p] = r]
Turn(p, l) == task' = [task EXCEPT ![p].pc = l]
Finish(p) == task' = [task EXCEPT ![p] = NoTask]

\* What an action on one table leaves alone
Groups == UNCHANGED dvars
ButServices == Groups /\ UNCHANGED <<providers, apps, comp, tags, labels, contracts>>
ButApps == Groups /\ UNCHANGED <<providers, services, comp, tags, labels, contracts>>
ButComp == Groups /\ UNCHANGED <<providers, services, apps, tags, labels, contracts>>
ButTags == Groups /\ UNCHANGED <<providers, services, apps, comp, contracts, task, record>>

\* The row belongs to a group that the caller manages.
OwnedBy(u, row) == row.owner # None /\ row.owner \in Managed(u)

-----------------------------------------------------------------------------
(* Services: create, delete                                                *)

\* The operator: INSERT INTO services, active, without an owner
AddService(s) ==
  /\ ~Listed(s) /\ reviewed[s] = {}
  /\ \E v \in providers :
       services' = [services EXCEPT ![s] = [owner |-> None, by |-> v, status |-> "active"]]
  /\ ButServices /\ UNCHANGED <<task, record>>

\* /group-admin/api/service/create: SELECT the provider of the group ...
StartService(p, u, g) ==
  /\ g \in Managed(u)
  /\ Start(p, [NoTask EXCEPT !.pc = IF g \in providers THEN "create" ELSE "found",
                             !.owner = g])
  /\ Groups /\ UNCHANGED <<catalog, record>>

\* ... INSERT INTO service_providers, unless another request has done so ...
Found(p) ==
  /\ task[p].pc = "found" /\ task[p].owner \notin providers
  /\ providers' = providers \cup {task[p].owner}
  /\ Turn(p, "create")
  /\ Groups /\ UNCHANGED <<services, apps, comp, tags, labels, contracts, record>>

CreateUnprovided(p) ==
  LET g == task[p].owner IN
  /\ task[p].pc = "create" /\ Exists(g)
  /\ \E s \in Service :
       /\ ~Listed(s) /\ reviewed[s] = {}
       /\ services' = [services EXCEPT ![s] = [owner |-> g, by |-> None, status |-> "pending"]]
  /\ Finish(p)
  /\ ButServices /\ UNCHANGED record

\* ... INSERT INTO services, pending
CreateService(p) ==
  LET g == task[p].owner IN
  /\ task[p].pc = "create" /\ Exists(g) /\ g \in providers
  /\ \E s \in Service :
       /\ ~Listed(s) /\ reviewed[s] = {}
       /\ services' = [services EXCEPT ![s] = [owner |-> g, by |-> g, status |-> "pending"]]
  /\ Finish(p)
  /\ ButServices /\ UNCHANGED record

\* /group-admin/api/service/delete: a service that is not active, of a managed group
StartDrop(p, u, s) ==
  /\ Listed(s) /\ OwnedBy(u, services[s]) /\ services[s].status # "active"
  /\ Start(p, [NoTask EXCEPT !.pc = "strip", !.service = s, !.todo = {s}])
  /\ Groups /\ UNCHANGED <<catalog, record>>

\* DELETE FROM service_apps
Strip(p) ==
  /\ task[p].pc = "strip"
  /\ comp' = comp \ ({task[p].service} \X App)
  /\ Turn(p, "cascade")
  /\ ButComp /\ UNCHANGED record

\* /admin/am/services/delete
StartErase(p, s) ==
  /\ Listed(s)
  /\ Start(p, [NoTask EXCEPT !.pc = "cascade", !.todo = {s}])
  /\ Groups /\ UNCHANGED <<catalog, record>>

\* /admin/am/providers/delete: SELECT the services of the provider
StartClose(p, v) ==
  LET his == {s \in Service : Listed(s) /\ services[s].by = v} IN
  /\ v \in providers
  /\ Start(p, [NoTask EXCEPT !.pc = IF his = {} THEN "provider" ELSE "cascade",
                             !.todo = his, !.cur = v])
  /\ Groups /\ UNCHANGED <<catalog, record>>

\* A row of service_tags refers to the service.
Labelled(s) == \E t \in Tag : labels[<<s, t>>] # Gone

\* deleteServiceCascade: one batch for each service, which a tag on it makes fail
Cascade(p) ==
  /\ task[p].pc = "cascade"
  /\ \E s \in task[p].todo :
       /\ ~Labelled(s)
       /\ services' = [services EXCEPT ![s] = Gone]
       /\ comp' = comp \ ({s} \X App)
       /\ contracts' = contracts \ {s}
       /\ CloseGrants(grants \cap (Group \X {s}))
       /\ task' = [task EXCEPT ![p] =
            IF task[p].todo # {s} THEN [task[p] EXCEPT !.todo = task[p].todo \ {s}]
            ELSE IF task[p].cur = None THEN NoTask ELSE [task[p] EXCEPT !.pc = "provider"]]
  /\ UNCHANGED <<providers, apps, tags, labels, record>>

\* DELETE FROM service_providers, which a service made in between makes fail
RemoveProvider(p) ==
  /\ task[p].pc = "provider"
  /\ \A s \in Service : Listed(s) => services[s].by # task[p].cur
  /\ providers' = providers \ {task[p].cur}
  /\ Finish(p)
  /\ Groups /\ UNCHANGED <<services, apps, comp, tags, labels, contracts, record>>

\* /admin/am/contracts/delete, of the contract an approval made: one batch
EndContract(s) ==
  /\ s \in contracts
  /\ contracts' = contracts \ {s}
  /\ \E X \in SUBSET (grants \cap (Group \X {s})) : CloseGrants(X)
  /\ UNCHANGED <<providers, services, apps, comp, tags, labels, task, record>>

-----------------------------------------------------------------------------
(* Services: compose                                                       *)

\* Approvals of s that have compared its apps and not yet run their batch
Approving(s) == {p \in Clerk : task[p].service = s /\ task[p].pc \in Weighing}

\* The operator's pages write service_apps whatever the status.
OperatorCompose(s, a) ==
  /\ Listed(s) /\ apps[a] # Gone
  /\ comp' = comp \cup {<<s, a>>}
  /\ reviewed' = [reviewed EXCEPT ![s] = @ \cup {a}]
  /\ slipped' = IF Approving(s) = {} THEN slipped ELSE slipped \cup {<<s, a>>}
  /\ ButComp /\ UNCHANGED <<task, vetted, adrift>>

OperatorDecompose(s, a) ==
  /\ comp' = comp \ {<<s, a>>}
  /\ reviewed' = [reviewed EXCEPT ![s] = @ \ {a}]
  /\ ButComp /\ UNCHANGED <<task, vetted, slipped, adrift>>

ComposeAny(p, u, s, a, verb) ==
  /\ Listed(s) /\ OwnedBy(u, services[s])
  /\ Start(p, [NoTask EXCEPT !.pc = verb, !.service = s, !.app = a,
                             !.row = services[s].status])
  /\ Groups /\ UNCHANGED <<catalog, record>>

\* /group-admin/api/service/app/add and remove: the service is managed and not active
StartCompose(p, u, s, a, verb) ==
  /\ Listed(s) /\ OwnedBy(u, services[s]) /\ services[s].status # "active"
  /\ Start(p, [NoTask EXCEPT !.pc = verb, !.service = s, !.app = a,
                             !.row = services[s].status])
  /\ Groups /\ UNCHANGED <<catalog, record>>

\* add: the app is managed and active
CheckApp(p, u) ==
  LET a == apps[task[p].app] IN
  /\ task[p].pc = "add" /\ a # Gone /\ OwnedBy(u, a) /\ a.status = "active"
  /\ Turn(p, "compose")
  /\ Groups /\ UNCHANGED <<catalog, record>>

\* INSERT OR IGNORE INTO service_apps, or DELETE
Compose(p) ==
  LET x == <<task[p].service, task[p].app>> IN
  /\ \/ task[p].pc = "compose" /\ Listed(x[1]) /\ apps[x[2]] # Gone /\ comp' = comp \cup {x}
     \/ task[p].pc = "remove" /\ comp' = comp \ {x}
  /\ slipped' = IF task[p].row = "active" THEN slipped ELSE slipped \cup {x}
  /\ Finish(p)
  /\ ButComp /\ UNCHANGED <<vetted, reviewed, adrift>>

-----------------------------------------------------------------------------
(* Services: approve, reject, apply again                                  *)

\* What has slipped in so far is in what the operator approves now.
Settled(s) == IF services[s].status = "pending" /\ Approving(s) = {}
              THEN slipped \ ({s} \X App) ELSE slipped

\* /admin/am/services/approve: the apps are those the operator's page showed ...
StartApprove(p, s, expected) ==
  /\ Listed(s) /\ expected = AppsOf(s)
  /\ Start(p, [NoTask EXCEPT !.pc = "owner", !.service = s, !.apps = expected])
  /\ slipped' = Settled(s)
  /\ Groups /\ UNCHANGED <<catalog, vetted, reviewed, adrift>>

\* ... SELECT the owner ...
ReadOwner(p) ==
  LET row == services[task[p].service] IN
  /\ task[p].pc = "owner"
  /\ IF row = Gone \/ row.owner = None THEN Turn(p, "activate")
     ELSE task' = [task EXCEPT ![p].pc = "tree", ![p].owner = row.owner]
  /\ Groups /\ UNCHANGED <<catalog, record>>

\* ... SELECT the tree ...
ReadTree(p) ==
  /\ task[p].pc = "tree"
  /\ task' = [task EXCEPT ![p].pc = "walk", ![p].tree = tree, ![p].cur = task[p].owner]
  /\ Groups /\ UNCHANGED <<catalog, record>>

\* ... walk up to the root, with nothing to stop it but a group without a parent ...
Walk(p) ==
  LET g == task[p].cur
      up == task[p].tree[g] IN
  /\ task[p].pc = "walk"
  /\ task' = [task EXCEPT ![p].path = @ \cup {g},
                          ![p].cur = IF up = Gone THEN None ELSE up,
                          ![p].pc = IF up \in {None, Gone} THEN "activate" ELSE "walk"]
  /\ Groups /\ UNCHANGED <<catalog, record>>

\* ... and one batch: the status if it is pending, a contract with the root, and a
\* grant for every group of the path, which must exist and hold none.
Activate(p) ==
  LET s == task[p].service
      new == task[p].path \X {s} IN
  /\ task[p].pc = "activate"
  /\ new # {} => Listed(s) /\ new \cap grants = {} /\ \A g \in task[p].path : Exists(g)
  /\ IF Listed(s) /\ services[s].status = "pending"
     THEN /\ services' = [services EXCEPT ![s].status = "active"]
          /\ reviewed' = [reviewed EXCEPT ![s] = task[p].apps]
          /\ UNCHANGED adrift
     ELSE /\ UNCHANGED <<services, reviewed>>
          /\ adrift' = IF new = {} THEN adrift ELSE adrift \cup {s}
  /\ contracts' = IF new = {} THEN contracts ELSE contracts \cup {s}
  /\ grants' = grants \cup new
  /\ held' = [x \in Group \X Service |-> IF x \in new THEN Above(tree, x[1]) ELSE held[x]]
  /\ Finish(p)
  /\ UNCHANGED <<tree, members, job>> /\ Others
  /\ UNCHANGED <<providers, apps, comp, tags, labels, vetted, slipped>>

\* /admin/am/services/reject: compares the apps, too ...
StartReject(p, s, expected) ==
  /\ Listed(s) /\ expected = AppsOf(s)
  /\ Start(p, [NoTask EXCEPT !.pc = "refuse", !.service = s])
  /\ Groups /\ UNCHANGED <<catalog, record>>

Settle(s, from, to) ==
  services' = IF Listed(s) /\ services[s].status \in from
              THEN [services EXCEPT ![s].status = to] ELSE services

RefuseAny(p) ==
  /\ task[p].pc = "refuse"
  /\ Settle(task[p].service, Status \cup {"active"}, "rejected")
  /\ Finish(p) /\ ButServices /\ UNCHANGED record

\* ... and rejects what is pending.
Refuse(p) ==
  /\ task[p].pc = "refuse"
  /\ Settle(task[p].service, {"pending"}, "rejected")
  /\ Finish(p) /\ ButServices /\ UNCHANGED record

\* /group-admin/api/service/reapply: a rejected service, ...
StartReapply(p, u, s) ==
  /\ Listed(s) /\ OwnedBy(u, services[s]) /\ services[s].status = "rejected"
  /\ Start(p, [NoTask EXCEPT !.pc = "reapply", !.service = s])
  /\ Groups /\ UNCHANGED <<catalog, record>>

\* ... made pending whatever it is by now
Reapply(p) ==
  LET s == task[p].service IN
  /\ task[p].pc = "reapply"
  /\ Settle(s, Status \cup {"active"}, "pending")
  /\ adrift' = IF Listed(s) /\ services[s].status # "rejected" THEN adrift \cup {s} ELSE adrift
  /\ Finish(p) /\ ButServices /\ UNCHANGED <<vetted, reviewed, slipped>>

-----------------------------------------------------------------------------
(* Apps                                                                    *)

SetApp(a, row) == apps' = [apps EXCEPT ![a] = row]

\* /admin/apps: INSERT, active
CreateApp(a, v) ==
  /\ apps[a] = Gone
  /\ SetApp(a, [owner |-> None, status |-> "active", content |-> v])
  /\ vetted' = [vetted EXCEPT ![a] = v]
  /\ ButApps /\ UNCHANGED <<task, reviewed, slipped, adrift>>

\* /group-admin/api/app/request: a developer of the group; INSERT, pending
RequestApp(u, g, a, v) ==
  /\ apps[a] = Gone /\ Holds(u, g, "developer") /\ g \in Managed(u)
  /\ SetApp(a, [owner |-> g, status |-> "pending", content |-> v])
  /\ ButApps /\ UNCHANGED <<task, record>>

\* /admin/apps/update: the operator's own words
UpdateApp(a, v) ==
  /\ apps[a] # Gone
  /\ SetApp(a, [apps[a] EXCEPT !.content = v])
  /\ vetted' = [vetted EXCEPT ![a] = v]
  /\ ButApps /\ UNCHANGED <<task, reviewed, slipped, adrift>>

\* /admin/apps/toggle sets any status; approve and reject decide what is pending.
Decide(a, from, to) ==
  /\ apps[a] # Gone /\ apps[a].status \in from
  /\ SetApp(a, [apps[a] EXCEPT !.status = to])
  /\ vetted' = IF to = "active" THEN [vetted EXCEPT ![a] = apps[a].content] ELSE vetted
  /\ ButApps /\ UNCHANGED <<task, reviewed, slipped, adrift>>

DecideApp(a) ==
  \/ \E to \in {"active", "inactive"} : Decide(a, Status \cup {"active", "inactive"}, to)
  \/ \E to \in {"active", "rejected"} : Decide(a, {"pending"}, to)

\* /admin/apps/delete: one batch; service_apps must not refer to the app.
DeleteApp(a) ==
  /\ \A s \in Service : <<s, a>> \notin comp
  /\ SetApp(a, Gone)
  /\ ButApps /\ UNCHANGED <<task, record>>

\* /group-admin/api/app/update and delete: a managed app that is not active ...
StartEdit(p, u, a, verb) ==
  /\ apps[a] # Gone /\ OwnedBy(u, apps[a]) /\ apps[a].status # "active"
  /\ Start(p, [NoTask EXCEPT !.pc = verb, !.app = a, !.row = apps[a].status])
  /\ Groups /\ UNCHANGED <<catalog, record>>

EditContent(p, v) ==
  LET a == task[p].app IN
  /\ task[p].pc = "edit"
  /\ IF apps[a] = Gone THEN UNCHANGED apps ELSE SetApp(a, [apps[a] EXCEPT !.content = v])
  /\ Finish(p) /\ ButApps /\ UNCHANGED record

\* ... UPDATE with the status computed from the one read, rejected becoming pending
WriteEdit(p, v) ==
  LET a == task[p].app
      to == IF task[p].row = "rejected" THEN "pending" ELSE task[p].row IN
  /\ task[p].pc = "edit"
  /\ IF apps[a] = Gone THEN UNCHANGED apps
     ELSE SetApp(a, [apps[a] EXCEPT !.content = v, !.status = to])
  /\ Finish(p) /\ ButApps /\ UNCHANGED record

\* ... one batch, with the rows of service_apps
Discard(p) ==
  LET a == task[p].app IN
  /\ task[p].pc = "discard"
  /\ SetApp(a, Gone)
  /\ comp' = comp \ (Service \X {a})
  /\ Finish(p)
  /\ Groups /\ UNCHANGED <<providers, services, tags, labels, contracts, record>>

-----------------------------------------------------------------------------
(* Tags                                                                    *)

Stick(l, to) == labels' = [labels EXCEPT ![l] = to]

\* /admin/tags/create, approve, reject
SetTag(t) ==
  /\ \/ tags[t] = Gone /\ tags' = [tags EXCEPT ![t] = "active"]
     \/ tags[t] # Gone /\ \E to \in {"active", "rejected"} : tags' = [tags EXCEPT ![t] = to]
  /\ ButTags /\ UNCHANGED labels

\* /admin/tags/delete: one batch
DeleteTag(t) ==
  /\ tags' = [tags EXCEPT ![t] = Gone]
  /\ labels' = [l \in Label |-> IF l[2] = t THEN Gone ELSE labels[l]]
  /\ ButTags

\* /admin/tags/service/add, remove, approve, reject
SetLabel(s, t) ==
  /\ Listed(s) /\ tags[t] # Gone
  /\ \/ labels[<<s, t>>] = Gone /\ Stick(<<s, t>>, "active")
     \/ labels[<<s, t>>] # Gone /\ \E to \in {"active", "rejected", Gone} : Stick(<<s, t>>, to)
  /\ ButTags /\ UNCHANGED tags

\* service_tags/apply and remove, by a delegate of the owner: what was decided about
\* the label is pending again.
ApplyLabel(u, s, t) ==
  /\ Listed(s) /\ OwnedBy(u, services[s]) /\ tags[t] # Gone
  /\ Stick(<<s, t>>, "pending")
  /\ ButTags /\ UNCHANGED tags

RemoveLabel(u, s, t) ==
  /\ Listed(s) /\ OwnedBy(u, services[s])
  /\ Stick(<<s, t>>, Gone)
  /\ ButTags /\ UNCHANGED tags

\* request_custom: a tag of the name is used, or created pending; then apply.  The
\* request may stop between its two INSERTs.
CoinTag(u, s, t) ==
  /\ Listed(s) /\ OwnedBy(u, services[s])
  /\ \/ tags' = [tags EXCEPT ![t] = IF @ = Gone THEN "pending" ELSE @]
        /\ Stick(<<s, t>>, "pending")
     \/ tags[t] = Gone /\ tags' = [tags EXCEPT ![t] = "pending"] /\ UNCHANGED labels
  /\ ButTags

-----------------------------------------------------------------------------

\* A check refuses, a statement throws or the isolate is evicted.
Drop(p) ==
  /\ task[p] # NoTask
  /\ Finish(p)
  /\ Groups /\ UNCHANGED <<catalog, record>>

ServiceStep(p) ==
  \/ \E u \in User, g \in Group : StartService(p, u, g)
  \/ Found(p) \/ CreateService(p)
  \/ \E u \in User, s \in Service : StartDrop(p, u, s) \/ StartReapply(p, u, s)
  \/ \E s \in Service : StartErase(p, s)
  \/ \E v \in Provider : StartClose(p, v)
  \/ Strip(p) \/ Cascade(p) \/ RemoveProvider(p) \/ Refuse(p) \/ Reapply(p)
  \/ \E s \in Service, e \in SUBSET App : StartApprove(p, s, e) \/ StartReject(p, s, e)
  \/ ReadOwner(p) \/ ReadTree(p) \/ Walk(p) \/ Activate(p)

AppStep(p) ==
  \/ \E u \in User, s \in Service, a \in App, verb \in {"add", "remove"} :
       StartCompose(p, u, s, a, verb)
  \/ \E u \in User : CheckApp(p, u)
  \/ Compose(p)
  \/ \E u \in User, a \in App, verb \in {"edit", "discard"} : StartEdit(p, u, a, verb)
  \/ \E v \in Content : WriteEdit(p, v)
  \/ Discard(p)

OperatorStep ==
  \/ \E s \in Service : AddService(s) \/ EndContract(s)
  \/ \E s \in Service, a \in App : OperatorCompose(s, a) \/ OperatorDecompose(s, a)
  \/ \E a \in App : DecideApp(a) \/ DeleteApp(a)
  \/ \E a \in App, v \in Content : CreateApp(a, v) \/ UpdateApp(a, v)
  \/ \E a \in App, v \in Content, u \in User, g \in Group : RequestApp(u, g, a, v)

TagStep ==
  \/ \E t \in Tag : SetTag(t) \/ DeleteTag(t)
  \/ \E s \in Service, t \in Tag : SetLabel(s, t)
  \/ \E u \in User, s \in Service, t \in Tag :
       ApplyLabel(u, s, t) \/ RemoveLabel(u, s, t) \/ CoinTag(u, s, t)

CatalogNext ==
  \/ \E p \in Clerk : ServiceStep(p) \/ AppStep(p) \/ Drop(p)
  \/ OperatorStep \/ TagStep

\* Beside everything that happens to groups, members and facilities
CatalogSpec ==
  /\ DirectoryInit /\ CatalogInit
  /\ [][CatalogNext \/ (DirectoryNext /\ UNCHANGED cvars)]_<<dvars, cvars>>

\* The loop of the walk holds the isolate: it runs on.
CatalogFairness == \A p \in Clerk : WF_<<dvars, cvars>>(Walk(p))

-----------------------------------------------------------------------------
(* No app runs in an active service that the operator has not seen there:   *)
(* the approval compares the apps with those of the page.  Only an app that *)
(* passed its check before the approval, or that the operator adds during   *)
(* it, can slip in after the comparison.                                    *)
ReviewedComposition ==
  \A s \in Service : Listed(s) /\ services[s].status = "active" =>
    \A a \in AppsOf(s) : a \in reviewed[s] \/ <<s, a>> \in slipped

(* What an app runs with is what the operator approved or wrote: an edit    *)
(* that overtakes the approval takes the app back to pending.               *)
ActiveContentVetted ==
  \A a \in App : apps[a] # Gone /\ apps[a].status = "active" => apps[a].content = vetted[a]

(* The contract and the grants of an approval belong to an active service,  *)
(* unless the approval, or an application made again, overlapped another    *)
(* decision about the service.                                              *)
ContractMeansActive ==
  \A s \in contracts : services[s].status = "active" \/ s \in adrift

(* An approval comes to an end unless two overlapping moves have made a     *)
(* cycle of the tree: the check of the moves is what bounds its walk.       *)
ApprovalEnds == \A p \in Clerk : task[p].pc = "walk" ~> (task[p].pc # "walk" \/ tangled)
=============================================================================
