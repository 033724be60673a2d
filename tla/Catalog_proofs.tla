--------------------------- MODULE Catalog_proofs ---------------------------
(***************************************************************************)
(* What module Catalog claims, for any services, apps, tags and groups and  *)
(* any number of concurrent requests, while groups, members and facilities  *)
(* change as in module Directory.                                           *)
(***************************************************************************)
EXTENDS Catalog, Directory_proofs

-----------------------------------------------------------------------------
(* Requests                                                                *)

\* What a request holds where it needs it.
Fits(j) ==
  /\ j.pc \in {"create", "found", "tree"} => j.owner \in Group
  /\ j.pc \in {"strip", "refuse", "reapply", "add", "remove", "compose"} \cup Weighing =>
       j.service \in Service
  /\ j.pc \in {"add", "remove", "compose", "edit", "discard"} => j.app \in App
  /\ j.pc \in {"remove", "compose", "add", "edit"} => j.row \in Status \cup {"inactive"}
  /\ j.pc = "walk" => j.tree \in [Group -> Group \cup {None, Gone}] /\ j.cur \in Group

Requests == task \in [Clerk -> Task] /\ \A p \in Clerk : Fits(task[p])

LEMMA PutTask ==
  ASSUME Requests, NEW p \in Clerk, NEW j \in Task, Fits(j), task' = [task EXCEPT ![p] = j]
  PROVE  Requests'
<1>1. \A q \in Clerk : task'[q] = IF q = p THEN j ELSE task[q]
  BY DEF Requests
<1>2. task' \in [Clerk -> Task]
  BY DEF Requests
<1> QED BY <1>1, <1>2 DEF Requests

LEMMA NoTaskFits == NoTask \in Task /\ Fits(NoTask) /\ NoTask.pc = "idle"
  BY DEF NoTask, Task, Fits, Weighing

LEMMA Finished ==
  ASSUME Requests, NEW p \in Clerk, Finish(p)
  PROVE  Requests'
  BY NoTaskFits, PutTask DEF Finish

\* A request turns to a statement for which it holds what it needs.
LEMMA Turned ==
  ASSUME Requests, NEW p \in Clerk, NEW l, Turn(p, l), [task[p] EXCEPT !.pc = l] \in Task,
         Fits([task[p] EXCEPT !.pc = l])
  PROVE  Requests'
  BY PutTask DEF Turn

LEMMA ServiceRequests ==
  ASSUME Kinds, services \in [Service -> Row \cup {Gone}], Requests, NEW p \in Clerk, ServiceStep(p)
  PROVE  Requests'
<1> USE DirectoryConstantFacts, CatalogConstantsOK DEF Weighing, Provider
<1>n. NoTask \in Task /\ Fits(NoTask) /\ NoTask.pc = "idle"
  BY NoTaskFits
<1>t. task[p] \in Task /\ Fits(task[p])
  BY DEF Requests
<1>tr. tree \in [Group -> Group \cup {None, Gone}]
  BY DEF Kinds, DirectoryTypeOK
<1>1. ASSUME NEW u \in User, NEW g \in Group, StartService(p, u, g) PROVE Requests'
  <2> DEFINE j == [NoTask EXCEPT !.pc = IF g \in providers THEN "create" ELSE "found", !.owner = g]
  <2>1. j \in Task /\ Fits(j)
    BY DEF NoTask, Task, Fits
  <2> QED BY <1>1, <2>1, PutTask DEF StartService, Start
<1>2. CASE Found(p)
  <2>1. [task[p] EXCEPT !.pc = "create"] \in Task /\ Fits([task[p] EXCEPT !.pc = "create"])
    BY <1>2, <1>t DEF Found, Task, Fits
  <2> QED BY <1>2, <2>1, Turned DEF Found
<1>3. CASE CreateService(p) \/ RemoveProvider(p) \/ Refuse(p) \/ Reapply(p) \/ Activate(p)
  BY <1>3, Finished DEF CreateService, RemoveProvider, Refuse, Reapply, Activate
<1>4. ASSUME NEW s \in Service
      PROVE  LET j == [NoTask EXCEPT !.pc = "strip", !.service = s, !.todo = {s}] IN j \in Task /\ Fits(j)
  BY DEF NoTask, Task, Fits
<1>5. ASSUME NEW u \in User, NEW s \in Service, StartDrop(p, u, s) PROVE Requests'
  BY <1>4, <1>5, PutTask DEF StartDrop, Start
<1>14. ASSUME NEW s \in Service
       PROVE  LET j == [NoTask EXCEPT !.pc = "reapply", !.service = s] IN j \in Task /\ Fits(j)
  BY DEF NoTask, Task, Fits
<1>15. ASSUME NEW u \in User, NEW s \in Service, StartReapply(p, u, s) PROVE Requests'
  BY <1>14, <1>15, PutTask DEF StartReapply, Start
<1>16. ASSUME NEW s \in Service
       PROVE  LET j == [NoTask EXCEPT !.pc = "cascade", !.todo = {s}] IN j \in Task /\ Fits(j)
  BY DEF NoTask, Task, Fits
<1>6. ASSUME NEW s \in Service, StartErase(p, s) PROVE Requests'
  BY <1>6, <1>16, PutTask DEF StartErase, Start
<1>17. ASSUME NEW s \in Service
       PROVE  LET j == [NoTask EXCEPT !.pc = "refuse", !.service = s] IN j \in Task /\ Fits(j)
  BY DEF NoTask, Task, Fits
<1>18. ASSUME NEW s \in Service, NEW e \in SUBSET App, StartReject(p, s, e) PROVE Requests'
  BY <1>17, <1>18, PutTask DEF StartReject, Start
<1>7. ASSUME NEW s \in Service, NEW e \in SUBSET App, StartApprove(p, s, e) PROVE Requests'
  <2> DEFINE j == [NoTask EXCEPT !.pc = "owner", !.service = s, !.apps = e]
  <2>1. j \in Task /\ Fits(j)
    BY DEF NoTask, Task, Fits
  <2> QED BY <1>7, <2>1, PutTask DEF StartApprove, Start
<1>8. ASSUME NEW v \in Provider, StartClose(p, v) PROVE Requests'
  <2> DEFINE his == {s \in Service : Listed(s) /\ services[s].by = v}
             j == [NoTask EXCEPT !.pc = IF his = {} THEN "provider" ELSE "cascade",
                                 !.todo = his, !.cur = v]
  <2>1. j \in Task /\ Fits(j)
    BY DEF NoTask, Task, Fits
  <2> QED BY <1>8, <2>1, PutTask DEF StartClose, Start
<1>9. CASE Strip(p)
  <2>1. [task[p] EXCEPT !.pc = "cascade"] \in Task /\ Fits([task[p] EXCEPT !.pc = "cascade"])
    BY <1>9, <1>t DEF Strip, Task, Fits
  <2> QED BY <1>9, <2>1, Turned DEF Strip
<1>10. CASE Cascade(p)
  <2> DEFINE k(s) == [task[p] EXCEPT !.todo = task[p].todo \ {s}]
             l == [task[p] EXCEPT !.pc = "provider"]
  <2>0. task \in [Clerk -> Task]
    BY DEF Requests
  <2>1. PICK s \in task[p].todo :
          task' = [task EXCEPT ![p] =
            IF task[p].todo # {s} THEN k(s) ELSE IF task[p].cur = None THEN NoTask ELSE l]
    BY <1>10, <2>0 DEF Cascade
  <2>2. k(s) \in Task /\ l \in Task
    BY <1>t DEF Task
  <2>3. Fits(k(s)) /\ Fits(l)
    BY <1>10, <1>t DEF Cascade, Task, Fits
  <2> HIDE DEF k, l
  <2> QED BY <2>1, <2>2, <2>3, <1>n, PutTask
<1>11. CASE ReadOwner(p)
  <2> DEFINE row == services[task[p].service]
             j == [task[p] EXCEPT !.pc = "tree", !.owner = row.owner]
  <2>1. task[p].service \in Service /\ row \in Row \cup {Gone}
    BY <1>11, <1>t DEF ReadOwner, Fits
  <2>2. CASE row = Gone \/ row.owner = None
    <3>1. [task[p] EXCEPT !.pc = "activate"] \in Task /\ Fits([task[p] EXCEPT !.pc = "activate"])
      BY <1>11, <1>t DEF ReadOwner, Task, Fits
    <3>2. Turn(p, "activate")
      BY <1>11, <2>2 DEF ReadOwner
    <3> QED BY <3>1, <3>2, Turned
  <2>3. CASE ~(row = Gone \/ row.owner = None)
    <3>1. row.owner \in Group
      BY <2>1, <2>3 DEF Row
    <3>2. j \in Task /\ Fits(j)
      BY <1>11, <1>t, <3>1 DEF ReadOwner, Task, Fits
    <3>3. task' = [task EXCEPT ![p] = j]
      BY <1>11, <2>3, <1>t DEF ReadOwner, Requests, Task
    <3> QED BY <3>2, <3>3, PutTask
  <2> QED BY <2>2, <2>3
<1>12. CASE ReadTree(p)
  <2> DEFINE j == [task[p] EXCEPT !.pc = "walk", !.tree = tree, !.cur = task[p].owner]
  <2>1. task[p].owner \in Group /\ task[p].service \in Service
    BY <1>12, <1>t DEF ReadTree, Fits
  <2>3. j \in Task /\ Fits(j)
    BY <1>t, <2>1, <1>tr DEF Task, Fits
  <2>4. task' = [task EXCEPT ![p] = j]
    BY <1>12, <1>t DEF ReadTree, Requests, Task
  <2> QED BY <2>3, <2>4, PutTask
<1>13. CASE Walk(p)
  <2> DEFINE g == task[p].cur
             up == task[p].tree[g]
             j == [task[p] EXCEPT !.path = @ \cup {g}, !.cur = IF up = Gone THEN None ELSE up,
                                  !.pc = IF up \in {None, Gone} THEN "activate" ELSE "walk"]
  <2>1. task[p].pc = "walk" /\ g \in Group /\ task[p].service \in Service
        /\ task[p].tree \in [Group -> Group \cup {None, Gone}]
    BY <1>13, <1>t DEF Walk, Fits, Task
  <2>2. up \in Group \cup {None, Gone}
    BY <2>1
  <2>3. j \in Task /\ Fits(j)
    <3> DEFINE cur == IF up = Gone THEN None ELSE up
               pc == IF up \in {None, Gone} THEN "activate" ELSE "walk"
               path == task[p].path \cup {g}
    <3>1. /\ cur \in Group \cup {None} /\ pc \in {"walk", "activate"}
          /\ pc = "walk" => cur \in Group
      BY <2>2
    <3>2. path \in SUBSET Group
      BY <1>t, <2>1 DEF Task
    <3>3. j = [task[p] EXCEPT !.path = path, !.cur = cur, !.pc = pc]
      OBVIOUS
    <3> HIDE DEF cur, pc, path, j
    <3>4. /\ j \in Task /\ j.pc = pc /\ j.cur = cur
          /\ j.service = task[p].service /\ j.tree = task[p].tree
      BY <1>t, <3>1, <3>2, <3>3 DEF Task, Weighing, Provider
    <3> QED BY <2>1, <3>1, <3>4 DEF Fits, Weighing
  <2>4. task' = [task EXCEPT ![p] = j]
    BY <1>13, <1>t DEF Walk, Requests, Task
  <2> QED BY <2>3, <2>4, PutTask
<1> QED BY <1>1, <1>2, <1>3, <1>5, <1>6, <1>7, <1>8, <1>9, <1>10, <1>11, <1>12, <1>13,
        <1>15, <1>18 DEF ServiceStep

LEMMA AppRequests ==
  ASSUME services \in [Service -> Row \cup {Gone}], apps \in [App -> AppRow \cup {Gone}],
         Requests, NEW p \in Clerk, AppStep(p)
  PROVE  Requests'
<1> USE DirectoryConstantFacts DEF Weighing
<1>t. task[p] \in Task /\ Fits(task[p])
  BY DEF Requests
<1>1. ASSUME NEW u \in User, NEW s \in Service, NEW a \in App, NEW verb \in {"add", "remove"},
             StartCompose(p, u, s, a, verb)
      PROVE  Requests'
  <2> DEFINE j == [NoTask EXCEPT !.pc = verb, !.service = s, !.app = a, !.row = services[s].status]
  <2>1. services[s] \in Row /\ services[s].status # "active"
    BY <1>1 DEF StartCompose, Listed
  <2>2. services[s].status \in Status \cup {"inactive"}
    BY <2>1 DEF Row
  <2>4. j \in Task /\ Fits(j)
    BY <2>1, <2>2 DEF NoTask, Task, Fits
  <2> QED BY <1>1, <2>4, PutTask DEF StartCompose, Start
<1>2. ASSUME NEW u \in User, CheckApp(p, u) PROVE Requests'
  <2>1. [task[p] EXCEPT !.pc = "compose"] \in Task /\ Fits([task[p] EXCEPT !.pc = "compose"])
    BY <1>2, <1>t DEF CheckApp, Task, Fits
  <2> QED BY <1>2, <2>1, Turned DEF CheckApp
<1>3. CASE Compose(p) \/ Discard(p) \/ \E v \in Content : WriteEdit(p, v)
  BY <1>3, Finished DEF Compose, Discard, WriteEdit
<1>4. ASSUME NEW u \in User, NEW a \in App, NEW verb \in {"edit", "discard"}, StartEdit(p, u, a, verb)
      PROVE  Requests'
  <2> DEFINE j == [NoTask EXCEPT !.pc = verb, !.app = a, !.row = apps[a].status]
  <2>1. apps[a] \in AppRow /\ apps[a].status # "active"
    BY <1>4 DEF StartEdit
  <2>2. apps[a].status \in Status \cup {"inactive"}
    BY <2>1 DEF AppRow
  <2>4. j \in Task /\ Fits(j)
    BY <2>1, <2>2 DEF NoTask, Task, Fits
  <2> QED BY <1>4, <2>4, PutTask DEF StartEdit, Start
<1> QED BY <1>1, <1>2, <1>3, <1>4 DEF AppStep

LEMMA RequestsStep ==
  ASSUME Kinds, services \in [Service -> Row \cup {Gone}], apps \in [App -> AppRow \cup {Gone}],
         Requests, CatalogNext
  PROVE  Requests'
<1>1. ASSUME NEW p \in Clerk, ServiceStep(p) PROVE Requests'
  BY <1>1, ServiceRequests
<1>2. ASSUME NEW p \in Clerk, AppStep(p) PROVE Requests'
  BY <1>2, AppRequests
<1>3. ASSUME NEW p \in Clerk, Drop(p) PROVE Requests'
  BY <1>3, Finished DEF Drop
<1>4. ASSUME UNCHANGED task PROVE Requests'
  BY <1>4 DEF Requests
<1>5. ASSUME OperatorStep \/ TagStep PROVE UNCHANGED task
  BY <1>5 DEF OperatorStep, TagStep, AddService, EndContract, OperatorCompose, OperatorDecompose,
     DecideApp, Decide, DeleteApp, CreateApp, UpdateApp, RequestApp, SetTag, DeleteTag, SetLabel,
     ApplyLabel, RemoveLabel, CoinTag, ButTags
<1> QED BY <1>1, <1>2, <1>3, <1>4, <1>5 DEF CatalogNext

-----------------------------------------------------------------------------
(* Tables                                                                  *)

ServiceRows == providers \subseteq Provider /\ services \in [Service -> Row \cup {Gone}]
AppRows == /\ apps \in [App -> AppRow \cup {Gone}] /\ comp \subseteq Service \X App
           /\ vetted \in [App -> Content \cup {None}]
TagRows == /\ tags \in [Tag -> Status \cup {"active", Gone}]
           /\ labels \in [Label -> Status \cup {"active", Gone}]
Marks == /\ contracts \subseteq Service /\ adrift \subseteq Service
         /\ reviewed \in [Service -> SUBSET App] /\ slipped \subseteq Service \X App

LEMMA TypesAre == CatalogTypeOK <=>
  ServiceRows /\ AppRows /\ TagRows /\ Marks /\ task \in [Clerk -> Task]
  BY DEF CatalogTypeOK, ServiceRows, AppRows, TagRows, Marks

\* What is decided about a service leaves a row of it.
LEMMA SettleFits ==
  ASSUME services \in [Service -> Row \cup {Gone}], NEW s \in Service, NEW from,
         NEW to \in Status, Settle(s, from, to)
  PROVE  services' \in [Service -> Row \cup {Gone}]
<1>1. Listed(s) => [services[s] EXCEPT !.status = to] \in Row
  BY DEF Listed, Row
<1>2. CASE Listed(s) /\ services[s].status \in from
  BY <1>1, <1>2 DEF Settle
<1>3. CASE ~(Listed(s) /\ services[s].status \in from)
  BY <1>3 DEF Settle
<1> QED BY <1>2, <1>3

LEMMA ServiceRowsStep ==
  ASSUME ServiceRows, Requests, CatalogNext
  PROVE  ServiceRows'
<1> USE DEF ServiceRows, Weighing, Provider
<1>r. ASSUME NEW g \in Group \cup {None}, NEW v \in Provider, NEW st \in Status \cup {"active"}
      PROVE  [owner |-> g, by |-> v, status |-> st] \in Row
  BY DEF Row
<1>s. \A p \in Clerk : Fits(task[p]) /\ task[p] \in Task
  BY DEF Requests
<1>0. ASSUME UNCHANGED <<providers, services>> PROVE ServiceRows'
  BY <1>0
<1>1. ASSUME NEW p \in Clerk, CreateService(p) PROVE ServiceRows'
  <2>1. task[p].owner \in Group
    BY <1>1, <1>s DEF CreateService, Fits
  <2>2. [owner |-> task[p].owner, by |-> task[p].owner, status |-> "pending"] \in Row
    BY <1>r, <2>1 DEF Status
  <2> QED BY <1>1, <2>2 DEF CreateService, ButServices
<1>2. ASSUME NEW p \in Clerk, Found(p) PROVE ServiceRows'
  BY <1>2, <1>s DEF Found, Fits
<1>3. ASSUME NEW p \in Clerk, Cascade(p) \/ RemoveProvider(p) PROVE ServiceRows'
  BY <1>3, <1>s DEF Cascade, RemoveProvider, Task
<1>4. ASSUME NEW p \in Clerk, Refuse(p) PROVE ServiceRows'
  <2>1. task[p].service \in Service
    BY <1>4, <1>s DEF Refuse, Fits
  <2> QED BY <1>4, <2>1, SettleFits DEF Refuse, ButServices, Status
<1>5. ASSUME NEW p \in Clerk, Reapply(p) PROVE ServiceRows'
  <2>1. task[p].service \in Service
    BY <1>5, <1>s DEF Reapply, Fits
  <2> QED BY <1>5, <2>1, SettleFits DEF Reapply, ButServices, Status
<1>6. ASSUME NEW p \in Clerk, Activate(p) PROVE ServiceRows'
  <2>1. task[p].service \in Service
    BY <1>6, <1>s DEF Activate, Fits
  <2>2. Listed(task[p].service) => [services[task[p].service] EXCEPT !.status = "active"] \in Row
    BY <2>1 DEF Listed, Row
  <2> QED BY <1>6, <2>1, <2>2 DEF Activate
<1>7. ASSUME NEW s \in Service, AddService(s) PROVE ServiceRows'
  BY <1>7, <1>r DEF AddService, ButServices
<1>8. ASSUME NEW p \in Clerk, ServiceStep(p),
             ~(\/ Found(p) \/ CreateService(p) \/ Cascade(p) \/ RemoveProvider(p) \/ Refuse(p)
               \/ Reapply(p) \/ Activate(p))
      PROVE  UNCHANGED <<providers, services>>
  BY <1>8 DEF ServiceStep, StartService, StartDrop, StartReapply, StartErase, StartClose, Strip,
     StartApprove, StartReject, ReadOwner, ReadTree, Walk, catalog, ButComp
<1>9. ASSUME NEW p \in Clerk, AppStep(p) \/ Drop(p) PROVE UNCHANGED <<providers, services>>
  BY <1>9 DEF AppStep, StartCompose, CheckApp, Compose, StartEdit, WriteEdit, Discard, Drop, catalog,
     ButComp, ButApps
<1>10. ASSUME TagStep PROVE UNCHANGED <<providers, services>>
  BY <1>10 DEF TagStep, SetTag, DeleteTag, SetLabel, ApplyLabel, RemoveLabel, CoinTag, ButTags
<1>11. ASSUME OperatorStep, ~(\E s \in Service : AddService(s)) PROVE UNCHANGED <<providers, services>>
  BY <1>11 DEF OperatorStep, EndContract, OperatorCompose, OperatorDecompose, DecideApp, Decide,
     DeleteApp, CreateApp, UpdateApp, RequestApp, ButComp, ButApps
<1> HIDE DEF ServiceRows
<1> QED BY <1>0, <1>1, <1>2, <1>3, <1>4, <1>5, <1>6, <1>7, <1>8, <1>9, <1>10, <1>11 DEF CatalogNext

LEMMA AppRowsStep ==
  ASSUME AppRows, Requests, CatalogNext
  PROVE  AppRows'
<1> USE DEF AppRows, Weighing
<1>s. \A p \in Clerk : Fits(task[p]) /\ task[p] \in Task
  BY DEF Requests
<1>0. ASSUME UNCHANGED <<apps, comp, vetted>> PROVE AppRows'
  BY <1>0
<1>1. ASSUME NEW p \in Clerk, Strip(p) \/ Cascade(p) \/ Discard(p) PROVE AppRows'
  BY <1>1 DEF Strip, Cascade, Discard, SetApp, ButComp, record
<1>2. ASSUME NEW p \in Clerk, Compose(p) PROVE AppRows'
  BY <1>2, <1>s DEF Compose, Fits, ButComp
<1>3. ASSUME NEW p \in Clerk, NEW v \in Content, WriteEdit(p, v) PROVE AppRows'
  <2> DEFINE a == task[p].app
             to == IF task[p].row = "rejected" THEN "pending" ELSE task[p].row
  <2>1. task[p].row \in Status \cup {"inactive"} /\ a \in App
    BY <1>3, <1>s DEF WriteEdit, Fits
  <2>2. to \in Status \cup {"inactive"}
    BY <2>1 DEF Status
  <2> HIDE DEF to
  <2>3. apps[a] # Gone => [apps[a] EXCEPT !.content = v, !.status = to] \in AppRow
    BY <2>1, <2>2 DEF AppRow
  <2> QED BY <1>3, <2>1, <2>3 DEF WriteEdit, SetApp, ButApps, record, to
<1>4. ASSUME NEW s \in Service, NEW a \in App, OperatorCompose(s, a) \/ OperatorDecompose(s, a)
      PROVE  AppRows'
  BY <1>4 DEF OperatorCompose, OperatorDecompose, ButComp
<1>5. ASSUME NEW a \in App, NEW to \in {"active", "inactive", "rejected"}, NEW from,
             Decide(a, from, to)
      PROVE  AppRows'
  <2>1. apps[a] \in AppRow
    BY <1>5 DEF Decide
  <2>2. [apps[a] EXCEPT !.status = to] \in AppRow /\ apps[a].content \in Content
    BY <2>1 DEF AppRow, Status
  <2> QED BY <1>5, <2>2 DEF Decide, SetApp, ButApps
<1>6. ASSUME NEW a \in App, DecideApp(a) PROVE AppRows'
  BY <1>5, <1>6 DEF DecideApp
<1>7. ASSUME NEW a \in App, DeleteApp(a) PROVE AppRows'
  BY <1>7 DEF DeleteApp, SetApp, ButApps, record
<1>8. ASSUME NEW a \in App, NEW v \in Content, NEW g \in Group \cup {None}, NEW st \in {"active", "pending"}
      PROVE  [owner |-> g, status |-> st, content |-> v] \in AppRow
  BY DEF AppRow, Status
<1>9. ASSUME NEW a \in App, NEW v \in Content, CreateApp(a, v) PROVE AppRows'
  BY <1>8, <1>9 DEF CreateApp, SetApp, ButApps
<1>10. ASSUME NEW a \in App, NEW v \in Content, NEW u \in User, NEW g \in Group, RequestApp(u, g, a, v)
       PROVE  AppRows'
  BY <1>8, <1>10 DEF RequestApp, SetApp, ButApps, record
<1>11. ASSUME NEW a \in App, NEW v \in Content, UpdateApp(a, v) PROVE AppRows'
  <2>1. [apps[a] EXCEPT !.content = v] \in AppRow
    BY <1>11 DEF UpdateApp, AppRow
  <2> QED BY <1>11, <2>1 DEF UpdateApp, SetApp, ButApps
<1>12. ASSUME NEW p \in Clerk, ServiceStep(p), ~Strip(p), ~Cascade(p)
       PROVE  UNCHANGED <<apps, comp, vetted>>
  BY <1>12 DEF ServiceStep, StartService, Found, CreateService, StartDrop, StartReapply, StartErase,
     StartClose, RemoveProvider, Refuse, Reapply, Activate, StartApprove, StartReject, ReadOwner,
     ReadTree, Walk, catalog, record, ButServices
<1>13. ASSUME NEW p \in Clerk, AppStep(p) \/ Drop(p), ~Compose(p), ~Discard(p),
              ~(\E v \in Content : WriteEdit(p, v))
       PROVE  UNCHANGED <<apps, comp, vetted>>
  BY <1>13 DEF AppStep, StartCompose, CheckApp, StartEdit, Drop, catalog, record
<1>14. ASSUME TagStep PROVE UNCHANGED <<apps, comp, vetted>>
  BY <1>14 DEF TagStep, SetTag, DeleteTag, SetLabel, ApplyLabel, RemoveLabel, CoinTag, ButTags, record
<1>15. ASSUME NEW s \in Service, AddService(s) \/ EndContract(s) PROVE UNCHANGED <<apps, comp, vetted>>
  BY <1>15 DEF AddService, EndContract, ButServices, record
<1> HIDE DEF AppRows
<1> QED BY <1>0, <1>1, <1>2, <1>3, <1>4, <1>6, <1>7, <1>9, <1>10, <1>11, <1>12, <1>13, <1>14, <1>15
        DEF CatalogNext, OperatorStep

LEMMA TagRowsStep ==
  ASSUME TagRows, Requests, CatalogNext
  PROVE  TagRows'
<1> USE DEF TagRows, Status
<1>0. ASSUME UNCHANGED <<tags, labels>> PROVE TagRows'
  BY <1>0
<1>1. ASSUME NEW t \in Tag, SetTag(t) \/ DeleteTag(t) PROVE TagRows'
  BY <1>1 DEF SetTag, DeleteTag, Label
<1>2. ASSUME NEW s \in Service, NEW t \in Tag, SetLabel(s, t) PROVE TagRows'
  BY <1>2 DEF SetLabel, Stick, Label
<1>3. ASSUME NEW u \in User, NEW s \in Service, NEW t \in Tag,
             ApplyLabel(u, s, t) \/ RemoveLabel(u, s, t) \/ CoinTag(u, s, t)
      PROVE  TagRows'
  BY <1>3 DEF ApplyLabel, RemoveLabel, CoinTag, Stick, Label
<1>4. ASSUME NEW p \in Clerk, ServiceStep(p) PROVE UNCHANGED <<tags, labels>>
  BY <1>4 DEF ServiceStep, StartService, Found, CreateService, StartDrop, StartReapply, StartErase,
     StartClose, RemoveProvider, Refuse, Reapply, Activate, StartApprove, StartReject, ReadOwner,
     ReadTree, Walk, Strip, Cascade, catalog, ButServices, ButComp
<1>5. ASSUME NEW p \in Clerk, AppStep(p) \/ Drop(p) PROVE UNCHANGED <<tags, labels>>
  BY <1>5 DEF AppStep, StartCompose, CheckApp, Compose, StartEdit, WriteEdit, Discard, Drop, catalog,
     ButComp, ButApps
<1>6. ASSUME OperatorStep PROVE UNCHANGED <<tags, labels>>
  BY <1>6 DEF OperatorStep, AddService, EndContract, OperatorCompose, OperatorDecompose, DecideApp,
     Decide, DeleteApp, CreateApp, UpdateApp, RequestApp, ButComp, ButApps, ButServices
<1> HIDE DEF TagRows
<1> QED BY <1>0, <1>1, <1>2, <1>3, <1>4, <1>5, <1>6 DEF CatalogNext, TagStep

LEMMA MarksStep ==
  ASSUME Marks, comp \subseteq Service \X App, Requests, CatalogNext
  PROVE  Marks'
<1> USE DEF Marks, Weighing
<1>s. \A p \in Clerk : Fits(task[p]) /\ task[p] \in Task
  BY DEF Requests
<1>0. ASSUME UNCHANGED <<contracts, reviewed, slipped, adrift>> PROVE Marks'
  BY <1>0
<1>1. ASSUME NEW p \in Clerk, Cascade(p) PROVE Marks'
  BY <1>1 DEF Cascade, record
<1>2. ASSUME NEW p \in Clerk, Compose(p) PROVE Marks'
  BY <1>2, <1>s DEF Compose, Fits, ButComp
<1>3. ASSUME NEW p \in Clerk, Reapply(p) PROVE Marks'
  BY <1>3, <1>s DEF Reapply, Fits, ButServices
<1>4. ASSUME NEW p \in Clerk, Activate(p) PROVE Marks'
  <2>1. task[p].service \in Service /\ task[p].apps \in SUBSET App
    BY <1>4, <1>s DEF Activate, Fits, Task
  <2> QED BY <1>4, <2>1 DEF Activate
<1>5. ASSUME NEW s \in Service, NEW a \in App, OperatorCompose(s, a) \/ OperatorDecompose(s, a)
      PROVE  Marks'
  BY <1>5 DEF OperatorCompose, OperatorDecompose, ButComp
<1>6. ASSUME NEW s \in Service, EndContract(s) PROVE Marks'
  BY <1>6 DEF EndContract, record
<1>7. ASSUME NEW p \in Clerk, NEW s \in Service, NEW e \in SUBSET App, StartApprove(p, s, e) PROVE Marks'
  BY <1>7 DEF StartApprove, Settled, catalog
<1>8. ASSUME NEW p \in Clerk, ServiceStep(p), ~Cascade(p), ~Reapply(p), ~Activate(p),
             ~(\E s \in Service, e \in SUBSET App : StartApprove(p, s, e))
      PROVE  UNCHANGED <<contracts, reviewed, slipped, adrift>>
  BY <1>8 DEF ServiceStep, StartService, Found, CreateService, StartDrop, StartReapply, StartErase,
     StartClose, RemoveProvider, Refuse, StartReject, ReadOwner, ReadTree, Walk, Strip, catalog, record,
     ButServices, ButComp
<1>9. ASSUME NEW p \in Clerk, AppStep(p) \/ Drop(p), ~Compose(p)
      PROVE  UNCHANGED <<contracts, reviewed, slipped, adrift>>
  BY <1>9 DEF AppStep, StartCompose, CheckApp, StartEdit, WriteEdit, Discard, Drop, catalog, record,
     ButApps
<1>10. ASSUME NEW s \in Service, AddService(s) PROVE UNCHANGED <<contracts, reviewed, slipped, adrift>>
  BY <1>10 DEF AddService, ButServices, record
<1>11. ASSUME NEW a \in App, \/ DecideApp(a) \/ DeleteApp(a)
                             \/ \E v \in Content : CreateApp(a, v) \/ UpdateApp(a, v)
                             \/ \E v \in Content, u \in User, g \in Group : RequestApp(u, g, a, v)
       PROVE  UNCHANGED <<contracts, reviewed, slipped, adrift>>
  BY <1>11 DEF DecideApp, Decide, DeleteApp, CreateApp, UpdateApp, RequestApp, ButApps, record
<1>12. ASSUME TagStep PROVE UNCHANGED <<contracts, reviewed, slipped, adrift>>
  BY <1>12 DEF TagStep, SetTag, DeleteTag, SetLabel, ApplyLabel, RemoveLabel, CoinTag, ButTags, record
<1> HIDE DEF Marks
<1> QED BY <1>0, <1>1, <1>2, <1>3, <1>4, <1>5, <1>6, <1>7, <1>8, <1>9, <1>10, <1>11, <1>12
        DEF CatalogNext, OperatorStep

-----------------------------------------------------------------------------
(* The groups                                                              *)

\* To the groups, an approval is a number of grants at once.
OpenGrants(new) ==
  /\ new \subseteq Group \X Service /\ \A x \in new : Exists(x[1])
  /\ grants' = grants \cup new
  /\ held' = [x \in Group \X Service |-> IF x \in new THEN Above(tree, x[1]) ELSE held[x]]
  /\ UNCHANGED <<tree, members, job>> /\ Others

LEMMA OpenGrantsKeeps ==
  ASSUME DirectoryInv, NEW new, OpenGrants(new)
  PROVE  DirectoryInv'
<1> USE DEF DirectoryInv, OpenGrants, Others
<1>1. Kinds'
  <2>1. \A x \in Group \X Service : held'[x] \in (SUBSET Group) \cup {None}
    BY DEF Kinds, DirectoryTypeOK, Above
  <2>2. held' \in [Group \X Service -> (SUBSET Group) \cup {None}]
    BY <2>1
  <2>3. grants' \subseteq Group \X Service
    BY DEF Kinds, DirectoryTypeOK
  <2> QED BY <2>2, <2>3 DEF Kinds, DirectoryTypeOK, FormsKnown, InPlace
<1>2. Decided'
  BY DEF Decided, Contested, Undecided, Flagged
<1>3. Backlog'
  BY DEF Backlog, Pending, Inserting
<1>4. Ordered'
  BY DEF Ordered, Detached, TreeAcyclic
<1>5. Covered'
  BY DEF Covered, Exists
<1>6. GrantsFollowTree'
  BY DEF GrantsFollowTree, Kinds, DirectoryTypeOK
<1> QED BY <1>1, <1>2, <1>3, <1>4, <1>5, <1>6

LEMMA GroupsStep ==
  ASSUME DirectoryInv, Requests, CatalogNext
  PROVE  DirectoryInv'
<1> USE DEF Weighing
<1>0. ASSUME Groups PROVE DirectoryInv'
  BY <1>0, DirectoryKeeps DEF Groups
<1>1. ASSUME NEW X \in SUBSET grants, CloseGrants(X) PROVE DirectoryInv'
  BY <1>1, DirectoryKeeps DEF DirectoryNext
<1>2. ASSUME NEW p \in Clerk, Cascade(p) PROVE DirectoryInv'
  BY <1>1, <1>2 DEF Cascade
<1>3. ASSUME NEW s \in Service, EndContract(s) PROVE DirectoryInv'
  BY <1>1, <1>3 DEF EndContract
<1>4. ASSUME NEW p \in Clerk, Activate(p) PROVE DirectoryInv'
  <2>1. task[p].service \in Service /\ task[p].path \in SUBSET Group
    BY <1>4 DEF Activate, Requests, Fits, Task
  <2> DEFINE new == task[p].path \X {task[p].service}
  <2>2. new \subseteq Group \X Service /\ \A x \in new : x[1] \in task[p].path
    BY <2>1
  <2>3. \A x \in new : Exists(x[1])
    BY <1>4, <2>2 DEF Activate
  <2>4. OpenGrants(new)
    BY <1>4, <2>2, <2>3 DEF Activate, OpenGrants
  <2> QED BY <2>4, OpenGrantsKeeps
<1>5. ASSUME NEW p \in Clerk, ServiceStep(p), ~Cascade(p), ~Activate(p) PROVE Groups
  BY <1>5 DEF ServiceStep, StartService, Found, CreateService, StartDrop, StartReapply, StartErase,
     StartClose, RemoveProvider, Refuse, Reapply, StartApprove, StartReject, ReadOwner,
     ReadTree, Walk, Strip, ButServices, ButComp
<1>6. ASSUME NEW p \in Clerk, AppStep(p) \/ Drop(p) PROVE Groups
  BY <1>6 DEF AppStep, StartCompose, CheckApp, Compose, StartEdit, WriteEdit, Discard, Drop,
     ButComp, ButApps
<1>7. ASSUME OperatorStep, ~(\E s \in Service : EndContract(s)) PROVE Groups
  BY <1>7 DEF OperatorStep, AddService, OperatorCompose, OperatorDecompose, DecideApp,
     Decide, DeleteApp, CreateApp, UpdateApp, RequestApp, ButComp, ButApps, ButServices
<1>8. ASSUME TagStep PROVE Groups
  BY <1>8 DEF TagStep, SetTag, DeleteTag, SetLabel, ApplyLabel, RemoveLabel, CoinTag, ButTags
<1> QED BY <1>0, <1>2, <1>3, <1>4, <1>5, <1>6, <1>7, <1>8 DEF CatalogNext

-----------------------------------------------------------------------------
(* What runs was vetted                                                    *)

\* The steps that write apps, and the others.
LEMMA AppKinds ==
  ASSUME CatalogNext
  PROVE  \/ \E p \in Clerk : Discard(p) \/ \E v \in Content : WriteEdit(p, v)
         \/ \E a \in App : DecideApp(a) \/ DeleteApp(a)
         \/ \E a \in App, v \in Content : CreateApp(a, v) \/ UpdateApp(a, v)
         \/ \E a \in App, v \in Content, u \in User, g \in Group : RequestApp(u, g, a, v)
         \/ UNCHANGED <<apps, vetted>>
<1>1. ASSUME NEW p \in Clerk, ServiceStep(p) PROVE UNCHANGED <<apps, vetted>>
  BY <1>1 DEF ServiceStep, StartService, Found, CreateService, StartDrop, StartReapply, StartErase,
     StartClose, RemoveProvider, Refuse, Reapply, Activate, StartApprove, StartReject, ReadOwner,
     ReadTree, Walk, Strip, Cascade, catalog, record, ButServices, ButComp
<1>2. ASSUME NEW p \in Clerk, AppStep(p) \/ Drop(p), ~Discard(p), ~(\E v \in Content : WriteEdit(p, v))
      PROVE  UNCHANGED <<apps, vetted>>
  BY <1>2 DEF AppStep, StartCompose, CheckApp, Compose, StartEdit, Drop, catalog, record, ButComp
<1>3. ASSUME TagStep PROVE UNCHANGED <<apps, vetted>>
  BY <1>3 DEF TagStep, SetTag, DeleteTag, SetLabel, ApplyLabel, RemoveLabel, CoinTag, ButTags, record
<1>4. ASSUME NEW s \in Service, \/ AddService(s) \/ EndContract(s)
                                \/ \E a \in App : OperatorCompose(s, a) \/ OperatorDecompose(s, a)
      PROVE  UNCHANGED <<apps, vetted>>
  BY <1>4 DEF AddService, EndContract, OperatorCompose, OperatorDecompose, ButServices, ButComp, record
<1> QED BY <1>1, <1>2, <1>3, <1>4 DEF CatalogNext, OperatorStep

LEMMA VettedStep ==
  ASSUME CatalogConstantsOK, AppRows, Requests, ActiveContentVetted, CatalogNext
  PROVE  ActiveContentVetted'
<1> USE DEF ActiveContentVetted, AppRows
<1>s. \A p \in Clerk : Fits(task[p]) /\ task[p] \in Task
  BY DEF Requests
<1>0. CASE UNCHANGED <<apps, vetted>>
  BY <1>0
<1>g. ASSUME NEW a \in App, apps' = [apps EXCEPT ![a] = Gone], UNCHANGED vetted
      PROVE  ActiveContentVetted'
  BY <1>g
<1>1. ASSUME NEW p \in Clerk, Discard(p) PROVE ActiveContentVetted'
  BY <1>1, <1>g, <1>s DEF Discard, SetApp, record, Fits
<1>2. ASSUME NEW p \in Clerk, NEW v \in Content, WriteEdit(p, v) PROVE ActiveContentVetted'
  <2> DEFINE a == task[p].app
             to == IF task[p].row = "rejected" THEN "pending" ELSE task[p].row
  <2>1. task[p].row \in Status \cup {"inactive"} /\ a \in App
    BY <1>2, <1>s DEF WriteEdit, Fits
  <2>2. to # "active"
    BY <2>1 DEF Status
  <2> HIDE DEF to
  <2>3. apps[a] # Gone => [apps[a] EXCEPT !.content = v, !.status = to].status = to
    BY <2>1 DEF AppRow
  <2> QED BY <1>2, <2>1, <2>2, <2>3 DEF WriteEdit, SetApp, ButApps, record, to
<1>3. ASSUME NEW a \in App, NEW to, NEW from, Decide(a, from, to) PROVE ActiveContentVetted'
  <2>1. apps[a] \in AppRow
    BY <1>3 DEF Decide
  <2>2. /\ [apps[a] EXCEPT !.status = to].status = to
        /\ [apps[a] EXCEPT !.status = to].content = apps[a].content
    BY <2>1 DEF AppRow
  <2> QED BY <1>3, <2>2 DEF Decide, SetApp, ButApps
<1>4. ASSUME NEW a \in App, DecideApp(a) PROVE ActiveContentVetted'
  BY <1>3, <1>4 DEF DecideApp
<1>5. ASSUME NEW a \in App, DeleteApp(a) PROVE ActiveContentVetted'
  BY <1>5, <1>g DEF DeleteApp, SetApp, ButApps, record
<1>6. ASSUME NEW a \in App, NEW v \in Content, CreateApp(a, v) PROVE ActiveContentVetted'
  BY <1>6 DEF CreateApp, SetApp, ButApps
<1>7. ASSUME NEW a \in App, NEW v \in Content, UpdateApp(a, v) PROVE ActiveContentVetted'
  <2>1. [apps[a] EXCEPT !.content = v].content = v
    BY <1>7 DEF UpdateApp, AppRow
  <2> QED BY <1>7, <2>1 DEF UpdateApp, SetApp, ButApps
<1>8. ASSUME NEW a \in App, NEW v \in Content, NEW u \in User, NEW g \in Group, RequestApp(u, g, a, v)
      PROVE  ActiveContentVetted'
  BY <1>8 DEF RequestApp, SetApp, ButApps, record
<1> HIDE DEF ActiveContentVetted
<1> QED BY <1>0, <1>1, <1>2, <1>4, <1>5, <1>6, <1>7, <1>8, AppKinds

-----------------------------------------------------------------------------
(* Decisions about services                                                *)

\* The steps that write services, their apps, contracts and decisions, and the others.
ServiceTables == <<services, comp, contracts, reviewed, slipped, adrift>>

LEMMA ServiceKinds ==
  ASSUME CatalogNext
  PROVE  \/ \E p \in Clerk : \/ CreateService(p) \/ Strip(p) \/ Cascade(p) \/ Refuse(p) \/ Reapply(p)
                             \/ Activate(p) \/ Compose(p) \/ Discard(p)
         \/ \E p \in Clerk, s \in Service, e \in SUBSET App : StartApprove(p, s, e)
         \/ \E s \in Service : AddService(s) \/ EndContract(s)
         \/ \E s \in Service, a \in App : OperatorCompose(s, a) \/ OperatorDecompose(s, a)
         \/ UNCHANGED ServiceTables
<1> USE DEF ServiceTables
<1>1. ASSUME NEW p \in Clerk, ServiceStep(p),
             ~(\/ CreateService(p) \/ Strip(p) \/ Cascade(p) \/ Refuse(p) \/ Reapply(p) \/ Activate(p)
               \/ \E s \in Service, e \in SUBSET App : StartApprove(p, s, e))
      PROVE  UNCHANGED ServiceTables
  BY <1>1 DEF ServiceStep, StartService, Found, StartDrop, StartReapply, StartErase, StartClose,
     RemoveProvider, StartReject, ReadOwner, ReadTree, Walk, catalog, record
<1>2. ASSUME NEW p \in Clerk, AppStep(p) \/ Drop(p), ~Compose(p), ~Discard(p)
      PROVE  UNCHANGED ServiceTables
  BY <1>2 DEF AppStep, StartCompose, CheckApp, StartEdit, WriteEdit, Drop, catalog, record, ButApps
<1>3. ASSUME NEW a \in App, \/ DecideApp(a) \/ DeleteApp(a)
                            \/ \E v \in Content : CreateApp(a, v) \/ UpdateApp(a, v)
                            \/ \E v \in Content, u \in User, g \in Group : RequestApp(u, g, a, v)
      PROVE  UNCHANGED ServiceTables
  BY <1>3 DEF DecideApp, Decide, DeleteApp, CreateApp, UpdateApp, RequestApp, ButApps, record
<1>4. ASSUME TagStep PROVE UNCHANGED ServiceTables
  BY <1>4 DEF TagStep, SetTag, DeleteTag, SetLabel, ApplyLabel, RemoveLabel, CoinTag, ButTags, record
<1> HIDE DEF ServiceTables
<1> QED BY <1>1, <1>2, <1>3, <1>4 DEF CatalogNext, OperatorStep

\* A contract is for a service that is there.
Contracted == (\A s \in contracts : Listed(s)) /\ ContractMeansActive

LEMMA ContractedStep ==
  ASSUME CatalogConstantsOK, ServiceRows, Marks, Requests, Contracted, CatalogNext
  PROVE  Contracted'
<1> USE DEF Contracted, ContractMeansActive, Listed, ServiceRows, Weighing, CatalogConstantsOK
<1>s. \A p \in Clerk : Fits(task[p]) /\ task[p] \in Task
  BY DEF Requests
<1>m. contracts \subseteq Service
  BY DEF Marks
<1>0. ASSUME UNCHANGED <<services, contracts, adrift>> PROVE Contracted'
  BY <1>0
<1>n. ASSUME NEW s \in Service, services[s] = Gone, UNCHANGED <<contracts, adrift>>, NEW r,
             services' = [services EXCEPT ![s] = r]
      PROVE  Contracted'
  BY <1>n, <1>m
<1>1. ASSUME NEW p \in Clerk, CreateService(p) PROVE Contracted'
  BY <1>1, <1>n DEF CreateService, ButServices, record
<1>2. ASSUME NEW s \in Service, AddService(s) PROVE Contracted'
  BY <1>2, <1>n DEF AddService, ButServices, record
<1>3. ASSUME NEW p \in Clerk, Cascade(p) PROVE Contracted'
  BY <1>3, <1>m, <1>s DEF Cascade, record, Task
<1>4. ASSUME NEW s \in Service, EndContract(s) PROVE Contracted'
  BY <1>4 DEF EndContract, record
<1>d. ASSUME NEW s \in Service, NEW from, NEW to, Settle(s, from, to), UNCHANGED contracts,
             adrift \subseteq adrift', \A t \in Service : services[t] # Gone => services'[t] # Gone,
             s \in contracts => s \in adrift' \/ services' = services
      PROVE  Contracted'
  <2>1. \A t \in Service : t # s => services'[t] = services[t]
    BY <1>d DEF Settle
  <2> QED BY <1>d, <1>m, <2>1
<1>e. ASSUME NEW s \in Service, NEW from, NEW to \in Status, Settle(s, from, to), NEW t \in Service,
             services[t] # Gone
      PROVE  services'[t] # Gone
  <2>1. services[s] # Gone => [services[s] EXCEPT !.status = to] \in Row
    BY DEF Row
  <2> QED BY <1>e, <2>1 DEF Settle
<1>5. ASSUME NEW p \in Clerk, Refuse(p) PROVE Contracted'
  <2> DEFINE s == task[p].service
  <2>1. s \in Service /\ Settle(s, {"pending"}, "rejected") /\ UNCHANGED <<contracts, adrift>>
    BY <1>5, <1>s DEF Refuse, Fits, ButServices, record
  <2>2. s \in contracts => s \in adrift \/ services' = services
    BY <2>1 DEF Settle
  <2>3. "rejected" \in Status
    BY DEF Status
  <2> HIDE DEF s
  <2> QED BY <2>1, <2>2, <2>3, <1>d, <1>e
<1>6. ASSUME NEW p \in Clerk, Reapply(p) PROVE Contracted'
  <2> DEFINE s == task[p].service
  <2>1. s \in Service /\ Settle(s, Status \cup {"active"}, "pending") /\ UNCHANGED contracts
    BY <1>6, <1>s DEF Reapply, Fits, ButServices
  <2>2. adrift' = IF services[s] # Gone /\ services[s].status # "rejected"
                  THEN adrift \cup {s} ELSE adrift
    BY <1>6 DEF Reapply
  <2>3. s \in contracts => s \in adrift'
    BY <2>2
  <2>4. "pending" \in Status /\ adrift \subseteq adrift'
    BY <2>2 DEF Status
  <2> HIDE DEF s
  <2> QED BY <2>1, <2>3, <2>4, <1>d, <1>e
<1>7. ASSUME NEW p \in Clerk, Activate(p) PROVE Contracted'
  <2> DEFINE s == task[p].service
             new == task[p].path \X {s}
  <2>1. s \in Service /\ (new # {} => services[s] # Gone)
        /\ contracts' = IF new = {} THEN contracts ELSE contracts \cup {s}
    BY <1>7, <1>s DEF Activate, Fits
  <2>2. CASE services[s] # Gone /\ services[s].status = "pending"
    <3>1. services' = [services EXCEPT ![s].status = "active"] /\ UNCHANGED adrift
      BY <1>7, <2>2 DEF Activate
    <3>2. services[s] \in Row /\ [services[s] EXCEPT !.status = "active"] \in Row
      BY <2>1, <2>2 DEF Row
    <3>3. services'[s] # Gone /\ services'[s].status = "active"
      BY <2>1, <3>1, <3>2 DEF Row
    <3>4. \A t \in Service : t # s => services'[t] = services[t]
      BY <3>1
    <3> HIDE DEF s, new
    <3> QED BY <2>1, <3>1, <3>3, <3>4, <1>m
  <2>3. CASE ~(services[s] # Gone /\ services[s].status = "pending")
    <3>1. UNCHANGED services /\ adrift' = IF new = {} THEN adrift ELSE adrift \cup {s}
      BY <1>7, <2>3 DEF Activate
    <3> HIDE DEF s, new
    <3> QED BY <2>1, <3>1, <1>m
  <2> QED BY <2>2, <2>3
<1>8. ASSUME NEW p \in Clerk, Strip(p) \/ Compose(p) \/ Discard(p) PROVE Contracted'
  BY <1>8, <1>0 DEF Strip, Compose, Discard, ButComp, record
<1>9. ASSUME NEW p \in Clerk, NEW s \in Service, NEW e \in SUBSET App, StartApprove(p, s, e)
      PROVE  Contracted'
  BY <1>9, <1>0 DEF StartApprove, catalog
<1>10. ASSUME NEW s \in Service, NEW a \in App, OperatorCompose(s, a) \/ OperatorDecompose(s, a)
       PROVE  Contracted'
  BY <1>10, <1>0 DEF OperatorCompose, OperatorDecompose, ButComp
<1>11. CASE UNCHANGED ServiceTables
  BY <1>11, <1>0 DEF ServiceTables
<1> HIDE DEF Contracted
<1> QED BY <1>1, <1>2, <1>3, <1>4, <1>5, <1>6, <1>7, <1>8, <1>9, <1>10, <1>11, ServiceKinds

-----------------------------------------------------------------------------
(* What an active service is composed of                                   *)

\* A request that weighs a service after the step did so before, with the same page.
Same(q) == task'[q].pc \in Weighing =>
  task[q].pc \in Weighing /\ task'[q].service = task[q].service /\ task'[q].apps = task[q].apps

LEMMA WeighingKept ==
  ASSUME Requests, CatalogNext, ~(\E p \in Clerk, s \in Service, e \in SUBSET App : StartApprove(p, s, e)),
         NEW q \in Clerk
  PROVE  Same(q)
<1> USE DEF Same, Weighing
<1>r. task \in [Clerk -> Task]
  BY DEF Requests
<1>n. NoTask.pc = "idle" /\ NoTask \in Task
  BY NoTaskFits
<1>0. ASSUME task'[q] = task[q] PROVE Same(q)
  BY <1>0
<1>f. ASSUME NEW p \in Clerk, Finish(p) PROVE Same(q)
  BY <1>f, <1>r, <1>n DEF Finish
<1>g. ASSUME NEW p \in Clerk, NEW j, task' = [task EXCEPT ![p] = j], j.pc \notin Weighing PROVE Same(q)
  BY <1>g, <1>r
<1>t. ASSUME NEW p \in Clerk, NEW l, Turn(p, l), l \notin Weighing \/ task[p].pc \in Weighing PROVE Same(q)
  BY <1>t, <1>r DEF Turn, Task
<1>1. ASSUME NEW p \in Clerk, \/ CreateService(p) \/ RemoveProvider(p) \/ Refuse(p) \/ Reapply(p)
                              \/ Activate(p) \/ Compose(p) \/ Discard(p) \/ Drop(p)
                              \/ \E v \in Content : WriteEdit(p, v)
      PROVE  Same(q)
  BY <1>1, <1>f DEF CreateService, RemoveProvider, Refuse, Reapply, Activate, Compose, Discard, Drop,
     WriteEdit
<1>2. ASSUME NEW p \in Clerk, Found(p) \/ Strip(p) \/ \E u \in User : CheckApp(p, u) PROVE Same(q)
  BY <1>2, <1>t DEF Found, Strip, CheckApp
<1>3. ASSUME NEW p \in Clerk, NEW u \in User, NEW g \in Group, StartService(p, u, g) PROVE Same(q)
  <2> DEFINE j == [NoTask EXCEPT !.pc = IF g \in providers THEN "create" ELSE "found", !.owner = g]
  <2>1. j.pc \notin Weighing
    BY DEF NoTask
  <2> QED BY <1>3, <2>1, <1>g DEF StartService, Start
<1>4. ASSUME NEW p \in Clerk, NEW u \in User, NEW s \in Service, StartDrop(p, u, s) PROVE Same(q)
  <2> DEFINE j == [NoTask EXCEPT !.pc = "strip", !.service = s, !.todo = {s}]
  <2>1. j.pc \notin Weighing
    BY DEF NoTask
  <2> QED BY <1>4, <2>1, <1>g DEF StartDrop, Start
<1>5. ASSUME NEW p \in Clerk, NEW u \in User, NEW s \in Service, StartReapply(p, u, s) PROVE Same(q)
  <2> DEFINE j == [NoTask EXCEPT !.pc = "reapply", !.service = s]
  <2>1. j.pc \notin Weighing
    BY DEF NoTask
  <2> QED BY <1>5, <2>1, <1>g DEF StartReapply, Start
<1>6. ASSUME NEW p \in Clerk, NEW s \in Service, StartErase(p, s) PROVE Same(q)
  <2> DEFINE j == [NoTask EXCEPT !.pc = "cascade", !.todo = {s}]
  <2>1. j.pc \notin Weighing
    BY DEF NoTask
  <2> QED BY <1>6, <2>1, <1>g DEF StartErase, Start
<1>7. ASSUME NEW p \in Clerk, NEW s \in Service, NEW e \in SUBSET App, StartReject(p, s, e) PROVE Same(q)
  <2> DEFINE j == [NoTask EXCEPT !.pc = "refuse", !.service = s]
  <2>1. j.pc \notin Weighing
    BY DEF NoTask
  <2> QED BY <1>7, <2>1, <1>g DEF StartReject, Start
<1>8. ASSUME NEW p \in Clerk, NEW v \in Provider, StartClose(p, v) PROVE Same(q)
  <2> DEFINE his == {s \in Service : Listed(s) /\ services[s].by = v}
             j == [NoTask EXCEPT !.pc = IF his = {} THEN "provider" ELSE "cascade",
                                 !.todo = his, !.cur = v]
  <2>1. j.pc \notin Weighing
    BY DEF NoTask
  <2> QED BY <1>8, <2>1, <1>g DEF StartClose, Start
<1>9. ASSUME NEW p \in Clerk, Cascade(p) PROVE Same(q)
  <2> DEFINE k(s) == [task[p] EXCEPT !.todo = task[p].todo \ {s}]
             l == [task[p] EXCEPT !.pc = "provider"]
  <2>1. PICK s \in task[p].todo :
          task' = [task EXCEPT ![p] =
            IF task[p].todo # {s} THEN k(s) ELSE IF task[p].cur = None THEN NoTask ELSE l]
    BY <1>9, <1>r DEF Cascade
  <2>2. k(s).pc = "cascade" /\ l.pc = "provider"
    BY <1>9, <1>r DEF Cascade, Task
  <2> HIDE DEF k, l
  <2> QED BY <2>1, <2>2, <1>n, <1>g
<1>10. ASSUME NEW p \in Clerk, ReadOwner(p) PROVE Same(q)
  <2> DEFINE j == [task[p] EXCEPT !.pc = "tree", !.owner = services[task[p].service].owner]
  <2>1. Turn(p, "activate") \/ task' = [task EXCEPT ![p] = j]
    BY <1>10, <1>r DEF ReadOwner, Task
  <2>2. task[p].pc \in Weighing /\ j.service = task[p].service /\ j.apps = task[p].apps
    BY <1>10, <1>r DEF ReadOwner, Task
  <2>3. CASE task' = [task EXCEPT ![p] = j]
    <3> HIDE DEF j
    <3> QED BY <2>2, <2>3, <1>r
  <2> QED BY <2>1, <2>2, <2>3, <1>t
<1>11. ASSUME NEW p \in Clerk, ReadTree(p) PROVE Same(q)
  <2> DEFINE j == [task[p] EXCEPT !.pc = "walk", !.tree = tree, !.cur = task[p].owner]
  <2>1. task' = [task EXCEPT ![p] = j]
    BY <1>11, <1>r DEF ReadTree, Task
  <2>2. task[p].pc \in Weighing /\ j.service = task[p].service /\ j.apps = task[p].apps
    BY <1>11, <1>r DEF ReadTree, Task
  <2> HIDE DEF j
  <2> QED BY <2>1, <2>2, <1>r
<1>12. ASSUME NEW p \in Clerk, Walk(p) PROVE Same(q)
  <2> DEFINE g == task[p].cur
             up == task[p].tree[g]
             j == [task[p] EXCEPT !.path = @ \cup {g}, !.cur = IF up = Gone THEN None ELSE up,
                                  !.pc = IF up \in {None, Gone} THEN "activate" ELSE "walk"]
  <2>1. task' = [task EXCEPT ![p] = j]
    BY <1>12, <1>r DEF Walk, Task
  <2>2. task[p].pc \in Weighing /\ j.service = task[p].service /\ j.apps = task[p].apps
    BY <1>12, <1>r DEF Walk, Task
  <2> HIDE DEF j
  <2> QED BY <2>1, <2>2, <1>r
<1>13. ASSUME NEW p \in Clerk, NEW u \in User, NEW s \in Service, NEW a \in App,
              NEW verb \in {"add", "remove"}, StartCompose(p, u, s, a, verb)
       PROVE  Same(q)
  <2> DEFINE j == [NoTask EXCEPT !.pc = verb, !.service = s, !.app = a, !.row = services[s].status]
  <2>1. j.pc \notin Weighing
    BY DEF NoTask
  <2> QED BY <1>13, <2>1, <1>g DEF StartCompose, Start
<1>14. ASSUME NEW p \in Clerk, NEW u \in User, NEW a \in App, NEW verb \in {"edit", "discard"},
              StartEdit(p, u, a, verb)
       PROVE  Same(q)
  <2> DEFINE j == [NoTask EXCEPT !.pc = verb, !.app = a, !.row = apps[a].status]
  <2>1. j.pc \notin Weighing
    BY DEF NoTask
  <2> QED BY <1>14, <2>1, <1>g DEF StartEdit, Start
<1>15. ASSUME OperatorStep \/ TagStep PROVE UNCHANGED task
  BY <1>15 DEF OperatorStep, TagStep, AddService, EndContract, OperatorCompose, OperatorDecompose,
     DecideApp, Decide, DeleteApp, CreateApp, UpdateApp, RequestApp, SetTag, DeleteTag, SetLabel,
     ApplyLabel, RemoveLabel, CoinTag, ButTags
<1> HIDE DEF Same
<1> QED BY <1>0, <1>1, <1>2, <1>3, <1>4, <1>5, <1>6, <1>7, <1>8, <1>9, <1>10, <1>11, <1>12, <1>13,
        <1>14, <1>15 DEF CatalogNext, ServiceStep, AppStep

\* An approval under way has seen the apps of its service, but those that slipped in.
Weighed(p) == task[p].pc \in Weighing =>
  \A a \in App : <<task[p].service, a>> \in comp =>
    a \in task[p].apps \/ <<task[p].service, a>> \in slipped

Looked == /\ \A s \in Service, a \in App : <<s, a>> \in comp => Listed(s)
          /\ \A p \in Clerk : Weighed(p)
          /\ ReviewedComposition

LEMMA LookedStep ==
  ASSUME CatalogConstantsOK, ServiceRows, AppRows, Marks, Requests, Looked, CatalogNext
  PROVE  Looked'
<1> USE DEF ServiceRows, AppRows, Looked, Weighed, ReviewedComposition, AppsOf, Listed
<1>s. /\ \A p \in Clerk : Fits(task[p]) /\ task[p] \in Task
      /\ task \in [Clerk -> Task]
  BY DEF Requests
<1>m. slipped \subseteq Service \X App /\ reviewed \in [Service -> SUBSET App]
  BY DEF Marks
<1>w. ASSUME comp' \subseteq comp, slipped \subseteq slipped', \A q \in Clerk : Same(q),
             NEW q \in Clerk
      PROVE  Weighed(q)'
  BY <1>w DEF Same
<1>0. ASSUME comp' \subseteq comp, slipped \subseteq slipped', \A q \in Clerk : Same(q),
             UNCHANGED <<services, reviewed>>
      PROVE  Looked'
  <2> HIDE DEF Weighed
  <2>1. \A q \in Clerk : Weighed(q)'
    BY <1>0, <1>w
  <2> QED BY <2>1, <1>0
<1>k. ASSUME ~(\E p \in Clerk, s \in Service, e \in SUBSET App : StartApprove(p, s, e)),
             NEW q \in Clerk
      PROVE  Same(q)
  BY <1>k, WeighingKept
<1>1. ASSUME \/ UNCHANGED ServiceTables
             \/ \E p \in Clerk : Strip(p) \/ Discard(p)
             \/ \E s \in Service : EndContract(s)
      PROVE  comp' \subseteq comp /\ slipped \subseteq slipped' /\ UNCHANGED <<services, reviewed>>
  BY <1>1 DEF ServiceTables, Strip, Discard, EndContract, ButComp, record
<1>n. ASSUME NEW s \in Service, services[s] = Gone, UNCHANGED <<comp, slipped, reviewed>>, NEW r,
             services' = [services EXCEPT ![s] = r], \A q \in Clerk : Same(q)
      PROVE  Looked'
  <2>1. \A a \in App : <<s, a>> \notin comp
    BY <1>n
  <2>2. \A t \in Service : t # s => services'[t] = services[t]
    BY <1>n
  <2>3. \A q \in Clerk : Weighed(q)'
    BY <1>n, <1>w
  <2> HIDE DEF Weighed
  <2> QED BY <1>n, <2>1, <2>2, <2>3
<1>2. ASSUME NEW p \in Clerk, CreateService(p), \A q \in Clerk : Same(q) PROVE Looked'
  BY <1>2, <1>n DEF CreateService, ButServices, record
<1>3. ASSUME NEW s \in Service, AddService(s), \A q \in Clerk : Same(q) PROVE Looked'
  BY <1>3, <1>n DEF AddService, ButServices, record
<1>4. ASSUME NEW p \in Clerk, Cascade(p), \A q \in Clerk : Same(q) PROVE Looked'
  <2>1. PICK s \in Service : services' = [services EXCEPT ![s] = Gone] /\ comp' = comp \ ({s} \X App)
    BY <1>4, <1>s DEF Cascade, Task
  <2>2. UNCHANGED <<slipped, reviewed>>
    BY <1>4 DEF Cascade, record
  <2>3. \A t \in Service : t # s => services'[t] = services[t]
    BY <2>1
  <2>4. \A q \in Clerk : Weighed(q)'
    BY <1>4, <1>w, <2>1, <2>2
  <2>5. \A a \in App : <<s, a>> \notin comp'
    BY <2>1
  <2>6. comp' \subseteq comp
    BY <2>1
  <2> HIDE DEF Weighed
  <2> QED BY <2>2, <2>3, <2>4, <2>5, <2>6
<1>d. ASSUME NEW s \in Service, NEW from, NEW to \in Status, Settle(s, from, to),
             UNCHANGED <<comp, slipped, reviewed>>, \A q \in Clerk : Same(q)
      PROVE  Looked'
  <2>1. \A t \in Service : t # s => services'[t] = services[t]
    BY <1>d DEF Settle
  <2>2. CASE services' = services
    BY <2>2, <1>d, <1>0
  <2>3. CASE services[s] # Gone /\ services' = [services EXCEPT ![s].status = to]
    <3>1. services'[s] \in Row /\ services'[s].status # "active"
      BY <2>3, <1>d DEF Row, Status
    <3>2. services'[s] # Gone
      BY <3>1, CatalogConstantsOK DEF CatalogConstantsOK
    <3>3. \A q \in Clerk : Weighed(q)'
      BY <1>d, <1>w
    <3> HIDE DEF Weighed
    <3> QED BY <1>d, <2>1, <3>1, <3>2, <3>3
  <2> QED BY <2>2, <2>3, <1>d DEF Settle
<1>5. ASSUME NEW p \in Clerk, Refuse(p), \A q \in Clerk : Same(q) PROVE Looked'
  BY <1>5, <1>d, <1>s DEF Refuse, Fits, ButServices, record, Status
<1>6. ASSUME NEW p \in Clerk, Reapply(p), \A q \in Clerk : Same(q) PROVE Looked'
  BY <1>6, <1>d, <1>s DEF Reapply, Fits, ButServices, record, Status
<1>7. ASSUME NEW p \in Clerk, Activate(p), \A q \in Clerk : Same(q) PROVE Looked'
  <2> DEFINE s == task[p].service
  <2>1. s \in Service /\ UNCHANGED <<comp, slipped>> /\ Weighed(p) /\ task[p].pc \in Weighing
        /\ task[p].apps \in SUBSET App
    BY <1>7, <1>s DEF Activate, Fits, Weighing, Task
  <2>2. \A q \in Clerk : Weighed(q)'
    BY <1>7, <1>w, <2>1
  <2>3. CASE services[s] # Gone /\ services[s].status = "pending"
    <3>1. services' = [services EXCEPT ![s].status = "active"]
          /\ reviewed' = [reviewed EXCEPT ![s] = task[p].apps]
      BY <1>7, <2>3 DEF Activate
    <3>2. [services[s] EXCEPT !.status = "active"] \in Row
      BY <2>1, <2>3 DEF Row
    <3>3. services'[s] # Gone
      BY <2>1, <3>1, <3>2, CatalogConstantsOK DEF CatalogConstantsOK
    <3>4. \A t \in Service : t # s => services'[t] = services[t] /\ reviewed'[t] = reviewed[t]
      BY <3>1
    <3>5. \A a \in App : <<s, a>> \in comp' => a \in reviewed'[s] \/ <<s, a>> \in slipped'
      BY <2>1, <3>1, <1>m
    <3> HIDE DEF s, Weighed
    <3> QED BY <2>1, <2>2, <3>3, <3>4, <3>5
  <2>4. CASE ~(services[s] # Gone /\ services[s].status = "pending")
    <3>1. UNCHANGED <<services, reviewed>>
      BY <1>7, <2>4 DEF Activate
    <3> QED BY <3>1, <2>1, <1>7, <1>0
  <2> QED BY <2>3, <2>4
<1>8. ASSUME NEW p \in Clerk, Compose(p), \A q \in Clerk : Same(q) PROVE Looked'
  <2> DEFINE x == <<task[p].service, task[p].app>>
  <2>1. UNCHANGED <<services, reviewed>>
    BY <1>8 DEF Compose, ButComp
  <2>2. task[p].row # "active" /\ task[p].service \in Service /\ task[p].app \in App
    BY <1>8, <1>s DEF Compose, Fits, Status
  <2>3. slipped' = slipped \cup {x}
    BY <1>8, <2>2 DEF Compose
  <2>4. CASE comp' \subseteq comp
    BY <1>8, <2>1, <2>3, <2>4, <1>0
  <2>5. CASE services[task[p].service] # Gone /\ comp' = comp \cup {x}
    <3>1. \A q \in Clerk : Weighed(q)'
      BY <1>8, <2>3, <2>5 DEF Same
    <3> HIDE DEF Weighed
    <3>2. \A s \in Service, a \in App : <<s, a>> \in comp' => services[s] # Gone
      BY <2>2, <2>5
    <3>3. \A s \in Service, a \in App : <<s, a>> \in comp' => <<s, a>> \in comp \/ <<s, a>> \in slipped'
      BY <2>3, <2>5
    <3> QED BY <2>1, <2>3, <3>1, <3>2, <3>3
  <2>6. comp' \subseteq comp \/ (services[task[p].service] # Gone /\ comp' = comp \cup {x})
    BY <1>8 DEF Compose
  <2> QED BY <2>4, <2>5, <2>6
<1>9. ASSUME NEW s \in Service, NEW a \in App, OperatorCompose(s, a), \A q \in Clerk : Same(q)
      PROVE  Looked'
  <2>1. /\ services[s] # Gone /\ UNCHANGED services /\ comp' = comp \cup {<<s, a>>}
        /\ reviewed' = [reviewed EXCEPT ![s] = @ \cup {a}] /\ slipped \subseteq slipped'
    BY <1>9 DEF OperatorCompose, ButComp
  <2>2. (\E q \in Clerk : task[q].service = s /\ task[q].pc \in Weighing) => <<s, a>> \in slipped'
    BY <1>9 DEF OperatorCompose, Approving
  <2>3. \A q \in Clerk : Weighed(q)'
    BY <1>9, <2>1, <2>2 DEF Same
  <2>4. \A t \in Service : reviewed[t] \subseteq reviewed'[t]
    BY <2>1, <1>m
  <2>5. a \in reviewed'[s]
    BY <2>1, <1>m
  <2> HIDE DEF Weighed
  <2> QED BY <2>1, <2>3, <2>4, <2>5
<1>10. ASSUME NEW s \in Service, NEW a \in App, OperatorDecompose(s, a), \A q \in Clerk : Same(q)
       PROVE  Looked'
  <2>1. /\ UNCHANGED <<services, slipped>> /\ comp' = comp \ {<<s, a>>}
        /\ reviewed' = [reviewed EXCEPT ![s] = @ \ {a}]
    BY <1>10 DEF OperatorDecompose, ButComp
  <2>2. \A q \in Clerk : Weighed(q)'
    BY <1>10, <1>w, <2>1
  <2>3. \A t \in Service, b \in App : b \in reviewed[t] => b \in reviewed'[t] \/ <<t, b>> = <<s, a>>
    BY <2>1, <1>m
  <2> HIDE DEF Weighed
  <2> QED BY <2>1, <2>2, <2>3
<1>11. ASSUME NEW p \in Clerk, NEW s \in Service, NEW e \in SUBSET App, StartApprove(p, s, e)
       PROVE  Looked'
  <2> DEFINE j == [NoTask EXCEPT !.pc = "owner", !.service = s, !.apps = e]
  <2>1. /\ e = {a \in App : <<s, a>> \in comp} /\ task' = [task EXCEPT ![p] = j]
        /\ slipped' = Settled(s) /\ UNCHANGED <<services, comp, reviewed>>
    BY <1>11 DEF StartApprove, Start, catalog
  <2>2. j.service = s /\ j.apps = e
    BY DEF NoTask
  <2> HIDE DEF j
  <2>3. \A t \in Service, a \in App : t # s /\ <<t, a>> \in slipped => <<t, a>> \in slipped'
    BY <2>1 DEF Settled
  <2>4. services[s].status = "active" => slipped' = slipped
    BY <2>1 DEF Settled
  <2>5. ASSUME NEW q \in Clerk PROVE Weighed(q)'
    <3>1. CASE q = p
      BY <2>1, <2>2, <3>1, <1>s
    <3>2. CASE q # p
      <4>1. task'[q] = task[q]
        BY <2>1, <3>2
      <4>2. task[q].pc \in Weighing => task[q].service \in Service
        BY <1>s DEF Fits
      <4>3. task[q].pc \in Weighing /\ task[q].service = s => slipped' = slipped
        BY <2>1 DEF Settled, Approving
      <4> QED BY <2>1, <2>3, <4>1, <4>2, <4>3
    <3> QED BY <3>1, <3>2
  <2> HIDE DEF Weighed
  <2> QED BY <2>1, <2>3, <2>4, <2>5
<1> HIDE DEF Looked
<1> QED BY <1>0, <1>1, <1>2, <1>3, <1>4, <1>5, <1>6, <1>7, <1>8, <1>9, <1>10, <1>11, <1>k, ServiceKinds

-----------------------------------------------------------------------------
(* The invariant                                                           *)

CatalogInv == /\ DirectoryInv /\ CatalogTypeOK /\ Requests
              /\ ActiveContentVetted /\ Contracted /\ Looked

LEMMA CatalogStarts ==
  ASSUME DirectoryInit, CatalogInit
  PROVE  CatalogInv
<1> USE DEF CatalogInit
<1>1. DirectoryInv
  BY DirectoryStarts
<1>2. Requests
  BY NoTaskFits DEF Requests
<1>3. CatalogTypeOK
  BY <1>2 DEF CatalogTypeOK, Provider, Requests
<1>4. \A p \in Clerk : task[p].pc \notin Weighing
  BY NoTaskFits DEF Weighing
<1>5. ActiveContentVetted /\ Contracted /\ Looked
  BY <1>4 DEF ActiveContentVetted, Contracted, ContractMeansActive, Looked, Weighed,
     ReviewedComposition, AppsOf, Listed
<1> QED BY <1>1, <1>2, <1>3, <1>5 DEF CatalogInv

LEMMA CatalogKeeps ==
  ASSUME CatalogInv, [CatalogNext \/ (DirectoryNext /\ UNCHANGED cvars)]_<<dvars, cvars>>
  PROVE  CatalogInv'
<1> USE DEF CatalogInv
<1>1. CASE CatalogNext
  <2>1. ServiceRows /\ AppRows /\ TagRows /\ Marks /\ Kinds
    BY TypesAre DEF DirectoryInv
  <2>2. Requests'
    BY <1>1, <2>1, RequestsStep DEF ServiceRows, AppRows
  <2>3. ServiceRows' /\ AppRows' /\ TagRows' /\ Marks'
    BY <1>1, <2>1, ServiceRowsStep, AppRowsStep, TagRowsStep, MarksStep DEF AppRows
  <2>4. CatalogTypeOK'
    BY <2>2, <2>3 DEF CatalogTypeOK, ServiceRows, AppRows, TagRows, Marks, Requests
  <2>5. DirectoryInv'
    BY <1>1, GroupsStep
  <2>6. ActiveContentVetted' /\ Contracted' /\ Looked'
    BY <1>1, <2>1, CatalogConstantsOK, VettedStep, ContractedStep, LookedStep
  <2> QED BY <2>2, <2>4, <2>5, <2>6
<1>2. CASE [DirectoryNext]_dvars /\ UNCHANGED cvars
  <2>1. DirectoryInv'
    BY <1>2, DirectoryKeeps
  <2> USE <1>2 DEF cvars, catalog, record
  <2>2. CatalogTypeOK' /\ Requests'
    BY DEF CatalogTypeOK, Requests
  <2>3. ActiveContentVetted' /\ Contracted'
    BY DEF ActiveContentVetted, Contracted, ContractMeansActive, Listed
  <2>4. Looked'
    BY DEF Looked, Weighed, ReviewedComposition, AppsOf, Listed
  <2> QED BY <2>1, <2>2, <2>3, <2>4
<1> QED BY <1>1, <1>2

\* What is known of every state of the groups and the catalog together.
THEOREM CatalogInvariant == CatalogSpec => []CatalogInv
<1>1. DirectoryInit /\ CatalogInit => CatalogInv
  BY CatalogStarts
<1>2. CatalogInv /\ [CatalogNext \/ (DirectoryNext /\ UNCHANGED cvars)]_<<dvars, cvars>> => CatalogInv'
  BY CatalogKeeps
<1> QED BY <1>1, <1>2, PTL DEF CatalogSpec

\* Services, apps, tags and the requests about them have the form the tables give them.
THEOREM CatalogTypes == CatalogSpec => []CatalogTypeOK
<1>1. CatalogInv => CatalogTypeOK
  BY DEF CatalogInv
<1> QED BY <1>1, CatalogInvariant, PTL

\* An active service is composed of apps the operator saw there when he approved it, but
\* for those that passed their check, or that he added, while the approval was under way.
THEOREM CompositionReviewed == CatalogSpec => []ReviewedComposition
<1>1. CatalogInv => ReviewedComposition
  BY DEF CatalogInv, Looked
<1> QED BY <1>1, CatalogInvariant, PTL

\* However edits and decisions overlap, an active app runs with what the operator vetted.
THEOREM ActiveAppsVetted == CatalogSpec => []ActiveContentVetted
<1>1. CatalogInv => ActiveContentVetted
  BY DEF CatalogInv
<1> QED BY <1>1, CatalogInvariant, PTL

\* A contract made by an approval is for an active service, unless decisions overlapped.
THEOREM ContractsAreActive == CatalogSpec => []ContractMeansActive
<1>1. CatalogInv => ContractMeansActive
  BY DEF CatalogInv, Contracted
<1> QED BY <1>1, CatalogInvariant, PTL

\* The grants that approvals give, and erased services lose, follow the tree like those
\* given one by one, also where an approval walked a tree that has changed since.
THEOREM ApprovedGrantsKeepUp == CatalogSpec => []GrantsFollowTree
<1>1. CatalogInv => GrantsFollowTree
  BY DEF CatalogInv, DirectoryInv
<1> QED BY <1>1, CatalogInvariant, PTL
=============================================================================
