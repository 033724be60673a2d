-------------------------- MODULE Directory_proofs --------------------------
(***************************************************************************)
(* What module Directory claims, for any groups, users, applications,       *)
(* facilities and roles and any number of concurrent requests.              *)
(***************************************************************************)
EXTENDS Directory, FiniteSetTheorems, TLAPS

-----------------------------------------------------------------------------
(* Trees                                                                   *)

Closed(t, g, C) == C \in SUBSET Group /\ g \in C /\ \A h \in Group : t[h] \in C => h \in C

\* What is not below g is kept apart from it by a closed set.
LEMMA Separated ==
  ASSUME NEW t, NEW g, NEW d \in Group, d \notin Below(t, g)
  PROVE  \E C : Closed(t, g, C) /\ d \notin C
  BY DEF Below, Closed

LEMMA NotBelow ==
  ASSUME NEW t, NEW g, NEW C, Closed(t, g, C), NEW d, d \notin C
  PROVE  d \notin Below(t, g)
  BY DEF Below, Closed

\* A group may be hung below a group that is not its own descendant.
LEMMA MoveKeepsAcyclic ==
  ASSUME NEW t, NEW u, NEW g, NEW to, NEW C, Acyclic(t), Closed(t, g, C), to \notin C,
         \A h \in Group : h # g => u[h] = t[h], u[g] = to
  PROVE  Acyclic(u)
<1> SUFFICES ASSUME NEW S \in SUBSET Group, S # {}, \A h \in S : u[h] \in S PROVE FALSE
  BY DEF Acyclic
<1>1. CASE g \notin S
  BY <1>1 DEF Acyclic
<1>2. CASE g \in S
  <2>1. to \in S \ C
    BY <1>2
  <2>2. ASSUME NEW h \in S \ C PROVE t[h] \in S \ C
    <3>1. h # g /\ h \in Group
      BY DEF Closed
    <3>2. t[h] \in S
      BY <3>1
    <3> QED BY <3>1, <3>2 DEF Closed
  <2> QED BY <2>1, <2>2 DEF Acyclic
<1> QED BY <1>1, <1>2

LEMMA MoveWritten ==
  ASSUME NEW t \in [Group -> Group \cup {None, Gone}], NEW g \in Group, NEW to,
         NEW C, Acyclic(t), Closed(t, g, C), to \notin C
  PROVE  Acyclic([t EXCEPT ![g] = to])
<1> DEFINE u == [t EXCEPT ![g] = to]
<1>1. u[g] = to /\ \A h \in Group : h # g => u[h] = t[h]
  OBVIOUS
<1> HIDE DEF u
<1>2. Acyclic(u)
  BY <1>1, MoveKeepsAcyclic
<1> QED BY <1>2 DEF u

\* A new leaf closes no cycle.
LEMMA LeafKeepsAcyclic ==
  ASSUME NEW t, NEW u, NEW g \in Group, NEW to, Acyclic(t), to # g,
         \A h \in Group : t[h] # g,
         \A h \in Group : h # g => u[h] = t[h], u[g] = to
  PROVE  Acyclic(u)
<1> SUFFICES ASSUME NEW S \in SUBSET Group, S # {}, \A h \in S : u[h] \in S PROVE FALSE
  BY DEF Acyclic
<1>1. CASE g \notin S
  BY <1>1 DEF Acyclic
<1>2. CASE g \in S
  <2>1. to \in S \ {g}
    BY <1>2
  <2>2. ASSUME NEW h \in S \ {g} PROVE t[h] \in S \ {g}
    OBVIOUS
  <2> QED BY <2>1, <2>2 DEF Acyclic
<1> QED BY <1>1, <1>2

\* Cutting links closes no cycle.
LEMMA CutKeepsAcyclic ==
  ASSUME NEW t, NEW u, Acyclic(t), \A h \in Group : u[h] = t[h] \/ u[h] \notin Group
  PROVE  Acyclic(u)
  BY DEF Acyclic

\* Changes at or below g reach only what is below g.
LEMMA AboveKept ==
  ASSUME NEW t, NEW u, NEW g \in Group, NEW d \in Group, d \notin Below(t, g),
         \A h \in Group : u[h] # t[h] => h \in Below(t, g)
  PROVE  Above(u, d) = Above(t, d)
<1>1. PICK D : Closed(t, g, D) /\ d \notin D
  BY Separated
<1>2. \A h \in Group : u[h] # t[h] => h \in D
  BY <1>1 DEF Below, Closed
<1>3. ASSUME NEW a \in Group, d \notin Below(t, a) PROVE d \notin Below(u, a)
  <2>1. PICK C : Closed(t, a, C) /\ d \notin C
    BY <1>3, Separated
  <2>2. Closed(u, a, C \cup D)
    BY <1>1, <1>2, <2>1 DEF Closed
  <2> QED BY <1>1, <2>1, <2>2, NotBelow
<1>4. ASSUME NEW a \in Group, d \notin Below(u, a) PROVE d \notin Below(t, a)
  <2>1. PICK C : Closed(u, a, C) /\ d \notin C
    BY <1>4, Separated
  <2>2. Closed(t, a, C \cup D)
    BY <1>1, <1>2, <2>1 DEF Closed
  <2> QED BY <1>1, <2>1, <2>2, NotBelow
<1> QED BY <1>3, <1>4 DEF Above

LEMMA BelowItself ==
  ASSUME NEW t, NEW g \in Group
  PROVE  g \in Below(t, g) /\ \A h \in Group : t[h] = g => h \in Below(t, g)
  BY DEF Below

\* A group nobody is below.
LEMMA BelowLeaf ==
  ASSUME NEW t, NEW g \in Group, \A h \in Group : t[h] # g, NEW d \in Group, d # g
  PROVE  d \notin Below(t, g)
<1>1. Closed(t, g, {g})
  BY DEF Closed
<1> QED BY <1>1, NotBelow

-----------------------------------------------------------------------------
(* Types                                                                   *)

\* The assumptions on the constants, one conjunct each.
LEMMA DirectoryConstantFacts ==
  /\ Gone # None /\ None \notin Group /\ Gone \notin Group
  /\ Gone \notin Membership /\ Gone \notin Status /\ IsFiniteSet(Proc) /\ IsFiniteSet(Application)
  /\ "admin" \in Role
  BY DirectoryConstantsOK DEF DirectoryConstantsOK, Status

Verdict == {"approve", "flag", "record", "reject", "refuse"}

\* What a request holds where it needs it.
Sound(j) ==
  /\ j.pc \in {"child", "appoint"} => j.group \in Group /\ j.to \in User
  /\ j.pc = "move" => j.to \in Group \cup {None} /\ j.to # j.group
  /\ j.pc \in {"move", "withdraw", "delete"} => j.group \in Group /\ j.set \in SUBSET Group
  /\ j.pc = "upsert" => j.group \in Group /\ j.set \in SUBSET User
  /\ j.pc \in {"find", "apply"} => j.form \in Form
  /\ j.pc \in Verdict => j.to \in Application
  /\ j.pc \in {"source", "relocate"} => j.group \in Group /\ j.to \in Facility
  /\ j.pc = "vacate" => j.to \in Facility
  /\ j.pc = "unlist" => j.to \in Duty

\* An application has a status exactly when it has a form.
FormsKnown ==
  /\ \A a \in Application : status[a] # Gone => forms[a] \in Form
  /\ \A p \in Proc : job[p].pc \in Verdict => status[job[p].to] # Gone

Kinds == DirectoryTypeOK /\ (\A p \in Proc : Sound(job[p])) /\ FormsKnown

\* A request begins, goes on or ends: the others keep what they hold.
LEMMA PutJob ==
  ASSUME job \in [Proc -> Job], \A p \in Proc : Sound(job[p]),
         NEW p \in Proc, NEW j \in Job, Sound(j), job' = [job EXCEPT ![p] = j]
  PROVE  job' \in [Proc -> Job] /\ \A q \in Proc : Sound(job'[q])
<1>1. \A q \in Proc : job'[q] = IF q = p THEN j ELSE job[q]
  OBVIOUS
<1> QED BY <1>1

LEMMA IdleFits == Idle \in Job /\ Sound(Idle)
  BY DEF Idle, Job, Sound, Verdict
LEMMA StaleFits ==
  ASSUME NEW j \in Job, Sound(j), NEW b \in BOOLEAN
  PROVE  [j EXCEPT !.stale = b] \in Job /\ Sound([j EXCEPT !.stale = b])
<1>1. [j EXCEPT !.stale = b] \in Job
  BY DEF Job
<1>2. Sound([j EXCEPT !.stale = b])
  BY DEF Job, Sound
<1> QED BY <1>1, <1>2

LEMMA JobsStep ==
  ASSUME Kinds, DirectoryNext
  PROVE  job' \in [Proc -> Job] /\ \A q \in Proc : Sound(job'[q])
<1> DEFINE Fit == job' \in [Proc -> Job] /\ \A q \in Proc : Sound(job'[q])
<1> USE DEF Kinds, DirectoryTypeOK
<1>a. ASSUME NEW p \in Proc, NEW j, j \in Job, Sound(j), job' = [job EXCEPT ![p] = j]
      PROVE  Fit
  BY <1>a, PutJob
<1>b. ASSUME UNCHANGED job PROVE Fit
  BY <1>b
<1>c. ASSUME NEW p \in Proc, Respond(p) PROVE Fit
  BY <1>c, <1>a, IdleFits DEF Respond
<1>d. ASSUME NEW p \in Proc, NEW l, Proceed(p, l), [job[p] EXCEPT !.pc = l] \in Job,
             Sound([job[p] EXCEPT !.pc = l])
      PROVE  Fit
  <2>1. job' = [job EXCEPT ![p] = [job[p] EXCEPT !.pc = l]]
    BY <1>d DEF Proceed
  <2> QED BY <2>1, <1>d, <1>a
<1>e. ASSUME NEW p \in Proc, NEW j, Begin(p, j), j \in Job, Sound(j) PROVE Fit
  BY <1>e, <1>a DEF Begin
<1> HIDE DEF Fit
<1>1. ASSUME NEW p \in Proc, TreeStep(p) PROVE Fit
  <2>1. ASSUME NEW u \in User, NEW to \in Group, NEW a \in User, StartChild(p, u, to, a)
        PROVE  Fit
    BY <2>1, <1>e DEF StartChild, Idle, Job, Sound, Verdict
  <2>2. CASE InsertChild(p)
    <3>1. PICK g \in Group : job' = [job EXCEPT ![p].pc = "appoint", ![p].group = g]
      BY <2>2 DEF InsertChild
    <3> DEFINE j == [job[p] EXCEPT !.pc = "appoint", !.group = g]
    <3>2. job' = [job EXCEPT ![p] = j]
      BY <3>1
    <3>3. job[p] \in Job /\ Sound(job[p]) /\ job[p].pc = "child"
      BY <2>2 DEF InsertChild
    <3>4. j \in Job /\ Sound(j)
      BY <3>3 DEF Job, Sound, Verdict
    <3> HIDE DEF j
    <3> QED BY <3>2, <3>4, <1>a
  <2>3. CASE Appoint(p)
    BY <2>3, <1>c DEF Appoint
  <2>4. ASSUME NEW g \in Group, NEW to \in Group \cup {None}, StartMove(p, g, to) PROVE Fit
    <3> DEFINE b == IF tree[g] = to THEN {} ELSE Below(tree, g)
               j == [Idle EXCEPT !.pc = "move", !.group = g, !.to = to, !.seen = b, !.set = b]
    <3>1. b \in SUBSET Group
      BY DEF Below
    <3>2. Begin(p, j) /\ to # g
      BY <2>4 DEF StartMove
    <3> HIDE DEF b
    <3>3. j \in Job /\ Sound(j)
      BY <3>1, <3>2 DEF Idle, Job, Sound, Verdict
    <3> HIDE DEF j
    <3> QED BY <3>2, <3>3, <1>e
  <2>5. CASE WriteMove(p)
    <3>1. job[p] \in Job /\ Sound(job[p]) /\ job[p].pc = "move"
      BY <2>5 DEF WriteMove
    <3>2. ASSUME NEW q \in Proc PROVE job'[q] \in Job /\ Sound(job'[q])
      <4>1. CASE q # p
        <5>1. job'[q] = job[q] \/ job'[q] = [job[q] EXCEPT !.stale = TRUE]
          BY <4>1, <2>5 DEF WriteMove
        <5>2. job[q] \in Job /\ Sound(job[q])
          OBVIOUS
        <5> QED BY <5>1, <5>2, StaleFits
      <4>2. CASE q = p /\ job[p].set = {}
        BY <4>2, <2>5, IdleFits DEF WriteMove
      <4>3. CASE q = p /\ job[p].set # {}
        <5>1. job'[q] = [job[p] EXCEPT !.pc = "withdraw"]
          BY <4>3, <2>5 DEF WriteMove
        <5>2. job[p].set \in SUBSET Group
          BY <3>1 DEF Sound
        <5> QED BY <5>1, <3>1, <5>2 DEF Job, Sound, Verdict
      <4> QED BY <4>1, <4>2, <4>3
    <3>3. job' = [q \in Proc |-> job'[q]]
      BY <2>5 DEF WriteMove
    <3> QED BY <3>2, <3>3 DEF Fit
  <2>6. CASE WithdrawMoved(p)
    BY <2>6, <1>c DEF WithdrawMoved
  <2>7. ASSUME NEW g \in Group, StartDelete(p, g) PROVE Fit
    <3>1. Below(tree, g) \in SUBSET Group
      BY DEF Below
    <3>2. Begin(p, [Idle EXCEPT !.pc = "delete", !.group = g, !.set = Below(tree, g),
                                !.seen = Below(tree, g)])
      BY <2>7 DEF StartDelete
    <3> QED BY <3>1, <3>2, <1>e DEF Idle, Job, Sound, Verdict
  <2>8. CASE WriteDelete(p)
    BY <2>8, <1>c DEF WriteDelete
  <2> QED BY <1>1, <2>1, <2>2, <2>3, <2>4, <2>5, <2>6, <2>7, <2>8 DEF TreeStep
<1>2. ASSUME NEW p \in Proc, MemberStep(p) PROVE Fit
  <2> USE DEF Elsewhere
  <2>1. ASSUME NEW u \in User, NEW g \in Group, NEW us \in SUBSET User, NEW fs \in SUBSET Role,
               StartAdd(p, u, g, us, fs)
        PROVE  Fit
    BY <2>1, <1>e DEF StartAdd, Idle, Job, Sound, Verdict
  <2>2. CASE UpsertMember(p)
    <3>1. PICK u \in User : job' = [job EXCEPT ![p] =
             IF job[p].set = {u} THEN Idle ELSE [job[p] EXCEPT !.set = job[p].set \ {u}]]
      <4>1. job[p].set \in SUBSET User
        BY <2>2 DEF UpsertMember, Sound
      <4> QED BY <4>1, <2>2 DEF UpsertMember
    <3> DEFINE j == [job[p] EXCEPT !.set = job[p].set \ {u}]
    <3>2. job[p] \in Job /\ Sound(job[p]) /\ job[p].pc = "upsert"
      BY <2>2 DEF UpsertMember
    <3>3. j \in Job /\ Sound(j)
      BY <3>2 DEF Job, Sound, Verdict
    <3>4. CASE job[p].set = {u}
      BY <3>1, <3>4, <1>a, IdleFits
    <3>5. CASE job[p].set # {u}
      <4>1. job' = [job EXCEPT ![p] = j]
        BY <3>1, <3>5
      <4> HIDE DEF j
      <4> QED BY <4>1, <3>3, <1>a
    <3> QED BY <3>4, <3>5
  <2>3. ASSUME NEW u \in User, NEW g \in Group, NEW r \in Role, StartApply(p, u, g, r) PROVE Fit
    <3> DEFINE f == [user |-> u, group |-> g, role |-> r]
    <3>1. f \in Form
      BY DEF Form
    <3>2. Begin(p, [Idle EXCEPT !.pc = "find", !.form = f])
      BY <2>3 DEF StartApply
    <3> HIDE DEF f
    <3> QED BY <3>1, <3>2, <1>e DEF Idle, Job, Sound, Verdict
  <2>4. CASE FindPending(p)
    <3>1. CASE Pending(job[p].form) = {}
      <4>1. job[p] \in Job /\ Sound(job[p]) /\ job[p].pc = "find" /\ Proceed(p, "apply")
        BY <2>4, <3>1 DEF FindPending
      <4>2. [job[p] EXCEPT !.pc = "apply"] \in Job /\ Sound([job[p] EXCEPT !.pc = "apply"])
        BY <4>1 DEF Job, Sound, Verdict
      <4> QED BY <4>1, <4>2, <1>d
    <3>2. CASE Pending(job[p].form) # {}
      BY <2>4, <3>2, <1>c DEF FindPending
    <3> QED BY <3>1, <3>2
  <2>5. CASE InsertForm(p)
    BY <2>5, <1>c DEF InsertForm
  <2>6. ASSUME NEW a \in Application, NEW verb \in {"approve", "reject"}, StartDecide(p, a, verb)
        PROVE  Fit
    BY <2>6, <1>e DEF StartDecide, Idle, Job, Sound, Verdict
  <2>7. ASSUME NEW u \in User, CheckApprover(p, u) PROVE Fit
    <3>1. job[p] \in Job /\ Sound(job[p]) /\ job[p].pc \in {"approve", "reject"}
      BY <2>7 DEF CheckApprover
    <3>2. PICK l \in {"flag", "refuse"} : Proceed(p, l)
      BY <2>7 DEF CheckApprover
    <3>3. [job[p] EXCEPT !.pc = l] \in Job /\ Sound([job[p] EXCEPT !.pc = l])
      BY <3>1 DEF Job, Sound, Verdict
    <3> QED BY <3>2, <3>3, <1>d
  <2>8. CASE SetFlag(p)
    <3>1. job[p] \in Job /\ Sound(job[p]) /\ job[p].pc = "flag" /\ Proceed(p, "record")
      BY <2>8 DEF SetFlag
    <3>2. [job[p] EXCEPT !.pc = "record"] \in Job /\ Sound([job[p] EXCEPT !.pc = "record"])
      BY <3>1 DEF Job, Sound, Verdict
    <3> QED BY <3>1, <3>2, <1>d
  <2>9. CASE Record(p)
    BY <2>9, <1>c DEF Record
  <2> QED BY <1>2, <2>1, <2>2, <2>3, <2>4, <2>5, <2>6, <2>7, <2>8, <2>9 DEF MemberStep
<1>3. ASSUME NEW p \in Proc, FacilityStep(p) \/ DutyStep(p) PROVE Fit
  <2>1. ASSUME NEW u \in User, NEW f \in Facility, NEW g \in Group, StartRelocate(p, u, f, g)
        PROVE  Fit
    <3>1. Managed(u) \in SUBSET Group
      BY DEF Managed, Below
    <3>2. Begin(p, [Idle EXCEPT !.pc = "source", !.to = f, !.group = g, !.set = Managed(u)])
      BY <2>1 DEF StartRelocate
    <3> QED BY <3>1, <3>2, <1>e DEF Idle, Job, Sound, Verdict
  <2>2. CASE CheckSource(p)
    <3>1. job[p] \in Job /\ Sound(job[p]) /\ job[p].pc = "source" /\ Proceed(p, "relocate")
      BY <2>2 DEF CheckSource
    <3>2. [job[p] EXCEPT !.pc = "relocate"] \in Job /\ Sound([job[p] EXCEPT !.pc = "relocate"])
      BY <3>1 DEF Job, Sound, Verdict
    <3> QED BY <3>1, <3>2, <1>d
  <2>3. CASE Relocate(p) \/ Vacate(p) \/ Unlist(p)
    BY <2>3, <1>c DEF Relocate, Vacate, Unlist
  <2>4. ASSUME NEW u \in User, NEW f \in Facility, StartVacate(p, u, f) PROVE Fit
    BY <2>4, <1>e DEF StartVacate, Idle, Job, Sound, Verdict
  <2>5. ASSUME NEW u \in User, NEW d \in Duty, StartUnlist(p, u, d) PROVE Fit
    BY <2>5, <1>e DEF StartUnlist, Idle, Job, Sound, Verdict
  <2> QED BY <1>3, <2>1, <2>2, <2>3, <2>4, <2>5 DEF FacilityStep, DutyStep
<1>4. ASSUME NEW p \in Proc, Abort(p) PROVE Fit
  BY <1>4, <1>c DEF Abort
<1>5. CASE UNCHANGED job
  BY <1>5, <1>b
<1>6. ASSUME ~\E p \in Proc : TreeStep(p) \/ MemberStep(p) \/ FacilityStep(p) \/ DutyStep(p) \/ Abort(p)
      PROVE  UNCHANGED job
  BY <1>6 DEF DirectoryNext, InsertGroup, DeleteBare, OpenGrant, CloseGrants, RemoveMember,
     TimePasses, DropFacility, AddFacility, PlaceFacility, AddManaged, EraseDuty, AddDuty,
     OfferDuty, Occupy
<1> QED BY <1>1, <1>2, <1>3, <1>4, <1>5, <1>6 DEF Fit

\* The tables that are about one kind of rows: what changes them, and what not.
TreeTables == <<tree, grants, tangled, held>>
FormTables == <<forms, status, given, contested>>
PlaceTables == <<facility, duty, used>>

LEMMA PlacesStep ==
  ASSUME Kinds, DirectoryNext
  PROVE  /\ facility' \in [Facility -> Group \cup {Gone}]
         /\ duty' \in [Duty -> Group \cup {None, Gone}]
         /\ \A x \in used' : InPlace(x)'
<1> DEFINE Fit == /\ facility' \in [Facility -> Group \cup {Gone}]
                  /\ duty' \in [Duty -> Group \cup {None, Gone}]
                  /\ \A x \in used' : InPlace(x)'
<1> USE DirectoryConstantFacts DEF Kinds, DirectoryTypeOK, InPlace
<1>a. ASSUME UNCHANGED PlaceTables PROVE Fit
  BY <1>a DEF PlaceTables
<1>1. ASSUME NEW p \in Proc, TreeStep(p) \/ MemberStep(p) \/ Abort(p) PROVE UNCHANGED PlaceTables
  BY <1>1 DEF TreeStep, MemberStep, Abort, PlaceTables, Others, Elsewhere, tables, history,
     StartChild, InsertChild, Appoint, StartMove, WriteMove, WithdrawMoved, StartDelete,
     WriteDelete, StartAdd, UpsertMember, StartApply, FindPending, InsertForm, StartDecide,
     CheckApprover, SetFlag, Record
<1>2. ASSUME NEW p \in Proc, FacilityStep(p) \/ DutyStep(p) PROVE Fit
  <2>1. Sound(job[p]) /\ job[p] \in Job
    OBVIOUS
  <2>2. CASE Relocate(p)
    BY <2>1, <2>2 DEF Relocate, Sound, Exists
  <2>3. CASE Vacate(p)
    BY <2>1, <2>3 DEF Vacate, Sound
  <2>4. CASE Unlist(p)
    BY <2>1, <2>4 DEF Unlist, Sound
  <2>5. CASE ~Relocate(p) /\ ~Vacate(p) /\ ~Unlist(p)
    BY <2>5, <1>2, <1>a DEF FacilityStep, DutyStep, StartRelocate, CheckSource, StartVacate,
       StartUnlist, PlaceTables, tables
  <2> QED BY <2>2, <2>3, <2>4, <2>5
<1>3. ASSUME NEW f \in Facility, NEW g \in Group, AddFacility(f, g) \/ PlaceFacility(f, g) PROVE Fit
  BY <1>3 DEF AddFacility, PlaceFacility
<1>4. ASSUME NEW f \in Facility, DropFacility(f) PROVE Fit
  BY <1>4 DEF DropFacility
<1>5. ASSUME NEW d \in Duty, NEW g \in Group \cup {None}, AddDuty(d, g) PROVE Fit
  BY <1>5 DEF AddDuty
<1>6. ASSUME NEW d \in Duty, EraseDuty(d) PROVE Fit
  BY <1>6 DEF EraseDuty
<1>7. ASSUME NEW x \in Facility \cup Duty, Occupy(x) PROVE Fit
  BY <1>7 DEF Occupy
<1>8. ASSUME NEW g \in Group, DeleteBare(g) \/ (\E to \in Group \cup {None} : InsertGroup(g, to))
                              \/ \E s \in Service : OpenGrant(g, s)
      PROVE  Fit
  BY <1>8, <1>a DEF DeleteBare, InsertGroup, OpenGrant, Others, PlaceTables
<1>9. ASSUME NEW X \in SUBSET grants, CloseGrants(X) PROVE Fit
  BY <1>9, <1>a DEF CloseGrants, Others, PlaceTables
<1>10. ASSUME NEW m \in Member, RemoveMember(m) \/ TimePasses(m) PROVE Fit
  <2>1. UNCHANGED PlaceTables
    BY <1>10 DEF RemoveMember, TimePasses, Others, PlaceTables
  <2> QED BY <2>1, <1>a
<1> HIDE DEF Fit
<1>11. ASSUME NEW p \in Proc, TreeStep(p) \/ MemberStep(p) \/ Abort(p) PROVE Fit
  BY <1>11, <1>1, <1>a
<1> QED BY <1>2, <1>3, <1>4, <1>5, <1>6, <1>7, <1>8, <1>9, <1>10, <1>11
        DEF DirectoryNext, AddManaged, OfferDuty, Fit

\* The steps about applications, and the others.
FormStep(p) ==
  \/ \E u \in User, g \in Group, r \in Role : StartApply(p, u, g, r)
  \/ FindPending(p) \/ InsertForm(p)
  \/ \E a \in Application, verb \in {"approve", "reject"} : StartDecide(p, a, verb)
  \/ \E u \in User : CheckApprover(p, u)
  \/ SetFlag(p) \/ Record(p)

\* Requests that neither write nor decide an application.
Away(j) == j.pc \notin Verdict \cup {"find", "apply"}

FormsRest ==
  /\ UNCHANGED FormTables
  /\ \A q \in Proc : job'[q] = job[q] \/ (Away(job[q]) /\ Away(job'[q]))

LEMMA FormKinds ==
  ASSUME Kinds, DirectoryNext
  PROVE  (\E p \in Proc : FormStep(p) \/ Abort(p)) \/ FormsRest
<1> USE DEF FormsRest, FormTables, Away, Kinds, DirectoryTypeOK
<1>i. Idle.pc = "idle" /\ Idle \in Job /\ Away(Idle)
  BY IdleFits DEF Idle, Verdict
<1>1. ASSUME NEW p \in Proc, TreeStep(p) PROVE FormsRest
  <2>1. UNCHANGED FormTables
    BY <1>1 DEF TreeStep, Others, tables, history,
       StartChild, InsertChild, Appoint, StartMove, WriteMove, WithdrawMoved, StartDelete, WriteDelete
  <2>2. ASSUME NEW q \in Proc, q # p PROVE job'[q] = job[q] \/ (Away(job[q]) /\ Away(job'[q]))
    <3>1. CASE WriteMove(p)
      BY <2>2, <3>1 DEF WriteMove, Job, Verdict
    <3>2. CASE ~WriteMove(p)
      BY <1>1, <2>2, <3>2 DEF TreeStep, Begin, Respond,
       StartChild, InsertChild, Appoint, StartMove, WithdrawMoved, StartDelete, WriteDelete
    <3> QED BY <3>1, <3>2
  <2>3. Away(job[p])
    BY <1>1, <1>i DEF TreeStep, Begin, Verdict,
       StartChild, InsertChild, Appoint, StartMove, WriteMove, WithdrawMoved, StartDelete, WriteDelete
  <2>4. Away(job'[p])
    <3>1. CASE WriteMove(p)
      BY <3>1, <1>i DEF WriteMove, Job, Verdict
    <3>2. CASE InsertChild(p)
      BY <3>2 DEF InsertChild, Job, Verdict
    <3>3. CASE ~WriteMove(p) /\ ~InsertChild(p)
      <4>1. CASE Respond(p)
        BY <4>1, <1>i DEF Respond
      <4>2. ASSUME NEW u \in User, NEW to \in Group, NEW a \in User, StartChild(p, u, to, a)
            PROVE  Away(job'[p])
        BY <4>2, <1>i DEF StartChild, Begin, Job, Verdict
      <4>3. ASSUME NEW g \in Group, NEW to \in Group \cup {None}, StartMove(p, g, to)
            PROVE  Away(job'[p])
        BY <4>3, <1>i DEF StartMove, Begin, Job, Verdict
      <4>4. ASSUME NEW g \in Group, StartDelete(p, g) PROVE Away(job'[p])
        BY <4>4, <1>i DEF StartDelete, Begin, Job, Verdict
      <4> HIDE DEF Away
      <4> QED BY <1>1, <3>3, <4>1, <4>2, <4>3, <4>4 DEF TreeStep, Appoint, WithdrawMoved, WriteDelete
    <3> QED BY <3>1, <3>2, <3>3
  <2> QED BY <2>1, <2>2, <2>3, <2>4
<1>2. ASSUME NEW p \in Proc, MemberStep(p), ~FormStep(p) PROVE FormsRest
  <2>1. CASE UpsertMember(p)
    <3>1. UNCHANGED FormTables /\ job[p].pc = "upsert"
      BY <2>1 DEF UpsertMember, Others
    <3>2. \A q \in Proc : q # p => job'[q] = job[q]
      BY <2>1 DEF UpsertMember
    <3>3. job'[p].pc \in {"idle", "upsert"}
      BY <2>1 DEF UpsertMember, Job, Idle
    <3> QED BY <3>1, <3>2, <3>3 DEF Verdict
  <2>2. ASSUME NEW u \in User, NEW g \in Group, NEW us \in SUBSET User, NEW fs \in SUBSET Role,
               StartAdd(p, u, g, us, fs)
        PROVE  FormsRest
    BY <2>2 DEF StartAdd, Begin, tables, history, Verdict, Idle
  <2> QED BY <1>2, <2>1, <2>2 DEF MemberStep, FormStep
<1>3. ASSUME NEW p \in Proc, FacilityStep(p) \/ DutyStep(p) PROVE FormsRest
  <2>1. UNCHANGED FormTables
    BY <1>3 DEF FacilityStep, DutyStep, Organised, tables, history, StartRelocate, CheckSource,
       Relocate, StartVacate, Vacate, StartUnlist, Unlist
  <2>2. \A q \in Proc : q # p => job'[q] = job[q]
    BY <1>3 DEF FacilityStep, DutyStep, Begin, Proceed, Respond, StartRelocate, CheckSource,
       Relocate, StartVacate, Vacate, StartUnlist, Unlist
  <2>3. Away(job[p])
    BY <1>3, <1>i DEF FacilityStep, DutyStep, Begin, StartRelocate, CheckSource, Verdict,
       Relocate, StartVacate, Vacate, StartUnlist, Unlist
  <2>4. Away(job'[p])
    <3>1. CASE CheckSource(p)
      BY <3>1 DEF CheckSource, Proceed, Job, Verdict
    <3>2. CASE ~CheckSource(p)
      <4>1. CASE Respond(p)
        BY <4>1, <1>i DEF Respond
      <4>2. ASSUME NEW u \in User, NEW f \in Facility, NEW g \in Group, StartRelocate(p, u, f, g)
            PROVE  Away(job'[p])
        BY <4>2, <1>i DEF StartRelocate, Begin, Job, Verdict
      <4>3. ASSUME NEW u \in User, NEW f \in Facility, StartVacate(p, u, f) PROVE Away(job'[p])
        BY <4>3, <1>i DEF StartVacate, Begin, Job, Verdict
      <4>4. ASSUME NEW u \in User, NEW d \in Duty, StartUnlist(p, u, d) PROVE Away(job'[p])
        BY <4>4, <1>i DEF StartUnlist, Begin, Job, Verdict
      <4> HIDE DEF Away
      <4> QED BY <1>3, <3>2, <4>1, <4>2, <4>3, <4>4 DEF FacilityStep, DutyStep, Relocate, Vacate, Unlist
    <3> QED BY <3>1, <3>2
  <2> QED BY <2>1, <2>2, <2>3, <2>4
<1>4. ASSUME ~\E p \in Proc : TreeStep(p) \/ MemberStep(p) \/ FacilityStep(p) \/ DutyStep(p) \/ Abort(p)
      PROVE  FormsRest
  BY <1>4 DEF DirectoryNext, InsertGroup, DeleteBare, OpenGrant, CloseGrants, RemoveMember,
     TimePasses, DropFacility, AddFacility, PlaceFacility, AddManaged, EraseDuty, AddDuty,
     OfferDuty, Occupy, Others, Organised, history
<1> HIDE DEF FormsRest
<1> QED BY <1>1, <1>2, <1>3, <1>4

\* Who decides, or is about to write, an application: what its steps do to the others.
LEMMA FormStepAlone ==
  ASSUME Kinds, NEW p \in Proc, FormStep(p) \/ Abort(p)
  PROVE  \A q \in Proc : q # p => job'[q] = job[q]
<1> USE DEF Kinds, DirectoryTypeOK
<1>1. CASE Abort(p)
  BY <1>1 DEF Abort, Respond
<1>2. CASE FormStep(p)
  BY <1>2 DEF FormStep, Begin, Proceed, Respond, StartApply, FindPending, InsertForm, StartDecide,
     CheckApprover, SetFlag, Record
<1> QED BY <1>1, <1>2

LEMMA FormsStep ==
  ASSUME Kinds, DirectoryNext
  PROVE  /\ forms' \in [Application -> Form \cup {Gone}]
         /\ status' \in [Application -> Status \cup {Gone}]
         /\ given' \subseteq Application /\ contested' \subseteq Application
         /\ FormsKnown'
<1> DEFINE Fit == /\ forms' \in [Application -> Form \cup {Gone}]
                  /\ status' \in [Application -> Status \cup {Gone}]
                  /\ given' \subseteq Application /\ contested' \subseteq Application
                  /\ FormsKnown'
<1> USE DirectoryConstantFacts DEF Kinds, DirectoryTypeOK, FormsKnown
<1>i. Idle.pc = "idle" /\ Idle \in Job /\ "idle" \notin Verdict /\ "find" \notin Verdict
  BY IdleFits DEF Idle, Verdict
<1>1. CASE FormsRest
  BY <1>1 DEF FormsRest, FormTables, Away, Verdict
<1>2. ASSUME NEW p \in Proc, Abort(p) PROVE Fit
  <2>1. UNCHANGED <<forms, status, given>> /\ job' = [job EXCEPT ![p] = Idle]
    BY <1>2 DEF Abort, Respond, tables
  <2>2. contested' \subseteq Application
    BY <1>2 DEF Abort, Sound, Verdict
  <2> QED BY <2>1, <2>2, <1>i
<1>3. ASSUME NEW p \in Proc, FormStep(p) PROVE Fit
  <2>1. Sound(job[p]) /\ job[p] \in Job /\ \A q \in Proc : q # p => job'[q] = job[q]
    BY <1>3, FormStepAlone
  <2>2. ASSUME NEW u \in User, NEW g \in Group, NEW r \in Role, StartApply(p, u, g, r) PROVE Fit
    <3>1. job'[p].pc = "find" /\ UNCHANGED FormTables
      BY <2>2, <1>i DEF StartApply, Begin, Job, tables, history, FormTables
    <3> QED BY <3>1, <2>1, <1>i DEF FormTables
  <2>3. CASE FindPending(p)
    <3>1. job'[p].pc \in {"idle", "apply"} /\ UNCHANGED FormTables
      BY <2>3, <1>i DEF FindPending, Proceed, Respond, Job, tables, history, FormTables
    <3> QED BY <3>1, <2>1, <1>i DEF FormTables, Verdict
  <2>4. CASE InsertForm(p)
    <3>1. job'[p] = Idle /\ job[p].form \in Form
      BY <2>4, <2>1 DEF InsertForm, Respond, Sound
    <3> QED BY <3>1, <2>1, <2>4, <1>i DEF InsertForm, Status
  <2>5. ASSUME NEW a \in Application, NEW verb \in {"approve", "reject"}, StartDecide(p, a, verb)
        PROVE  Fit
    <3>1. job'[p].to = a /\ status[a] # Gone /\ UNCHANGED <<forms, status, given>>
      BY <2>5, <1>i DEF StartDecide, Begin, Job, tables, Status
    <3>2. contested' \subseteq Application
      BY <2>5 DEF StartDecide
    <3> QED BY <3>1, <3>2, <2>1
  <2>6. ASSUME NEW u \in User, CheckApprover(p, u) PROVE Fit
    <3>1. job'[p].to = job[p].to /\ job[p].pc \in Verdict /\ UNCHANGED FormTables
      BY <2>6 DEF CheckApprover, Proceed, Job, tables, history, FormTables, Verdict
    <3> QED BY <3>1, <2>1 DEF FormTables
  <2>7. CASE SetFlag(p)
    <3>1. /\ job'[p].to = job[p].to /\ job[p].pc \in Verdict /\ job[p].to \in Application
          /\ UNCHANGED <<forms, status, contested>>
      BY <2>7, <2>1 DEF SetFlag, Proceed, Job, Verdict, Sound
    <3>2. given' \subseteq Application
      BY <2>7, <3>1 DEF SetFlag
    <3> QED BY <3>1, <3>2, <2>1
  <2>8. CASE Record(p)
    <3>1. /\ job'[p] = Idle /\ job[p].pc \in Verdict /\ job[p].to \in Application
          /\ UNCHANGED <<forms, given, contested>>
      BY <2>8, <2>1 DEF Record, Respond, Verdict, Sound
    <3>2. PICK v \in Status : status' = [status EXCEPT ![job[p].to] = v]
      BY <2>8 DEF Record, Status
    <3> QED BY <3>1, <3>2, <2>1, <1>i
  <2> HIDE DEF Fit
  <2> QED BY <1>3, <2>2, <2>3, <2>4, <2>5, <2>6, <2>7, <2>8 DEF FormStep
<1> HIDE DEF Fit
<1> QED BY <1>1, <1>2, <1>3, FormKinds DEF Fit

-----------------------------------------------------------------------------
(* Applications                                                            *)

\* Two requests that decide the same application contest it.  Without, it is pending
\* as long as one does, and its flag is set by the one that is to record it.
Contested ==
  \A p, q \in Proc : p # q /\ job[p].pc \in Verdict /\ job[q].pc \in Verdict
                      /\ job[p].to = job[q].to => job[p].to \in contested
Undecided ==
  \A p \in Proc : job[p].pc \in Verdict /\ job[p].to \notin contested =>
     /\ status[job[p].to] = "pending"
     /\ job[p].to \in given => job[p].pc = "record"
Flagged ==
  \A a \in given \ contested :
     status[a] = "approved" \/ \E p \in Proc : job[p].pc = "record" /\ job[p].to = a
Decided == Contested /\ Undecided /\ Flagged

LEMMA DecidedStep ==
  ASSUME Kinds, Decided, DirectoryNext
  PROVE  Decided'
<1> USE DirectoryConstantFacts DEF Kinds, DirectoryTypeOK, Decided, Contested, Undecided, Flagged
<1>i. Idle.pc = "idle" /\ Idle \in Job /\ "idle" \notin Verdict /\ "find" \notin Verdict
      /\ "apply" \notin Verdict
  BY IdleFits DEF Idle, Verdict
<1>1. CASE FormsRest
  BY <1>1 DEF FormsRest, FormTables, Away, Verdict
<1>2. ASSUME NEW p \in Proc, Abort(p) PROVE Decided'
  <2>1. UNCHANGED <<forms, status, given>> /\ job' = [job EXCEPT ![p] = Idle]
    BY <1>2 DEF Abort, Respond, tables
  <2>2. contested \subseteq contested' /\ (job[p].pc = "record" => job[p].to \in contested')
    BY <1>2 DEF Abort
  <2>3. job'[p] = Idle /\ \A q \in Proc : q # p => job'[q] = job[q]
    BY <2>1
  <2> QED BY <2>1, <2>2, <2>3, <1>i
<1>3. ASSUME NEW p \in Proc, FormStep(p) PROVE Decided'
  <2>1. Sound(job[p]) /\ job[p] \in Job /\ \A q \in Proc : q # p => job'[q] = job[q]
    BY <1>3, FormStepAlone
  <2>2. ASSUME job[p].pc \notin Verdict, job'[p].pc \notin Verdict, UNCHANGED FormTables
        PROVE  Decided'
    BY <2>1, <2>2 DEF FormTables, Verdict
  <2>3. ASSUME NEW u \in User, NEW g \in Group, NEW r \in Role, StartApply(p, u, g, r)
        PROVE  Decided'
    BY <2>2, <2>3, <1>i DEF StartApply, Begin, Job, tables, history, FormTables
  <2>4. CASE FindPending(p)
    <3>1. job'[p].pc \in {"idle", "apply"}
      BY <2>4, <1>i DEF FindPending, Proceed, Respond, Job
    <3> QED BY <3>1, <2>2, <2>4, <1>i DEF FindPending, tables, history, FormTables
  <2>5. CASE InsertForm(p)
    <3>1. PICK a \in Application : status[a] = Gone /\ status' = [status EXCEPT ![a] = "pending"]
      BY <2>5 DEF InsertForm
    <3>2. job'[p] = Idle /\ job[p].pc = "apply" /\ UNCHANGED <<given, contested>>
      BY <2>5 DEF InsertForm, Respond
    <3>3. \A q \in Proc : job[q].pc \in Verdict => job[q].to # a
      BY <3>1 DEF FormsKnown
    <3>4. a \notin given \ contested
      BY <3>1, <3>3 DEF Status, Verdict
    <3>5. \A b \in Application : b # a => status'[b] = status[b]
      BY <3>1
    <3>6. \A q \in Proc : job[q].pc \in Verdict => job[q].to \in Application
      BY DEF Sound
    <3>7. \A q \in Proc : job'[q].pc \in Verdict => q # p /\ job'[q] = job[q]
      BY <2>1, <3>2, <1>i
    <3>8. Contested'
      BY <3>2, <3>7
    <3>9. Undecided'
      BY <3>2, <3>3, <3>5, <3>6, <3>7
    <3>10. Flagged'
      <4> SUFFICES ASSUME NEW b \in given \ contested, status[b] # "approved"
                   PROVE  \E q \in Proc : job'[q].pc = "record" /\ job'[q].to = b
        BY <3>2, <3>4, <3>5
      <4>1. PICK q \in Proc : job[q].pc = "record" /\ job[q].to = b
        OBVIOUS
      <4>2. q # p
        BY <3>2, <4>1
      <4> QED BY <4>1, <4>2, <2>1
    <3> QED BY <3>8, <3>9, <3>10
  <2>6. ASSUME NEW a \in Application, NEW verb \in {"approve", "reject"}, StartDecide(p, a, verb)
        PROVE  Decided'
    <3>1. job[p] = Idle /\ job'[p].to = a /\ job'[p].pc = verb /\ verb \in Verdict
      BY <2>6, <1>i DEF StartDecide, Begin, Job, Verdict
    <3>2. /\ status[a] = "pending" /\ UNCHANGED <<forms, status, given>>
          /\ contested \subseteq contested'
      BY <2>6 DEF StartDecide, tables
    <3>3. \A q \in Proc : job[q].pc \in Verdict /\ job[q].to = a => a \in contested'
      BY <2>6 DEF StartDecide, Deciding, Verdict
    <3>4. a \in given => a \in contested'
      BY <3>2, <3>3 DEF Verdict
    <3> QED BY <2>1, <3>1, <3>2, <3>3, <3>4, <1>i
  <2>7. ASSUME NEW u \in User, CheckApprover(p, u) PROVE Decided'
    <3>1. /\ job'[p].to = job[p].to /\ job'[p].pc \in Verdict /\ UNCHANGED FormTables
          /\ job[p].pc \in Verdict /\ job[p].pc # "record"
      BY <2>7 DEF CheckApprover, Proceed, Job, tables, history, FormTables, Verdict
    <3>2. Contested'
      BY <3>1, <2>1 DEF FormTables
    <3>3. Undecided'
      BY <3>1, <2>1 DEF FormTables
    <3>4. Flagged'
      <4> SUFFICES ASSUME NEW b \in given \ contested, status[b] # "approved"
                   PROVE  \E q \in Proc : job'[q].pc = "record" /\ job'[q].to = b
        BY <3>1 DEF FormTables
      <4>1. PICK q \in Proc : job[q].pc = "record" /\ job[q].to = b
        OBVIOUS
      <4>2. q # p
        BY <3>1, <4>1
      <4> QED BY <4>1, <4>2, <2>1
    <3> QED BY <3>2, <3>3, <3>4
  <2>8. CASE SetFlag(p)
    <3>1. /\ job'[p].to = job[p].to /\ job[p].pc \in Verdict /\ job'[p].pc = "record"
          /\ UNCHANGED <<forms, status, contested>> /\ "record" \in Verdict
      BY <2>8, <2>1 DEF SetFlag, Proceed, Job, Verdict
    <3>2. given' \subseteq given \cup {job[p].to} /\ given \subseteq given' /\ job[p].pc = "flag"
      BY <2>8, <3>1 DEF SetFlag
    <3>3. Contested'
      BY <3>1, <2>1
    <3>4. Undecided'
      BY <3>1, <3>2, <2>1
    <3>5. Flagged'
      <4> SUFFICES ASSUME NEW b \in given' \ contested, status[b] # "approved"
                   PROVE  \E q \in Proc : job'[q].pc = "record" /\ job'[q].to = b
        BY <3>1
      <4>1. CASE b = job[p].to
        BY <3>1, <4>1
      <4>2. CASE b # job[p].to
        <5>1. PICK q \in Proc : job[q].pc = "record" /\ job[q].to = b
          BY <3>2, <4>2
        <5> QED BY <5>1, <4>2, <2>1
      <4> QED BY <4>1, <4>2
    <3> QED BY <3>3, <3>4, <3>5
  <2>9. CASE Record(p)
    <3>1. /\ job'[p] = Idle /\ job[p].pc \in {"record", "refuse"} /\ job[p].to \in Application
          /\ UNCHANGED <<forms, given, contested>> /\ {"record", "refuse"} \subseteq Verdict
      BY <2>9, <2>1 DEF Record, Respond, Verdict, Sound
    <3>2. /\ job[p].pc = "record" => status'[job[p].to] = "approved"
          /\ \A b \in Application : b # job[p].to => status'[b] = status[b]
      BY <2>9, <3>1 DEF Record
    <3>3. \A q \in Proc : q # p /\ job[q].pc \in Verdict /\ job[q].to \notin contested
                            => job[q].to # job[p].to /\ job[q].to \in Application
      BY <3>1 DEF Sound
    <3>4. job[p].to \in given \ contested => job[p].pc = "record"
      BY <3>1
    <3>5. \A q \in Proc : job'[q].pc \in Verdict => q # p /\ job'[q] = job[q]
      BY <2>1, <3>1, <1>i
    <3>6. Contested'
      BY <3>1, <3>5
    <3>7. Undecided'
      BY <3>1, <3>2, <3>3, <3>5
    <3>8. Flagged'
      <4> SUFFICES ASSUME NEW b \in given \ contested, status'[b] # "approved"
                   PROVE  \E q \in Proc : job'[q].pc = "record" /\ job'[q].to = b
        BY <3>1
      <4>1. b # job[p].to /\ b \in Application
        BY <3>2, <3>4
      <4>2. PICK q \in Proc : job[q].pc = "record" /\ job[q].to = b
        BY <3>2, <4>1
      <4> QED BY <4>1, <4>2, <2>1
    <3> QED BY <3>6, <3>7, <3>8
  <2> QED BY <1>3, <2>3, <2>4, <2>5, <2>6, <2>7, <2>8, <2>9 DEF FormStep
<1> QED BY <1>1, <1>2, <1>3, FormKinds

\* Requests that found no pending application and are about to insert one.
Inserting(f) == {p \in Proc : job[p].pc = "apply" /\ job[p].form = f}

Backlog == \A f \in Form :
  Cardinality(Pending(f)) + Cardinality(Inserting(f)) <= Cardinality(Proc)

LEMMA Sizes ==
  /\ Cardinality(Proc) \in Nat
  /\ \A f : IsFiniteSet(Pending(f)) /\ Cardinality(Pending(f)) \in Nat
  /\ \A f : IsFiniteSet(Inserting(f)) /\ Cardinality(Inserting(f)) \in Nat
           /\ Cardinality(Inserting(f)) <= Cardinality(Proc)
<1>1. \A f : Pending(f) \in SUBSET Application /\ Inserting(f) \in SUBSET Proc
  BY DEF Pending, Inserting
<1> QED BY <1>1, DirectoryConstantFacts, FS_Subset, FS_CardinalityType

LEMMA Shrinks ==
  ASSUME NEW f \in Form, Pending(f)' \subseteq Pending(f), Inserting(f)' \subseteq Inserting(f)
  PROVE  /\ Cardinality(Pending(f)') \in Nat /\ Cardinality(Inserting(f)') \in Nat
         /\ Cardinality(Pending(f)') <= Cardinality(Pending(f))
         /\ Cardinality(Inserting(f)') <= Cardinality(Inserting(f))
<1>1. Pending(f)' \in SUBSET Pending(f) /\ Inserting(f)' \in SUBSET Inserting(f)
  OBVIOUS
<1>2. IsFiniteSet(Pending(f)') /\ Cardinality(Pending(f)') <= Cardinality(Pending(f))
  BY <1>1, Sizes, FS_Subset
<1>3. IsFiniteSet(Inserting(f)') /\ Cardinality(Inserting(f)') <= Cardinality(Inserting(f))
  BY <1>1, Sizes, FS_Subset
<1> QED BY <1>2, <1>3, FS_CardinalityType

LEMMA BacklogStep ==
  ASSUME Kinds, Backlog, DirectoryNext
  PROVE  Backlog'
<1> SUFFICES ASSUME NEW f \in Form
             PROVE  Cardinality(Pending(f)') + Cardinality(Inserting(f)') <= Cardinality(Proc)
  BY DEF Backlog
<1> DEFINE Fit == Cardinality(Pending(f)') + Cardinality(Inserting(f)') <= Cardinality(Proc)
<1>0. Cardinality(Pending(f)) + Cardinality(Inserting(f)) <= Cardinality(Proc)
  BY DEF Backlog
<1> USE DirectoryConstantFacts DEF Kinds, DirectoryTypeOK
<1>i. Idle.pc = "idle" /\ Idle \in Job
  BY IdleFits DEF Idle
<1>a. ASSUME Pending(f)' \subseteq Pending(f), Inserting(f)' \subseteq Inserting(f) PROVE Fit
  BY <1>a, <1>0, Shrinks, Sizes
<1>1. CASE FormsRest
  <2>1. Pending(f)' = Pending(f)
    BY <1>1 DEF FormsRest, FormTables, Pending
  <2>2. Inserting(f)' \subseteq Inserting(f)
    BY <1>1 DEF FormsRest, Inserting, Away
  <2> QED BY <2>1, <2>2, <1>a
<1>2. ASSUME NEW p \in Proc, Abort(p) PROVE Fit
  <2>1. Pending(f)' = Pending(f)
    BY <1>2 DEF Abort, tables, Pending
  <2>2. Inserting(f)' \subseteq Inserting(f)
    BY <1>2, <1>i DEF Abort, Respond, Inserting
  <2> QED BY <2>1, <2>2, <1>a
<1>3. ASSUME NEW p \in Proc, FormStep(p) PROVE Fit
  <2>1. Sound(job[p]) /\ job[p] \in Job /\ \A q \in Proc : q # p => job'[q] = job[q]
    BY <1>3, FormStepAlone
  <2>2. ASSUME job'[p].pc # "apply", UNCHANGED <<forms, status>> PROVE Fit
    <3>1. Pending(f)' = Pending(f)
      BY <2>2 DEF Pending
    <3>2. Inserting(f)' \subseteq Inserting(f)
      BY <2>1, <2>2 DEF Inserting
    <3> QED BY <3>1, <3>2, <1>a
  <2>3. ASSUME NEW u \in User, NEW g \in Group, NEW r \in Role, StartApply(p, u, g, r) PROVE Fit
    <3>1. job'[p].pc = "find" /\ UNCHANGED <<forms, status>>
      BY <2>3, <1>i DEF StartApply, Begin, Job, tables
    <3> QED BY <3>1, <2>2
  <2>4. CASE FindPending(p) /\ job'[p].pc # "apply"
    BY <2>2, <2>4 DEF FindPending, tables
  <2>5. CASE FindPending(p) /\ job'[p].pc = "apply"
    <3>1. Pending(job[p].form) = {} /\ job'[p].form = job[p].form /\ UNCHANGED <<forms, status>>
      BY <2>1, <2>5, <1>i DEF FindPending, Proceed, Respond, Job, tables
    <3>2. Pending(f)' = Pending(f)
      BY <3>1 DEF Pending
    <3>3. CASE f # job[p].form
      <4>1. Inserting(f)' \subseteq Inserting(f)
        BY <2>1, <3>1, <3>3 DEF Inserting
      <4> QED BY <3>2, <4>1, <1>a
    <3>4. CASE f = job[p].form
      <4>1. Cardinality(Pending(f)') = 0
        BY <3>1, <3>2, <3>4, FS_EmptySet
      <4>2. Inserting(f)' \in SUBSET Proc
        BY DEF Inserting
      <4>3. Cardinality(Inserting(f)') \in Nat /\ Cardinality(Inserting(f)') <= Cardinality(Proc)
        BY <4>2, FS_Subset, FS_CardinalityType
      <4> QED BY <4>1, <4>3
    <3> QED BY <3>3, <3>4
  <2>6. CASE InsertForm(p)
    <3>1. PICK a \in Application : /\ status[a] = Gone
                                  /\ forms' = [forms EXCEPT ![a] = job[p].form]
                                  /\ status' = [status EXCEPT ![a] = "pending"]
      BY <2>6 DEF InsertForm
    <3>2. job'[p] = Idle /\ job[p].pc = "apply"
      BY <2>6 DEF InsertForm, Respond
    <3>3. a \notin Pending(f)
      BY <3>1 DEF Pending, Status
    <3>4. CASE f # job[p].form
      <4>1. Pending(f)' \subseteq Pending(f)
        BY <3>1, <3>4 DEF Pending
      <4>2. Inserting(f)' \subseteq Inserting(f)
        BY <2>1, <3>2, <1>i DEF Inserting
      <4> QED BY <4>1, <4>2, <1>a
    <3>5. CASE f = job[p].form
      <4>1. Pending(f)' = Pending(f) \cup {a}
        BY <3>1, <3>5 DEF Pending
      <4>2. Inserting(f)' = Inserting(f) \ {p} /\ p \in Inserting(f)
        BY <2>1, <3>2, <3>5, <1>i DEF Inserting
      <4>3. Cardinality(Pending(f)') = Cardinality(Pending(f)) + 1
        BY <3>3, <4>1, Sizes, FS_AddElement
      <4>4. Cardinality(Inserting(f)') = Cardinality(Inserting(f)) - 1
        BY <4>2, Sizes, FS_RemoveElement
      <4> QED BY <4>3, <4>4, <1>0, Sizes
    <3> QED BY <3>4, <3>5
  <2>7. ASSUME NEW a \in Application, NEW verb \in {"approve", "reject"}, StartDecide(p, a, verb)
        PROVE  Fit
    <3>1. job'[p].pc # "apply" /\ UNCHANGED <<forms, status>>
      BY <2>7, <1>i DEF StartDecide, Begin, Job, tables
    <3> QED BY <3>1, <2>2
  <2>8. ASSUME NEW u \in User, CheckApprover(p, u) PROVE Fit
    <3>1. job'[p].pc # "apply" /\ UNCHANGED <<forms, status>>
      BY <2>1, <2>8 DEF CheckApprover, Proceed, Job, tables
    <3> QED BY <3>1, <2>2
  <2>9. CASE SetFlag(p)
    <3>1. job'[p].pc # "apply" /\ UNCHANGED <<forms, status>>
      BY <2>1, <2>9 DEF SetFlag, Proceed, Job
    <3> QED BY <3>1, <2>2
  <2>10. CASE Record(p)
    <3>1. job'[p].pc # "apply" /\ UNCHANGED forms
      BY <2>10, <1>i DEF Record, Respond
    <3>2. \A b \in Application : status'[b] = status[b] \/ status'[b] \in {"approved", "rejected"}
      BY <2>10 DEF Record
    <3>3. Pending(f)' \subseteq Pending(f)
      BY <3>1, <3>2 DEF Pending
    <3>4. Inserting(f)' \subseteq Inserting(f)
      BY <3>1, <2>1 DEF Inserting
    <3> QED BY <3>3, <3>4, <1>a
  <2> HIDE DEF Fit
  <2> QED BY <1>3, <2>3, <2>4, <2>5, <2>6, <2>7, <2>8, <2>9, <2>10 DEF FormStep
<1> HIDE DEF Fit
<1> QED BY <1>1, <1>2, <1>3, FormKinds DEF Fit

-----------------------------------------------------------------------------
(* Memberships                                                             *)

LEMMA MembersStep ==
  ASSUME Kinds, DirectoryNext
  PROVE  members' \in [Member -> Membership \cup {Gone}]
<1> DEFINE Fit == members' \in [Member -> Membership \cup {Gone}]
<1> USE DirectoryConstantFacts DEF Kinds, DirectoryTypeOK
<1>1. ASSUME NEW p \in Proc, Appoint(p) PROVE Fit
  <2>1. [flags |-> {"admin"}, valid |-> TRUE] \in Membership
    BY DEF Membership
  <2> QED BY <1>1, <2>1 DEF Appoint
<1>2. ASSUME NEW p \in Proc, WriteDelete(p) PROVE Fit
  BY <1>2 DEF WriteDelete
<1>3. ASSUME NEW p \in Proc, UpsertMember(p) PROVE Fit
  <2>1. PICK u \in User, ok \in BOOLEAN :
             members' = [members EXCEPT ![<<u, job[p].group>>] = [flags |-> job[p].flags, valid |-> ok]]
    BY <1>3 DEF UpsertMember, Sound
  <2>2. job[p].flags \in SUBSET Role
    BY DEF Job
  <2>3. [flags |-> job[p].flags, valid |-> ok] \in Membership
    BY <2>2 DEF Membership
  <2> QED BY <2>1, <2>3
<1>4. ASSUME NEW p \in Proc, SetFlag(p) PROVE Fit
  <2> DEFINE a == job[p].to
             m == <<forms[a].user, forms[a].group>>
  <2>1. CASE members[m] = Gone
    BY <1>4, <2>1 DEF SetFlag
  <2>2. CASE members[m] # Gone
    <3>1. members' = [members EXCEPT ![m].flags = @ \cup {forms[a].role}]
      BY <1>4, <2>2 DEF SetFlag
    <3>2. a \in Application /\ forms[a] \in Form
      BY <1>4 DEF SetFlag, Sound, Verdict, FormsKnown
    <3>3. forms[a].role \in Role /\ m \in Member
      BY <3>2 DEF Form, Member
    <3>4. members[m] \in Membership
      BY <2>2, <3>3
    <3>5. [members[m] EXCEPT !.flags = @ \cup {forms[a].role}] \in Membership
      BY <3>3, <3>4 DEF Membership
    <3> QED BY <3>1, <3>3, <3>5
  <2> QED BY <2>1, <2>2
<1>5. ASSUME NEW m \in Member, RemoveMember(m) PROVE Fit
  BY <1>5 DEF RemoveMember
<1>6. ASSUME NEW m \in Member, TimePasses(m) PROVE Fit
  <2>1. members' = [members EXCEPT ![m].valid = ~@] /\ members[m] \in Membership
    BY <1>6 DEF TimePasses
  <2>2. [members[m] EXCEPT !.valid = ~@] \in Membership
    BY <2>1 DEF Membership
  <2> QED BY <2>1, <2>2
<1>7. ASSUME NEW p \in Proc, TreeStep(p), ~Appoint(p), ~WriteDelete(p) PROVE UNCHANGED members
  BY <1>7 DEF TreeStep, Others, tables, StartChild, InsertChild, StartMove, WriteMove,
     WithdrawMoved, StartDelete
<1>8. ASSUME NEW p \in Proc, MemberStep(p), ~UpsertMember(p), ~SetFlag(p) PROVE UNCHANGED members
  BY <1>8 DEF MemberStep, tables, StartAdd, StartApply, FindPending, InsertForm, StartDecide,
     CheckApprover, Record
<1>9. ASSUME NEW p \in Proc, FacilityStep(p) \/ DutyStep(p) \/ Abort(p) PROVE UNCHANGED members
  BY <1>9 DEF FacilityStep, DutyStep, Abort, Organised, tables, StartRelocate, CheckSource,
     Relocate, StartVacate, Vacate, StartUnlist, Unlist
<1>10. CASE UNCHANGED members
  BY <1>10
<1>11. ASSUME ~\E p \in Proc : TreeStep(p) \/ MemberStep(p) \/ FacilityStep(p) \/ DutyStep(p) \/ Abort(p),
              ~\E m \in Member : RemoveMember(m) \/ TimePasses(m)
      PROVE  UNCHANGED members
  BY <1>11 DEF DirectoryNext, InsertGroup, DeleteBare, OpenGrant, CloseGrants,
     DropFacility, AddFacility, PlaceFacility, AddManaged, EraseDuty, AddDuty, OfferDuty, Occupy,
     Organised
<1> HIDE DEF Fit
<1> QED BY <1>1, <1>2, <1>3, <1>4, <1>5, <1>6, <1>7, <1>8, <1>9, <1>10, <1>11 DEF Fit

-----------------------------------------------------------------------------
(* The tree and the grants                                                 *)

\* The steps about the tree and its grants, and the others.
Shaping(p) ==
  \/ InsertChild(p) \/ WriteMove(p) \/ WithdrawMoved(p) \/ WriteDelete(p)
  \/ \E g \in Group, to \in Group \cup {None} : StartMove(p, g, to)
  \/ \E g \in Group : StartDelete(p, g)

Rooted(j) == j.pc \in {"move", "withdraw", "delete"}

TreeRest ==
  /\ UNCHANGED TreeTables
  /\ \A q \in Proc : job'[q] = job[q] \/ (~Rooted(job[q]) /\ ~Rooted(job'[q]))

LEMMA TreeKinds ==
  ASSUME Kinds, DirectoryNext
  PROVE  \/ \E p \in Proc : Shaping(p) \/ Abort(p)
         \/ \E g \in Group : \/ \E to \in Group \cup {None} : InsertGroup(g, to)
                             \/ DeleteBare(g) \/ \E s \in Service : OpenGrant(g, s)
         \/ \E X \in SUBSET grants : CloseGrants(X)
         \/ TreeRest
<1> USE DEF TreeRest, TreeTables, Rooted, Kinds, DirectoryTypeOK
<1>i. Idle.pc = "idle" /\ Idle \in Job
  BY IdleFits DEF Idle
<1>a. ASSUME NEW p \in Proc, UNCHANGED TreeTables, ~Rooted(job[p]), ~Rooted(job'[p]),
             \A q \in Proc : q # p => job'[q] = job[q]
      PROVE  TreeRest
  BY <1>a
<1>1. ASSUME NEW p \in Proc, TreeStep(p), ~Shaping(p) PROVE TreeRest
  <2>1. ASSUME NEW u \in User, NEW to \in Group, NEW a \in User, StartChild(p, u, to, a)
        PROVE  TreeRest
    <3>1. ~Rooted(job'[p]) /\ ~Rooted(job[p])
      BY <2>1, <1>i DEF StartChild, Begin, Job
    <3> QED BY <2>1, <3>1, <1>a DEF StartChild, Begin, tables, history
  <2>2. CASE Appoint(p)
    <3>1. ~Rooted(job'[p]) /\ ~Rooted(job[p])
      BY <2>2, <1>i DEF Appoint, Respond
    <3> QED BY <2>2, <3>1, <1>a DEF Appoint, Respond, Others
  <2> QED BY <1>1, <2>1, <2>2 DEF TreeStep, Shaping
<1>2. ASSUME NEW p \in Proc, FormStep(p) PROVE TreeRest
  <2>1. UNCHANGED TreeTables
    BY <1>2 DEF FormStep, tables, history, Elsewhere, StartApply, FindPending, InsertForm,
       StartDecide, CheckApprover, SetFlag, Record
  <2>2. ~Rooted(job[p])
    BY <1>2, <1>i DEF FormStep, Begin, StartApply, FindPending, InsertForm,
       StartDecide, CheckApprover, SetFlag, Record
  <2>3. ~Rooted(job'[p])
    <3>1. CASE Respond(p)
      BY <3>1, <1>i DEF Respond
    <3>2. ASSUME NEW l \in {"apply", "flag", "refuse", "record"}, Proceed(p, l) PROVE ~Rooted(job'[p])
      BY <3>2 DEF Proceed, Job
    <3>3. ASSUME NEW u \in User, NEW g \in Group, NEW r \in Role, StartApply(p, u, g, r)
          PROVE  ~Rooted(job'[p])
      BY <3>3, <1>i DEF StartApply, Begin, Job
    <3>4. ASSUME NEW a \in Application, NEW verb \in {"approve", "reject"}, StartDecide(p, a, verb)
          PROVE  ~Rooted(job'[p])
      BY <3>4, <1>i DEF StartDecide, Begin, Job
    <3> HIDE DEF Rooted
    <3> QED BY <1>2, <3>1, <3>2, <3>3, <3>4 DEF FormStep, FindPending, InsertForm,
            CheckApprover, SetFlag, Record
  <2> QED BY <1>2, <2>1, <2>2, <2>3, <1>a, FormStepAlone
<1>3. ASSUME NEW p \in Proc, MemberStep(p), ~FormStep(p) PROVE TreeRest
  <2>1. CASE UpsertMember(p)
    <3>1. UNCHANGED TreeTables /\ job[p].pc = "upsert"
      BY <2>1 DEF UpsertMember, Others
    <3>2. \A q \in Proc : q # p => job'[q] = job[q]
      BY <2>1 DEF UpsertMember
    <3>3. job'[p].pc \in {"idle", "upsert"}
      BY <2>1 DEF UpsertMember, Job, Idle
    <3> QED BY <3>1, <3>2, <3>3
  <2>2. ASSUME NEW u \in User, NEW g \in Group, NEW us \in SUBSET User, NEW fs \in SUBSET Role,
               StartAdd(p, u, g, us, fs)
        PROVE  TreeRest
    <3>1. ~Rooted(job'[p]) /\ ~Rooted(job[p])
      BY <2>2, <1>i DEF StartAdd, Begin, Job
    <3> QED BY <2>2, <3>1, <1>a DEF StartAdd, Begin, tables, history
  <2> QED BY <1>3, <2>1, <2>2 DEF MemberStep, FormStep
<1>4. ASSUME NEW p \in Proc, FacilityStep(p) \/ DutyStep(p) PROVE TreeRest
  <2>1. UNCHANGED TreeTables
    BY <1>4 DEF FacilityStep, DutyStep, Organised, tables, history, StartRelocate, CheckSource,
       Relocate, StartVacate, Vacate, StartUnlist, Unlist
  <2>2. \A q \in Proc : q # p => job'[q] = job[q]
    BY <1>4 DEF FacilityStep, DutyStep, Begin, Proceed, Respond, StartRelocate, CheckSource,
       Relocate, StartVacate, Vacate, StartUnlist, Unlist
  <2>3. ~Rooted(job[p])
    BY <1>4, <1>i DEF FacilityStep, DutyStep, Begin, StartRelocate, CheckSource,
       Relocate, StartVacate, Vacate, StartUnlist, Unlist
  <2>4. ~Rooted(job'[p])
    <3>1. CASE Respond(p)
      BY <3>1, <1>i DEF Respond
    <3>2. CASE CheckSource(p)
      BY <3>2 DEF CheckSource, Proceed, Job
    <3>3. ASSUME NEW u \in User, NEW f \in Facility, NEW g \in Group, StartRelocate(p, u, f, g)
          PROVE  ~Rooted(job'[p])
      BY <3>3, <1>i DEF StartRelocate, Begin, Job
    <3>4. ASSUME NEW u \in User, NEW f \in Facility, StartVacate(p, u, f) PROVE ~Rooted(job'[p])
      BY <3>4, <1>i DEF StartVacate, Begin, Job
    <3>5. ASSUME NEW u \in User, NEW d \in Duty, StartUnlist(p, u, d) PROVE ~Rooted(job'[p])
      BY <3>5, <1>i DEF StartUnlist, Begin, Job
    <3> HIDE DEF Rooted
    <3> QED BY <1>4, <3>1, <3>2, <3>3, <3>4, <3>5 DEF FacilityStep, DutyStep, Relocate, Vacate, Unlist
  <2> QED BY <2>1, <2>2, <2>3, <2>4, <1>a
<1>5. ASSUME \/ \E m \in Member : RemoveMember(m) \/ TimePasses(m)
             \/ \E f \in Facility : \/ DropFacility(f)
                                   \/ \E g \in Group : AddFacility(f, g) \/ PlaceFacility(f, g)
             \/ \E d \in Duty : EraseDuty(d) \/ (\E g \in Group \cup {None} : AddDuty(d, g))
             \/ \E x \in Facility \cup Duty : Occupy(x)
      PROVE  TreeRest
  BY <1>5 DEF RemoveMember, TimePasses, DropFacility, AddFacility, PlaceFacility, EraseDuty,
     AddDuty, Occupy, Others, Organised, history
<1> HIDE DEF TreeRest
<1> QED BY <1>1, <1>2, <1>3, <1>4, <1>5 DEF DirectoryNext, AddManaged, OfferDuty

LEMMA TreeTypes ==
  ASSUME Kinds, DirectoryNext
  PROVE  /\ tree' \in [Group -> Group \cup {None, Gone}] /\ grants' \subseteq Group \X Service
         /\ tangled' \in BOOLEAN /\ held' \in [Group \X Service -> (SUBSET Group) \cup {None}]
<1> DEFINE Fit == /\ tree' \in [Group -> Group \cup {None, Gone}]
                  /\ grants' \subseteq Group \X Service
                  /\ tangled' \in BOOLEAN
                  /\ held' \in [Group \X Service -> (SUBSET Group) \cup {None}]
<1> USE DirectoryConstantFacts DEF Kinds, DirectoryTypeOK
<1>f. \A X : Forget(held, X) \in [Group \X Service -> (SUBSET Group) \cup {None}]
  BY DEF Forget
<1>1. CASE TreeRest
  BY <1>1 DEF TreeRest, TreeTables
<1>2. ASSUME NEW p \in Proc, Abort(p) PROVE Fit
  BY <1>2, <1>f DEF Abort, tables
<1>3. ASSUME NEW p \in Proc, InsertChild(p) PROVE Fit
  BY <1>3 DEF InsertChild, Others, Sound
<1>4. ASSUME NEW p \in Proc, WriteMove(p) PROVE Fit
  <2>1. job[p].group \in Group /\ job[p].to \in Group \cup {None} /\ job[p].stale \in BOOLEAN
    BY <1>4 DEF WriteMove, Sound, Job
  <2>2. tree' \in [Group -> Group \cup {None, Gone}] /\ UNCHANGED grants
    BY <1>4, <2>1 DEF WriteMove
  <2>3. held' \in [Group \X Service -> (SUBSET Group) \cup {None}]
    BY <1>4, <1>f DEF WriteMove
  <2>4. tangled' \in BOOLEAN
    BY <1>4 DEF WriteMove
  <2> QED BY <2>2, <2>3, <2>4
<1>5. ASSUME NEW p \in Proc, WithdrawMoved(p) PROVE Fit
  BY <1>5, <1>f DEF WithdrawMoved, Others
<1>6. ASSUME NEW p \in Proc, WriteDelete(p) PROVE Fit
  <2>1. tree' \in [Group -> Group \cup {None, Gone}]
    BY <1>6 DEF WriteDelete
  <2> QED BY <1>6, <1>f, <2>1 DEF WriteDelete, Others
<1>7. ASSUME NEW p \in Proc, NEW g \in Group, NEW to \in Group \cup {None}, StartMove(p, g, to) PROVE Fit
  BY <1>7 DEF StartMove, tables, history
<1>8. ASSUME NEW p \in Proc, NEW g \in Group, StartDelete(p, g) PROVE Fit
  BY <1>8 DEF StartDelete, tables, history
<1>9. ASSUME NEW g \in Group, NEW to \in Group \cup {None}, InsertGroup(g, to) PROVE Fit
  BY <1>9 DEF InsertGroup, Others
<1>10. ASSUME NEW g \in Group, DeleteBare(g) PROVE Fit
  BY <1>10, <1>f DEF DeleteBare, Others
<1>11. ASSUME NEW g \in Group, NEW s \in Service, OpenGrant(g, s) PROVE Fit
  <2>1. Above(tree, g) \in SUBSET Group
    BY DEF Above
  <2> QED BY <1>11, <2>1 DEF OpenGrant, Others
<1>12. ASSUME NEW X \in SUBSET grants, CloseGrants(X) PROVE Fit
  BY <1>12, <1>f DEF CloseGrants, Others
<1> HIDE DEF Fit
<1> QED BY <1>1, <1>2, <1>3, <1>4, <1>5, <1>6, <1>7, <1>8, <1>9, <1>10, <1>11, <1>12, TreeKinds
        DEF Shaping, Fit

\* A move that no other one has overtaken since its check: the new parent is still not
\* below the group, though groups have been created and deleted meanwhile.
Detached ==
  \A p \in Proc : job[p].pc = "move" /\ ~job[p].stale =>
    \E C : Closed(tree, job[p].group, C) /\ job[p].to \notin C

Ordered == Detached /\ TreeAcyclic

LEMMA OrderedStep ==
  ASSUME Kinds, Ordered, DirectoryNext
  PROVE  Ordered'
<1> USE DirectoryConstantFacts DEF Kinds, DirectoryTypeOK, Ordered, Detached, TreeAcyclic
<1>i. Idle.pc = "idle" /\ Idle \in Job
  BY IdleFits DEF Idle
<1>a. ASSUME UNCHANGED <<tree, tangled>>,
             \A q \in Proc : job'[q].pc = "move" => job'[q] = job[q]
      PROVE  Ordered'
  BY <1>a
<1>b. ASSUME NEW p \in Proc, UNCHANGED <<tree, tangled>>, job'[p].pc # "move",
             \A q \in Proc : q # p => job'[q] = job[q]
      PROVE  Ordered'
  BY <1>a, <1>b
<1>1. CASE TreeRest
  BY <1>1, <1>a DEF TreeRest, TreeTables, Rooted
<1>2. ASSUME NEW p \in Proc, Abort(p) PROVE Ordered'
  BY <1>2, <1>b, <1>i DEF Abort, Respond, tables
<1>3. ASSUME NEW p \in Proc, WithdrawMoved(p) PROVE Ordered'
  BY <1>3, <1>b, <1>i DEF WithdrawMoved, Respond, Others
<1>4. ASSUME NEW p \in Proc, NEW g \in Group, StartDelete(p, g) PROVE Ordered'
  <2>1. job'[p].pc # "move"
    BY <1>4, <1>i DEF StartDelete, Begin, Job
  <2> QED BY <1>4, <2>1, <1>b DEF StartDelete, Begin, tables, history
<1>5. ASSUME NEW g \in Group, NEW s \in Service, OpenGrant(g, s) PROVE Ordered'
  BY <1>5, <1>a DEF OpenGrant, Others
<1>6. ASSUME NEW X \in SUBSET grants, CloseGrants(X) PROVE Ordered'
  BY <1>6, <1>a DEF CloseGrants, Others
<1>7. ASSUME NEW p \in Proc, NEW g \in Group, NEW to \in Group \cup {None}, StartMove(p, g, to)
      PROVE  Ordered'
  <2>1. job'[p].group = g /\ job'[p].to = to /\ UNCHANGED <<tree, tangled>>
    BY <1>7, <1>i DEF StartMove, Begin, Job, tables, history
  <2>2. \E C : Closed(tree, g, C) /\ to \notin C
    <3>1. CASE to = None
      <4>1. Closed(tree, g, Group)
        BY DEF Closed
      <4> QED BY <3>1, <4>1
    <3>2. CASE to \in Group
      <4>1. to \notin Below(tree, g)
        BY <1>7, <3>2 DEF StartMove, Above
      <4> QED BY <3>2, <4>1, Separated
    <3> QED BY <3>1, <3>2
  <2>3. \A q \in Proc : q # p => job'[q] = job[q]
    BY <1>7 DEF StartMove, Begin
  <2> QED BY <2>1, <2>2, <2>3
<1>8. ASSUME NEW g \in Group, NEW to \in Group \cup {None}, Unused(g), to # g, UNCHANGED tangled,
             tree' = [tree EXCEPT ![g] = to],
             \A q \in Proc : job'[q].pc = "move" => job'[q] = job[q]
      PROVE  Ordered'
  <2>1. /\ \A h \in Group : h # g => tree'[h] = tree[h]
        /\ tree'[g] = to /\ \A h \in Group : tree[h] # g
    BY <1>8 DEF Unused
  <2>2. TreeAcyclic'
    BY <1>8, <2>1, LeafKeepsAcyclic
  <2>3. ASSUME NEW q \in Proc, job'[q].pc = "move", ~job'[q].stale
        PROVE  \E C : Closed(tree', job'[q].group, C) /\ job'[q].to \notin C
    <3>1. PICK C : Closed(tree, job[q].group, C) /\ job[q].to \notin C
      BY <1>8, <2>3
    <3>2. g # job[q].to
      BY <1>8 DEF Unused
    <3> DEFINE D == IF to \in C THEN C \cup {g} ELSE C
    <3>3. Closed(tree', job[q].group, D)
      BY <1>8, <2>1, <3>1 DEF Closed
    <3> QED BY <1>8, <2>3, <3>1, <3>2, <3>3
  <2> QED BY <2>2, <2>3
<1>9. ASSUME NEW g \in Group, NEW to \in Group \cup {None}, InsertGroup(g, to) PROVE Ordered'
  BY <1>8, <1>9 DEF InsertGroup, Others
<1>10. ASSUME NEW p \in Proc, InsertChild(p) PROVE Ordered'
  <2>1. PICK g \in Group : /\ Unused(g) /\ tree' = [tree EXCEPT ![g] = job[p].group]
                          /\ job' = [job EXCEPT ![p].pc = "appoint", ![p].group = g]
    BY <1>10 DEF InsertChild
  <2>2. job[p].group # g /\ job[p].group \in Group /\ UNCHANGED tangled
    BY <1>10, <2>1 DEF Unused, InsertChild, Others, Sound
  <2>3. \A q \in Proc : job'[q].pc = "move" => job'[q] = job[q]
    BY <2>1 DEF Job
  <2> QED BY <2>1, <2>2, <2>3, <1>8
\* Deletions cut links.
<1>11. ASSUME \A h \in Group : tree'[h] = tree[h] \/ tree'[h] \notin Group, UNCHANGED tangled,
              \A q \in Proc : job'[q].pc = "move" => job'[q] = job[q]
       PROVE  Ordered'
  <2>1. TreeAcyclic'
    BY <1>11, CutKeepsAcyclic
  <2>2. ASSUME NEW q \in Proc, job'[q].pc = "move", ~job'[q].stale
        PROVE  \E C : Closed(tree', job'[q].group, C) /\ job'[q].to \notin C
    <3>1. PICK C : Closed(tree, job[q].group, C) /\ job[q].to \notin C
      BY <1>11, <2>2
    <3>2. Closed(tree', job[q].group, C)
      BY <1>11, <3>1 DEF Closed
    <3> QED BY <1>11, <2>2, <3>1, <3>2
  <2> QED BY <2>1, <2>2
<1>12. ASSUME NEW p \in Proc, WriteDelete(p) PROVE Ordered'
  <2>1. \A q \in Proc : job'[q].pc = "move" => job'[q] = job[q]
    BY <1>12, <1>i DEF WriteDelete, Respond
  <2> QED BY <1>12, <2>1, <1>11 DEF WriteDelete, Others
<1>13. ASSUME NEW g \in Group, DeleteBare(g) PROVE Ordered'
  BY <1>13, <1>11 DEF DeleteBare, Others
<1>14. ASSUME NEW p \in Proc, WriteMove(p) PROVE Ordered'
  <2>1. ASSUME NEW q \in Proc, job'[q].pc = "move" PROVE q # p /\ job[q].pc = "move" /\ job'[q].stale
    BY <1>14, <2>1, <1>i DEF WriteMove, Job
  <2>2. CASE tangled \/ job[p].stale
    <3>1. tangled'
      BY <1>14, <2>2 DEF WriteMove
    <3> QED BY <2>1, <3>1
  <2>3. CASE ~tangled /\ ~job[p].stale
    <3>1. PICK C : Closed(tree, job[p].group, C) /\ job[p].to \notin C
      BY <1>14, <2>3 DEF WriteMove
    <3>2. Acyclic(tree) /\ job[p].group \in Group
      BY <1>14, <2>3 DEF WriteMove, Sound
    <3>3. Acyclic(tree')
      <4>1. CASE tree' = tree
        BY <3>2, <4>1
      <4>2. CASE tree' = [tree EXCEPT ![job[p].group] = job[p].to]
        BY <3>1, <3>2, <4>2, MoveWritten
      <4> QED BY <1>14, <4>1, <4>2 DEF WriteMove
    <3> QED BY <2>1, <3>3
  <2> QED BY <2>2, <2>3
<1> HIDE DEF Ordered
<1> QED BY <1>1, <1>2, <1>3, <1>4, <1>5, <1>6, <1>7, <1>9, <1>10, <1>12, <1>13, <1>14, TreeKinds
        DEF Shaping

\* A grant is on a group that is there.  A move or deletion covers what it found below
\* its group, the group of a deletion itself included.
Covered ==
  /\ \A x \in grants : Exists(x[1])
  /\ \A p \in Proc : job[p].pc \in {"move", "delete"} => job[p].set = job[p].seen
  /\ \A p \in Proc : job[p].pc = "delete" => job[p].group \in job[p].set

LEMMA OfGroups ==
  ASSUME NEW x \in Group \X Service, NEW S \in SUBSET Group
  PROVE  x[1] \in Group /\ (x \in Of(S) <=> x[1] \in S)
  BY DEF Of

LEMMA CoveredStep ==
  ASSUME Kinds, Covered, DirectoryNext
  PROVE  Covered'
<1> USE DirectoryConstantFacts DEF Kinds, DirectoryTypeOK, Covered, Exists
<1>i. Idle.pc = "idle" /\ Idle \in Job
  BY IdleFits DEF Idle
<1> DEFINE Plan(q) == /\ job'[q].pc \in {"move", "delete"} => job'[q].set = job'[q].seen
                      /\ job'[q].pc = "delete" => job'[q].group \in job'[q].set
<1>a. ASSUME grants' \subseteq grants, \A h \in Group : Exists(h) => tree'[h] # Gone,
             \A q \in Proc : job'[q] = job[q] \/ Plan(q)
      PROVE  Covered'
  <2>1. \A x \in grants' : x[1] \in Group
    BY <1>a, OfGroups
  <2> QED BY <1>a, <2>1
<1>b. ASSUME NEW p \in Proc, Respond(p) PROVE \A q \in Proc : job'[q] = job[q] \/ Plan(q)
  BY <1>b, <1>i DEF Respond
<1>1. CASE TreeRest
  <2>1. \A q \in Proc : job'[q] = job[q] \/ Plan(q)
    BY <1>1 DEF TreeRest, Rooted
  <2>2. UNCHANGED <<tree, grants>>
    BY <1>1 DEF TreeRest, TreeTables
  <2> HIDE DEF Plan
  <2> QED BY <2>1, <2>2, <1>a
<1>2. ASSUME NEW p \in Proc, Abort(p) PROVE Covered'
  BY <1>2, <1>a, <1>b DEF Abort, tables
<1>3. ASSUME NEW p \in Proc, WithdrawMoved(p) PROVE Covered'
  BY <1>3, <1>a, <1>b DEF WithdrawMoved
<1>4. ASSUME NEW p \in Proc, NEW g \in Group, StartDelete(p, g) PROVE Covered'
  <2>1. Below(tree, g) \in SUBSET Group /\ g \in Below(tree, g)
    BY BelowItself DEF Below
  <2>2. \A q \in Proc : job'[q] = job[q] \/ Plan(q)
    BY <1>4, <1>i, <2>1 DEF StartDelete, Begin, Job
  <2>3. UNCHANGED <<tree, grants>>
    BY <1>4 DEF StartDelete, tables
  <2> HIDE DEF Plan
  <2> QED BY <2>2, <2>3, <1>a
<1>5. ASSUME NEW p \in Proc, NEW g \in Group, NEW to \in Group \cup {None}, StartMove(p, g, to)
      PROVE  Covered'
  <2>1. \A q \in Proc : job'[q] = job[q] \/ Plan(q)
    BY <1>5, <1>i DEF StartMove, Begin, Job
  <2>2. UNCHANGED <<tree, grants>>
    BY <1>5 DEF StartMove, tables
  <2> HIDE DEF Plan
  <2> QED BY <2>1, <2>2, <1>a
<1>6. ASSUME NEW p \in Proc, WriteMove(p) PROVE Covered'
  <2>1. job[p].group \in Group /\ job[p].to \in Group \cup {None} /\ UNCHANGED grants
    BY <1>6 DEF WriteMove, Sound
  <2>2. \A h \in Group : Exists(h) => tree'[h] # Gone
    BY <1>6, <2>1 DEF WriteMove
  <2>3. ASSUME NEW q \in Proc PROVE job'[q] = job[q] \/ Plan(q)
    BY <1>6, <1>i DEF WriteMove, Job
  <2> HIDE DEF Plan
  <2> QED BY <2>1, <2>2, <2>3, <1>a
<1>7. ASSUME NEW p \in Proc, InsertChild(p) PROVE Covered'
  <2>1. PICK g \in Group : /\ Unused(g) /\ tree' = [tree EXCEPT ![g] = job[p].group]
                          /\ job' = [job EXCEPT ![p].pc = "appoint", ![p].group = g]
    BY <1>7 DEF InsertChild
  <2>2. job[p].group \in Group /\ UNCHANGED grants
    BY <1>7 DEF InsertChild, Sound
  <2>3. \A q \in Proc : job'[q] = job[q] \/ Plan(q)
    BY <2>1 DEF Job
  <2>4. \A h \in Group : Exists(h) => tree'[h] # Gone
    BY <2>1, <2>2
  <2> HIDE DEF Plan
  <2> QED BY <2>2, <2>3, <2>4, <1>a
<1>8. ASSUME NEW g \in Group, NEW to \in Group \cup {None}, InsertGroup(g, to) PROVE Covered'
  BY <1>8, <1>a DEF InsertGroup
<1>9. ASSUME NEW p \in Proc, WriteDelete(p) PROVE Covered'
  <2>1. job[p].group \in job[p].set /\ job[p].set \in SUBSET Group
    BY <1>9 DEF WriteDelete, Sound
  <2>2. \A q \in Proc : job'[q] = job[q] \/ Plan(q)
    BY <1>9, <1>b DEF WriteDelete
  <2>3. ASSUME NEW x \in grants' PROVE tree'[x[1]] # Gone
    <3>1. x \in grants /\ x \notin Of(job[p].set)
      BY <1>9 DEF WriteDelete
    <3>2. x[1] \in Group /\ x[1] # job[p].group
      BY <2>1, <3>1, OfGroups
    <3> QED BY <1>9, <3>1, <3>2 DEF WriteDelete
  <2> QED BY <2>2, <2>3
<1>10. ASSUME NEW g \in Group, DeleteBare(g) PROVE Covered'
  <2>1. ASSUME NEW x \in grants' PROVE tree'[x[1]] # Gone
    <3>1. x \in grants /\ x \notin Of({g})
      BY <1>10 DEF DeleteBare
    <3>2. x[1] \in Group /\ x[1] # g
      BY <3>1, OfGroups
    <3> QED BY <1>10, <3>1, <3>2 DEF DeleteBare
  <2> QED BY <1>10, <2>1 DEF DeleteBare
<1>11. ASSUME NEW g \in Group, NEW s \in Service, OpenGrant(g, s) PROVE Covered'
  BY <1>11 DEF OpenGrant
<1>12. ASSUME NEW X \in SUBSET grants, CloseGrants(X) PROVE Covered'
  BY <1>12 DEF CloseGrants
<1> HIDE DEF Covered
<1> QED BY <1>1, <1>2, <1>3, <1>4, <1>5, <1>6, <1>7, <1>8, <1>9, <1>10, <1>11, <1>12, TreeKinds
        DEF Shaping


\* What the property says of one grant.
Follows(x) ==
  \/ held[x] \in {None, Above(tree, x[1])}
  \/ \E p \in Proc : job[p].pc = "withdraw" /\ x[1] \in job[p].set

LEMMA Forgotten ==
  ASSUME NEW h, NEW X, NEW x \in Group \X Service
  PROVE  Forget(h, X)[x] = IF x \in X THEN None ELSE h[x]
  BY DEF Forget

LEMMA FollowStep ==
  ASSUME Kinds, Covered, GrantsFollowTree, DirectoryNext
  PROVE  GrantsFollowTree'
<1> DEFINE Rest(x) == held'[x] \in {None, Above(tree', x[1])}
                      \/ \E p \in Proc : job'[p].pc = "withdraw" /\ x[1] \in job'[p].set
<1> SUFFICES ASSUME NEW x \in grants' PROVE Rest(x)
  BY DEF GrantsFollowTree
<1> USE DirectoryConstantFacts DEF Kinds, DirectoryTypeOK, Covered, Exists
<1>i. Idle.pc = "idle" /\ Idle \in Job
  BY IdleFits DEF Idle
<1>t. grants' \subseteq Group \X Service /\ x \in Group \X Service /\ x[1] \in Group
  BY TreeTypes
<1>o. x \in grants => Follows(x)
  BY DEF GrantsFollowTree, Follows
<1>a. ASSUME x \in grants, held'[x] = held[x], Above(tree', x[1]) = Above(tree, x[1]),
             \A q \in Proc : job[q].pc = "withdraw" => job'[q] = job[q]
      PROVE  Rest(x)
  BY <1>a, <1>o DEF Follows
<1>b. ASSUME NEW p \in Proc, Begin(p, job'[p])
      PROVE  \A q \in Proc : job[q].pc = "withdraw" => job'[q] = job[q]
  BY <1>b, <1>i DEF Begin
<1>c. ASSUME held'[x] = None PROVE Rest(x)
  BY <1>c
<1> HIDE DEF Rest
<1>1. CASE TreeRest
  <2>1. UNCHANGED <<tree, grants, held>>
    BY <1>1 DEF TreeRest, TreeTables
  <2>2. \A q \in Proc : job[q].pc = "withdraw" => job'[q] = job[q]
    BY <1>1 DEF TreeRest, Rooted
  <2> QED BY <2>1, <2>2, <1>a
<1>2. ASSUME NEW p \in Proc, Abort(p) PROVE Rest(x)
  <2>1. UNCHANGED <<tree, grants>> /\ \A q \in Proc : q # p => job'[q] = job[q]
    BY <1>2 DEF Abort, tables, Respond
  <2>2. CASE job[p].pc # "withdraw"
    BY <1>2, <2>1, <2>2, <1>a DEF Abort
  <2>3. CASE job[p].pc = "withdraw"
    <3>0. job[p].set \in SUBSET Group
      BY <2>3 DEF Sound
    <3>1. held' = Forget(held, Of(job[p].set))
      BY <1>2, <2>3 DEF Abort
    <3>2. CASE x[1] \in job[p].set
      BY <3>0, <3>1, <3>2, <1>t, <1>c, OfGroups, Forgotten
    <3>3. CASE x[1] \notin job[p].set
      <4>1. held'[x] = held[x]
        BY <3>0, <3>1, <3>3, <1>t, OfGroups, Forgotten
      <4> QED BY <2>1, <3>3, <4>1, <1>o DEF Follows, Rest
    <3> QED BY <3>2, <3>3
  <2> QED BY <2>2, <2>3
<1>3. ASSUME NEW p \in Proc, WithdrawMoved(p) PROVE Rest(x)
  <2>1. /\ UNCHANGED tree /\ \A q \in Proc : q # p => job'[q] = job[q]
        /\ held' = Forget(held, Of(job[p].set)) /\ grants' = grants \ Of(job[p].set)
        /\ job[p].set \in SUBSET Group
    BY <1>3 DEF WithdrawMoved, Respond, Sound
  <2>2. x \in grants /\ x[1] \notin job[p].set
    BY <2>1, <1>t, OfGroups
  <2>3. held'[x] = held[x]
    BY <2>1, <2>2, <1>t, OfGroups, Forgotten
  <2> QED BY <2>1, <2>2, <2>3, <1>o DEF Follows, Rest
<1>4. ASSUME NEW p \in Proc, NEW g \in Group, StartDelete(p, g) PROVE Rest(x)
  <2>1. UNCHANGED <<tree, grants, held>>
    BY <1>4 DEF StartDelete, tables, history
  <2>2. \A q \in Proc : job[q].pc = "withdraw" => job'[q] = job[q]
    BY <1>4, <1>i DEF StartDelete, Begin
  <2> QED BY <2>1, <2>2, <1>a
<1>5. ASSUME NEW p \in Proc, NEW g \in Group, NEW to \in Group \cup {None}, StartMove(p, g, to)
      PROVE  Rest(x)
  <2>1. UNCHANGED <<tree, grants, held>>
    BY <1>5 DEF StartMove, tables, history
  <2>2. \A q \in Proc : job[q].pc = "withdraw" => job'[q] = job[q]
    BY <1>5, <1>i DEF StartMove, Begin
  <2> QED BY <2>1, <2>2, <1>a
\* A change at or below g: grants elsewhere are not affected, ...
<1>d. ASSUME NEW g \in Group, \A h \in Group : tree'[h] # tree[h] => h \in Below(tree, g),
             x[1] \notin Below(tree, g)
      PROVE  Above(tree', x[1]) = Above(tree, x[1])
  BY <1>d, <1>t, AboveKept
\* ... and a new leaf has none.
<1>e. ASSUME NEW g \in Group, NEW to, Unused(g), tree' = [tree EXCEPT ![g] = to],
             UNCHANGED <<grants, held>>,
             \A q \in Proc : job[q].pc = "withdraw" => job'[q] = job[q]
      PROVE  Rest(x)
  <2>1. x[1] # g /\ x \in grants
    BY <1>e DEF Unused
  <2>2. x[1] \notin Below(tree, g)
    BY <1>e, <1>t, <2>1, BelowLeaf DEF Unused
  <2>3. \A h \in Group : tree'[h] # tree[h] => h \in Below(tree, g)
    BY <1>e, BelowItself
  <2> QED BY <1>e, <2>1, <2>2, <2>3, <1>d, <1>a
<1>6. ASSUME NEW p \in Proc, WriteMove(p) PROVE Rest(x)
  <2> DEFINE g == job[p].group
  <2>0. job[p].pc = "move" /\ g \in Group /\ job[p].set = job[p].seen /\ job[p].set \in SUBSET Group
        /\ x \in grants
    BY <1>6 DEF WriteMove, Sound
  <2>1. \A h \in Group : tree'[h] # tree[h] => h \in Below(tree, g)
    BY <1>6, <2>0, BelowItself DEF WriteMove
  <2>2. \A q \in Proc : job[q].pc = "withdraw" => job'[q] = job[q]
    BY <1>6, <2>0 DEF WriteMove
  <2>3. CASE x[1] \in job[p].set
    <3>1. job'[p] = [job[p] EXCEPT !.pc = "withdraw"]
      BY <1>6, <2>3 DEF WriteMove
    <3>2. job[p] \in Job
      OBVIOUS
    <3>3. job'[p].pc = "withdraw" /\ job'[p].set = job[p].set
      BY <3>1, <3>2 DEF Job
    <3> QED BY <2>3, <3>3 DEF Rest
  <2>4. CASE x[1] \notin job[p].set
    <3>1. CASE tree' = tree
      <4>1. held' = held
        BY <1>6, <3>1 DEF WriteMove
      <4> QED BY <3>1, <4>1, <2>0, <2>2, <1>a
    <3>2. CASE tree' # tree
      <4>1. held' = Forget(held, Of(Below(tree, g) \ job[p].seen))
        BY <1>6, <3>2 DEF WriteMove
      <4>2. (Below(tree, g) \ job[p].seen) \in SUBSET Group
        BY DEF Below
      <4>3. CASE x[1] \in Below(tree, g)
        BY <4>1, <4>2, <4>3, <2>0, <2>4, <1>t, <1>c, OfGroups, Forgotten
      <4>4. CASE x[1] \notin Below(tree, g)
        <5>1. held'[x] = held[x]
          BY <4>1, <4>2, <4>4, <1>t, OfGroups, Forgotten
        <5>2. Above(tree', x[1]) = Above(tree, x[1])
          BY <2>0, <2>1, <4>4, <1>d
        <5> QED BY <5>1, <5>2, <2>0, <2>2, <1>a
      <4> QED BY <4>3, <4>4
    <3> QED BY <3>1, <3>2
  <2> QED BY <2>3, <2>4
<1>7. ASSUME NEW p \in Proc, InsertChild(p) PROVE Rest(x)
  <2>1. PICK g \in Group : /\ Unused(g) /\ tree' = [tree EXCEPT ![g] = job[p].group]
                          /\ job' = [job EXCEPT ![p].pc = "appoint", ![p].group = g]
    BY <1>7 DEF InsertChild
  <2>2. UNCHANGED <<grants, held>> /\ job[p].pc = "child"
    BY <1>7 DEF InsertChild
  <2>3. \A q \in Proc : job[q].pc = "withdraw" => job'[q] = job[q]
    BY <2>1, <2>2
  <2> QED BY <2>1, <2>2, <2>3, <1>e
<1>8. ASSUME NEW g \in Group, NEW to \in Group \cup {None}, InsertGroup(g, to) PROVE Rest(x)
  BY <1>8, <1>e DEF InsertGroup
<1>9. ASSUME NEW p \in Proc, WriteDelete(p) PROVE Rest(x)
  <2> DEFINE g == job[p].group
             X == (Below(tree, g) \ job[p].seen) \cup job[p].set
  <2>0. /\ job[p].pc = "delete" /\ g \in Group /\ job[p].set = job[p].seen
        /\ job[p].set \in SUBSET Group /\ X \in SUBSET Group
    BY <1>9 DEF WriteDelete, Sound, Below
  <2>1. \A h \in Group : tree'[h] # tree[h] => h \in Below(tree, g)
    BY <1>9, <2>0, BelowItself DEF WriteDelete
  <2>2. \A q \in Proc : job[q].pc = "withdraw" => job'[q] = job[q]
    BY <1>9, <2>0 DEF WriteDelete, Respond
  <2>3. held' = Forget(held, Of(X)) /\ x \in grants
    BY <1>9 DEF WriteDelete
  <2>4. CASE x[1] \in X
    <3> HIDE DEF X
    <3> QED BY <2>0, <2>3, <2>4, <1>t, <1>c, OfGroups, Forgotten
  <2>5. CASE x[1] \notin X
    <3>1. x[1] \notin Below(tree, g)
      BY <2>5, <2>0
    <3> HIDE DEF X
    <3>2. held'[x] = held[x]
      BY <2>0, <2>3, <2>5, <1>t, OfGroups, Forgotten
    <3>3. Above(tree', x[1]) = Above(tree, x[1])
      BY <2>0, <2>1, <3>1, <1>d
    <3> QED BY <2>2, <2>3, <3>2, <3>3, <1>a
  <2> QED BY <2>4, <2>5
<1>10. ASSUME NEW g \in Group, DeleteBare(g) PROVE Rest(x)
  <2>1. /\ tree' = [tree EXCEPT ![g] = Gone] /\ held' = Forget(held, Of(Below(tree, g)))
        /\ UNCHANGED <<grants, job>> /\ Below(tree, g) \in SUBSET Group
    BY <1>10 DEF DeleteBare, Below
  <2>2. \A h \in Group : tree'[h] # tree[h] => h \in Below(tree, g)
    BY <2>1, BelowItself
  <2>3. CASE x[1] \in Below(tree, g)
    BY <2>1, <2>3, <1>t, <1>c, OfGroups, Forgotten
  <2>4. CASE x[1] \notin Below(tree, g)
    <3>1. held'[x] = held[x]
      BY <2>1, <2>4, <1>t, OfGroups, Forgotten
    <3>2. Above(tree', x[1]) = Above(tree, x[1])
      BY <2>2, <2>4, <1>d
    <3> QED BY <2>1, <3>1, <3>2, <1>a
  <2> QED BY <2>3, <2>4
<1>11. ASSUME NEW g \in Group, NEW s \in Service, OpenGrant(g, s) PROVE Rest(x)
  <2>1. /\ grants' = grants \cup {<<g, s>>} /\ UNCHANGED <<tree, job>>
        /\ held' = [held EXCEPT ![<<g, s>>] = Above(tree, g)]
    BY <1>11 DEF OpenGrant
  <2>2. CASE x = <<g, s>>
    <3>1. held'[x] = Above(tree', x[1])
      BY <2>1, <2>2, <1>t
    <3> QED BY <3>1 DEF Rest
  <2>3. CASE x # <<g, s>>
    BY <2>1, <2>3, <1>a
  <2> QED BY <2>2, <2>3
<1>12. ASSUME NEW X \in SUBSET grants, CloseGrants(X) PROVE Rest(x)
  <2>1. held' = Forget(held, X) /\ x \in grants \ X /\ UNCHANGED <<tree, job>>
    BY <1>12 DEF CloseGrants
  <2>2. held'[x] = held[x]
    BY <2>1, <1>t, Forgotten
  <2> QED BY <2>1, <2>2, <1>a
<1> QED BY <1>1, <1>2, <1>3, <1>4, <1>5, <1>6, <1>7, <1>8, <1>9, <1>10, <1>11, <1>12, TreeKinds
        DEF Shaping


-----------------------------------------------------------------------------
(* The theorems                                                            *)

DirectoryInv == Kinds /\ Decided /\ Backlog /\ Ordered /\ Covered /\ GrantsFollowTree

LEMMA DirectoryStarts ==
  ASSUME DirectoryInit
  PROVE  DirectoryInv
<1> USE DirectoryConstantFacts DEF DirectoryInit
<1>i. Idle \in Job /\ Sound(Idle) /\ Idle.pc = "idle"
  BY IdleFits DEF Idle
<1>1. Kinds
  <2>1. members \in [Member -> Membership \cup {Gone}]
    BY DEF Membership
  <2>2. tree \in [Group -> Group \cup {None, Gone}] /\ grants \subseteq Group \X Service
    OBVIOUS
  <2>3. forms \in [Application -> Form \cup {Gone}] /\ status \in [Application -> Status \cup {Gone}]
    OBVIOUS
  <2>4. facility \in [Facility -> Group \cup {Gone}] /\ duty \in [Duty -> Group \cup {None, Gone}]
        /\ \A y \in used : InPlace(y)
    OBVIOUS
  <2>5. job \in [Proc -> Job] /\ \A p \in Proc : Sound(job[p])
    BY <1>i
  <2>6. held \in [Group \X Service -> (SUBSET Group) \cup {None}] /\ tangled \in BOOLEAN
        /\ given \subseteq Application /\ contested \subseteq Application
    OBVIOUS
  <2>7. FormsKnown
    BY <1>i DEF FormsKnown, Verdict
  <2> QED BY <2>1, <2>2, <2>3, <2>4, <2>5, <2>6, <2>7 DEF Kinds, DirectoryTypeOK
<1>2. Decided
  BY <1>i DEF Decided, Contested, Undecided, Flagged, Verdict
<1>3. Backlog
  <2> SUFFICES ASSUME NEW f \in Form
               PROVE  Cardinality(Pending(f)) + Cardinality(Inserting(f)) <= Cardinality(Proc)
    BY DEF Backlog
  <2>1. Pending(f) = {} /\ Inserting(f) = {}
    BY <1>i DEF Pending, Inserting, Status
  <2> QED BY <2>1, Sizes, FS_EmptySet
<1>4. Ordered
  BY <1>i DEF Ordered, Detached, TreeAcyclic
<1>5. Covered /\ GrantsFollowTree
  <2>1. \A p \in Proc : job[p].pc = "idle"
    BY <1>i
  <2>2. grants = {}
    OBVIOUS
  <2> QED BY ONLY <2>1, <2>2 DEF Covered, GrantsFollowTree
<1> QED BY <1>1, <1>2, <1>3, <1>4, <1>5 DEF DirectoryInv

LEMMA DirectoryKeeps ==
  ASSUME DirectoryInv, [DirectoryNext]_dvars
  PROVE  DirectoryInv'
<1> USE DEF DirectoryInv
<1>1. CASE DirectoryNext
  <2>1. Kinds'
    BY <1>1, JobsStep, PlacesStep, FormsStep, MembersStep, TreeTypes DEF Kinds, DirectoryTypeOK
  <2> QED BY <1>1, <2>1, DecidedStep, BacklogStep, OrderedStep, CoveredStep, FollowStep
<1>2. CASE UNCHANGED dvars
  <2> USE <1>2 DEF dvars, tables, history
  <2>1. Kinds'
    BY DEF Kinds, DirectoryTypeOK, FormsKnown, InPlace
  <2>2. Decided'
    BY DEF Decided, Contested, Undecided, Flagged
  <2>3. Backlog'
    BY DEF Backlog, Pending, Inserting
  <2>4. Ordered'
    BY DEF Ordered, Detached, TreeAcyclic
  <2>5. Covered' /\ GrantsFollowTree'
    BY DEF Covered, GrantsFollowTree, Exists
  <2> QED BY <2>1, <2>2, <2>3, <2>4, <2>5
<1> QED BY <1>1, <1>2

\* What is known of every state: the types, the applications, the tree and the grants.
THEOREM DirectoryInvariant == DirectorySpec => []DirectoryInv
<1>1. DirectoryInit => DirectoryInv
  BY DirectoryStarts
<1>2. DirectoryInv /\ [DirectoryNext]_dvars => DirectoryInv'
  BY DirectoryKeeps
<1> QED BY <1>1, <1>2, PTL DEF DirectorySpec

\* Every row and every request has the form the tables and handlers give it; what an
\* assignment refers to is there.
THEOREM DirectoryTypes == DirectorySpec => []DirectoryTypeOK
<1>1. DirectoryInv => DirectoryTypeOK
  BY DEF DirectoryInv, Kinds
<1> QED BY <1>1, DirectoryInvariant, PTL

\* The checks before a move keep the tree free of cycles, though groups come and go
\* between the check and the UPDATE, unless a move overtakes another one.
THEOREM TreeStaysAcyclic == DirectorySpec => []TreeAcyclic
<1>1. DirectoryInv => TreeAcyclic
  BY DEF DirectoryInv, Ordered
<1> QED BY <1>1, DirectoryInvariant, PTL

\* A grant does not outlive a change above its group, but where the request that made
\* the change could not know of it or stopped halfway.
THEOREM GrantsKeepUp == DirectorySpec => []GrantsFollowTree
<1>1. DirectoryInv => GrantsFollowTree
  BY DEF DirectoryInv
<1> QED BY <1>1, DirectoryInvariant, PTL

\* What is recorded of an application is what happened to its flag, and everyone who
\* may decide it finds it in his list.
THEOREM RolesDecidedAsRecorded == DirectorySpec => []RoleOutcome
<1>1. DirectoryInv => RoleOutcome
  <2> SUFFICES ASSUME DirectoryInv PROVE RoleOutcome
    OBVIOUS
  <2>1. ASSUME NEW a \in Application, status[a] = "rejected" PROVE a \notin given \/ a \in contested
    <3> SUFFICES ASSUME a \in given \ contested PROVE FALSE
      OBVIOUS
    <3>1. \E p \in Proc : job[p].pc = "record" /\ job[p].to = a
      BY <2>1 DEF DirectoryInv, Decided, Flagged
    <3>2. status[a] = "pending"
      BY <3>1 DEF DirectoryInv, Decided, Undecided, Verdict
    <3> QED BY <2>1, <3>2
  <2>2. ASSUME NEW u \in User, NEW a \in Application, status[a] = "pending"
        PROVE  a \in Inbox(u) <=> forms[a].user # u /\ CanApprove(u, forms[a].group)
    <3>1. forms[a].group \in Group
      BY <2>2, DirectoryConstantFacts DEF DirectoryInv, Kinds, FormsKnown, Form, Status
    <3> DEFINE mine   == {g \in Group : Holds(u, g, "billing")}
               billed == {g \in Group : \E v \in User : Holds(v, g, "billing")}
               able   == forms[a].group \in mine \/ (u \in Operator /\ forms[a].group \notin billed)
    <3>2. able <=> CanApprove(u, forms[a].group)
      BY <3>1 DEF CanApprove
    <3>3. a \in Inbox(u) <=> forms[a].user # u /\ able
      BY <2>2 DEF Inbox
    <3> HIDE DEF able
    <3> QED BY <3>2, <3>3
  <2>3. \A u \in User : Inbox(u) = {a \in Application :
          status[a] = "pending" /\ forms[a].user # u /\ CanApprove(u, forms[a].group)}
    BY <2>2 DEF Inbox
  <2> QED BY <2>1, <2>3 DEF RoleOutcome
<1> QED BY <1>1, DirectoryInvariant, PTL

\* Repeated clicks of an applicant leave at most one pending application a concurrent
\* request.
THEOREM PendingFewer == DirectorySpec => []PendingBounded
<1>1. DirectoryInv => PendingBounded
  <2> SUFFICES ASSUME DirectoryInv, NEW f \in Form PROVE Cardinality(Pending(f)) <= Cardinality(Proc)
    BY DEF PendingBounded
  <2>1. Cardinality(Pending(f)) + Cardinality(Inserting(f)) <= Cardinality(Proc)
    BY DEF DirectoryInv, Backlog
  <2> QED BY <2>1, Sizes
<1> QED BY <1>1, DirectoryInvariant, PTL
=============================================================================
