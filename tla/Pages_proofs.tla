---------------------------- MODULE Pages_proofs ----------------------------
(***************************************************************************)
(* What the gate and the two pages claim, for any users, groups, apps, rows *)
(* and requests.  They share no variable: each has a specification and an   *)
(* inductive invariant of its own.                                          *)
(***************************************************************************)
EXTENDS Pages, TLAPS

-----------------------------------------------------------------------------
(* The delegates' page                                                     *)

Removal(k) == calls[k].stage \in {"sent", "back"} /\ calls[k].verb = "remove"

\* A request carries a row, and no request of a page that loads is heard.
CallsOK ==
  /\ \A k \in Call : calls[k].stage # "none" => calls[k].line \in Line
  /\ page = "loading" => \A k \in Call : calls[k].stage \in {"none", "unheard"}

\* The delegate's own rows are there, and are not those of an answered removal.
MineOK ==
  /\ mine \subseteq held
  /\ \A k \in Call : Answered(k) /\ calls[k].verb = "remove" => calls[k].line \notin mine

\* The dialog lies over a row of the copy, and a removal is of that row, or the row
\* has been taken out for another answer and the dialog is closed.
AimOK ==
  board \in {"assigns", "grants"} /\ page = "shown" /\ ~swerved =>
    /\ aim # Nothing => aim \in copy /\ (board = "assigns" => aim[1] = place)
    /\ \A k \in Call : Removal(k) =>
         aim = calls[k].line \/ (aim = Nothing /\ calls[k].line \notin told)

PortalInv == PortalTypeOK /\ CallsOK /\ MineOK /\ AimOK /\ CopyFollows

\* The actions of the page, those that only send a request taken together.
LEMMA PortalKinds ==
  ASSUME PortalTypeOK, PortalStep
  PROVE  \/ ServePage \/ CloseDialog \/ SwitchTab
         \/ \E g \in Place : SwitchGroup(g)
         \/ \E l \in Line : Aims(l) /\ l \in copy /\ (board = "assigns" => l[1] = place)
         \/ \E l \in Line : ChangedElsewhere(l)
         \/ \E k \in Call, l \in Line, verb \in {"add", "remove"} :
              /\ Fetch(k, verb, l)
              /\ verb = "remove" /\ board \in {"assigns", "grants"} => l = aim
         \/ \E k \in Call : \/ Serve(k) \/ Refuse(k) \/ IgnoreAnswer(k) \/ Reloads(k)
                           \/ DropGrant(k) \/ DropAssignment(k) \/ DropMember(k) \/ MarkSecret(k)
<1>1. CASE \E l \in Line : AimMember(l) \/ AimAssignment(l) \/ AimGrant(l)
  BY <1>1 DEF AimMember, AimAssignment, AimGrant, MemberShown, AssignmentShown, GrantShown,
              ChildGrantShown, Here
<1>2. CASE \E k \in Call : MembershipRemove(k) \/ AssignmentRemove(k) \/ GrantRemove(k)
  BY <1>2 DEF MembershipRemove, AssignmentRemove, GrantRemove, PortalTypeOK
<1>3. ASSUME NEW k \in Call, NEW l \in Line,
             \/ MembershipAdd(k, l) \/ AssignmentAdd(k, l) \/ GrantAdd(k, l)
             \/ FacilityAdd(k, l) \/ FacilityMove(k, l) \/ FacilityRemove(k, l)
             \/ ServiceCreate(k, l) \/ ServiceDelete(k, l) \/ RolesAdd(k, l) \/ RolesRemove(k, l)
             \/ ApplyServiceTag(k, l) \/ RequestCustomTag(k, l) \/ RemoveServiceTag(k, l)
             \/ ServiceAppAdd(k, l) \/ ServiceAppRemove(k, l) \/ AppRequest(k, l) \/ AppDelete(k, l)
             \/ AppUpdate(k, l) \/ CreateChildGroup(k, l) \/ ApplyDeveloper(k, l)
             \/ \E verb \in {"add", "remove"} : AppSecretAction(k, verb, l)
      PROVE  \E verb \in {"add", "remove"} :
               /\ Fetch(k, verb, l)
               /\ verb = "remove" => board \notin {"assigns", "grants"}
  <2>1. CASE \E verb \in {"add", "remove"} : AppSecretAction(k, verb, l)
    BY <2>1 DEF AppSecretAction, AppShown
  <2>2. CASE FacilityRemove(k, l) \/ ServiceDelete(k, l) \/ RolesRemove(k, l)
             \/ RemoveServiceTag(k, l) \/ ServiceAppRemove(k, l) \/ AppDelete(k, l)
    BY <2>2 DEF FacilityRemove, ServiceDelete, RolesRemove, RemoveServiceTag, ServiceAppRemove,
                AppDelete, FacilityShown, ServiceShown, RoleShown, TagShown, ComposedShown
  <2>3. CASE \/ MembershipAdd(k, l) \/ AssignmentAdd(k, l) \/ GrantAdd(k, l)
             \/ FacilityAdd(k, l) \/ FacilityMove(k, l) \/ ServiceCreate(k, l) \/ RolesAdd(k, l)
             \/ ApplyServiceTag(k, l) \/ RequestCustomTag(k, l) \/ ServiceAppAdd(k, l)
             \/ AppRequest(k, l) \/ AppUpdate(k, l) \/ CreateChildGroup(k, l) \/ ApplyDeveloper(k, l)
    BY <2>3 DEF MembershipAdd, AssignmentAdd, GrantAdd, FacilityAdd, FacilityMove, ServiceCreate,
                RolesAdd, ApplyServiceTag, RequestCustomTag, ServiceAppAdd, AppRequest, AppUpdate,
                CreateChildGroup, ApplyDeveloper, AddsHere
  <2> QED BY <1>3, <2>1, <2>2, <2>3
<1> QED BY <1>1, <1>2, <1>3 DEF PortalStep

\* What sending a request, hearing its answer and leaving the page do to the requests.
LEMMA CallSent ==
  ASSUME PortalTypeOK, NEW k \in Call, NEW verb \in {"add", "remove"}, NEW l \in Line,
         calls' = [calls EXCEPT ![k] = [NoCall EXCEPT !.stage = "sent", !.verb = verb, !.line = l]]
  PROVE  /\ calls' \in [Call -> Calling]
         /\ calls'[k] = [stage |-> "sent", verb |-> verb, line |-> l, ok |-> TRUE]
         /\ \A x \in Call \ {k} : calls'[x] = calls[x]
  BY DEF PortalTypeOK, Calling, NoCall

LEMMA CallForgotten ==
  ASSUME PortalTypeOK, NEW k \in Call, calls' = [calls EXCEPT ![k] = NoCall]
  PROVE  /\ calls' \in [Call -> Calling]
         /\ \A x \in Call : calls'[x] = IF x = k THEN NoCall ELSE calls[x]
  BY DEF PortalTypeOK, Calling, NoCall

LEMMA CallHeard ==
  ASSUME PortalTypeOK, NEW k \in Call, Serve(k) \/ Refuse(k)
  PROVE  /\ calls' \in [Call -> Calling]
         /\ \A x \in Call \ {k} : calls'[x] = calls[x]
         /\ calls[k].stage \in {"sent", "unheard"} 
         /\ \/ calls'[k] = NoCall
            \/ /\ calls[k].stage = "sent" /\ calls'[k].stage = "back"
               /\ calls'[k].verb = calls[k].verb /\ calls'[k].line = calls[k].line
               /\ calls'[k].ok => Serve(k)
<1>1. calls[k] \in Calling
  BY DEF PortalTypeOK
<1>2. CASE Serve(k)
  <2>1. PICK ok \in BOOLEAN : calls' = [calls EXCEPT ![k] =
          IF @.stage = "sent" THEN [@ EXCEPT !.stage = "back", !.ok = ok] ELSE NoCall]
    BY <1>2 DEF Serve
  <2> DEFINE c == IF calls[k].stage = "sent"
                  THEN [calls[k] EXCEPT !.stage = "back", !.ok = ok] ELSE NoCall
  <2>2. calls' = [calls EXCEPT ![k] = c]
    BY <2>1
  <2>3. c \in Calling
    BY <1>1 DEF Calling, NoCall
  <2>4. c = NoCall \/ (calls[k].stage = "sent" /\ c.stage = "back"
                       /\ c.verb = calls[k].verb /\ c.line = calls[k].line)
    BY <1>1 DEF Calling
  <2> HIDE DEF c
  <2> QED BY <1>2, <2>2, <2>3, <2>4 DEF PortalTypeOK, Serve
<1>3. CASE Refuse(k)
  <2> DEFINE c == [calls[k] EXCEPT !.stage = "back", !.ok = FALSE]
  <2>1. calls' = [calls EXCEPT ![k] = c]
    BY <1>3 DEF Refuse, PortalTypeOK
  <2>2. c \in Calling /\ c.stage = "back" /\ c.verb = calls[k].verb /\ c.line = calls[k].line
        /\ c.ok = FALSE
    BY <1>1 DEF Calling
  <2> HIDE DEF c
  <2> QED BY <1>3, <2>1, <2>2 DEF PortalTypeOK, Refuse
<1> QED BY <1>2, <1>3

LEMMA CallsLeft ==
  ASSUME PortalTypeOK, NEW k \in Call, Leave(k)
  PROVE  /\ calls' \in [Call -> Calling]
         /\ \A x \in Call : \/ calls'[x].stage = "none"
                            \/ /\ calls'[x].stage = "unheard" /\ calls[x].stage # "none"
                               /\ calls'[x].line = calls[x].line
<1> DEFINE c == [x \in Call |-> IF x # k /\ calls[x].stage \in {"sent", "unheard"}
                             THEN [calls[x] EXCEPT !.stage = "unheard"] ELSE NoCall]
<1>1. calls' = c
  BY DEF Leave
<1>2. ASSUME NEW x \in Call
      PROVE  /\ c[x] \in Calling
             /\ \/ c[x].stage = "none"
                \/ /\ c[x].stage = "unheard" /\ calls[x].stage # "none"
                   /\ c[x].line = calls[x].line
  <2>1. calls[x] \in Calling
    BY DEF PortalTypeOK
  <2> QED BY <2>1 DEF Calling, NoCall
<1> QED BY <1>1, <1>2

LEMMA PortalStarts ==
  ASSUME PortalInit
  PROVE  PortalInv
<1>1. PortalTypeOK
  BY DEF PortalInit, Twice, PortalTypeOK, NoCall, Calling
<1>2. CallsOK /\ MineOK
  BY DEF PortalInit, CallsOK, MineOK, Answered, NoCall
<1>3. AimOK /\ CopyFollows
  BY DEF PortalInit, AimOK, Removal, CopyFollows, Followed, Behind, Twice, NoCall
<1> QED BY <1>1, <1>2, <1>3 DEF PortalInv

\* The page is loaded, the group or the dialog changed, or somebody else writes.
LEMMA PortalLooks ==
  ASSUME PortalInv,
         \/ ServePage \/ CloseDialog \/ SwitchTab
         \/ \E g \in Place : SwitchGroup(g)
         \/ \E l \in Line : Aims(l) /\ l \in copy /\ (board = "assigns" => l[1] = place)
         \/ \E l \in Line : ChangedElsewhere(l)
  PROVE  PortalInv'
<1> USE DEF PortalInv
<1>1. CASE ServePage
  <2>1. PortalTypeOK' /\ CallsOK' /\ MineOK'
    BY <1>1 DEF ServePage, Twice, PortalTypeOK, CallsOK, MineOK, Answered
  <2>2. AimOK' /\ CopyFollows'
    BY <1>1 DEF ServePage, AimOK, Removal, CallsOK, MineOK, CopyFollows, Followed, Behind, Twice
  <2> QED BY <2>1, <2>2
<1>2. CASE CloseDialog
  <2>1. PortalTypeOK' /\ CallsOK' /\ MineOK'
    BY <1>2 DEF CloseDialog, PortalTypeOK, CallsOK, MineOK, Answered, Removing
  <2>2. AimOK' /\ CopyFollows'
    BY <1>2 DEF CloseDialog, AimOK, Removal, Removing, CopyFollows, Followed, Behind, Twice
  <2> QED BY <2>1, <2>2
<1>3. CASE SwitchTab \/ \E g \in Place : SwitchGroup(g)
  <2>1. PortalTypeOK' /\ CallsOK' /\ MineOK'
    BY <1>3 DEF SwitchTab, SwitchGroup, RenderAll, PortalTypeOK, CallsOK, MineOK, Answered,
                Removing
  <2>2. AimOK' /\ CopyFollows'
    BY <1>3 DEF SwitchTab, SwitchGroup, RenderAll, AimOK, Removal, Removing, CopyFollows, Followed, Behind, Twice
  <2> QED BY <2>1, <2>2
<1>4. CASE \E l \in Line : Aims(l) /\ l \in copy /\ (board = "assigns" => l[1] = place)
  <2>1. PortalTypeOK' /\ CallsOK' /\ MineOK'
    BY <1>4 DEF Aims, PortalTypeOK, CallsOK, MineOK, Answered, Removing
  <2>2. AimOK' /\ CopyFollows'
    BY <1>4 DEF Aims, AimOK, Removal, Removing, CopyFollows, Followed, Behind, Twice
  <2> QED BY <2>1, <2>2
<1>5. CASE \E l \in Line : ChangedElsewhere(l)
  <2>1. PortalTypeOK' /\ CallsOK' /\ MineOK'
    BY <1>5 DEF ChangedElsewhere, PortalTypeOK, CallsOK, MineOK, Answered
  <2>2. AimOK' /\ CopyFollows'
    BY <1>5 DEF ChangedElsewhere, AimOK, Removal, CopyFollows, Followed, Behind, Twice
  <2> QED BY <2>1, <2>2
<1> QED BY <1>1, <1>2, <1>3, <1>4, <1>5

\* A request is sent, served or refused, or its error ignored.
LEMMA PortalAsks ==
  ASSUME PortalInv, NEW k \in Call,
         \/ \E l \in Line, verb \in {"add", "remove"} :
              /\ Fetch(k, verb, l)
              /\ verb = "remove" /\ board \in {"assigns", "grants"} => l = aim
         \/ Serve(k) \/ Refuse(k) \/ IgnoreAnswer(k)
  PROVE  PortalInv'
<1> USE DEF PortalInv
<1>1. ASSUME NEW l \in Line, NEW verb \in {"add", "remove"}, Fetch(k, verb, l),
             verb = "remove" /\ board \in {"assigns", "grants"} => l = aim
      PROVE  PortalInv'
  <2>1. /\ calls' \in [Call -> Calling]
        /\ calls'[k] = [stage |-> "sent", verb |-> verb, line |-> l, ok |-> TRUE]
        /\ \A x \in Call \ {k} : calls'[x] = calls[x]
    <3>1. calls' = [calls EXCEPT ![k] = [NoCall EXCEPT !.stage = "sent", !.verb = verb, !.line = l]]
      BY <1>1 DEF Fetch
    <3> QED BY <3>1, CallSent, ZenonT(30)
  <2>2. /\ page = "shown"
        /\ UNCHANGED <<board, held, copy, second, place, aim, page, told, since, mine, swerved>>
    BY <1>1 DEF Fetch
  <2>3. PortalTypeOK'
    BY <2>1, <2>2 DEF PortalTypeOK
  <2>4. CallsOK' /\ MineOK'
    BY <2>1, <2>2 DEF CallsOK, MineOK, Answered
  <2>5. AimOK' /\ CopyFollows'
    BY <1>1, <2>1, <2>2 DEF AimOK, Removal, CopyFollows, Followed, Behind, Twice
  <2> QED BY <2>3, <2>4, <2>5
<1>2. CASE Serve(k) \/ Refuse(k)
  <2>1. /\ calls' \in [Call -> Calling]
        /\ \A x \in Call \ {k} : calls'[x] = calls[x]
        /\ calls[k].stage \in {"sent", "unheard"}
        /\ \/ calls'[k] = NoCall
           \/ /\ calls[k].stage = "sent" /\ calls'[k].stage = "back"
              /\ calls'[k].verb = calls[k].verb /\ calls'[k].line = calls[k].line
              /\ calls'[k].ok => Serve(k)
    BY <1>2, CallHeard
  <2>2. /\ UNCHANGED <<board, copy, second, place, aim, page, told, since, swerved>>
        /\ mine' \subseteq mine /\ mine' \subseteq held' /\ held' \subseteq Line
        /\ Serve(k) /\ calls[k].verb = "remove" => calls[k].line \notin held'
    BY <1>2, <2>1 DEF Serve, Refuse, After, MineOK, CallsOK, PortalTypeOK
  <2>3. PortalTypeOK'
    BY <2>1, <2>2 DEF PortalTypeOK
  <2>4. CallsOK'
    BY <2>1, <2>2 DEF CallsOK, NoCall
  <2>5. MineOK'
    BY <2>1, <2>2 DEF MineOK, Answered, NoCall
  <2>6. AimOK' /\ CopyFollows'
    BY <2>1, <2>2 DEF AimOK, Removal, CopyFollows, Followed, Behind, Twice, NoCall
  <2> QED BY <2>3, <2>4, <2>5, <2>6
<1>3. CASE IgnoreAnswer(k)
  <2>1. /\ calls' \in [Call -> Calling]
        /\ \A x \in Call : calls'[x] = IF x = k THEN NoCall ELSE calls[x]
    BY <1>3, CallForgotten DEF IgnoreAnswer
  <2>2. UNCHANGED <<board, held, copy, second, place, aim, page, told, since, mine, swerved>>
    BY <1>3 DEF IgnoreAnswer
  <2>3. PortalTypeOK' /\ CallsOK' /\ MineOK'
    BY <2>1, <2>2 DEF PortalTypeOK, CallsOK, MineOK, Answered, NoCall
  <2>4. AimOK' /\ CopyFollows'
    BY <2>1, <2>2 DEF AimOK, Removal, CopyFollows, Followed, Behind, Twice, NoCall
  <2> QED BY <2>3, <2>4
<1> QED BY <1>1, <1>2, <1>3

\* The page takes in an answer.
LEMMA PortalMends ==
  ASSUME PortalInv, NEW k \in Call,
         Reloads(k) \/ DropGrant(k) \/ DropAssignment(k) \/ DropMember(k) \/ MarkSecret(k)
  PROVE  PortalInv'
<1> USE DEF PortalInv
<1>0. /\ calls[k] \in Calling /\ calls[k].line \in Line
      /\ calls[k].verb = "remove" => calls[k].line \notin mine
  BY DEF Reloads, DropGrant, DropAssignment, DropMember, MarkSecret, Mends, Answered, CallsOK,
         MineOK, PortalTypeOK
<1>1. CASE Reloads(k)
  <2>1. /\ calls' \in [Call -> Calling]
        /\ \A x \in Call : \/ calls'[x].stage = "none"
                           \/ /\ calls'[x].stage = "unheard" /\ calls[x].stage # "none"
                              /\ calls'[x].line = calls[x].line
    BY <1>1, CallsLeft DEF Reloads
  <2>2. /\ UNCHANGED <<board, held, place, copy, second, told, since, aim, swerved>>
        /\ page' = "loading"
        /\ mine' \subseteq held
    BY <1>1 DEF Reloads, Leave, MineOK
  <2>3. PortalTypeOK'
    BY <2>1, <2>2 DEF PortalTypeOK
  <2>4. CallsOK' /\ MineOK'
    BY <2>1, <2>2 DEF CallsOK, MineOK, Answered
  <2>5. AimOK' /\ CopyFollows'
    BY <2>2 DEF AimOK, CopyFollows, Followed, Behind, Twice
  <2> QED BY <2>3, <2>4, <2>5
<1>2. CASE DropGrant(k) \/ DropAssignment(k) \/ DropMember(k) \/ MarkSecret(k)
  <2>1. /\ calls' \in [Call -> Calling]
        /\ \A x \in Call : calls'[x] = IF x = k THEN NoCall ELSE calls[x]
    BY <1>2, CallForgotten DEF DropGrant, DropAssignment, DropMember, MarkSecret, Mends
  <2>2. /\ UNCHANGED <<board, held, second, place, page, mine>> /\ Told(calls[k])
        /\ copy' \subseteq Line /\ aim' \in Line \cup {Nothing} /\ swerved' \in BOOLEAN
    BY <1>0, <1>2
    DEF DropGrant, DropAssignment, DropMember, MarkSecret, Mends, PortalTypeOK
  <2>3. PortalTypeOK' /\ CallsOK' /\ MineOK'
    BY <1>0, <2>1, <2>2 DEF PortalTypeOK, CallsOK, MineOK, Answered, NoCall, Told, Twice
  <2>4. CASE DropGrant(k) \/ DropAssignment(k)
    <3>1. /\ board \in {"assigns", "grants"} /\ aim' = Nothing /\ swerved' = swerved
          /\ Removal(k) /\ told' = told \ {calls[k].line}
          /\ copy' = copy \ (IF board = "grants" THEN {aim} ELSE {l \in {aim} : Here(l)})
      BY <2>4 DEF DropGrant, DropAssignment, Mends, Answered, Told, Removal
    <3> SUFFICES ASSUME page = "shown", ~swerved
                 PROVE  AimOK' /\ CopyFollows'
      BY <2>2, <2>3, <3>1 DEF AimOK, CopyFollows, Followed, Behind, Twice
    <3>2. /\ aim # Nothing => aim \in copy /\ (board = "assigns" => aim[1] = place)
          /\ \A x \in Call : Removal(x) =>
               aim = calls[x].line \/ (aim = Nothing /\ calls[x].line \notin told)
          /\ copy = told /\ mine \subseteq copy
      BY <3>1 DEF AimOK, CopyFollows, Followed, Behind, Twice
    <3>3. copy' = copy \ {aim}
      BY <3>1, <3>2, NothingOK DEF Here, NothingOK, PortalTypeOK
    <3>4. aim = calls[k].line \/ (aim = Nothing /\ calls[k].line \notin told)
      BY <3>1, <3>2
    <3>5. copy' = told' /\ mine' \subseteq copy'
      BY <1>0, <2>2, <3>1, <3>2, <3>3, <3>4, NothingOK DEF PortalTypeOK, NothingOK, Removal
    <3>6. Behind'
      <4>1. since' = since \cup Twice({calls[k].line}) /\ copy' \subseteq copy
        BY <2>2, <3>1 DEF Told
      <4>2. board = "grants" => Behind
        BY DEF CopyFollows
      <4>3. CASE board = "grants"
        <5>1. \A l \in Line : l \in since' \/ (l \in second <=> l \in copy')
          BY <1>0, <3>3, <3>4, <4>1, <4>2, <4>3, NothingOK DEF Behind, Twice, Doubled, NothingOK
        <5> QED BY <2>2, <4>1, <4>2, <4>3, <5>1 DEF Behind, Doubled
      <4>4. CASE board # "grants"
        BY <2>2, <3>1, <4>4 DEF Behind, Doubled
      <4> QED BY <4>3, <4>4
    <3>7. AimOK'
      BY <2>1, <2>2, <3>1, <3>2, <3>4 DEF AimOK, Removal, NoCall
    <3> QED BY <3>5, <3>6, <3>7 DEF CopyFollows, Followed
  <2>5. CASE DropMember(k)
    BY <2>3, <2>5 DEF DropMember, AimOK, CopyFollows, Followed, Behind, Twice
  <2>6. CASE MarkSecret(k)
    <3>1. AimOK'
      BY <2>6 DEF MarkSecret, AimOK
    <3>2. CopyFollows'
      BY <1>0, <2>2, <2>6 DEF MarkSecret, CopyFollows, Followed, Behind, Twice, Told, Calling
    <3> QED BY <2>3, <3>1, <3>2
  <2> QED BY <1>2, <2>3, <2>4, <2>5, <2>6 DEF CopyFollows
<1> QED BY <1>1, <1>2

\* What the delegates' page keeps.
THEOREM PortalInvariant == PortalSpec => []PortalInv
<1>1. PortalInit => PortalInv
  BY PortalStarts
<1>2. PortalInv /\ [PortalStep]_portalVars => PortalInv'
  <2> SUFFICES ASSUME PortalInv, [PortalStep]_portalVars PROVE PortalInv'
    OBVIOUS
  <2>1. CASE PortalStep
    <3>1. PortalTypeOK
      BY DEF PortalInv
    <3> QED BY <2>1, <3>1, PortalKinds, PortalLooks, PortalAsks, PortalMends
  <2>2. CASE UNCHANGED portalVars
    BY <2>2 DEF portalVars, PortalInv, PortalTypeOK, CallsOK, MineOK, AimOK, Answered, Removal,
                CopyFollows, Followed, Behind, Twice
  <2> QED BY <2>1, <2>2
<1> QED BY <1>1, <1>2, PTL DEF PortalSpec

\* The rows, the dialog, the requests and the copy of the delegates' page keep their types.
THEOREM PortalTypes == PortalSpec => []PortalTypeOK
<1>1. PortalInv => PortalTypeOK
  BY DEF PortalInv
<1> QED BY <1>1, PortalInvariant, PTL

\* The copy mended by hand is what a fresh page would show in its place, but for what
\* others changed; a second copy is behind it by the rows changed since it was taken.
THEOREM CopyIsMended == PortalSpec => []CopyFollows
<1>1. PortalInv => CopyFollows
  BY DEF PortalInv
<1> QED BY <1>1, PortalInvariant, PTL

-----------------------------------------------------------------------------
(* The gate                                                                *)

pathTables == <<seats, placed, within, granted, phase, owner, parts>>

TablesOK ==
  /\ status \in [App -> Status \cup {None}]
  /\ home \in [User -> Group \cup {None}]
  /\ direct \in [User -> [App -> Period \cup {None}]]
  /\ shared \in [Group -> [App -> Period \cup {None}]]
  /\ seats \subseteq Path /\ placed \subseteq seats
  /\ within \subseteq User \X Group
  /\ granted \subseteq Group \X Service
  /\ phase \in [Service -> Status \cup {None}] /\ owner \in [Service -> Group \cup {None}]
  /\ parts \subseteq Service \X App

\* A step writes to one of the five tables, the service path being one.
OneTable ==
  \/ UNCHANGED <<direct, home, shared, pathTables>>
  \/ UNCHANGED <<status, home, shared, pathTables>>
  \/ UNCHANGED <<status, direct, shared, pathTables>>
  \/ UNCHANGED <<status, direct, home, pathTables>>
  \/ UNCHANGED <<status, direct, home, shared>>

Asks(c) == c.pc \in {"direct", "home", "shared", "service"}

\* What the check c will answer if nothing more is written.
Rest(c) ==
  \/ c.pc = "direct" /\ direct[c.user][c.app] = "valid"
  \/ c.pc \in {"direct", "home"} /\ Shared(home[c.user], c.app)
  \/ c.pc = "shared" /\ Shared(c.group, c.app)
  \/ Assigned(c.user, c.app)

\* What c has read is still so.
Fresh(c) ==
  /\ Open(c.app)
  /\ c.pc # "direct" => direct[c.user][c.app] # "valid"
  /\ c.pc = "shared" => c.group = home[c.user]
  /\ c.pc = "service" => ~Shared(home[c.user], c.app)

Says(S, b) == IF b THEN TRUE \in S ELSE FALSE \in S

CheckOK(c) ==
  /\ c.pc # "idle" => c.user \in User /\ c.app \in App
  /\ Asks(c) /\ c.edits = 0 => Fresh(c)
  /\ Asks(c) /\ c.edits < 2 => Says(c.seen, Rest(c))
  /\ c.pc = "answered" /\ c.edits < 2 => c.answer \in c.seen

GateInv == GateTypeOK /\ \A k \in Check : CheckOK(check[k])

\* The operator's requests put rows of the right kind, and stay requests.
LEMMA ErrandKept ==
  ASSUME GateTypeOK, NEW d \in Desk, Errands(d)
  PROVE  /\ desk' \in [Desk -> Errand]
         /\ \/ UNCHANGED <<tables, check>>
            \/ /\ Noticed
               /\ \/ \E u \in User, g \in Group \cup {None} : PutHome(u, g)
                  \/ \E u \in User, a \in App, v \in Period \cup {None} : PutDirect(u, a, v)
                  \/ \E g \in Group, a \in App, v \in Period \cup {None} : PutShared(g, a, v)
<1>0. desk[d] \in Errand /\ AtRest \in Errand
  BY DEF GateTypeOK, Errand, AtRest
<1>1. CASE \E u \in User, as \in SUBSET App, v \in Period : StartGrant(d, u, as, v)
  <2> PICK u \in User, as \in SUBSET App, v \in Period : StartGrant(d, u, as, v)
    BY <1>1
  <2> DEFINE e == [AtRest EXCEPT !.users = {u}, !.apps = as, !.period = v]
  <2>1. e \in Errand
    BY DEF AtRest, Errand
  <2>2. desk' = [desk EXCEPT ![d] = e] /\ UNCHANGED <<tables, check>>
    BY DEF StartGrant
  <2> HIDE DEF e
  <2> QED BY <2>1, <2>2 DEF GateTypeOK
<1>2. CASE \E g \in Group, as \in SUBSET App, v \in Period : StartGroupGrant(d, g, as, v)
  <2> PICK g \in Group, as \in SUBSET App, v \in Period : StartGroupGrant(d, g, as, v)
    BY <1>2
  <2> DEFINE e == [AtRest EXCEPT !.groups = {g}, !.apps = as, !.period = v]
  <2>1. e \in Errand
    BY DEF AtRest, Errand
  <2>2. desk' = [desk EXCEPT ![d] = e] /\ UNCHANGED <<tables, check>>
    BY DEF StartGroupGrant
  <2> HIDE DEF e
  <2> QED BY <2>1, <2>2 DEF GateTypeOK
<1>3. CASE \E us \in SUBSET User, as \in SUBSET App :
             \/ StartBulk(d, us, as, None)
             \/ \E g \in Group \cup {None} : StartBulk(d, us, as, [regroup |-> us, group |-> g])
  <2>1. PICK us \in SUBSET User, as \in SUBSET App,
             to \in {None} \cup [regroup : SUBSET User, group : Group \cup {None}] :
               StartBulk(d, us, as, to)
    BY <1>3
  <2> DEFINE e == [AtRest EXCEPT !.users = us, !.apps = as, !.to = to, !.period = "valid"]
  <2>2. e \in Errand
    BY DEF AtRest, Errand, Period
  <2>3. desk' = [desk EXCEPT ![d] = e] /\ UNCHANGED <<tables, check>>
    BY <2>1 DEF StartBulk
  <2> HIDE DEF e
  <2> QED BY <2>2, <2>3 DEF GateTypeOK
<1>4. CASE RegroupNext(d)
  <2> DEFINE t == desk[d].to
  <2>1. t \in [regroup : SUBSET User, group : Group \cup {None}]
    BY <1>0, <1>4 DEF RegroupNext, Errand
  <2>2. PICK u \in t.regroup :
          /\ PutHome(u, t.group)
          /\ desk' = [desk EXCEPT ![d] =
               IF t.regroup # {u} THEN [@ EXCEPT !.to.regroup = t.regroup \ {u}]
               ELSE IF @.apps = {} THEN AtRest ELSE [@ EXCEPT !.to = None]]
    BY <1>4 DEF RegroupNext
  <2> DEFINE e == IF t.regroup # {u} THEN [desk[d] EXCEPT !.to.regroup = t.regroup \ {u}]
                  ELSE IF desk[d].apps = {} THEN AtRest ELSE [desk[d] EXCEPT !.to = None]
  <2>3. desk' = [desk EXCEPT ![d] = e]
    BY <2>2
  <2>4. e \in Errand
    BY <1>0, <2>1 DEF Errand
  <2>5. u \in User /\ t.group \in Group \cup {None}
    BY <2>1
  <2> HIDE DEF e
  <2> QED BY <1>4, <2>2, <2>3, <2>4, <2>5, ZenonT(30) DEF RegroupNext, GateTypeOK
<1>5. CASE GrantNext(d)
  <2> DEFINE r == desk[d]
  <2>1. PICK a \in r.apps :
          \/ \E u \in r.users :
               /\ PutDirect(u, a, r.period)
               /\ desk' = [desk EXCEPT ![d] =
                    IF r.users = {u} /\ r.apps = {a} THEN AtRest
                    ELSE IF r.users = {u} THEN [r EXCEPT !.apps = r.apps \ {a}]
                    ELSE [r EXCEPT !.users = r.users \ {u}]]
          \/ \E g \in r.groups :
               /\ PutShared(g, a, r.period)
               /\ desk' = [desk EXCEPT ![d] =
                    IF r.apps = {a} THEN AtRest ELSE [r EXCEPT !.apps = r.apps \ {a}]]
    BY <1>5 DEF GrantNext
  <2>2. /\ a \in App /\ r.period \in Period \cup {None}
        /\ r.users \subseteq User /\ r.groups \subseteq Group
    BY <1>0 DEF Errand
  <2>3. /\ [r EXCEPT !.apps = r.apps \ {a}] \in Errand
        /\ \A u \in r.users : [r EXCEPT !.users = r.users \ {u}] \in Errand
    BY <1>0 DEF Errand
  <2>4. desk' \in [Desk -> Errand]
    BY <1>0, <2>1, <2>3 DEF GateTypeOK
  <2>5. Noticed
    BY <1>5 DEF GrantNext
  <2> QED BY <2>1, <2>2, <2>4, <2>5
<1>6. CASE AbortErrand(d)
  BY <1>0, <1>6 DEF AbortErrand, GateTypeOK
<1> QED BY <1>1, <1>2, <1>3, <1>4, <1>5, <1>6 DEF Errands

\* A write leaves the tables well-formed and the other four as they are.
LEMMA RowWritten ==
  ASSUME GateTypeOK,
         \/ \E u \in User, g \in Group \cup {None} : PutHome(u, g)
         \/ \E u \in User, a \in App, v \in Period \cup {None} : PutDirect(u, a, v)
         \/ \E g \in Group, a \in App, v \in Period \cup {None} : PutShared(g, a, v)
  PROVE  TablesOK' /\ OneTable
<1>1. CASE \E u \in User, g \in Group \cup {None} : PutHome(u, g)
  BY <1>1 DEF PutHome, GateTypeOK, TablesOK, OneTable, pathTables
<1>2. CASE \E u \in User, a \in App, v \in Period \cup {None} : PutDirect(u, a, v)
  <2> PICK u \in User, a \in App, v \in Period \cup {None} : PutDirect(u, a, v)
    BY <1>2
  <2>1. direct' \in [User -> [App -> Period \cup {None}]]
    BY DEF PutDirect, GateTypeOK
  <2> QED BY <2>1 DEF PutDirect, GateTypeOK, TablesOK, OneTable, pathTables
<1>3. CASE \E g \in Group, a \in App, v \in Period \cup {None} : PutShared(g, a, v)
  <2> PICK g \in Group, a \in App, v \in Period \cup {None} : PutShared(g, a, v)
    BY <1>3
  <2>1. shared' \in [Group -> [App -> Period \cup {None}]]
    BY DEF PutShared, GateTypeOK
  <2> QED BY <2>1 DEF PutShared, GateTypeOK, TablesOK, OneTable, pathTables
<1> QED BY <1>1, <1>2, <1>3

LEMMA PathWritten ==
  ASSUME GateTypeOK, ChangePath \/ Services
  PROVE  TablesOK' /\ OneTable
<1>1. UNCHANGED <<status, home, direct, shared>>
  BY DEF ChangePath, Services, ApproveService, ReapplyService, ReplaceService
<1>2. TablesOK'
  <2>1. CASE ChangePath
    <3>1. /\ seats' \subseteq Path /\ placed' \subseteq seats'
          /\ within' \subseteq User \X Group /\ granted' \subseteq Group \X Service
          /\ parts' \subseteq Service \X App
      <4>1. CASE \E x \in Path : /\ seats' = Toggled(seats, x)
                                 /\ placed' \in {placed \ {x}, (placed \cup {x}) \cap seats'}
                                 /\ UNCHANGED <<within, granted, parts>>
        BY <4>1 DEF Toggled, GateTypeOK
      <4>2. CASE \E x \in User \X Group :
                   within' = Toggled(within, x) /\ UNCHANGED <<seats, placed, granted, parts>>
        BY <4>2 DEF Toggled, GateTypeOK
      <4>3. CASE \E x \in Group \X Service :
                   granted' = Toggled(granted, x) /\ UNCHANGED <<seats, placed, within, parts>>
        BY <4>3 DEF Toggled, GateTypeOK
      <4>4. CASE \E x \in Service \X App :
                   parts' = Toggled(parts, x) /\ UNCHANGED <<seats, placed, within, granted>>
        BY <4>4 DEF Toggled, GateTypeOK
      <4> QED BY <2>1, <4>1, <4>2, <4>3, <4>4 DEF ChangePath
    <3> QED BY <1>1, <2>1, <3>1 DEF ChangePath, TablesOK, GateTypeOK
  <2>2. ASSUME NEW s \in Service, ApproveService(s)
        PROVE  TablesOK'
    <3>1. phase' \in [Service -> Status \cup {None}]
      BY <2>2 DEF ApproveService, GateTypeOK, Status
    <3>2. granted' \subseteq Group \X Service
      BY <2>2 DEF ApproveService, GateTypeOK
    <3> QED BY <2>2, <3>1, <3>2 DEF ApproveService, TablesOK, GateTypeOK
  <2>3. ASSUME NEW s \in Service, ReapplyService(s)
        PROVE  TablesOK'
    BY <2>3 DEF ReapplyService, TablesOK, GateTypeOK, Status
  <2>4. ASSUME NEW s \in Service, NEW g \in Group \cup {None}, ReplaceService(s, g)
        PROVE  TablesOK'
    <3>1. /\ phase' \in [Service -> Status \cup {None}]
          /\ owner' \in [Service -> Group \cup {None}]
      BY <2>4 DEF ReplaceService, GateTypeOK, Status
    <3>2. /\ seats' \subseteq seats /\ placed' \subseteq seats'
          /\ granted' \subseteq granted /\ parts' \subseteq parts
      BY <2>4 DEF ReplaceService, GateTypeOK
    <3> QED BY <2>4, <3>1, <3>2 DEF ReplaceService, TablesOK, GateTypeOK
  <2> QED BY <2>1, <2>2, <2>3, <2>4 DEF Services
<1> QED BY <1>1, <1>2 DEF OneTable

\* Every step of the gate is one of a check, of an operator's request that writes
\* nothing, of somebody who writes one row, or time passing while no check runs.
LEMMA GateKinds ==
  ASSUME GateTypeOK, GateStep
  PROVE  \/ \E k \in Check, u \in User, a \in App : StartCheck(k, u, a)
         \/ \E k \in Check : \/ ReadDirect(k) \/ ReadHome(k) \/ ReadShared(k) \/ ReadService(k)
                             \/ UseAnswer(k)
         \/ UNCHANGED <<tables, check>> /\ desk' \in [Desk -> Errand]
         \/ TablesOK' /\ OneTable /\ Noticed /\ desk' \in [Desk -> Errand]
         \/ /\ TablesOK' /\ UNCHANGED <<check, desk>>
            /\ \A k \in Check : check[k].pc = "idle"
<1>1. CASE \E k \in Check : Checks(k, User)
  BY <1>1 DEF Checks
<1>2. CASE \E d \in Desk : Errands(d)
  BY <1>2, ErrandKept, RowWritten
<1>3. CASE SingleRows(User)
  <2>1. CASE \E a \in App, v \in Status : SetStatus(a, v)
    <3>1. TablesOK' /\ OneTable
      BY <2>1 DEF SetStatus, GateTypeOK, TablesOK, OneTable, pathTables
    <3> QED BY <2>1, <3>1 DEF SetStatus, GateTypeOK
  <2>2. CASE \/ \E u \in User, g \in Group \cup {None} : SetUserGroup(u, g)
             \/ \E u \in User, a \in App : RevokePermission(u, a)
             \/ \E g \in Group, a \in App : RevokeGroupPermission(g, a)
    <3>1. /\ Noticed /\ UNCHANGED desk
          /\ \/ \E u \in User, g \in Group \cup {None} : PutHome(u, g)
             \/ \E u \in User, a \in App, v \in Period \cup {None} : PutDirect(u, a, v)
             \/ \E g \in Group, a \in App, v \in Period \cup {None} : PutShared(g, a, v)
      BY <2>2 DEF SetUserGroup, RevokePermission, RevokeGroupPermission
    <3> QED BY <3>1, RowWritten DEF GateTypeOK
  <2> QED BY <1>3, <2>1, <2>2 DEF SingleRows
<1>4. CASE ChangePath \/ Services
  <2>1. Noticed /\ UNCHANGED desk
    BY <1>4 DEF ChangePath, Services, ApproveService, ReapplyService, ReplaceService
  <2> QED BY <1>4, <2>1, PathWritten DEF GateTypeOK
<1>5. CASE TimePassesBy
  <2>1. /\ UNCHANGED <<check, desk>> /\ \A k \in Check : check[k].pc = "idle"
        /\ \/ \E u \in User, a \in App, v \in Period \cup {None} : PutDirect(u, a, v)
           \/ \E g \in Group, a \in App, v \in Period \cup {None} : PutShared(g, a, v)
    BY <1>5 DEF TimePassesBy
  <2> QED BY <2>1, RowWritten
<1> QED BY <1>1, <1>2, <1>3, <1>4, <1>5 DEF GateStep

\* While what was read is still so, the check will answer what is true now.
LEMMA FreshRest ==
  ASSUME NEW c, Asks(c), Fresh(c)
  PROVE  Rest(c) <=> Permitted(c.user, c.app)
  BY DEF Asks, Fresh, Rest, Permitted

\* After one write it will answer what was true before the write, or what is now.
LEMMA OneWriteBetween ==
  ASSUME NEW c, Asks(c), Fresh(c), OneTable
  PROVE  \/ Rest(c)' <=> Permitted(c.user, c.app)
         \/ Rest(c)' <=> Permitted(c.user, c.app)'
<1>0. Rest(c) <=> Permitted(c.user, c.app)
  BY FreshRest
<1>1. CASE UNCHANGED <<direct, home, shared, pathTables>>
  BY <1>0, <1>1 DEF pathTables, Rest, Shared, Assigned, Through, Owns
<1>2. CASE UNCHANGED <<status, home, shared, pathTables>>
  <2>1. c.pc # "direct" => (Rest(c)' <=> Rest(c))
    BY <1>2 DEF pathTables, Rest, Shared, Assigned, Through, Owns
  <2>2. c.pc = "direct" => (Rest(c)' <=> Permitted(c.user, c.app)')
    BY <1>2 DEF pathTables, Rest, Shared, Assigned, Through, Owns, Permitted, Open, Fresh
  <2> QED BY <1>0, <2>1, <2>2
<1>3. CASE UNCHANGED <<status, direct, shared, pathTables>>
  <2>1. c.pc \in {"shared", "service"} => (Rest(c)' <=> Rest(c))
    BY <1>3 DEF pathTables, Rest, Shared, Assigned, Through, Owns
  <2>2. c.pc \in {"direct", "home"} => (Rest(c)' <=> Permitted(c.user, c.app)')
    BY <1>3 DEF pathTables, Rest, Shared, Assigned, Through, Owns, Permitted, Open, Fresh
  <2> QED BY <1>0, <2>1, <2>2 DEF Asks
<1>4. CASE UNCHANGED <<status, direct, home, pathTables>>
  <2>1. c.pc = "service" => (Rest(c)' <=> Rest(c))
    BY <1>4 DEF pathTables, Rest, Shared, Assigned, Through, Owns
  <2>2. c.pc # "service" => (Rest(c)' <=> Permitted(c.user, c.app)')
    BY <1>4 DEF pathTables, Rest, Shared, Assigned, Through, Owns, Permitted, Open, Fresh, Asks
  <2> QED BY <1>0, <2>1, <2>2
<1>5. CASE UNCHANGED <<status, direct, home, shared>>
  BY <1>5 DEF Rest, Shared, Permitted, Open, Fresh, Asks
<1> QED BY <1>1, <1>2, <1>3, <1>4, <1>5 DEF OneTable

\* What a write does to a check under way.
LEMMA NoticedBy ==
  ASSUME GateTypeOK, Noticed, NEW k \in Check, NEW c, c = check[k], CheckOK(c)
  PROVE  /\ check'[k] \in Checking
         /\ ~Asks(c) => check'[k] = c
         /\ Asks(c) =>
              /\ check'[k].pc = c.pc /\ check'[k].user = c.user /\ check'[k].app = c.app
              /\ check'[k].group = c.group
              /\ c.seen \subseteq check'[k].seen
              /\ Says(check'[k].seen, Permitted(c.user, c.app)')
              /\ check'[k].edits # 0 /\ (check'[k].edits < 2 => c.edits = 0)
<1> DEFINE truth == [x \in User \X App |-> Permitted(x[1], x[2])']
<1>1. c \in Checking
  BY DEF GateTypeOK
<1>2. check'[k] = IF c.pc \in {"idle", "answered"} THEN c
                  ELSE [c EXCEPT !.seen = @ \cup {truth[<<c.user, c.app>>]},
                                 !.edits = IF @ < 2 THEN @ + 1 ELSE 2]
  BY DEF Noticed
<1>3. CASE ~Asks(c)
  BY <1>1, <1>2, <1>3 DEF Asks, Checking
<1>4. CASE Asks(c)
  <2>1. c.user \in User /\ c.app \in App
    BY <1>4 DEF CheckOK, Asks
  <2> DEFINE t == truth[<<c.user, c.app>>]
             n == IF c.edits < 2 THEN c.edits + 1 ELSE 2
             d == [c EXCEPT !.seen = c.seen \cup {t}, !.edits = n]
  <2>2. t = Permitted(c.user, c.app)'
    BY <2>1, Zenon
  <2>3. t \in BOOLEAN /\ Says({t}, Permitted(c.user, c.app)')
    BY <2>2 DEF Says, Permitted
  <2>4. n \in 0..2 /\ n # 0 /\ (n < 2 => c.edits = 0)
    BY <1>1 DEF Checking
  <2>5. check'[k] = d
    BY <1>2, <1>4 DEF Asks
  <2> HIDE DEF t, n
  <2>6. /\ d \in Checking /\ d.pc = c.pc /\ d.user = c.user /\ d.app = c.app
        /\ d.group = c.group /\ d.seen = c.seen \cup {t} /\ d.edits = n
    BY <1>1, <2>3, <2>4 DEF Checking
  <2> HIDE DEF d
  <2> QED BY <1>4, <2>3, <2>4, <2>5, <2>6 DEF Says
<1> QED BY <1>3, <1>4
\* Another check, and what it has seen, is not concerned by the tables as they stay.
LEMMA CheckAlone ==
  ASSUME GateInv, NEW k \in Check, UNCHANGED <<tables, desk>>, NEW d \in Checking,
         check' = [check EXCEPT ![k] = d], CheckOK(d)
  PROVE  GateInv'
<1>1. GateTypeOK'
  BY DEF GateInv, GateTypeOK, tables
<1>2. ASSUME NEW x \in Check PROVE CheckOK(check[x])'
  <2>1. /\ check' \in [Check -> Checking] /\ check'[k] = d
        /\ \A y \in Check \ {k} : check'[y] = check[y]
    BY DEF GateInv, GateTypeOK
  <2>2. PICK c : c = check'[x]
    OBVIOUS
  <2>3. CheckOK(c)
    BY <2>1, <2>2 DEF GateInv
  <2>4. CheckOK(c)'
    BY <2>3 DEF CheckOK, Fresh, Rest, Open, Shared, Assigned, Through, Owns, tables
  <2> QED BY <2>2, <2>4 DEF CheckOK, Asks, Fresh, Rest
<1> QED BY <1>1, <1>2 DEF GateInv

LEMMA GateStarts ==
  ASSUME GateInit
  PROVE  GateInv
  BY DEF GateInit, GateInv, CheckOK, Asks, Resting

LEMMA CheckStarts ==
  ASSUME GateInv, NEW k \in Check, NEW u \in User, NEW a \in App, StartCheck(k, u, a)
  PROVE  GateInv'
<1> DEFINE p == IF Open(a) THEN "direct" ELSE "answered"
           b == IF Open(a) THEN None ELSE FALSE
           t == {Permitted(u, a)}
           d == [Resting EXCEPT !.pc = p, !.answer = b, !.user = u, !.app = a, !.seen = t]
<1>1. check' = [check EXCEPT ![k] = d] /\ UNCHANGED <<tables, desk>>
  BY DEF StartCheck, Reading
<1>2. t \in SUBSET BOOLEAN /\ Says(t, Permitted(u, a))
  BY DEF Permitted, Says
<1>3. /\ d \in Checking /\ d.pc = p /\ d.answer = b /\ d.user = u /\ d.app = a
      /\ d.seen = t /\ d.edits = 0
  <2>1. Resting \in Checking /\ Resting.edits = 0
    BY DEF Resting, Checking
  <2>2. p \in {"direct", "answered"} /\ b \in BOOLEAN \cup {None}
    OBVIOUS
  <2> HIDE DEF p, b, t
  <2> QED BY <1>2, <2>1, <2>2 DEF Checking
<1> HIDE DEF d
<1>4. CheckOK(d)
  <2>1. CASE Open(a)
    <3>1. d.pc = "direct"
      BY <1>3, <2>1
    <3>2. Fresh(d)
      BY <1>3, <2>1, <3>1 DEF Fresh
    <3>3. Rest(d) <=> Permitted(u, a)
      BY <1>3, <3>1, <3>2, FreshRest DEF Asks
    <3>4. Says(d.seen, Rest(d))
      BY <1>2, <1>3, <3>3 DEF Says
    <3> QED BY <1>3, <3>1, <3>2, <3>4 DEF CheckOK, Asks
  <2>2. CASE ~Open(a)
    <3>1. d.pc = "answered" /\ d.answer = FALSE
      BY <1>3, <2>2
    <3>2. FALSE \in t
      BY <1>2, <2>2 DEF Permitted, Says
    <3> QED BY <1>3, <3>1, <3>2 DEF CheckOK, Asks
  <2> QED BY <2>1, <2>2
<1> QED BY <1>1, <1>3, <1>4, CheckAlone

\* A read of a table leads on, or to the answer.
LEMMA CheckReads ==
  ASSUME GateInv, NEW k \in Check,
         ReadDirect(k) \/ ReadHome(k) \/ ReadShared(k) \/ ReadService(k) \/ UseAnswer(k)
  PROVE  GateInv'
<1>1. PICK c \in Checking : c = check[k]
  BY DEF GateInv, GateTypeOK
<1>2. CheckOK(c)
  BY <1>1 DEF GateInv
<1>3. UNCHANGED <<tables, desk>>
  BY DEF ReadDirect, ReadHome, ReadShared, ReadService, UseAnswer, Reading
\* the check goes on
<1>4. ASSUME NEW p \in {"home", "shared", "service"}, NEW g \in Group \cup {None},
             check' = [check EXCEPT ![k].pc = p, ![k].group = g],
             Asks(c), Rest([c EXCEPT !.pc = p, !.group = g]) <=> Rest(c),
             Fresh(c) => Fresh([c EXCEPT !.pc = p, !.group = g])
      PROVE  GateInv'
  <2> DEFINE d == [c EXCEPT !.pc = p, !.group = g]
  <2>1. check' = [check EXCEPT ![k] = d]
    BY <1>1, <1>4 DEF GateInv, GateTypeOK
  <2>2. /\ d \in Checking /\ d.pc = p /\ d.user = c.user /\ d.app = c.app
        /\ d.seen = c.seen /\ d.edits = c.edits
    BY DEF Checking
  <2>3. (Rest(d) <=> Rest(c)) /\ (Fresh(c) => Fresh(d))
    BY <1>4
  <2> HIDE DEF d
  <2>4. CheckOK(d)
    BY <1>2, <1>4, <2>2, <2>3 DEF CheckOK, Asks, Says
  <2> QED BY <1>3, <2>1, <2>2, <2>4, CheckAlone
\* the check answers b
<1>5. ASSUME NEW b \in BOOLEAN, check' = [check EXCEPT ![k].pc = "answered", ![k].answer = b],
             Asks(c), b = TRUE <=> Rest(c)
      PROVE  GateInv'
  <2> DEFINE d == [c EXCEPT !.pc = "answered", !.answer = b]
  <2>1. check' = [check EXCEPT ![k] = d]
    BY <1>1, <1>5 DEF GateInv, GateTypeOK
  <2>2. /\ d \in Checking /\ d.pc = "answered" /\ d.user = c.user /\ d.app = c.app
        /\ d.seen = c.seen /\ d.edits = c.edits /\ d.answer = b
    BY DEF Checking
  <2> HIDE DEF d
  <2>3. CheckOK(d)
    BY <1>2, <1>5, <2>2 DEF CheckOK, Asks, Says
  <2> QED BY <1>3, <2>1, <2>2, <2>3, CheckAlone
<1>6. CASE ReadDirect(k)
  <2>1. c.pc = "direct"
    BY <1>1, <1>6 DEF ReadDirect
  <2>2. CASE direct[c.user][c.app] = "valid"
    <3>1. check' = [check EXCEPT ![k].pc = "answered", ![k].answer = TRUE]
      BY <1>1, <1>6, <2>2 DEF ReadDirect, Answer
    <3>2. Rest(c)
      BY <2>1, <2>2 DEF Rest
    <3> QED BY <1>5, <2>1, <3>1, <3>2 DEF Asks
  <2>3. CASE direct[c.user][c.app] # "valid"
    <3> DEFINE d == [c EXCEPT !.pc = "home", !.group = c.group]
    <3>1. check' = [check EXCEPT ![k].pc = "home", ![k].group = c.group]
      BY <1>1, <1>6, <2>3 DEF ReadDirect, AskOn, GateInv, GateTypeOK, Checking
    <3>2. d.pc = "home" /\ d.user = c.user /\ d.app = c.app
      BY DEF Checking
    <3>3. (Rest(d) <=> Rest(c)) /\ (Fresh(c) => Fresh(d))
      BY <2>1, <2>3, <3>2 DEF Rest, Fresh
    <3>4. c.group \in Group \cup {None}
      BY DEF Checking
    <3> QED BY <1>4, <2>1, <3>1, <3>3, <3>4 DEF Asks
  <2> QED BY <2>2, <2>3
<1>7. CASE ReadHome(k)
  <2>1. c.pc = "home" /\ c.user \in User
    BY <1>1, <1>2, <1>7 DEF ReadHome, CheckOK
  <2> DEFINE g == home[c.user]
             p == IF g = None THEN "service" ELSE "shared"
             d == [c EXCEPT !.pc = p, !.group = g]
  <2>2. check' = [check EXCEPT ![k].pc = p, ![k].group = g]
    BY <1>1, <1>7 DEF ReadHome
  <2>3. d.pc = p /\ d.user = c.user /\ d.app = c.app /\ d.group = g
    BY DEF Checking
  <2> HIDE DEF d
  <2>4. (Rest(d) <=> Rest(c)) /\ (Fresh(c) => Fresh(d))
    BY <2>1, <2>3 DEF Rest, Fresh, Shared
  <2>5. p \in {"home", "shared", "service"} /\ g \in Group \cup {None}
    BY <2>1 DEF GateInv, GateTypeOK
  <2> HIDE DEF p, g
  <2> QED BY <1>4, <2>1, <2>2, <2>4, <2>5 DEF Asks, d
<1>8. CASE ReadShared(k)
  <2>1. c.pc = "shared"
    BY <1>1, <1>8 DEF ReadShared
  <2>2. CASE Shared(c.group, c.app)
    <3>1. check' = [check EXCEPT ![k].pc = "answered", ![k].answer = TRUE]
      BY <1>1, <1>8, <2>2 DEF ReadShared, Answer
    <3>2. Rest(c)
      BY <2>1, <2>2 DEF Rest
    <3> QED BY <1>5, <2>1, <3>1, <3>2 DEF Asks
  <2>3. CASE ~Shared(c.group, c.app)
    <3> DEFINE d == [c EXCEPT !.pc = "service", !.group = c.group]
    <3>1. check' = [check EXCEPT ![k].pc = "service", ![k].group = c.group]
      BY <1>1, <1>8, <2>3 DEF ReadShared, AskOn, GateInv, GateTypeOK, Checking
    <3>2. d.pc = "service" /\ d.user = c.user /\ d.app = c.app
      BY DEF Checking
    <3>3. (Rest(d) <=> Rest(c)) /\ (Fresh(c) => Fresh(d))
      BY <2>1, <2>3, <3>2 DEF Rest, Fresh
    <3>4. c.group \in Group \cup {None}
      BY DEF Checking
    <3> QED BY <1>4, <2>1, <3>1, <3>3, <3>4 DEF Asks
  <2> QED BY <2>2, <2>3
<1>9. CASE ReadService(k)
  <2>1. c.pc = "service"
    BY <1>1, <1>9 DEF ReadService
  <2> DEFINE b == Assigned(c.user, c.app)
  <2>2. check' = [check EXCEPT ![k].pc = "answered", ![k].answer = b]
    BY <1>1, <1>9 DEF ReadService, Answer
  <2>3. b \in BOOLEAN /\ (b = TRUE <=> Rest(c))
    BY <2>1 DEF Rest, Assigned
  <2> HIDE DEF b
  <2> QED BY <1>5, <2>1, <2>2, <2>3 DEF Asks
<1>10. CASE UseAnswer(k)
  <2>1. check' = [check EXCEPT ![k] = Resting]
    BY <1>10 DEF UseAnswer
  <2>2. Resting \in Checking /\ CheckOK(Resting)
    BY DEF Resting, Checking, CheckOK, Asks
  <2> HIDE DEF Resting
  <2> QED BY <1>3, <2>1, <2>2, CheckAlone
<1> QED BY <1>6, <1>7, <1>8, <1>9, <1>10

\* A row is written under the eyes of the checks.
LEMMA RowNoticed ==
  ASSUME GateInv, TablesOK', OneTable, Noticed, desk' \in [Desk -> Errand]
  PROVE  GateInv'
<1>1. ASSUME NEW k \in Check
      PROVE  check'[k] \in Checking /\ CheckOK(check[k])'
  <2>1. PICK c \in Checking : c = check[k]
    BY DEF GateInv, GateTypeOK
  <2>2. CheckOK(c)
    BY <2>1 DEF GateInv
  <2>3. PICK d : d = check'[k]
    OBVIOUS
  <2>4. /\ d \in Checking
        /\ ~Asks(c) => d = c
        /\ Asks(c) => /\ d.pc = c.pc /\ d.user = c.user /\ d.app = c.app /\ d.group = c.group
                      /\ c.seen \subseteq d.seen /\ Says(d.seen, Permitted(c.user, c.app)')
                      /\ d.edits # 0 /\ (d.edits < 2 => c.edits = 0)
    BY <2>1, <2>2, <2>3, NoticedBy DEF GateInv
  <2>5. CheckOK(d)'
    <3>1. CASE ~Asks(c)
      BY <2>2, <2>4, <3>1 DEF CheckOK, Asks
    <3>2. CASE Asks(c)
      <4>1. Asks(d) /\ d.user \in User /\ d.app \in App /\ d.pc # "answered"
        BY <2>2, <2>4, <3>2 DEF Asks, CheckOK
      <4>2. d.edits < 2 => Says(d.seen, Rest(d)')
        <5> SUFFICES ASSUME d.edits < 2 PROVE Says(d.seen, Rest(d)')
          OBVIOUS
        <5>1. Fresh(c)
          BY <2>2, <2>4, <3>2 DEF CheckOK
        <5>2. Says(d.seen, Permitted(c.user, c.app))
          <6>1. c.edits = 0 /\ c.edits < 2
            BY <2>4, <3>2
          <6>2. Says(c.seen, Rest(c))
            BY <2>2, <3>2, <6>1 DEF CheckOK
          <6>3. Rest(c) <=> Permitted(c.user, c.app)
            BY <3>2, <5>1, FreshRest
          <6> QED BY <2>4, <3>2, <6>2, <6>3 DEF Says
        <5>3. \/ Rest(c)' <=> Permitted(c.user, c.app)
              \/ Rest(c)' <=> Permitted(c.user, c.app)'
          BY <3>2, <5>1, OneWriteBetween
        <5>4. Rest(d)' <=> Rest(c)'
          <6>1. d.pc = c.pc /\ d.user = c.user /\ d.app = c.app /\ d.group = c.group
            BY <2>4, <3>2, Zenon
          <6> QED BY <6>1 DEF Rest
        <5> QED BY <2>4, <3>2, <5>2, <5>3, <5>4 DEF Says
      <4> QED BY <2>4, <3>2, <4>1, <4>2 DEF CheckOK
    <3> QED BY <3>1, <3>2
  <2> QED BY <2>3, <2>4, <2>5 DEF CheckOK, Asks, Fresh, Rest
<1>2. check' \in [Check -> Checking]
  BY <1>1, Zenon DEF Noticed
<1> QED BY <1>1, <1>2 DEF GateInv, GateTypeOK, TablesOK

\* What the gate keeps.
THEOREM GateInvariant == GateSpec => []GateInv
<1>1. GateInit => GateInv
  BY GateStarts
<1>2. GateInv /\ [GateStep]_gateVars => GateInv'
  <2> SUFFICES ASSUME GateInv, [GateStep]_gateVars PROVE GateInv'
    OBVIOUS
  <2>0. GateTypeOK
    BY DEF GateInv
  <2>1. CASE UNCHANGED <<tables, check>> /\ desk' \in [Desk -> Errand]
    <3>1. GateTypeOK'
      BY <2>0, <2>1 DEF GateTypeOK, tables
    <3>2. ASSUME NEW k \in Check PROVE CheckOK(check[k])'
      BY <2>1 DEF GateInv, CheckOK, Asks, Fresh, Rest, Open, Shared, Assigned, Through, Owns, tables
    <3> QED BY <3>1, <3>2 DEF GateInv
  <2>2. CASE /\ TablesOK' /\ UNCHANGED <<check, desk>>
             /\ \A k \in Check : check[k].pc = "idle"
    <3>1. GateTypeOK'
      BY <2>0, <2>2 DEF GateTypeOK, TablesOK
    <3>2. ASSUME NEW k \in Check PROVE CheckOK(check[k])'
      BY <2>2 DEF CheckOK, Asks
    <3> QED BY <3>1, <3>2 DEF GateInv
  <2>3. CASE GateStep
    BY <2>0, <2>1, <2>2, <2>3, GateKinds, CheckStarts, CheckReads, RowNoticed
  <2>4. CASE UNCHANGED gateVars
    <3>1. UNCHANGED <<tables, check>> /\ desk' \in [Desk -> Errand]
      BY <2>0, <2>4 DEF gateVars, GateTypeOK
    <3> QED BY <2>1, <3>1
  <2> QED BY <2>3, <2>4
<1> QED BY <1>1, <1>2, PTL DEF GateSpec

\* The tables, the checks and the operator's requests keep their types.
THEOREM GateTypes == GateSpec => []GateTypeOK
<1>1. GateInv => GateTypeOK
  BY DEF GateInv
<1> QED BY <1>1, GateInvariant, PTL

\* A check, five reads long, answers what was true at a moment while it ran, unless two
\* rows were written meanwhile.
THEOREM ChecksAreMomentary == GateSpec => []CheckMomentary
<1>1. GateInv => CheckMomentary
  BY DEF GateInv, CheckOK, CheckMomentary
<1> QED BY <1>1, GateInvariant, PTL

\* The dashboard, the entitlements and the operator's details agree with the check,
\* whatever the tables hold, but for the three exceptions QueriesAgree names.
THEOREM AllQueriesAgree == GateSpec => []QueriesAgree
<1>1. GateTypeOK => QueriesAgree
  <2> SUFFICES ASSUME GateTypeOK, NEW u \in User, NEW a \in App
      PROVE
        LET shown == a \in StandaloneApps(u) \/ \E s \in Service : a \in ServiceApps(u, s)
            told1 == EntitlementsMe(u, a)
            Entitled(s) == s \in DOMAIN told1 /\ told1[s] # {}
        IN /\ shown => Permitted(u, a)
           /\ Permitted(u, a) /\ ~shown => /\ direct[u][a] \in {"future", "over"}
                                           /\ UserDetails(u)[a].source = "user"
           /\ \A s \in Service :
                /\ Entitled(s) /\ Open(a) => a \in ServiceApps(u, s)
                /\ a \in ServiceApps(u, s) /\ ~Entitled(s) =>
                     \/ \E g \in Group : <<u, g, s>> \in seats \ placed
                     \/ phase[s] = "closed" /\ \E g \in Group : <<u, g, s>> \in seats
                                                               /\ <<g, s>> \in granted
    BY DEF QueriesAgree
  <2> DEFINE shown == a \in StandaloneApps(u) \/ \E s \in Service : a \in ServiceApps(u, s)
             told1 == EntitlementsMe(u, a)
             Entitled(s) == s \in DOMAIN told1 /\ told1[s] # {}
  <2>1. a \in StandaloneApps(u) <=>
          Open(a) /\ (direct[u][a] = "valid" \/ (direct[u][a] = None /\ Shared(home[u], a)))
    BY DEF StandaloneApps
  <2>2. \A s \in Service : a \in ServiceApps(u, s) <=>
          <<s, a>> \in parts /\ Open(a) /\ \E g \in Group : Through(u, g, s)
    BY DEF ServiceApps
  <2>3. \A s \in Service : Entitled(s) <=>
          /\ <<s, a>> \in parts /\ phase[s] \in {None, "active"}
          /\ \E g \in Group : Through(u, g, s) /\ <<u, g, s>> \in placed
    BY DEF EntitlementsMe, Listed, Entitlements
  <2>4. shown => Permitted(u, a)
    BY <2>1, <2>2 DEF Permitted, Assigned
  <2>5. Permitted(u, a) /\ ~shown => direct[u][a] \in {"future", "over"}
    <3> SUFFICES ASSUME Permitted(u, a), ~shown
                 PROVE  direct[u][a] \in {"future", "over"}
      OBVIOUS
    <3>1. direct[u][a] \in Period \cup {None}
      BY DEF GateTypeOK
    <3>2. Open(a) /\ ~Assigned(u, a)
      BY <2>2 DEF Permitted, Assigned
    <3>3. direct[u][a] # "valid" /\ direct[u][a] # None
      BY <2>1, <3>2 DEF Permitted
    <3> QED BY <3>1, <3>3 DEF Period
  <2>6. direct[u][a] \in {"future", "over"} => UserDetails(u)[a].source = "user"
    BY GateNoneOK DEF UserDetails, GateNoneOK, Period
  <2>7. ASSUME NEW s \in Service
        PROVE  Entitled(s) /\ Open(a) => a \in ServiceApps(u, s)
    BY <2>2, <2>3
  \* a service the entitlements leave out is not active, and then the path is a grant
  <2>8. ASSUME NEW s \in Service, a \in ServiceApps(u, s), ~Entitled(s)
        PROVE  \/ \E g \in Group : <<u, g, s>> \in seats \ placed
               \/ phase[s] = "closed" /\ \E g \in Group : <<u, g, s>> \in seats
                                                         /\ <<g, s>> \in granted
    <3>1. PICK g \in Group : Through(u, g, s)
      BY <2>2, <2>8
    <3>2. CASE phase[s] \in {None, "active"}
      BY <2>2, <2>3, <2>8, <3>1, <3>2 DEF Through
    <3>3. CASE phase[s] \notin {None, "active"}
      <4>1. phase[s] = "closed"
        BY <3>3 DEF GateTypeOK, Status
      <4> QED BY <3>1, <4>1 DEF Through, Owns
    <3> QED BY <3>2, <3>3
  <2> QED BY <2>4, <2>5, <2>6, <2>7, <2>8
<1> QED BY <1>1, GateTypes, PTL

-----------------------------------------------------------------------------
(* The operator's dialogs                                                  *)

LoadUnder(s)  == Under(s) /\ wire[s].verb = "load"
DoneChange(s) == wire[s].stage = "back" /\ wire[s].verb # "load" /\ wire[s].ok

Correct == list = [owner |-> current, rows |-> RowsOf(current)]

\* Requests concern an entity, and a load that nothing has overtaken the current one.
WireOK ==
  \A s \in Slot : Under(s) =>
    /\ wire[s].entity \in Entity
    /\ wire[s].verb = "load" /\ ~wire[s].late => wire[s].entity = current

\* Dialogs lie over the dialog of an entity, one at a time.
OpenOK ==
  /\ list.owner = Nobody => list.rows = {}
  /\ current = Nobody => Quiet /\ list = Blank
  /\ target # Nobody => current # Nobody /\ question = NoAct
  /\ question # NoAct => current # Nobody

\* The rows shown are right, or a load is under way that will put them right, or a
\* change has been made whose answer will cause one.
ListOK ==
  ~disturbed /\ current # Nobody =>
    \/ \E s \in Slot : DoneChange(s)
    \/ /\ \A s \in Slot : wire[s].stage = "back" /\ wire[s].verb = "load" /\ ~wire[s].late
                            => wire[s].got = RowsOf(current)
       /\ (\E s \in Slot : LoadUnder(s)) \/ Correct

\* What has been asked of the operator, or of the server, while the panel was settled.
CalmOK ==
  /\ question.calm =>
       Settled /\ Correct /\ question.named = question.items \cap RowsOf(current)
  /\ target # Nobody /\ target.calm => target.row[1] = current
  /\ \A s \in Slot : wire[s].stage = "sent" /\ wire[s].verb # "load" /\ wire[s].act.calm =>
       /\ wire[s].home = wire[s].entity
       /\ wire[s].verb = "put" =>
            RowsOf(wire[s].entity) \cap wire[s].act.items \subseteq wire[s].act.named
       /\ \A x \in Slot \ {s} : Under(x) => wire[x].verb = "load"

ConsoleInv == ConsoleTypeOK /\ WireOK /\ OpenOK /\ ListOK /\ CalmOK /\ ActsAsAnnounced

LEMMA ConsoleMessages ==
  /\ NoAct \in Act /\ NoAct.calm = FALSE
  /\ Silent \in Message /\ Silent.stage = "none" /\ Silent.verb = "load" /\ Silent.act = NoAct
  /\ \A e \in Entity :
       /\ LoadOf(e) \in Message
       /\ LoadOf(e).stage = "sent" /\ LoadOf(e).verb = "load" /\ LoadOf(e).entity = e
       /\ LoadOf(e).late = FALSE
<1>1. NoAct \in Act /\ NoAct.calm = FALSE
  BY DEF NoAct, Act
<1>2. /\ Silent \in Message /\ Silent.stage = "none" /\ Silent.verb = "load"
      /\ Silent.late = FALSE /\ Silent.act = NoAct
  BY <1>1 DEF Silent, Message
<1>3. ASSUME NEW e \in Entity
      PROVE  /\ LoadOf(e) \in Message
             /\ LoadOf(e).stage = "sent" /\ LoadOf(e).verb = "load" /\ LoadOf(e).entity = e
             /\ LoadOf(e).late = FALSE
  BY <1>2 DEF LoadOf, Message
<1> QED BY <1>1, <1>2, <1>3

\* What is under way once a load of e, or a change, has been sent.
LoadSent(s, e) ==
  /\ wire' \in [Slot -> Message] /\ wire'[s] = LoadOf(e)
  /\ \A x \in Slot \ {s} :
       /\ wire'[x].stage = wire[x].stage /\ wire'[x].verb = wire[x].verb
       /\ wire'[x].entity = wire[x].entity /\ wire'[x].home = wire[x].home
       /\ wire'[x].got = wire[x].got /\ wire'[x].ok = wire[x].ok
       /\ wire'[x].act = wire[x].act
       /\ wire'[x].late = IF wire[x].verb = "load" THEN Under(x) ELSE wire[x].late

ActSent(s, verb, e, act) ==
  /\ ~Under(s) /\ wire' \in [Slot -> Message]
  /\ wire'[s].stage = "sent" /\ wire'[s].verb = verb /\ wire'[s].entity = e
  /\ wire'[s].home = (IF verb = "put" THEN list.owner ELSE current)
  /\ wire'[s].act = act
  /\ \A x \in Slot \ {s} :
       /\ wire'[x].stage = wire[x].stage /\ wire'[x].verb = wire[x].verb
       /\ wire'[x].entity = wire[x].entity /\ wire'[x].late = wire[x].late
       /\ wire'[x].got = wire[x].got /\ wire'[x].ok = wire[x].ok
       /\ wire'[x].act.calm = FALSE

\* A load that overtakes the others.
LEMMA Reloaded ==
  ASSUME ConsoleTypeOK, NEW s \in Slot, NEW e \in Entity, current' = e, Reload(s)
  PROVE  LoadSent(s, e)
<1>1. LoadOf(e) \in Message
  BY ConsoleMessages
<1>2. wire' = [x \in Slot |-> IF x = s THEN LoadOf(e)
                 ELSE IF wire[x].verb = "load" THEN [wire[x] EXCEPT !.late = Under(x)]
                 ELSE wire[x]]
  BY DEF Reload
<1>3. ASSUME NEW x \in Slot \ {s}, wire[x].verb = "load"
      PROVE  /\ [wire[x] EXCEPT !.late = Under(x)] \in Message
             /\ LET m == [wire[x] EXCEPT !.late = Under(x)]
                IN  /\ m.stage = wire[x].stage /\ m.verb = wire[x].verb
                    /\ m.entity = wire[x].entity /\ m.home = wire[x].home
                    /\ m.got = wire[x].got /\ m.ok = wire[x].ok
                    /\ m.act = wire[x].act /\ m.late = Under(x)
  <2>1. wire[x] \in Message /\ Under(x) \in BOOLEAN
    BY DEF ConsoleTypeOK, Under
  <2> DEFINE b == Under(x)
  <2> HIDE DEF b
  <2>2. [wire[x] EXCEPT !.late = b] \in Message
    BY <2>1 DEF Message, b
  <2>3. /\ [wire[x] EXCEPT !.late = b].stage = wire[x].stage
        /\ [wire[x] EXCEPT !.late = b].verb = wire[x].verb
        /\ [wire[x] EXCEPT !.late = b].entity = wire[x].entity
        /\ [wire[x] EXCEPT !.late = b].home = wire[x].home
        /\ [wire[x] EXCEPT !.late = b].got = wire[x].got
        /\ [wire[x] EXCEPT !.late = b].ok = wire[x].ok
        /\ [wire[x] EXCEPT !.late = b].act = wire[x].act
        /\ [wire[x] EXCEPT !.late = b].late = b
    BY <2>1 DEF Message
  <2> QED BY <2>2, <2>3 DEF b
<1>4. ASSUME NEW x \in Slot PROVE wire[x] \in Message
  BY DEF ConsoleTypeOK
<1>5. wire' \in [Slot -> Message]
  BY <1>1, <1>2, <1>3, <1>4
<1> QED BY <1>2, <1>3, <1>5 DEF LoadSent

\* A request that is over.
LEMMA Silenced ==
  ASSUME ConsoleTypeOK, NEW s \in Slot, wire' = [wire EXCEPT ![s] = Silent]
  PROVE  /\ wire' \in [Slot -> Message]
         /\ \A x \in Slot : wire'[x] = IF x = s THEN Silent ELSE wire[x]
  BY ConsoleMessages DEF ConsoleTypeOK

\* A change that is sent, when none of the earlier acts is the last any more.
LEMMA ChangeSent ==
  ASSUME ConsoleTypeOK, NEW s \in Slot, NEW verb \in {"put", "drop"}, NEW e \in Entity,
         NEW act \in Act, Send(s, Change(verb, e, act))
  PROVE  ActSent(s, verb, e, act)
<1> DEFINE h == IF verb = "put" THEN list.owner ELSE current
           m == [Silent EXCEPT !.stage = "sent", !.verb = verb, !.entity = e, !.act = act,
                               !.home = h]
<1>1. h \in Entity \cup {Nobody} /\ Silent \in Message
  BY ConsoleMessages DEF ConsoleTypeOK
<1>2. Send(s, m)
  BY DEF Change
<1> HIDE DEF h
<1>3. m \in Message
  BY <1>1 DEF Message
<1>4. m.stage = "sent" /\ m.verb = verb /\ m.entity = e /\ m.home = h /\ m.act = act
  BY <1>1 DEF Message
<1> HIDE DEF m
<1>5. ASSUME NEW x \in Slot
      PROVE  LET n == [wire[x] EXCEPT !.act.calm = FALSE]
             IN  /\ n \in Message /\ n.stage = wire[x].stage /\ n.verb = wire[x].verb
                 /\ n.entity = wire[x].entity /\ n.late = wire[x].late
                 /\ n.got = wire[x].got /\ n.ok = wire[x].ok /\ n.act.calm = FALSE
  <2>1. wire[x] \in Message
    BY DEF ConsoleTypeOK
  <2> QED BY <2>1 DEF Message, Act
<1>6. ~Under(s) /\ wire' = [x \in Slot |-> IF x = s THEN m ELSE [wire[x] EXCEPT !.act.calm = FALSE]]
  BY <1>2 DEF Send
<1>7. wire' \in [Slot -> Message]
  BY <1>3, <1>5, <1>6
<1> QED BY <1>4, <1>5, <1>6, <1>7 DEF ActSent, h

\* What the buttons come down to.
LEMMA ConsoleKinds ==
  ASSUME ConsoleStep
  PROVE  \/ \E s \in Slot, e \in Entity : Opens(s, e)
         \/ \E s \in Slot : \/ ServeLoad(s) \/ Render(s) \/ LoseAnswer(s)
                            \/ ServeChange(s) \/ RefuseChange(s) \/ Finish(s)
                            \/ Overwrite(s) \/ ExecuteHeld(s)
         \/ \E s \in Slot, items \in SUBSET Item : Grant(s, items) \/ Adds(s, items)
         \/ \E s \in Slot, i \in Item : RemoveConfirmed(s, i)
         \/ \E i \in Item : Aim(i)
         \/ CancelOverwrite \/ Unaim \/ LeavePage
         \/ \E e \in Entity : DeleteEntity(e)
         \/ \E r \in Row : Elsewhere(r)
<1>1. ASSUME NEW s \in Slot, UserClick(s)
      PROVE  \/ \E e \in Entity : Opens(s, e)
             \/ \E items \in SUBSET Item : Grant(s, items) \/ Adds(s, items)
             \/ \E i \in Item : RemoveConfirmed(s, i) \/ Aim(i)
             \/ LeavePage
  BY <1>1 DEF UserClick, OpenUserModal, GrantPermission, RevokePerm, AddAssignment,
              RemoveAssignment, UpdateUserGroup
<1>2. ASSUME NEW s \in Slot, GroupClick(s)
      PROVE  \/ \E e \in Entity : Opens(s, e)
             \/ \E items \in SUBSET Item : Grant(s, items)
             \/ \E i \in Item : Aim(i)
  BY <1>2 DEF GroupClick, OpenGroupModal, GrantGroupPermission, RevokeGroupPerm
<1>3. ASSUME NEW s \in Slot, AccountClick(s)
      PROVE  \/ \E e \in Entity : Opens(s, e)
             \/ \E items \in SUBSET Item : Adds(s, items)
             \/ \E i \in Item : RemoveConfirmed(s, i) \/ Aim(i)
             \/ LeavePage
  BY <1>3 DEF AccountClick, OpenAccountModal, AddMembers, AddFacility, MoveFacility, AddGrant,
              RemoveMember, RemoveFacility, RemoveGrant, SaveParent
<1>4. ASSUME NEW s \in Slot,
             \/ ServeUserDetails(s) \/ ServeGroupDetails(s) \/ ServeGroupMembers(s)
             \/ ServeGroupFacilities(s) \/ ServeGroupGrants(s)
             \/ RenderUser(s) \/ RenderGroup(s) \/ RenderMembers(s) \/ RenderSites(s)
             \/ RenderGrants(s)
      PROVE  ServeLoad(s) \/ Render(s)
  BY <1>4 DEF ServeUserDetails, ServeGroupDetails, ServeGroupMembers, ServeGroupFacilities,
              ServeGroupGrants, RenderUser, RenderGroup, RenderMembers, RenderSites, RenderGrants
<1> QED BY <1>1, <1>2, <1>3, <1>4 DEF ConsoleStep

LEMMA ConsoleStarts ==
  ASSUME ConsoleInit
  PROVE  ConsoleInv
<1>1. ConsoleTypeOK
  BY ConsoleMessages DEF ConsoleInit, ConsoleTypeOK, Blank
<1>2. WireOK /\ OpenOK /\ ListOK /\ CalmOK /\ ActsAsAnnounced
  BY ConsoleMessages
  DEF ConsoleInit, WireOK, OpenOK, ListOK, CalmOK, ActsAsAnnounced, Under, Quiet, Blank
<1> QED BY <1>1, <1>2 DEF ConsoleInv

\* Nothing is settled but a list that is right.
LEMMA SettledList ==
  ASSUME ConsoleInv, Settled, current # Nobody
  PROVE  Correct
  BY DEF ConsoleInv, Settled, Quiet, ListOK, DoneChange, LoadUnder, Under

\* The dialog of an entity is opened, and its rows are asked for.
LEMMA ConsoleOpens ==
  ASSUME ConsoleInv, NEW s \in Slot, NEW e \in Entity, Opens(s, e)
  PROVE  ConsoleInv'
<1> USE DEF ConsoleInv
<1>1. /\ wire' \in [Slot -> Message] /\ wire'[s] = LoadOf(e)
      /\ \A x \in Slot \ {s} :
           /\ wire'[x].stage = wire[x].stage /\ wire'[x].verb = wire[x].verb
           /\ wire'[x].entity = wire[x].entity /\ wire'[x].home = wire[x].home
           /\ wire'[x].got = wire[x].got /\ wire'[x].ok = wire[x].ok
           /\ wire'[x].act = wire[x].act
           /\ wire'[x].late = IF wire[x].verb = "load" THEN Under(x) ELSE wire[x].late
  <2>1. current' = e /\ Reload(s)
    BY DEF Opens
  <2>2. LoadSent(s, e)
    BY <2>1, Reloaded
  <2> QED BY <2>2 DEF LoadSent
<1>2. /\ LoadOf(e).stage = "sent" /\ LoadOf(e).verb = "load" /\ LoadOf(e).entity = e
  BY ConsoleMessages
<1>3. /\ current' = e /\ target = Nobody /\ question = NoAct /\ ~Under(s)
      /\ disturbed' = (disturbed /\ ~Quiet)
      /\ UNCHANGED <<panel, table, list, target, question, strayed>>
  BY DEF Opens, OnTop
<1>4. ConsoleTypeOK'
  BY <1>1, <1>3 DEF ConsoleTypeOK
<1>5. WireOK' /\ OpenOK'
  <2>1. WireOK'
    <3>1. wire'[s].stage = "sent" /\ wire'[s].entity = e /\ e = current'
      BY <1>1, <1>2, <1>3
    <3>2. ASSUME NEW x \in Slot \ {s}, wire'[x].stage # "none"
          PROVE  /\ wire'[x].entity \in Entity
                 /\ wire'[x].verb = "load" => wire'[x].late
      <4>1. /\ wire[x].stage # "none" /\ wire'[x].verb = wire[x].verb
            /\ wire'[x].entity = wire[x].entity
            /\ wire[x].verb = "load" => wire'[x].late = (wire[x].stage # "none")
        BY <1>1, <3>2 DEF Under
      <4>2. wire[x].entity \in Entity
        BY <4>1 DEF WireOK, Under
      <4> QED BY <4>1, <4>2
    <3> QED BY <3>1, <3>2 DEF WireOK, Under
  <2>2. OpenOK'
    BY <1>3, NobodyOK DEF OpenOK, NobodyOK
  <2> QED BY <2>1, <2>2
<1>6. ListOK'
  <2>1. Under(s)' /\ LoadUnder(s)'
    BY <1>1, <1>2 DEF Under, LoadUnder
  <2>2. \A x \in Slot : wire'[x].stage = "back" /\ wire'[x].verb = "load" => wire'[x].late
    BY <1>1, <1>2 DEF Under
  <2> QED BY <2>1, <2>2 DEF ListOK
<1>7. CalmOK'
  <2>1. ~question'.calm /\ target' = Nobody
    BY <1>3, ConsoleMessages
  <2>2. \A x \in Slot : wire'[x].stage = "sent" /\ wire'[x].verb # "load" /\ wire'[x].act.calm =>
          /\ wire'[x].home = wire'[x].entity
          /\ wire'[x].verb = "put" =>
               RowsOf(wire'[x].entity) \cap wire'[x].act.items \subseteq wire'[x].act.named
          /\ \A y \in Slot \ {x} : wire'[y].stage # "none" => wire'[y].verb = "load"
    BY <1>1, <1>2 DEF CalmOK, Under
  <2>3. \A y : RowsOf(y)' = RowsOf(y)
    BY <1>3 DEF RowsOf
  <2> QED BY <2>1, <2>2, <2>3 DEF CalmOK, Under
<1>8. ActsAsAnnounced'
  BY <1>3 DEF ActsAsAnnounced
<1> QED BY <1>4, <1>5, <1>6, <1>7, <1>8

\* The rows are read, or a request is lost.
LEMMA ConsoleServes ==
  ASSUME ConsoleInv, NEW s \in Slot, ServeLoad(s)
  PROVE  ConsoleInv'
<1> USE DEF ConsoleInv
<1> DEFINE g == RowsOf(wire[s].entity)
           m == [wire[s] EXCEPT !.stage = "back", !.got = g]
<1>1. wire[s].stage = "sent" /\ wire[s].verb = "load" /\ wire[s] \in Message
  BY DEF ServeLoad, ConsoleTypeOK
<1>2. wire' = [wire EXCEPT ![s] = m]
  BY DEF ServeLoad, ConsoleTypeOK
<1>3. g \in SUBSET Item
  BY DEF RowsOf
<1>4. /\ m \in Message /\ m.stage = "back" /\ m.verb = "load" /\ m.entity = wire[s].entity
      /\ m.got = g /\ m.late = wire[s].late
  <2> HIDE DEF g
  <2> QED BY <1>1, <1>3 DEF Message
<1> HIDE DEF m
<1>5. /\ wire' \in [Slot -> Message] /\ wire'[s] = m
      /\ \A x \in Slot \ {s} : wire'[x] = wire[x]
  BY <1>2, <1>4 DEF ConsoleTypeOK
<1>6. UNCHANGED <<panel, current, table, list, target, question, disturbed, strayed>>
  BY DEF ServeLoad
<1>7. ConsoleTypeOK'
  BY <1>5, <1>6 DEF ConsoleTypeOK
<1>8. WireOK' /\ ActsAsAnnounced'
  BY <1>1, <1>4, <1>5, <1>6 DEF WireOK, Under, ActsAsAnnounced
<1>9. OpenOK'
  BY <1>1, <1>6 DEF OpenOK, Quiet, Under
<1>10. ListOK'
  <2>1. ~wire[s].late => g = RowsOf(current)
    BY <1>1 DEF WireOK, Under
  <2>2. RowsOf(current)' = RowsOf(current)
    BY <1>6 DEF RowsOf
  <2>3. \A x \in Slot : DoneChange(x) => DoneChange(x)'
    BY <1>1, <1>5 DEF DoneChange
  <2>4. LoadUnder(s)'
    BY <1>4, <1>5 DEF LoadUnder, Under
  <2> QED BY <1>4, <1>5, <1>6, <2>1, <2>2, <2>3, <2>4 DEF ListOK
<1>11. CalmOK'
  <2>1. ~question.calm
    BY <1>1 DEF CalmOK, Settled, Quiet, Under
  <2>2. \A y : RowsOf(y)' = RowsOf(y)
    BY <1>6 DEF RowsOf
  <2>3. \A x \in Slot : wire'[x].stage = "sent" /\ wire'[x].verb # "load" /\ wire'[x].act.calm =>
          /\ wire'[x].home = wire'[x].entity
          /\ wire'[x].verb = "put" =>
               RowsOf(wire'[x].entity) \cap wire'[x].act.items \subseteq wire'[x].act.named
          /\ \A y \in Slot \ {x} : wire'[y].stage # "none" => wire'[y].verb = "load"
    BY <1>1, <1>4, <1>5 DEF CalmOK, Under
  <2> QED BY <1>6, <2>1, <2>2, <2>3 DEF CalmOK, Under
<1> QED BY <1>7, <1>8, <1>9, <1>10, <1>11

LEMMA ConsoleLoses ==
  ASSUME ConsoleInv, NEW s \in Slot, LoseAnswer(s)
  PROVE  ConsoleInv'
<1> USE DEF ConsoleInv
<1>1. /\ wire' \in [Slot -> Message]
      /\ \A x \in Slot : wire'[x] = IF x = s THEN Silent ELSE wire[x]
  BY Silenced DEF LoseAnswer
<1>2. /\ Silent.stage = "none" /\ Under(s)
  BY ConsoleMessages DEF LoseAnswer
<1>3. UNCHANGED <<panel, current, table, list, target, question, strayed>> /\ disturbed' = TRUE
  BY DEF LoseAnswer
<1>4. ConsoleTypeOK'
  BY <1>1, <1>3 DEF ConsoleTypeOK
<1>5. WireOK' /\ OpenOK' /\ ActsAsAnnounced' /\ ListOK'
  BY <1>1, <1>2, <1>3 DEF WireOK, OpenOK, ActsAsAnnounced, ListOK, Under, Quiet
<1>6. CalmOK'
  <2>1. ~question.calm
    BY <1>2 DEF CalmOK, Settled, Quiet, Under
  <2>2. \A y : RowsOf(y)' = RowsOf(y)
    BY <1>3 DEF RowsOf
  <2>3. \A x \in Slot : wire'[x].stage = "sent" /\ wire'[x].verb # "load" /\ wire'[x].act.calm =>
          /\ wire'[x].home = wire'[x].entity
          /\ wire'[x].verb = "put" =>
               RowsOf(wire'[x].entity) \cap wire'[x].act.items \subseteq wire'[x].act.named
          /\ \A y \in Slot \ {x} : wire'[y].stage # "none" => wire'[y].verb = "load"
    BY <1>1, <1>2 DEF CalmOK, Under
  <2> QED BY <1>3, <2>1, <2>2, <2>3 DEF CalmOK, Under
<1> QED BY <1>4, <1>5, <1>6

\* An answer is rendered, whoever it is about.
LEMMA ConsoleRenders ==
  ASSUME ConsoleInv, NEW s \in Slot, Render(s)
  PROVE  ConsoleInv'
<1> USE DEF ConsoleInv
<1>1. /\ wire' \in [Slot -> Message]
      /\ \A x \in Slot : wire'[x] = IF x = s THEN Silent ELSE wire[x]
  BY Silenced DEF Render
<1>2. /\ Silent.stage = "none" /\ wire[s].stage = "back" /\ wire[s].verb = "load"
      /\ wire[s] \in Message /\ wire[s].entity \in Entity
  BY ConsoleMessages DEF Render, ConsoleTypeOK, WireOK, Under
<1>3. /\ UNCHANGED <<panel, current, table, target, question, strayed>>
      /\ list' = [owner |-> wire[s].entity, rows |-> wire[s].got]
      /\ disturbed' = (disturbed \/ (wire[s].late /\ ~Loading(s)))
  BY DEF Render
<1>4. ConsoleTypeOK'
  <2>1. wire[s].got \in SUBSET Item
    BY <1>2 DEF Message
  <2>2. disturbed' \in BOOLEAN
    BY <1>2, <1>3 DEF ConsoleTypeOK
  <2> QED BY <1>1, <1>2, <1>3, <2>1, <2>2 DEF ConsoleTypeOK
<1>5. WireOK' /\ ActsAsAnnounced'
  BY <1>1, <1>2, <1>3 DEF WireOK, ActsAsAnnounced, Under
<1>6. OpenOK'
  <2>1. current # Nobody
    BY <1>2 DEF OpenOK, Quiet, Under
  <2>2. list'.owner # Nobody
    BY <1>2, <1>3, NobodyOK DEF NobodyOK
  <2> QED BY <1>3, <2>1, <2>2 DEF OpenOK
<1>7. ListOK'
  <2> SUFFICES ASSUME ~disturbed', current' # Nobody, ~\E x \in Slot : DoneChange(x)'
               PROVE  /\ \A x \in Slot : wire'[x].stage = "back" /\ wire'[x].verb = "load"
                                /\ ~wire'[x].late => wire'[x].got = RowsOf(current)'
                      /\ (\E x \in Slot : LoadUnder(x)') \/ Correct'
    BY DEF ListOK
  <2>1. ~disturbed /\ current # Nobody /\ (wire[s].late => Loading(s))
    BY <1>3 DEF ConsoleTypeOK
  <2>2. ~\E x \in Slot : DoneChange(x)
    BY <1>1, <1>2 DEF DoneChange
  <2>3. RowsOf(current)' = RowsOf(current)
    BY <1>3 DEF RowsOf
  <2>4. \A x \in Slot : wire[x].stage = "back" /\ wire[x].verb = "load" /\ ~wire[x].late
                          => wire[x].got = RowsOf(current)
    BY <2>1, <2>2 DEF ListOK
  <2>5. wire[s].late => \E x \in Slot : LoadUnder(x)'
    BY <1>1, <2>1 DEF Loading, LoadUnder, Under
  <2>6. ~wire[s].late => Correct'
    <3> SUFFICES ASSUME ~wire[s].late PROVE Correct'
      OBVIOUS
    <3>1. wire[s].entity = current /\ wire[s].got = RowsOf(current)
      BY <1>2, <2>4 DEF WireOK, Under
    <3> QED BY <1>3, <2>3, <3>1 DEF Correct
  <2> QED BY <1>1, <1>2, <2>3, <2>4, <2>5, <2>6
<1>8. CalmOK'
  <2>1. ~question.calm
    BY <1>2 DEF CalmOK, Settled, Quiet, Under
  <2>2. \A y : RowsOf(y)' = RowsOf(y)
    BY <1>3 DEF RowsOf
  <2>3. \A x \in Slot : wire'[x].stage = "sent" /\ wire'[x].verb # "load" /\ wire'[x].act.calm =>
          /\ wire'[x].home = wire'[x].entity
          /\ wire'[x].verb = "put" =>
               RowsOf(wire'[x].entity) \cap wire'[x].act.items \subseteq wire'[x].act.named
          /\ \A y \in Slot \ {x} : wire'[y].stage # "none" => wire'[y].verb = "load"
    BY <1>1, <1>2 DEF CalmOK, Under
  <2> QED BY <1>3, <2>1, <2>2, <2>3 DEF CalmOK, Under
<1> QED BY <1>4, <1>5, <1>6, <1>7, <1>8

\* A change is sent.  If it is calm the panel is settled, the change is of the current
\* entity, and a grant names the rows it will overwrite.
LEMMA ConsolePosts ==
  ASSUME ConsoleInv, NEW s \in Slot, NEW verb \in {"put", "drop"}, NEW e \in Entity,
         NEW act \in Act, Posts(s, Change(verb, e, act)), target' = target, question' = NoAct,
         current # Nobody,
         act.calm => /\ Settled /\ e = current
                     /\ verb = "put" => RowsOf(current) \cap act.items \subseteq act.named
  PROVE  ConsoleInv'
<1> USE DEF ConsoleInv
<1>1. /\ ~Under(s) /\ wire' \in [Slot -> Message]
      /\ wire'[s].stage = "sent" /\ wire'[s].verb = verb /\ wire'[s].entity = e
      /\ wire'[s].home = (IF verb = "put" THEN list.owner ELSE current)
      /\ wire'[s].act = act
      /\ \A x \in Slot \ {s} :
           /\ wire'[x].stage = wire[x].stage /\ wire'[x].verb = wire[x].verb
           /\ wire'[x].entity = wire[x].entity /\ wire'[x].late = wire[x].late
           /\ wire'[x].got = wire[x].got /\ wire'[x].ok = wire[x].ok
           /\ wire'[x].act.calm = FALSE
  <2>1. Send(s, Change(verb, e, act))
    BY DEF Posts
  <2>2. ActSent(s, verb, e, act)
    BY <2>1, ChangeSent
  <2> QED BY <2>2 DEF ActSent
<1>2. UNCHANGED <<panel, current, table, list, target, disturbed, strayed>>
  BY DEF Posts
<1>3. ConsoleTypeOK'
  BY <1>1, <1>2, ConsoleMessages DEF ConsoleTypeOK
<1>4. WireOK' /\ OpenOK' /\ ActsAsAnnounced'
  <2>1. ASSUME NEW x \in Slot \ {s}, wire'[x].stage # "none"
        PROVE  /\ wire'[x].entity \in Entity
               /\ wire'[x].verb = "load" /\ ~wire'[x].late => wire'[x].entity = current'
    <3>1. /\ wire[x].stage # "none" /\ wire'[x].verb = wire[x].verb
          /\ wire'[x].entity = wire[x].entity /\ wire'[x].late = wire[x].late
      BY <1>1, <2>1
    <3>2. /\ wire[x].entity \in Entity
          /\ wire[x].verb = "load" /\ ~wire[x].late => wire[x].entity = current
      BY <3>1 DEF WireOK, Under
    <3> QED BY <1>2, <3>1, <3>2
  <2>2. WireOK'
    BY <1>1, <2>1 DEF WireOK, Under
  <2>3. OpenOK' /\ ActsAsAnnounced'
    BY <1>1, <1>2 DEF OpenOK, Quiet, Under, ActsAsAnnounced
  <2> QED BY <2>2, <2>3
<1>5. ListOK'
  <2>1. RowsOf(current)' = RowsOf(current)
    BY <1>2 DEF RowsOf
  <2>2. \A x \in Slot : DoneChange(x) => DoneChange(x)'
    BY <1>1 DEF DoneChange, Under
  <2>3. \A x \in Slot : LoadUnder(x) => LoadUnder(x)'
    BY <1>1 DEF LoadUnder, Under
  <2>4. Correct => Correct'
    BY <1>2, <2>1 DEF Correct
  <2> QED BY <1>1, <1>2, <2>1, <2>2, <2>3, <2>4 DEF ListOK, Under
<1>6. CalmOK'
  <2>1. ~question'.calm /\ (target' # Nobody /\ target'.calm => target'.row[1] = current')
    BY <1>2, ConsoleMessages DEF CalmOK
  <2>2. \A y : RowsOf(y)' = RowsOf(y)
    BY <1>2 DEF RowsOf
  <2>3. act.calm => /\ wire'[s].home = wire'[s].entity
                    /\ verb = "put" => RowsOf(e) \cap act.items \subseteq act.named
                    /\ \A y \in Slot \ {s} : wire'[y].stage = "none"
    <3> SUFFICES ASSUME act.calm
                 PROVE  /\ wire'[s].home = wire'[s].entity
                        /\ verb = "put" => RowsOf(e) \cap act.items \subseteq act.named
                        /\ \A y \in Slot \ {s} : wire'[y].stage = "none"
      OBVIOUS
    <3>1. Settled /\ e = current
      OBVIOUS
    <3>2. list.owner = current
      BY <3>1, SettledList DEF Correct
    <3> QED BY <1>1, <3>1, <3>2 DEF Settled, Quiet, Under
  <2>4. ASSUME NEW x \in Slot,
               wire'[x].stage = "sent" /\ wire'[x].verb # "load" /\ wire'[x].act.calm
        PROVE  /\ wire'[x].home = wire'[x].entity
               /\ wire'[x].verb = "put" =>
                    RowsOf(wire'[x].entity) \cap wire'[x].act.items \subseteq wire'[x].act.named
               /\ \A y \in Slot \ {x} : wire'[y].stage # "none" => wire'[y].verb = "load"
    <3>1. x = s
      BY <1>1, <2>4
    <3> QED BY <1>1, <2>3, <2>4, <3>1
  <2> QED BY <2>1, <2>2, <2>4 DEF CalmOK, Under
<1> QED BY <1>3, <1>4, <1>5, <1>6

\* The question of a grant, and grants and additions that ask nothing.
LEMMA ConsoleGrants ==
  ASSUME ConsoleInv, NEW s \in Slot, NEW items \in SUBSET Item, Grant(s, items) \/ Adds(s, items)
  PROVE  ConsoleInv'
<1>1. current \in Entity /\ current # Nobody /\ target = Nobody /\ question = NoAct
  BY DEF Grant, Adds, OnTop, ConsoleInv, ConsoleTypeOK
<1>2. Settled \in BOOLEAN /\ (Settled => Correct)
  BY <1>1, SettledList DEF Settled
<1> DEFINE b == Settled
           n == Named(items)
           act == [items |-> items, named |-> n, calm |-> b]
<1>3. n = items \cap list.rows /\ b \in BOOLEAN
  BY <1>2 DEF Named
<1>4. act \in Act /\ act.items = items /\ act.named = n /\ act.calm = b
  <2> HIDE DEF n, b
  <2> QED BY <1>3 DEF Act
<1>5. act.calm => Settled /\ n = items \cap RowsOf(current)
  BY <1>2, <1>3, <1>4 DEF Correct
<1>6. CASE Grant(s, items) /\ n = {}
  <2>1. Posts(s, Change("put", current, act)) /\ UNCHANGED <<question, target>>
    BY <1>6 DEF Grant
  <2> HIDE DEF act, n, b
  <2>2. act.calm => /\ Settled /\ RowsOf(current) \cap act.items \subseteq act.named
    BY <1>4, <1>5
  <2> QED BY <1>1, <1>4, <2>1, <2>2, ConsolePosts
<1>7. CASE Grant(s, items) /\ n # {}
  <2>1. question' = act /\ UNCHANGED <<panel, current, table, list, wire, disturbed, strayed, target>>
    BY <1>7 DEF Grant
  <2> HIDE DEF act, n, b
  <2>2. \A y : RowsOf(y)' = RowsOf(y)
    BY <2>1 DEF RowsOf
  <2>3. ConsoleTypeOK' /\ WireOK' /\ OpenOK' /\ ActsAsAnnounced'
    BY <1>1, <1>4, <2>1
    DEF ConsoleInv, ConsoleTypeOK, WireOK, OpenOK, ActsAsAnnounced, Under, Quiet
  <2>4. ListOK'
    BY <2>1, <2>2 DEF ConsoleInv, ListOK, DoneChange, LoadUnder, Under, Correct
  <2>5. CalmOK'
    <3>1. question'.calm => /\ Settled' /\ Correct'
                            /\ question'.named = question'.items \cap RowsOf(current)'
      BY <1>2, <1>4, <1>5, <2>1, <2>2 DEF Settled, Quiet, Under, Correct
    <3> QED BY <1>1, <2>1, <2>2, <3>1 DEF ConsoleInv, CalmOK, Under
  <2> QED BY <2>3, <2>4, <2>5 DEF ConsoleInv
<1>8. CASE Adds(s, items)
  <2> DEFINE add == [items |-> items, named |-> items, calm |-> b]
  <2>1. Posts(s, Change("put", current, add)) /\ UNCHANGED <<question, target>>
    BY <1>8 DEF Adds
  <2>2. add \in Act /\ (add.calm => /\ Settled
                                    /\ RowsOf(current) \cap add.items \subseteq add.named)
    <3>1. add.items = items /\ add.named = items /\ add.calm = Settled
      OBVIOUS
    <3>2. add \in Act
      <4> HIDE DEF b
      <4> QED BY <1>3 DEF Act
    <3> QED BY <3>1, <3>2
  <2> HIDE DEF add
  <2> QED BY <1>1, <2>1, <2>2, ConsolePosts
<1> QED BY <1>6, <1>7, <1>8

\* The question is answered, or a dialog closed, or one opened over a row.
LEMMA ConsoleAnswers ==
  ASSUME ConsoleInv, NEW s \in Slot, Overwrite(s)
  PROVE  ConsoleInv'
<1>1. /\ question # NoAct /\ question \in Act /\ current \in Entity /\ current # Nobody
      /\ question.calm => Settled /\ question.named = question.items \cap RowsOf(current)
  BY DEF Overwrite, ConsoleInv, ConsoleTypeOK, OpenOK, CalmOK
<1>2. /\ Posts(s, Change("put", current, question)) /\ question' = NoAct /\ target' = target
  BY DEF Overwrite
<1>3. question.calm => RowsOf(current) \cap question.items \subseteq question.named
  BY <1>1
<1> QED BY <1>1, <1>2, <1>3, ConsolePosts

LEMMA ConsoleDrops ==
  ASSUME ConsoleInv, NEW s \in Slot, NEW e \in Entity, NEW i \in Item, NEW calm \in BOOLEAN,
         Drop(s, <<e, i>>, calm), UNCHANGED <<target, question>>, question = NoAct,
         current # Nobody, calm /\ Settled => e = current
  PROVE  ConsoleInv'
<1> DEFINE b == calm /\ Settled
           act == [items |-> {i}, named |-> {}, calm |-> b]
<1>1. Posts(s, Change("drop", e, act))
  BY DEF Drop
<1>2. act.calm => Settled /\ e = current
  OBVIOUS
<1>3. act \in Act
  <2>1. b \in BOOLEAN
    OBVIOUS
  <2> HIDE DEF b
  <2> QED BY <2>1 DEF Act
<1> HIDE DEF act, b
<1> QED BY <1>1, <1>2, <1>3, ConsolePosts

LEMMA ConsoleRemoves ==
  ASSUME ConsoleInv, NEW s \in Slot,
         ExecuteHeld(s) \/ \E i \in Item : RemoveConfirmed(s, i)
  PROVE  ConsoleInv'
<1>1. CASE ExecuteHeld(s)
  <2>1. /\ target # Nobody /\ target \in [row : Row, calm : BOOLEAN]
        /\ current # Nobody /\ question = NoAct
        /\ target.calm => target.row[1] = current
    BY <1>1 DEF ExecuteHeld, ConsoleInv, ConsoleTypeOK, OpenOK, CalmOK
  <2>2. target.row \in Row /\ target.calm \in BOOLEAN
    BY <2>1
  <2>3. PICK e \in Entity, i \in Item : target.row = <<e, i>>
    BY <2>2 DEF Row
  <2>4. Drop(s, <<e, i>>, target.calm) /\ UNCHANGED <<target, question>>
    BY <1>1, <2>3 DEF ExecuteHeld
  <2>5. target.calm => e = current
    BY <2>1, <2>3
  <2> QED BY <2>1, <2>2, <2>4, <2>5, ConsoleDrops
<1>2. ASSUME NEW i \in Item, RemoveConfirmed(s, i)
      PROVE  ConsoleInv'
  <2>1. /\ i \in list.rows /\ question = NoAct
        /\ Drop(s, <<list.owner, i>>, TRUE) /\ UNCHANGED <<target, question>>
    BY <1>2 DEF RemoveConfirmed, OnTop
  <2>2. list.owner \in Entity /\ current # Nobody
    BY <2>1 DEF ConsoleInv, ConsoleTypeOK, OpenOK, Blank
  <2>3. Settled => list.owner = current
    BY <2>2, SettledList DEF Correct
  <2> QED BY <2>1, <2>2, <2>3, ConsoleDrops
<1> QED BY <1>1, <1>2

\* The dialogs over the dialog, opened and closed.
LEMMA ConsoleDialogs ==
  ASSUME ConsoleInv, CancelOverwrite \/ Unaim \/ \E i \in Item : Aim(i)
  PROVE  ConsoleInv'
<1>1. UNCHANGED <<panel, current, table, list, wire, disturbed, strayed>>
  BY DEF CancelOverwrite, Unaim, Aim
<1>2. \A y : RowsOf(y)' = RowsOf(y)
  BY <1>1 DEF RowsOf
<1>3. ListOK' /\ WireOK' /\ ActsAsAnnounced'
  BY <1>1, <1>2
  DEF ConsoleInv, ListOK, WireOK, ActsAsAnnounced, DoneChange, LoadUnder, Under, Correct
<1>4. CASE CancelOverwrite \/ Unaim
  <2>1. question' \in {question, NoAct} /\ target' \in {target, Nobody}
    BY <1>4 DEF CancelOverwrite, Unaim
  <2>2. ConsoleTypeOK' /\ OpenOK'
    BY <1>1, <2>1, ConsoleMessages DEF ConsoleInv, ConsoleTypeOK, OpenOK, Quiet, Under
  <2>3. CalmOK'
    BY <1>1, <1>2, <2>1, ConsoleMessages
    DEF ConsoleInv, CalmOK, Settled, Quiet, Under, Correct
  <2> QED BY <1>3, <2>2, <2>3 DEF ConsoleInv
<1>5. ASSUME NEW i \in Item, Aim(i)
      PROVE  ConsoleInv'
  <2>1. /\ i \in list.rows /\ question = NoAct /\ question' = NoAct
        /\ target' = [row |-> <<list.owner, i>>, calm |-> Settled]
    BY <1>5 DEF Aim, OnTop
  <2>2. list.owner \in Entity /\ current # Nobody
    BY <2>1 DEF ConsoleInv, ConsoleTypeOK, OpenOK, Blank
  <2>3. Settled \in BOOLEAN
    BY DEF Settled
  <2>4. /\ target' \in [row : Row, calm : BOOLEAN]
        /\ target'.calm => target'.row[1] = current
    <3>1. Settled => list.owner = current
      BY <2>2, SettledList DEF Correct
    <3>2. <<list.owner, i>> \in Row /\ <<list.owner, i>>[1] = list.owner
      BY <2>2 DEF Row
    <3> DEFINE b == Settled
               r == <<list.owner, i>>
    <3> HIDE DEF b, r
    <3>3. target' = [row |-> r, calm |-> b] /\ b \in BOOLEAN /\ r \in Row
      BY <2>1, <2>3, <3>2 DEF b, r
    <3>4. target' \in [row : Row, calm : BOOLEAN] /\ target'.row = r /\ target'.calm = b
      BY <3>3
    <3> QED BY <3>1, <3>2, <3>4 DEF b, r
  <2>5. ConsoleTypeOK'
    BY <1>1, <2>1, <2>4, ConsoleMessages DEF ConsoleInv, ConsoleTypeOK
  <2>6. OpenOK'
    BY <1>1, <2>1, <2>2 DEF ConsoleInv, OpenOK, Quiet, Under
  <2>7. CalmOK'
    BY <1>1, <1>2, <2>1, <2>4, ConsoleMessages DEF ConsoleInv, CalmOK, Under
  <2> QED BY <1>3, <2>5, <2>6, <2>7 DEF ConsoleInv
<1> QED BY <1>4, <1>5

\* The server makes a change, or refuses it.
LEMMA ConsoleChanges ==
  ASSUME ConsoleInv, NEW s \in Slot, ServeChange(s) \/ RefuseChange(s)
  PROVE  ConsoleInv'
<1> USE DEF ConsoleInv
<1>1. /\ wire[s] \in Message /\ wire[s].stage = "sent" /\ wire[s].verb # "load"
      /\ Under(s) /\ wire[s].entity \in Entity /\ wire[s].act \in Act
  BY DEF ServeChange, RefuseChange, ConsoleTypeOK, WireOK, Under, Message
<1>2. PICK ok \in BOOLEAN :
        /\ wire' = [wire EXCEPT ![s].stage = "back", ![s].ok = ok]
        /\ ~ok /\ ~disturbed' => ~disturbed /\ table' = table
        /\ disturbed' \in BOOLEAN
  <2>1. CASE ServeChange(s)
    BY <2>1 DEF ServeChange, ConsoleTypeOK
  <2>2. CASE RefuseChange(s)
    BY <2>2 DEF RefuseChange, ConsoleTypeOK
  <2> QED BY <2>1, <2>2
<1>3. /\ UNCHANGED <<panel, current, list, target, question>> /\ table' \subseteq Row
  <2>1. CASE ServeChange(s)
    <3>1. {wire[s].entity} \X wire[s].act.items \subseteq Row
      BY <1>1 DEF Row, Act
    <3> QED BY <2>1, <3>1 DEF ServeChange, ConsoleTypeOK
  <2>2. CASE RefuseChange(s)
    BY <2>2 DEF RefuseChange, ConsoleTypeOK
  <2> QED BY <2>1, <2>2
<1> DEFINE m == [wire[s] EXCEPT !.stage = "back", !.ok = ok]
<1>4. wire' = [wire EXCEPT ![s] = m]
  BY <1>2 DEF ConsoleTypeOK
<1>5. /\ m \in Message /\ m.stage = "back" /\ m.verb = wire[s].verb /\ m.ok = ok
      /\ m.entity = wire[s].entity
  BY <1>1 DEF Message
<1> HIDE DEF m
<1>6. /\ wire' \in [Slot -> Message] /\ wire'[s] = m
      /\ \A x \in Slot \ {s} : wire'[x] = wire[x]
  BY <1>4, <1>5 DEF ConsoleTypeOK
<1>7. ActsAsAnnounced'
  <2>1. CASE RefuseChange(s)
    BY <2>1 DEF RefuseChange, ActsAsAnnounced
  <2>2. CASE ServeChange(s)
    <3>1. wire[s].act.calm =>
            /\ wire[s].home = wire[s].entity
            /\ wire[s].verb = "put" =>
                 RowsOf(wire[s].entity) \cap wire[s].act.items \subseteq wire[s].act.named
      BY <1>1 DEF CalmOK
    <3> QED BY <2>2, <3>1 DEF ServeChange, ActsAsAnnounced
  <2> QED BY <2>1, <2>2
<1>8. ConsoleTypeOK'
  BY <1>2, <1>3, <1>6, <1>7 DEF ConsoleTypeOK, ActsAsAnnounced
<1>9. WireOK' /\ OpenOK'
  BY <1>1, <1>3, <1>5, <1>6 DEF WireOK, OpenOK, Quiet, Under
<1>10. ListOK'
  <2>1. CASE ok
    <3>1. DoneChange(s)'
      BY <1>1, <1>5, <1>6, <2>1 DEF DoneChange
    <3> QED BY <3>1 DEF ListOK
  <2>2. CASE ~ok
    <3> SUFFICES ASSUME ~disturbed' PROVE ListOK'
      BY DEF ListOK
    <3>1. ~disturbed /\ table' = table
      BY <1>2, <2>2
    <3>2. \A y : RowsOf(y)' = RowsOf(y)
      BY <3>1 DEF RowsOf
    <3>3. \A x \in Slot : DoneChange(x) => DoneChange(x)'
      BY <1>1, <1>6 DEF DoneChange
    <3>4. \A x \in Slot : LoadUnder(x) => LoadUnder(x)'
      BY <1>1, <1>6 DEF LoadUnder, Under
    <3>5. Correct => Correct'
      BY <1>3, <3>2 DEF Correct
    <3>6. \A x \in Slot : wire'[x].stage = "back" /\ wire'[x].verb = "load" => wire'[x] = wire[x]
      BY <1>1, <1>5, <1>6
    <3> QED BY <1>3, <3>1, <3>2, <3>3, <3>4, <3>5, <3>6 DEF ListOK
  <2> QED BY <2>1, <2>2
<1>11. CalmOK'
  <2>1. ~question.calm
    BY <1>1 DEF CalmOK, Settled, Quiet
  <2>2. \A x \in Slot : ~(wire'[x].stage = "sent" /\ wire'[x].verb # "load" /\ wire'[x].act.calm)
    BY <1>1, <1>5, <1>6 DEF CalmOK
  <2> QED BY <1>3, <2>1, <2>2 DEF CalmOK
<1> QED BY <1>7, <1>8, <1>9, <1>10, <1>11

\* The answer to a change has the rows loaded again.
LEMMA ConsoleFinishes ==
  ASSUME ConsoleInv, NEW s \in Slot, Finish(s)
  PROVE  ConsoleInv'
<1> USE DEF ConsoleInv
<1>1. /\ wire[s].stage = "back" /\ wire[s].verb # "load" /\ Under(s)
      /\ current \in Entity /\ current # Nobody
  BY DEF Finish, Under, OpenOK, Quiet, ConsoleTypeOK
<1>2. /\ UNCHANGED <<panel, current, table, list, question, disturbed, strayed>>
      /\ target' \in {target, Nobody}
  BY DEF Finish
<1>3. \A y : RowsOf(y)' = RowsOf(y)
  BY <1>2 DEF RowsOf
<1>4. ~question.calm
  BY <1>1 DEF CalmOK, Settled, Quiet
<1>5. OpenOK' /\ ActsAsAnnounced'
  BY <1>1, <1>2 DEF OpenOK, ActsAsAnnounced
<1>6. CASE Reload(s)
  <2>0. PICK e \in Entity : e = current /\ current' = e
    BY <1>1, <1>2
  <2>1. /\ wire' \in [Slot -> Message] /\ wire'[s] = LoadOf(e)
        /\ \A x \in Slot \ {s} :
             /\ wire'[x].stage = wire[x].stage /\ wire'[x].verb = wire[x].verb
             /\ wire'[x].entity = wire[x].entity /\ wire'[x].home = wire[x].home
             /\ wire'[x].got = wire[x].got /\ wire'[x].ok = wire[x].ok
             /\ wire'[x].act = wire[x].act
             /\ wire'[x].late = IF wire[x].verb = "load" THEN Under(x) ELSE wire[x].late
    <3>1. LoadSent(s, e)
      BY <1>6, <2>0, Reloaded
    <3> QED BY <3>1 DEF LoadSent
  <2>2. LET l == wire'[s] IN l.stage = "sent" /\ l.verb = "load" /\ l.entity = current
    BY <2>0, <2>1, ConsoleMessages
  <2>3. ConsoleTypeOK'
    BY <1>2, <2>1 DEF ConsoleTypeOK
  <2>4. WireOK'
    <3>1. ASSUME NEW x \in Slot \ {s}, wire'[x].stage # "none"
          PROVE  /\ wire'[x].entity \in Entity
                 /\ wire'[x].verb = "load" => wire'[x].late
      <4>1. /\ wire[x].stage # "none" /\ wire'[x].verb = wire[x].verb
            /\ wire'[x].entity = wire[x].entity
            /\ wire[x].verb = "load" => wire'[x].late = (wire[x].stage # "none")
        BY <2>1, <3>1 DEF Under
      <4>2. wire[x].entity \in Entity
        BY <4>1 DEF WireOK, Under
      <4> QED BY <4>1, <4>2
    <3> QED BY <1>1, <1>2, <2>2, <3>1 DEF WireOK, Under
  <2>5. ListOK'
    <3>1. LoadUnder(s)'
      BY <2>2 DEF LoadUnder, Under
    <3>2. \A x \in Slot : wire'[x].stage = "back" /\ wire'[x].verb = "load" => wire'[x].late
      BY <2>1, <2>2 DEF Under
    <3> QED BY <3>1, <3>2 DEF ListOK
  <2>6. CalmOK'
    <3>1. \A x \in Slot :
            wire'[x].stage = "sent" /\ wire'[x].verb # "load" /\ wire'[x].act.calm =>
            /\ wire'[x].home = wire'[x].entity
            /\ wire'[x].verb = "put" =>
                 RowsOf(wire'[x].entity) \cap wire'[x].act.items \subseteq wire'[x].act.named
            /\ \A y \in Slot \ {x} : wire'[y].stage # "none" => wire'[y].verb = "load"
      BY <2>1, <2>2 DEF CalmOK, Under
    <3> QED BY <1>2, <1>3, <1>4, <3>1 DEF CalmOK, Under
  <2> QED BY <1>5, <2>3, <2>4, <2>5, <2>6
<1>7. CASE ~wire[s].ok /\ wire' = [wire EXCEPT ![s] = Silent]
  <2>1. /\ wire' \in [Slot -> Message]
        /\ \A x \in Slot : wire'[x] = IF x = s THEN Silent ELSE wire[x]
    BY <1>7, Silenced
  <2>2. Silent.stage = "none"
    BY ConsoleMessages
  <2>3. ConsoleTypeOK' /\ WireOK'
    BY <1>2, <2>1, <2>2 DEF ConsoleTypeOK, WireOK, Under
  <2>4. ListOK'
    <3>1. \A x \in Slot : DoneChange(x) => DoneChange(x)'
      BY <1>7, <2>1 DEF DoneChange
    <3>2. \A x \in Slot : LoadUnder(x) => LoadUnder(x)'
      BY <1>1, <2>1 DEF LoadUnder, Under
    <3>3. Correct => Correct'
      BY <1>2, <1>3 DEF Correct
    <3>4. \A x \in Slot : wire'[x].stage = "back" => wire'[x] = wire[x]
      BY <2>1, <2>2
    <3> QED BY <1>2, <1>3, <3>1, <3>2, <3>3, <3>4 DEF ListOK
  <2>5. CalmOK'
    <3>1. \A x \in Slot :
            wire'[x].stage = "sent" /\ wire'[x].verb # "load" /\ wire'[x].act.calm =>
            /\ wire'[x].home = wire'[x].entity
            /\ wire'[x].verb = "put" =>
                 RowsOf(wire'[x].entity) \cap wire'[x].act.items \subseteq wire'[x].act.named
            /\ \A y \in Slot \ {x} : wire'[y].stage # "none" => wire'[y].verb = "load"
      BY <2>1, <2>2 DEF CalmOK, Under
    <3> QED BY <1>2, <1>3, <1>4, <3>1 DEF CalmOK, Under
  <2> QED BY <1>5, <2>3, <2>4, <2>5
<1> QED BY <1>6, <1>7 DEF Finish

\* The page is left.
LEMMA ConsoleLeaves ==
  ASSUME ConsoleInv, LeavePage \/ \E e \in Entity : DeleteEntity(e)
  PROVE  ConsoleInv'
<1>1. /\ current' = Nobody /\ list' = Blank /\ target' = Nobody /\ question' = NoAct
      /\ Quiet /\ disturbed' = FALSE /\ UNCHANGED <<panel, wire, strayed>> /\ table' \subseteq Row
  BY DEF LeavePage, DeleteEntity, ConsoleInv, ConsoleTypeOK
<1>2. ConsoleTypeOK'
  BY <1>1, ConsoleMessages DEF ConsoleInv, ConsoleTypeOK, Blank
<1>3. WireOK' /\ OpenOK' /\ ActsAsAnnounced'
  BY <1>1 DEF ConsoleInv, WireOK, OpenOK, ActsAsAnnounced, Quiet, Under, Blank
<1>4. ListOK' /\ CalmOK'
  BY <1>1, ConsoleMessages DEF ListOK, CalmOK, Quiet, Under
<1> QED BY <1>2, <1>3, <1>4 DEF ConsoleInv

\* Somebody else changes a row: nothing is calm any more.
LEMMA ConsoleElsewhere ==
  ASSUME ConsoleInv, NEW r \in Row, Elsewhere(r)
  PROVE  ConsoleInv'
<1> USE DEF ConsoleInv
<1>1. ASSUME NEW x \in Slot
      PROVE  LET n == [wire[x] EXCEPT !.act.calm = FALSE]
             IN  /\ n \in Message /\ n.stage = wire[x].stage /\ n.verb = wire[x].verb
                 /\ n.entity = wire[x].entity /\ n.late = wire[x].late /\ n.act.calm = FALSE
  <2>1. wire[x] \in Message
    BY DEF ConsoleTypeOK
  <2> QED BY <2>1 DEF Message, Act
<1>2. wire' = [x \in Slot |-> [wire[x] EXCEPT !.act.calm = FALSE]]
  BY DEF Elsewhere
<1>3. wire' \in [Slot -> Message]
  BY <1>1, <1>2
<1>4. \A x \in Slot :
        /\ wire'[x].stage = wire[x].stage /\ wire'[x].verb = wire[x].verb
        /\ wire'[x].entity = wire[x].entity /\ wire'[x].late = wire[x].late
        /\ wire'[x].act.calm = FALSE
  BY <1>1, <1>2
<1>5. /\ question' = [question EXCEPT !.calm = FALSE]
      /\ disturbed' = (disturbed \/ current # Nobody)
      /\ UNCHANGED <<panel, current, list, target, strayed>>
      /\ table' \subseteq Row
  BY DEF Elsewhere, ConsoleTypeOK
<1>6. /\ question' \in Act /\ question'.calm = FALSE
      /\ question = NoAct => question' = NoAct
  <2>1. [NoAct EXCEPT !.calm = FALSE] = NoAct
    BY ConsoleMessages DEF Act
  <2>2. question' \in Act /\ question'.calm = FALSE
    BY <1>5 DEF ConsoleTypeOK, Act
  <2> QED BY <1>5, <2>1, <2>2
<1>7. ConsoleTypeOK'
  BY <1>3, <1>5, <1>6 DEF ConsoleTypeOK
<1>8. WireOK' /\ OpenOK' /\ ActsAsAnnounced'
  BY <1>4, <1>5, <1>6 DEF WireOK, OpenOK, ActsAsAnnounced, Quiet, Under
<1>9. ListOK' /\ CalmOK'
  BY <1>4, <1>5, <1>6 DEF ListOK, CalmOK, ConsoleTypeOK
<1> QED BY <1>7, <1>8, <1>9

\* What the operator's dialogs keep.
THEOREM ConsoleInvariant == ConsoleSpec => []ConsoleInv
<1>1. ConsoleInit => ConsoleInv
  BY ConsoleStarts
<1>2. ConsoleInv /\ [ConsoleStep]_consoleVars => ConsoleInv'
  <2> SUFFICES ASSUME ConsoleInv, [ConsoleStep]_consoleVars PROVE ConsoleInv'
    OBVIOUS
  <2>1. CASE ConsoleStep
    BY <2>1, ConsoleKinds, ConsoleOpens, ConsoleServes, ConsoleLoses, ConsoleRenders, ConsoleGrants,
       ConsoleAnswers, ConsoleRemoves, ConsoleDialogs, ConsoleChanges, ConsoleFinishes,
       ConsoleLeaves, ConsoleElsewhere
  <2>2. CASE UNCHANGED consoleVars
    BY <2>2
    DEF consoleVars, ConsoleInv, ConsoleTypeOK, WireOK, OpenOK, ListOK, CalmOK, ActsAsAnnounced,
        Settled, Quiet, Under, Correct, RowsOf, DoneChange, LoadUnder
  <2> QED BY <2>1, <2>2
<1> QED BY <1>1, <1>2, PTL DEF ConsoleSpec

\* The rows, the dialogs and the requests of the operator's page keep their types.
THEOREM ConsoleTypes == ConsoleSpec => []ConsoleTypeOK
<1>1. ConsoleInv => ConsoleTypeOK
  BY DEF ConsoleInv
<1> QED BY <1>1, ConsoleInvariant, PTL

\* Once nothing is under way the dialog shows the rows of the entity it is open for.
THEOREM ListsSettle == ConsoleSpec => []ListSettles
<1>1. ConsoleInv => ListSettles
  BY SettledList DEF ListSettles, Correct
<1> QED BY <1>1, ConsoleInvariant, PTL

\* What the operator does on a settled panel does what it announced.
THEOREM ActsAreAnnounced == ConsoleSpec => []ActsAsAnnounced
<1>1. ConsoleInv => ActsAsAnnounced
  BY DEF ConsoleInv
<1> QED BY <1>1, ConsoleInvariant, PTL

-----------------------------------------------------------------------------
(* The three together                                                      *)

\* The gate and the two pages keep their types side by side.
THEOREM PagesTypes == PagesSpec => []PagesTypeOK
<1>1. GateTypeOK /\ ConsoleTypeOK /\ PortalTypeOK => PagesTypeOK
  BY DEF PagesTypeOK
<1> QED BY <1>1, GateTypes, ConsoleTypes, PortalTypes, PTL DEF PagesSpec
=============================================================================
