---------------------------- MODULE RoleMenuProofs ----------------------------
(***************************************************************************)
(* Proofs about RoleMenu, for any number of threads and any tree of roles: *)
(* GrantInv is inductive, so grants come from the parent role, operators   *)
(* give only what they have had, and the root covers every role.           *)
(***************************************************************************)
EXTENDS RoleMenu, TLAPS

\* A request that names nothing is a request.
LEMMA NoRequestType == NoRequest \in Request
BY RoleAssumption DEF NoRequest, Request

\* The joins with menu return menus that are there and shown.
LEMMA MenusOfFacts ==
  ASSUME IdInv, NEW r
  PROVE  /\ MenusOf(r) \subseteq shown
         /\ shown \subseteq Present(menu)
         /\ Present(menu) \subseteq MenuIds
         /\ \A m \in MenusOf(r) : <<r, m>> \in roleMenu
BY DEF MenusOf, Present, IdInv

\* Before the first request.
LEMMA InitGrantInv == Init => GrantInv
<1> SUFFICES ASSUME Init PROVE GrantInv
  OBVIOUS
<1> USE DEF Init
<1>1. TypeOK
  BY NoRequestType, RoleAssumption, MenuAssumption, SeedAssumption
     DEF TypeOK, Present
<1>2. IdInv
  BY SeedAssumption DEF IdInv
<1>3. SaveInv /\ DeleteInv /\ OperatorHasHad
  BY DEF SaveInv, DeleteInv, OperatorHasHad, SavePc
<1>4. GrantComesFromParent
  BY DEF GrantComesFromParent
<1>5. RowsCovered
  BY SeedAssumption, RoleAssumption DEF RowsCovered, Covered, Present
<1> QED BY <1>1, <1>2, <1>3, <1>4, <1>5 DEF GrantInv

-----------------------------------------------------------------------------
(* Types.                                                                  *)

\* Only rows that are there are shown.
LEMMA ShownNext ==
  TypeOK /\ IdInv /\ [Next]_vars => shown' \subseteq Present(menu')
<1> SUFFICES ASSUME TypeOK, IdInv, [Next]_vars
             PROVE  shown' \subseteq Present(menu')
  OBVIOUS
<1>0. shown \subseteq Present(menu)
  BY DEF IdInv
<1> USE <1>0, RequestAssumption, MenuAssumption DEF TypeOK, Present
<1>1. CASE MoveMenu
  BY <1>1 DEF MoveMenu
<1>2. ASSUME NEW t \in Threads, InsertMenu(t)
      PROVE  shown' \subseteq Present(menu')
  <2>1. req[t].menu \in MenuIds \cup {NoParent} /\ nextMenu \in MenuIds
    BY <1>2 DEF InsertMenu, Insert, Request, MenuIds
  <2> QED BY <1>2, <2>1 DEF InsertMenu, Insert
<1>3. ASSUME NEW t \in Threads, DeleteRows(t)
      PROVE  shown' \subseteq Present(menu')
  BY <1>3 DEF DeleteRows
<1>4. CASE UNCHANGED <<menu, shown>>
  BY <1>4
<1> QED BY <1>1, <1>2, <1>3, <1>4
        DEF Next, vars, Crash, Step, SaveMenu, Begin, ReadParentMenus,
            ReadRoleMenus, CheckNewMenus, DeleteGrant, InsertGrant, SaveDone,
            AddMenu, GrantToRoot, DeleteMenu, ListChildren, ClearChild, ClearSelf

LEMMA TypeNext == TypeOK /\ IdInv /\ [Next]_vars => TypeOK'
<1> SUFFICES ASSUME TypeOK, IdInv, [Next]_vars PROVE TypeOK'
  OBVIOUS
<1> USE RoleAssumption, MenuAssumption, RequestAssumption DEF TypeOK
<1>1. CASE UNCHANGED vars
  BY <1>1 DEF vars
<1>2. CASE MoveMenu
  BY <1>2 DEF MoveMenu, SavesUnderWay
<1>3. CASE Crash
  BY <1>3, NoRequestType DEF Crash
<1>4. ASSUME NEW t \in Threads, Step(t) PROVE TypeOK'
  <2> USE DEF Goto, Set, Done, Grants
  <2>0. /\ req[t] \in Request /\ NoRequest \in Request
        /\ \A r : MenusOf(r) \subseteq MenuIds
    BY NoRequestType DEF MenusOf, Present
  <2>1. CASE SaveMenu(t)
    <3>1. PICK s \in Saves : Begin(t, s)
      BY <2>1 DEF SaveMenu
    <3>2. [NoRequest EXCEPT !.role = s[1], !.now = s[2], !.ops = s[3]]
            \in Request
      BY <2>0 DEF Request
    <3> QED BY <3>1, <3>2 DEF Begin, SavePc
  <2>2. CASE ReadParentMenus(t)
    BY <2>2, <2>0 DEF ReadParentMenus, Request, SavePc
  <2>3. CASE ReadRoleMenus(t)
    BY <2>3, <2>0 DEF ReadRoleMenus, Request, SavePc
  <2>4. CASE CheckNewMenus(t)
    <3>1. [req[t] EXCEPT !.parent = {}] \in Request
      BY <2>0 DEF Request
    <3>2. \/ Done(t)
          \/ Goto(t, "write") /\ Set(t, [req[t] EXCEPT !.parent = {}])
             /\ UNCHANGED met
      BY <2>4 DEF CheckNewMenus
    <3>3. UNCHANGED <<menu, shown, nextMenu, roleMenu, ever, doomed>>
      BY <2>4 DEF CheckNewMenus
    <3>4. /\ pc' \in [Threads -> {"idle"} \cup SavePc \cup DeletePc \cup AddPc]
          /\ met' \subseteq Threads
      BY <3>2 DEF SavePc
    <3>5. PICK q \in Request : req' = [req EXCEPT ![t] = q]
      BY <3>1, <3>2, <2>0
    <3> QED BY <3>3, <3>4, <3>5
  <2>5. CASE DeleteGrant(t)
    BY <2>5, <2>0 DEF DeleteGrant, Request
  <2>6. CASE InsertGrant(t)
    <3>1. PICK m \in req[t].add :
            \/ Done(t) /\ UNCHANGED <<roleMenu, ever>>
            \/ /\ roleMenu' = roleMenu \cup {<<req[t].role, m>>}
               /\ ever' = ever \cup {<<req[t].role, m>>}
               /\ Set(t, [req[t] EXCEPT !.add = @ \ {m}])
               /\ UNCHANGED <<pc, met>>
      BY <2>6 DEF InsertGrant
    <3>2. /\ <<req[t].role, m>> \in Grants
          /\ UNCHANGED <<menu, shown, nextMenu, doomed>>
      BY <2>6, <2>0 DEF InsertGrant, Request
    <3>3. [req[t] EXCEPT !.add = @ \ {m}] \in Request
      BY <2>0 DEF Request
    <3>4. roleMenu' \subseteq Grants /\ ever' \subseteq Grants
      BY <3>1, <3>2
    <3>5. pc' \in [Threads -> {"idle"} \cup SavePc \cup DeletePc \cup AddPc]
      BY <3>1
    <3>6. PICK r \in Request : req' = [req EXCEPT ![t] = r]
      BY <3>1, <3>3, <2>0
    <3>7. met' \subseteq Threads
      BY <3>1
    <3> QED BY <3>2, <3>4, <3>5, <3>6, <3>7
  <2>7. CASE SaveDone(t)
    BY <2>7, <2>0 DEF SaveDone
  <2>8. CASE AddMenu(t)
    BY <2>8, <2>0 DEF AddMenu, Request, NoRequest, Present, AddPc
  <2>9. CASE InsertMenu(t)
    <3>1. nextMenu \in MenuIds /\ req[t].menu \in MenuIds \cup {NoParent}
      BY <2>9, <2>0 DEF InsertMenu, Insert, MenuIds, Request
    <3>2. [NoRequest EXCEPT !.menu = nextMenu] \in Request
      BY <3>1, <2>0 DEF Request
    <3> QED BY <2>9, <3>1, <3>2 DEF InsertMenu, Insert, MenuIds, AddPc
  <2>10. CASE DeleteMenu(t)
    <3>1. PICK m \in MenuIds \cup {NoParent} :
            Set(t, [NoRequest EXCEPT !.menu = m])
      BY <2>10 DEF DeleteMenu
    <3>2. [NoRequest EXCEPT !.menu = m] \in Request
      BY <2>0 DEF Request
    <3> QED BY <2>10, <3>1, <3>2 DEF DeleteMenu, DeletePc, SavesUnderWay
  <2>11. CASE ListChildren(t)
    BY <2>11, <2>0 DEF ListChildren, Request, DeletePc
  <2>12. CASE ClearChild(t)
    <3>1. PICK c \in req[t].del :
            /\ roleMenu' = WithoutMenu(c)
            /\ Set(t, [req[t] EXCEPT !.del = @ \ {c}])
      BY <2>12 DEF ClearChild
    <3>2. [req[t] EXCEPT !.del = @ \ {c}] \in Request
      BY <2>0 DEF Request
    <3>3. roleMenu' \subseteq roleMenu
      BY <3>1 DEF WithoutMenu
    <3> QED BY <2>12, <3>1, <3>2, <3>3 DEF ClearChild
  <2>13. CASE DeleteRows(t)
    BY <2>13, <2>0 DEF DeleteRows, Present, DeletePc
  <2>14. CASE ClearSelf(t)
    BY <2>14, <2>0 DEF ClearSelf, WithoutMenu
  <2>15. CASE GrantToRoot(t)
    <3>1. req[t].menu \in MenuIds
      BY <2>15 DEF GrantToRoot, IdInv, MenuIds
    <3> QED BY <2>15, <3>1, <2>0 DEF GrantToRoot
  <2> QED BY <1>4, <2>1, <2>2, <2>3, <2>4, <2>5, <2>6, <2>7, <2>8, <2>9, <2>10,
             <2>11, <2>12, <2>13, <2>14, <2>15 DEF Step
<1> QED BY <1>1, <1>2, <1>3, <1>4 DEF Next

-----------------------------------------------------------------------------
(* What a step does to other requests and to the history.                  *)

LEMMA StepFrame ==
  ASSUME TypeOK, NEW t \in Threads, Step(t)
  PROVE  /\ \A u \in Threads \ {t} : pc'[u] = pc[u] /\ req'[u] = req[u]
         /\ ever \subseteq ever'
         /\ nextMenu' \in Nat /\ nextMenu <= nextMenu'
<1> USE DEF TypeOK, Goto, Set, Done
<1>0. nextMenu \in Nat
  BY MenuAssumption
<1>1. CASE SaveMenu(t)
  BY <1>0, <1>1 DEF SaveMenu, Begin
<1>2. CASE ReadParentMenus(t) \/ ReadRoleMenus(t) \/ SaveDone(t) \/ AddMenu(t)
  BY <1>0, <1>2 DEF ReadParentMenus, ReadRoleMenus, SaveDone, AddMenu
<1>3. CASE CheckNewMenus(t)
  BY <1>0, <1>3 DEF CheckNewMenus
<1>4. CASE DeleteGrant(t) \/ ClearChild(t)
  BY <1>0, <1>4 DEF DeleteGrant, ClearChild
<1>5. CASE InsertGrant(t)
  BY <1>0, <1>5 DEF InsertGrant
<1>6. CASE InsertMenu(t)
  BY <1>0, <1>6 DEF InsertMenu, Insert
<1>7. CASE GrantToRoot(t) \/ DeleteMenu(t)
  BY <1>0, <1>7 DEF GrantToRoot, DeleteMenu
<1>8. CASE ListChildren(t) \/ DeleteRows(t) \/ ClearSelf(t)
  BY <1>0, <1>8 DEF ListChildren, DeleteRows, ClearSelf
<1> QED BY <1>1, <1>2, <1>3, <1>4, <1>5, <1>6, <1>7, <1>8 DEF Step

\* A menu the root may use stays one, and one that is gone stays gone: the
\* root's row goes only with the menu or when it is doomed.
LEMMA CoverStable ==
  ASSUME GrantInv, [Next]_vars, NEW m \in MenuIds, m < nextMenu
  PROVE  /\ Covered(m) => Covered(m)'
         /\ m \in Present(menu') => m \in Present(menu)
<1> SUFFICES ASSUME Next
             PROVE  /\ Covered(m) => Covered(m)'
                    /\ m \in Present(menu') => m \in Present(menu)
  BY DEF vars, Covered, Present
<1> USE DEF GrantInv, TypeOK, Covered
<1>1. CASE MoveMenu \/ Crash
  <2>1. Present(menu') = Present(menu)
    BY <1>1, RequestAssumption, MenuAssumption DEF MoveMenu, Crash, Present
  <2> QED BY <1>1, <2>1 DEF MoveMenu, Crash
<1>2. ASSUME NEW t \in Threads, Step(t)
      PROVE  /\ Covered(m) => Covered(m)'
             /\ m \in Present(menu') => m \in Present(menu)
  <2>1. CASE DeleteGrant(t)
    <3>1. req[t].role # RootRole /\ menu' = menu /\ doomed' = doomed
      BY <2>1 DEF DeleteGrant, SaveInv, SavePc
    <3>2. <<RootRole, m>> \in roleMenu => <<RootRole, m>> \in roleMenu'
      BY <2>1, <3>1 DEF DeleteGrant
    <3> QED BY <3>1, <3>2
  <2>2. CASE ClearChild(t)
    <3>1. PICK c \in req[t].del : roleMenu' = WithoutMenu(c)
      BY <2>2 DEF ClearChild
    <3>2. menu' = menu /\ doomed' = doomed
      BY <2>2 DEF ClearChild
    <3>3. c \in Present(menu) => c \in doomed
      BY <2>2 DEF ClearChild, DeleteInv
    <3> QED BY <3>1, <3>2, <3>3 DEF WithoutMenu
  <2>3. CASE ClearSelf(t)
    <3>1. req[t].menu \notin Present(menu) \ doomed
      BY <2>3 DEF ClearSelf, DeleteInv
    <3>2. menu' = menu /\ doomed' = doomed /\ roleMenu' = WithoutMenu(req[t].menu)
      BY <2>3 DEF ClearSelf
    <3> QED BY <3>1, <3>2 DEF WithoutMenu
  <2>4. CASE DeleteRows(t)
    <3>1. Present(menu') \subseteq Present(menu)
      BY <2>4 DEF DeleteRows, Present
    <3>2. roleMenu' = roleMenu /\ doomed' = doomed \cap Present(menu')
      BY <2>4 DEF DeleteRows
    <3> QED BY <3>1, <3>2
  <2>5. CASE InsertMenu(t)
    <3>1. menu' = [menu EXCEPT ![nextMenu] = req[t].menu]
          /\ roleMenu' = roleMenu /\ doomed \subseteq doomed'
      BY <2>5 DEF InsertMenu, Insert
    <3>2. m \in Present(menu') <=> m \in Present(menu)
      BY <3>1, MenuAssumption DEF Present, MenuIds
    <3> QED BY <3>1, <3>2
  <2>6. CASE InsertGrant(t)
    <3>1. roleMenu \subseteq roleMenu' /\ menu' = menu /\ doomed' = doomed
      BY <2>6 DEF InsertGrant
    <3> QED BY <3>1
  <2>7. CASE GrantToRoot(t) \/ ListChildren(t)
    <3>1. roleMenu \subseteq roleMenu' /\ menu' = menu /\ doomed \subseteq doomed'
      BY <2>7 DEF GrantToRoot, ListChildren
    <3> QED BY <3>1
  <2>8. CASE UNCHANGED <<menu, roleMenu, doomed>>
    BY <2>8
  <2> QED BY <1>2, <2>1, <2>2, <2>3, <2>4, <2>5, <2>6, <2>7, <2>8
          DEF Step, SaveMenu, Begin, ReadParentMenus, ReadRoleMenus,
              CheckNewMenus, SaveDone, AddMenu, DeleteMenu
<1> QED BY <1>1, <1>2 DEF Next

-----------------------------------------------------------------------------
(* The conjuncts of GrantInv.                                              *)

\* Ids: what a save may still insert has been granted to the parent before.
LEMMA IdNext == GrantInv /\ TypeOK' /\ [Next]_vars => IdInv'
<1> SUFFICES ASSUME GrantInv, TypeOK', [Next]_vars PROVE IdInv'
  OBVIOUS
<1> USE DEF GrantInv, TypeOK, IdInv
<1>0. nextMenu \in Nat /\ nextMenu' \in Nat
  BY MenuAssumption
<1>1. CASE UNCHANGED vars
  BY <1>1 DEF vars, Present
<1>2. CASE MoveMenu
  <2>1. Present(menu') = Present(menu)
    BY <1>2, RequestAssumption, MenuAssumption DEF MoveMenu, Present
  <2>2. shown' \subseteq Present(menu')
    BY ShownNext
  <2> QED BY <1>2, <2>1, <2>2 DEF MoveMenu
<1>3. CASE Crash
  BY <1>3 DEF Crash, Present, DeletePc
<1>4. ASSUME NEW t \in Threads, Step(t) PROVE IdInv'
  <2> USE DEF Goto, Set, Done
  <2>0. /\ \A u \in Threads \ {t} : pc'[u] = pc[u] /\ req'[u] = req[u]
        /\ ever \subseteq ever'
        /\ nextMenu <= nextMenu'
    BY <1>4, StepFrame
  <2>1. \A g \in ever' : g[2] < nextMenu'
    <3>1. CASE InsertGrant(t)
      <4>1. PICK m \in req[t].add :
              ever' \subseteq ever \cup {<<req[t].role, m>>}
        BY <3>1 DEF InsertGrant
      <4>2. m < nextMenu
        <5>1. pc[t] = "write"
          BY <3>1 DEF InsertGrant
        <5>2. <<ParentRole[req[t].role], m>> \in ever
          BY <5>1 DEF SaveInv, SavePc, Pending
        <5> QED BY <5>2
      <4>3. \A g \in ever' : g \in ever \/ g[2] = m
        BY <4>1
      <4>4. nextMenu' = nextMenu
        BY <3>1 DEF InsertGrant
      <4> QED BY <4>2, <4>3, <4>4
    <3>2. CASE GrantToRoot(t)
      <4>1. req[t].menu \in 1..(nextMenu - 1)
        BY <3>2 DEF GrantToRoot
      <4> QED BY <3>2, <4>1, <1>0 DEF GrantToRoot
    <3>3. CASE ever' = ever
      <4>1. \A g \in ever : g[2] \in Nat
        BY DEF Grants, MenuIds
      <4> QED BY <3>3, <4>1, <2>0, <1>0
    <3> QED BY <1>4, <3>1, <3>2, <3>3
            DEF Step, SaveMenu, Begin, ReadParentMenus, ReadRoleMenus,
                CheckNewMenus, DeleteGrant, SaveDone, AddMenu, InsertMenu,
                Insert, DeleteMenu, ListChildren, ClearChild, DeleteRows, ClearSelf
  <2>2. \A m \in Present(menu') : m < nextMenu'
    <3>1. CASE InsertMenu(t)
      <4>1. /\ menu' = [menu EXCEPT ![nextMenu] = req[t].menu]
            /\ nextMenu' = nextMenu + 1
        BY <3>1 DEF InsertMenu, Insert
      <4>2. \A m \in Present(menu') : m \in Present(menu) \/ m = nextMenu
        BY <4>1 DEF Present
      <4>3. \A m \in Present(menu) : m \in Nat
        BY DEF Present, MenuIds
      <4> QED BY <4>1, <4>2, <4>3, <1>0
    <3>2. CASE DeleteRows(t)
      BY <3>2 DEF DeleteRows, Present
    <3>3. CASE UNCHANGED <<menu, nextMenu>>
      BY <3>3
    <3> QED BY <1>4, <3>1, <3>2, <3>3
            DEF Step, SaveMenu, Begin, ReadParentMenus, ReadRoleMenus,
                CheckNewMenus, DeleteGrant, SaveDone, AddMenu, InsertGrant,
                GrantToRoot, DeleteMenu, ListChildren, ClearChild, ClearSelf
  <2>3. roleMenu' \subseteq ever'
    <3>1. CASE InsertGrant(t)
      BY <3>1 DEF InsertGrant
    <3>2. CASE GrantToRoot(t)
      BY <3>2 DEF GrantToRoot
    <3>3. CASE roleMenu' \subseteq roleMenu
      BY <3>3, <2>0
    <3> QED BY <1>4, <3>1, <3>2, <3>3
            DEF Step, SaveMenu, Begin, ReadParentMenus, ReadRoleMenus,
                CheckNewMenus, DeleteGrant, SaveDone, AddMenu, InsertMenu,
                Insert, DeleteMenu, ListChildren, ClearChild, DeleteRows, ClearSelf,
                WithoutMenu
  <2>4. ASSUME NEW u \in Threads
        PROVE  /\ pc'[u] = "grant"
                    => req'[u].menu \in 1..(nextMenu' - 1)
               /\ pc'[u] = "clear" => \A c \in req'[u].del : c < nextMenu'
    <3>1. CASE u # t
      <4>1. pc[u] = "clear" => \A c \in req[u].del : c \in Nat
        BY DEF Request, MenuIds
      <4> QED BY <3>1, <2>0, <1>0, <4>1
    <3>2. CASE u = t
      <4> USE DEF DeletePc, SavePc
      <4>1. CASE InsertMenu(t)
        <5>1. /\ pc'[t] = "grant" /\ nextMenu' = nextMenu + 1
              /\ req'[t] = [NoRequest EXCEPT !.menu = nextMenu]
          BY <4>1 DEF InsertMenu, Insert
        <5>2. req'[t].menu = nextMenu
          BY <5>1 DEF NoRequest
        <5> QED BY <3>2, <5>1, <5>2, <1>0
      <4>2. CASE ListChildren(t)
        <5>1. /\ pc[t] = "children" /\ nextMenu' = nextMenu
              /\ req'[t] = [req[t] EXCEPT !.del =
                              {c \in MenuIds : menu[c] = req[t].menu}]
          BY <4>2 DEF ListChildren
        <5>2. /\ req'[t].menu = req[t].menu
              /\ req'[t].del = {c \in MenuIds : menu[c] = req[t].menu}
          BY <5>1 DEF Request
        <5>3. req[t].menu # NoMenu
          BY MenuAssumption DEF Request
        <5>4. req'[t].del \subseteq Present(menu)
          BY <5>2, <5>3 DEF Present
        <5>5. pc'[t] = "clear"
          BY <4>2 DEF ListChildren
        <5> QED BY <3>2, <5>1, <5>2, <5>4, <5>5
      <4>3. CASE ClearChild(t)
        BY <3>2, <4>3 DEF ClearChild, Request
      <4>4. CASE DeleteRows(t)
        BY <3>2, <4>4 DEF DeleteRows
      <4>5. CASE pc'[t] \notin {"grant", "clear"}
        BY <3>2, <4>5
      <4>6. CASE CheckNewMenus(t) \/ InsertGrant(t)
        <5>1. pc'[t] \in {"idle", "write"}
          BY <4>6 DEF CheckNewMenus, InsertGrant
        <5> QED BY <3>2, <5>1
      <4> QED BY <1>4, <4>1, <4>2, <4>3, <4>4, <4>5, <4>6
              DEF Step, SaveMenu, Begin, ReadParentMenus, ReadRoleMenus,
                  DeleteGrant, SaveDone, AddMenu, GrantToRoot, DeleteMenu,
                  ClearSelf
    <3> QED BY <3>1, <3>2
  <2>5. shown' \subseteq Present(menu')
    BY ShownNext
  <2> QED BY <2>1, <2>2, <2>3, <2>4, <2>5
<1> QED BY <1>1, <1>2, <1>3, <1>4 DEF Next

\* What a request has read keeps its two facts until it is written.
LEMMA SaveNext == GrantInv /\ TypeOK' /\ [Next]_vars => SaveInv'
<1> SUFFICES ASSUME GrantInv, TypeOK', [Next]_vars,
                    NEW u \in Threads, pc'[u] \in SavePc
             PROVE  /\ req'[u].role # RootRole
                    /\ \A m \in Pending(u)' :
                         /\ <<ParentRole[req'[u].role], m>> \in ever'
                         /\ Covered(m)'
  BY DEF SaveInv
<1> USE DEF GrantInv, TypeOK, Pending
\* It is enough that a request under way keeps its role and adds no menu.
<1>1. ASSUME pc[u] \in SavePc, req'[u].role = req[u].role,
             Pending(u)' \subseteq Pending(u), ever \subseteq ever'
      PROVE  /\ req'[u].role # RootRole
             /\ \A m \in Pending(u)' :
                  /\ <<ParentRole[req'[u].role], m>> \in ever'
                  /\ Covered(m)'
  <2>1. /\ req[u].role # RootRole
        /\ \A m \in Pending(u) :
             <<ParentRole[req[u].role], m>> \in ever /\ Covered(m)
    BY <1>1 DEF SaveInv
  <2>2. ASSUME NEW m \in Pending(u)'
        PROVE  /\ <<ParentRole[req'[u].role], m>> \in ever'
               /\ Covered(m)'
    <3>1. <<ParentRole[req[u].role], m>> \in ever /\ Covered(m)
      BY <1>1, <2>1, <2>2
    <3>2. m \in MenuIds /\ m < nextMenu
      BY <3>1 DEF Grants, IdInv
    <3> QED BY <1>1, <3>1, <3>2, CoverStable
  <2> QED BY <1>1, <2>1, <2>2
<1>2. CASE UNCHANGED vars
  BY <1>2, <1>1 DEF vars
<1>3. CASE MoveMenu
  BY <1>3, <1>1 DEF MoveMenu
<1>4. CASE Crash
  BY <1>4 DEF Crash, SavePc
<1>5. ASSUME NEW t \in Threads, Step(t)
      PROVE  /\ req'[u].role # RootRole
             /\ \A m \in Pending(u)' :
                  /\ <<ParentRole[req'[u].role], m>> \in ever'
                  /\ Covered(m)'
  <2> USE DEF Goto, Set, Done
  <2>0. /\ u # t => pc'[u] = pc[u] /\ req'[u] = req[u]
        /\ ever \subseteq ever'
    BY <1>5, StepFrame
  <2>1. CASE u # t
    BY <2>1, <2>0, <1>1
  <2>2. CASE u = t /\ SaveMenu(t)
    <3>1. PICK s \in Saves : s[1] # RootRole /\ Begin(t, s)
      BY <2>2 DEF SaveMenu
    <3>2. /\ req'[t] = [NoRequest EXCEPT !.role = s[1], !.now = s[2],
                                         !.ops = s[3]]
          /\ pc'[t] = "parent"
      BY <3>1 DEF Begin
    <3>3. req'[t].role = s[1] /\ req'[t].parent = {}
      BY <3>2 DEF NoRequest
    <3> QED BY <2>2, <3>1, <3>2, <3>3
  <2>3. CASE u = t /\ ReadParentMenus(t)
    <3> DEFINE P == ParentRole[req[t].role]
    <3>1. /\ pc[t] = "parent" /\ pc'[t] = "own"
          /\ req'[t] = [req[t] EXCEPT !.parent = MenusOf(P)]
          /\ UNCHANGED <<menu, roleMenu, ever, doomed>>
      BY <2>3 DEF ReadParentMenus
    <3>2. req'[t].role = req[t].role /\ req'[t].parent = MenusOf(P)
      BY <3>1 DEF Request
    <3>3. req[t].role \in Roles /\ req[t].role # RootRole
      BY <3>1 DEF SaveInv, SavePc, Request
    <3>4. P \in Roles
      BY <3>3, RoleAssumption
    <3>5. \A m \in MenusOf(P) : <<P, m>> \in ever /\ Covered(m)
      BY <3>4, MenusOfFacts DEF RowsCovered, IdInv
    <3>6. \A m \in MenusOf(P) : <<P, m>> \in ever' /\ Covered(m)'
      BY <3>1, <3>5 DEF Covered
    <3>7. Pending(t)' = MenusOf(P)
      BY <3>1, <3>2
    <3> QED BY <2>3, <3>2, <3>3, <3>6, <3>7
  <2>4. CASE u = t /\ ReadRoleMenus(t)
    <3>1. /\ pc[t] = "own" /\ pc'[t] = "check"
          /\ req'[t].role = req[t].role /\ req'[t].parent = req[t].parent
      BY <2>4 DEF ReadRoleMenus, Request
    <3> QED BY <2>4, <2>0, <3>1, <1>1 DEF SavePc
  <2>5. CASE u = t /\ CheckNewMenus(t)
    <3>1. /\ pc[t] = "check" /\ pc'[t] = "write"
          /\ req'[t] = [req[t] EXCEPT !.parent = {}]
          /\ req[t].add \subseteq req[t].parent
      BY <2>5 DEF CheckNewMenus, SavePc
    <3>2. req'[t].role = req[t].role /\ req'[t].add = req[t].add
      BY <3>1 DEF Request
    <3> QED BY <2>5, <2>0, <3>1, <3>2, <1>1 DEF SavePc
  <2>6. CASE u = t /\ (DeleteGrant(t) \/ InsertGrant(t))
    <3>1. pc[t] = "write" /\ pc'[t] = "write"
      BY <2>6 DEF DeleteGrant, InsertGrant, SavePc
    <3>2. \/ \E m : req'[t] = [req[t] EXCEPT !.del = @ \ {m}]
          \/ \E m : req'[t] = [req[t] EXCEPT !.add = @ \ {m}]
      BY <2>6, <3>1 DEF DeleteGrant, InsertGrant
    <3>3. req'[t].role = req[t].role /\ req'[t].add \subseteq req[t].add
      BY <3>2 DEF Request
    <3> QED BY <2>6, <2>0, <3>1, <3>3, <1>1 DEF SavePc
  <2>7. CASE u = t /\ pc'[t] \notin SavePc
    BY <2>7
  <2> QED BY <1>5, <2>1, <2>2, <2>3, <2>4, <2>5, <2>6, <2>7
          DEF Step, SaveDone, AddMenu, InsertMenu, Insert, GrantToRoot, DeleteMenu,
              ListChildren, ClearChild, DeleteRows, ClearSelf, SavePc
<1> QED BY <1>2, <1>3, <1>4, <1>5 DEF Next

\* The row that InsertGrant adds is one that the parent role has had.
LEMMA ParentNext == GrantInv /\ [Next]_vars => GrantComesFromParent'
<1> SUFFICES ASSUME GrantInv, [Next]_vars PROVE GrantComesFromParent'
  OBVIOUS
<1> USE DEF GrantInv, TypeOK, GrantComesFromParent
<1>1. CASE ever' = ever
  BY <1>1
<1>2. ASSUME NEW t \in Threads, InsertGrant(t) PROVE GrantComesFromParent'
  <2>1. PICK m \in req[t].add :
          ever' \in {ever, ever \cup {<<req[t].role, m>>}}
    BY <1>2 DEF InsertGrant
  <2>2. pc[t] = "write"
    BY <1>2 DEF InsertGrant
  <2>3. <<ParentRole[req[t].role], m>> \in ever
    BY <2>2 DEF SaveInv, SavePc, Pending
  <2> QED BY <2>1, <2>3
<1>3. ASSUME NEW t \in Threads, GrantToRoot(t) PROVE GrantComesFromParent'
  BY <1>3 DEF GrantToRoot
<1> QED BY <1>1, <1>2, <1>3
        DEF Next, vars, MoveMenu, Crash, Step, SaveMenu, Begin, ReadParentMenus,
            ReadRoleMenus, CheckNewMenus, DeleteGrant, SaveDone, AddMenu,
            InsertMenu, Insert, DeleteMenu, ListChildren, ClearChild, DeleteRows,
            ClearSelf

\* The operator's menus are read by the statement before the first write.
LEMMA OperatorNext == GrantInv /\ [Next]_vars => OperatorHasHad'
<1> SUFFICES ASSUME GrantInv, [Next]_vars, NEW u \in Threads, pc'[u] = "write"
             PROVE  \A m \in req'[u].add : \E o \in req'[u].ops :
                      <<o, m>> \in ever'
  BY DEF OperatorHasHad
<1> USE DEF GrantInv, TypeOK, OperatorHasHad
<1>1. CASE UNCHANGED vars \/ MoveMenu \/ Crash
  BY <1>1 DEF vars, MoveMenu, Crash
<1>2. ASSUME NEW t \in Threads, Step(t)
      PROVE  \A m \in req'[u].add : \E o \in req'[u].ops : <<o, m>> \in ever'
  <2> USE DEF Goto, Set, Done
  <2>0. /\ u # t => pc'[u] = pc[u] /\ req'[u] = req[u]
        /\ ever \subseteq ever'
    BY <1>2, StepFrame
  <2>1. CASE u # t
    BY <2>1, <2>0
  <2>2. CASE u = t /\ CheckNewMenus(t)
    <3>1. /\ req'[t] = [req[t] EXCEPT !.parent = {}]
          /\ req[t].add \subseteq MenusOfRoles(req[t].ops)
      BY <2>2 DEF CheckNewMenus
    <3>2. req'[t].ops = req[t].ops /\ req'[t].add = req[t].add
      BY <3>1 DEF Request
    <3>3. \A m \in req[t].add : \E o \in req[t].ops : <<o, m>> \in ever
      BY <3>1, MenusOfFacts DEF MenusOfRoles, IdInv
    <3> QED BY <2>2, <2>0, <3>2, <3>3
  <2>3. CASE u = t /\ (DeleteGrant(t) \/ InsertGrant(t))
    <3>1. pc[t] = "write" /\ pc'[t] = "write"
      BY <2>3 DEF DeleteGrant, InsertGrant
    <3>2. \/ \E m : req'[t] = [req[t] EXCEPT !.del = @ \ {m}]
          \/ \E m : req'[t] = [req[t] EXCEPT !.add = @ \ {m}]
      BY <2>3, <3>1 DEF DeleteGrant, InsertGrant
    <3>3. req'[t].ops = req[t].ops /\ req'[t].add \subseteq req[t].add
      BY <3>2 DEF Request
    <3> QED BY <2>3, <2>0, <3>1, <3>3
  <2>4. CASE u = t /\ pc'[t] # "write"
    BY <2>4
  <2> QED BY <1>2, <2>1, <2>2, <2>3, <2>4
          DEF Step, SaveMenu, Begin, ReadParentMenus, ReadRoleMenus, SaveDone,
              AddMenu, InsertMenu, Insert, GrantToRoot, DeleteMenu, ListChildren,
              ClearChild, DeleteRows, ClearSelf
<1> QED BY <1>1, <1>2 DEF Next

\* A deletion takes grants of menus it has listed, and then its own menu's.
LEMMA DeleteNext == GrantInv /\ [Next]_vars => DeleteInv'
<1> SUFFICES ASSUME GrantInv, [Next]_vars, NEW u \in Threads
             PROVE  /\ pc'[u] = "clear"
                         => req'[u].del \cap Present(menu') \subseteq doomed'
                    /\ pc'[u] = "self"
                         => req'[u].menu \notin Present(menu') \ doomed'
  BY DEF DeleteInv
<1> USE DEF GrantInv, TypeOK, DeleteInv
<1>1. CASE UNCHANGED vars \/ MoveMenu
  <2>1. Present(menu') = Present(menu)
    BY <1>1, RequestAssumption, MenuAssumption DEF vars, MoveMenu, Present
  <2> QED BY <1>1, <2>1 DEF vars, MoveMenu
<1>2. CASE Crash
  BY <1>2 DEF Crash
<1>3. ASSUME NEW t \in Threads, Step(t)
      PROVE  /\ pc'[u] = "clear"
                  => req'[u].del \cap Present(menu') \subseteq doomed'
             /\ pc'[u] = "self"
                  => req'[u].menu \notin Present(menu') \ doomed'
  <2> USE DEF Goto, Set, Done
  <2>0. u # t => pc'[u] = pc[u] /\ req'[u] = req[u]
    BY <1>3, StepFrame
  <2>1. doomed \cap Present(menu') \subseteq doomed'
    BY <1>3 DEF Step, SaveMenu, Begin, ReadParentMenus, ReadRoleMenus,
         CheckNewMenus, DeleteGrant, InsertGrant, SaveDone, AddMenu, InsertMenu, Insert,
         GrantToRoot, DeleteMenu, ListChildren, ClearChild, DeleteRows, ClearSelf
  <2>2. CASE u # t
    <3>1. CASE pc[u] = "clear"
      <4>1. \A m \in req[u].del : m \in MenuIds /\ m < nextMenu
        BY <3>1 DEF IdInv, Request
      <4>2. \A m \in req[u].del : m \in Present(menu') => m \in Present(menu)
        BY <4>1, CoverStable
      <4> QED BY <2>0, <2>1, <2>2, <3>1, <4>2
    <3>2. CASE pc[u] = "self"
      <4>1. req[u].menu \notin Present(menu) \ doomed
        BY <3>2
      <4>2. req[u].menu \notin Present(menu') \ doomed'
        <5>1. CASE InsertMenu(t)
          <6>1. /\ menu' = [menu EXCEPT ![nextMenu] = req[t].menu]
                /\ req[u].menu = nextMenu => nextMenu \in doomed'
            BY <3>2, <5>1 DEF InsertMenu, Insert
          <6>2. req[u].menu # nextMenu =>
                  (req[u].menu \in Present(menu') => req[u].menu \in Present(menu))
            BY <6>1 DEF Present
          <6> QED BY <2>1, <4>1, <6>1, <6>2
        <5>2. CASE Present(menu') \subseteq Present(menu)
          BY <2>1, <4>1, <5>2
        <5> QED BY <1>3, <5>1, <5>2
                DEF Step, SaveMenu, Begin, ReadParentMenus, ReadRoleMenus,
                    CheckNewMenus, DeleteGrant, InsertGrant, SaveDone, AddMenu,
                    GrantToRoot, DeleteMenu, ListChildren, ClearChild,
                    DeleteRows, ClearSelf, Present
      <4> QED BY <2>0, <2>2, <3>2, <4>2
    <3> QED BY <2>0, <2>2, <3>1, <3>2
  <2>3. CASE u = t /\ ListChildren(t)
    <3>1. /\ req'[t] = [req[t] EXCEPT !.del =
                          {c \in MenuIds : menu[c] = req[t].menu}]
          /\ doomed' = doomed \cup {c \in MenuIds : menu[c] = req[t].menu}
          /\ pc'[t] = "clear"
      BY <2>3 DEF ListChildren
    <3>2. req'[t].del \subseteq doomed'
      BY <3>1 DEF Request
    <3> QED BY <2>3, <3>1, <3>2
  <2>4. CASE u = t /\ ClearChild(t)
    <3>1. PICK c : req'[t] = [req[t] EXCEPT !.del = @ \ {c}]
      BY <2>4 DEF ClearChild
    <3>2. req'[t].del \subseteq req[t].del
      BY <3>1 DEF Request
    <3>3. pc[t] = "clear" /\ pc'[t] = "clear" /\ UNCHANGED <<menu, doomed>>
      BY <2>4 DEF ClearChild
    <3> QED BY <2>4, <3>2, <3>3
  <2>5. CASE u = t /\ DeleteRows(t)
    <3>1. pc'[t] = "self" /\ req' = req
      BY <2>5 DEF DeleteRows
    <3>2. req[t].menu \notin Present(menu')
      BY <2>5 DEF DeleteRows, Present
    <3> QED BY <2>5, <3>1, <3>2
  <2>6. CASE u = t /\ pc'[t] \notin {"clear", "self"}
    BY <2>6
  <2>7. CASE u = t /\ (CheckNewMenus(t) \/ InsertGrant(t))
    <3>1. pc'[t] \in {"idle", "write"}
      BY <2>7 DEF CheckNewMenus, InsertGrant
    <3> QED BY <2>7, <3>1
  <2> QED BY <1>3, <2>2, <2>3, <2>4, <2>5, <2>6, <2>7
          DEF Step, SaveMenu, Begin, ReadParentMenus, ReadRoleMenus,
              DeleteGrant, SaveDone, AddMenu, InsertMenu, Insert, GrantToRoot,
              DeleteMenu, ClearSelf
<1> QED BY <1>1, <1>2, <1>3 DEF Next

\* A row that was there is covered because its menu was; a new one because
\* its save has read it from the parent.
LEMMA CoverNext == GrantInv /\ TypeOK' /\ [Next]_vars => RowsCovered'
<1> SUFFICES ASSUME GrantInv, TypeOK', [Next]_vars, NEW r \in Roles,
                    NEW m \in MenuIds, m \in Present(menu'), m \notin doomed',
                    <<r, m>> \in roleMenu'
             PROVE  <<RootRole, m>> \in roleMenu'
  BY DEF RowsCovered, Covered, TypeOK, Grants
<1> USE DEF GrantInv, TypeOK
<1>1. ASSUME <<r, m>> \in roleMenu PROVE <<RootRole, m>> \in roleMenu'
  <2>1. m < nextMenu
    BY <1>1 DEF IdInv
  <2>2. Covered(m)
    BY <1>1 DEF RowsCovered
  <2> QED BY <2>1, <2>2, CoverStable DEF Covered
<1>2. ASSUME NEW t \in Threads, InsertGrant(t), <<r, m>> \notin roleMenu
      PROVE  <<RootRole, m>> \in roleMenu'
  <2>1. PICK a \in req[t].add : roleMenu' \subseteq roleMenu \cup {<<req[t].role, a>>}
    BY <1>2 DEF InsertGrant
  <2>2. a = m
    BY <1>2, <2>1
  <2>3. pc[t] = "write"
    BY <1>2 DEF InsertGrant
  <2>4. <<ParentRole[req[t].role], m>> \in ever /\ Covered(m)
    BY <2>2, <2>3 DEF SaveInv, SavePc, Pending
  <2>5. m < nextMenu
    BY <2>4 DEF IdInv
  <2> QED BY <2>4, <2>5, CoverStable DEF Covered
<1>3. ASSUME NEW t \in Threads, GrantToRoot(t), <<r, m>> \notin roleMenu
      PROVE  <<RootRole, m>> \in roleMenu'
  BY <1>3 DEF GrantToRoot
<1> QED BY <1>1, <1>2, <1>3
        DEF Next, vars, MoveMenu, Crash, Step, SaveMenu, Begin, ReadParentMenus,
            ReadRoleMenus, CheckNewMenus, DeleteGrant, SaveDone, AddMenu,
            InsertMenu, Insert, DeleteMenu, ListChildren, ClearChild, DeleteRows,
            ClearSelf, WithoutMenu

-----------------------------------------------------------------------------
(* Saves that nothing overlaps with.                                       *)

\* A request leaves the others and what they have met alone, but for one that
\* begins; a save that goes on keeps its role and whom it has met.
LEMMA StepShape ==
  ASSUME TypeOK, NEW t \in Threads, Step(t)
  PROVE  /\ met \ {t} \subseteq met'
         /\ \/ SaveMenu(t)
            \/ pc'[t] \in SavePc =>
                 /\ pc[t] \in SavePc /\ req'[t].role = req[t].role
                 /\ t \in met => t \in met'
         /\ \/ DeleteMenu(t)
            \/ pc'[t] \in DeletePc => pc[t] \in DeletePc
<1> USE DEF TypeOK, Goto, Set, Done, SavePc, DeletePc
<1>1. CASE SaveMenu(t)
  BY <1>1 DEF SaveMenu, Begin
<1>2. CASE ReadParentMenus(t)
  BY <1>2 DEF ReadParentMenus, Request
<1>3. CASE ReadRoleMenus(t)
  BY <1>3 DEF ReadRoleMenus, Request
<1>4. CASE CheckNewMenus(t)
  <2>1. /\ pc[t] = "check"
        /\ Done(t) \/ (Goto(t, "write") /\ Set(t, [req[t] EXCEPT !.parent = {}])
                       /\ UNCHANGED met)
    BY <1>4 DEF CheckNewMenus
  <2>2. [req[t] EXCEPT !.parent = {}].role = req[t].role
    BY DEF Request
  <2> QED BY <2>1, <2>2
<1>5. CASE DeleteGrant(t)
  BY <1>5 DEF DeleteGrant, Request
<1>6. CASE InsertGrant(t)
  <2>1. PICK m \in req[t].add :
          Done(t) \/ (Set(t, [req[t] EXCEPT !.add = @ \ {m}])
                      /\ UNCHANGED <<pc, met>>)
    BY <1>6 DEF InsertGrant
  <2>2. [req[t] EXCEPT !.add = @ \ {m}].role = req[t].role
    BY DEF Request
  <2>3. pc[t] = "write"
    BY <1>6 DEF InsertGrant
  <2> QED BY <2>1, <2>2, <2>3
<1>7. CASE SaveDone(t) \/ GrantToRoot(t) \/ ClearSelf(t)
  BY <1>7 DEF SaveDone, GrantToRoot, ClearSelf
<1>8. CASE AddMenu(t) \/ InsertMenu(t)
  BY <1>8 DEF AddMenu, InsertMenu, Insert
<1>9. CASE DeleteMenu(t) \/ ListChildren(t) \/ ClearChild(t) \/ DeleteRows(t)
  BY <1>9 DEF DeleteMenu, ListChildren, ClearChild, DeleteRows
<1> QED BY <1>1, <1>2, <1>3, <1>4, <1>5, <1>6, <1>7, <1>8, <1>9 DEF Step

LEMMA MeetNext == TypeOK /\ MeetInv /\ [Next]_vars => MeetInv'
<1> SUFFICES ASSUME TypeOK, MeetInv, [Next]_vars,
                    NEW v \in Threads, NEW u \in Threads, v # u,
                    pc'[v] \in SavePc,
                    Saving(u, req[v].role)' \/ Deleting(u)'
             PROVE  v \in met'
  BY DEF MeetInv
<1> USE DEF Saving, Deleting
<1>1. CASE UNCHANGED vars \/ MoveMenu
  <2>1. pc' = pc /\ req' = req /\ met \subseteq met'
    BY <1>1 DEF vars, MoveMenu
  <2> QED BY <2>1 DEF MeetInv
<1>2. CASE Crash
  BY <1>2 DEF Crash, SavePc
<1>3. ASSUME NEW t \in Threads, Step(t) PROVE v \in met'
  <2>0. \A w \in Threads \ {t} : pc'[w] = pc[w] /\ req'[w] = req[w]
    BY <1>3, StepFrame
  <2>1. CASE SaveMenu(t)
    <3>1. PICK s \in Saves : Begin(t, s)
      BY <2>1 DEF SaveMenu
    <3>2. [NoRequest EXCEPT !.role = s[1], !.now = s[2], !.ops = s[3]].role
            = s[1]
      BY DEF NoRequest
    <3>3. /\ pc'[t] = "parent" /\ req'[t].role = s[1]
          /\ pc[t] = "idle"
      BY <2>1, <3>1, <3>2 DEF TypeOK, Begin, Goto, Set, SaveMenu
    <3>4. LET same == {w \in Threads : Saving(w, s[1])} IN
          met' = IF same = {} /\ \A w \in Threads : ~Deleting(w)
                 THEN met ELSE met \cup same \cup {t}
      BY <3>1 DEF Begin
    <3>5. CASE v = t
      <4>1. u # t /\ pc'[u] = pc[u] /\ req'[u] = req[u]
        BY <2>0, <3>5
      <4>2. Saving(u, s[1]) \/ Deleting(u)
        BY <4>1, <3>3, <3>5
      <4> QED BY <3>4, <3>5, <4>2
    <3>6. CASE u = t
      <4>1. v # t /\ pc'[v] = pc[v] /\ req'[v] = req[v]
        BY <2>0, <3>6
      <4>2. pc'[t] \notin DeletePc
        BY <3>3 DEF DeletePc
      <4>3. Saving(v, s[1])
        BY <4>1, <4>2, <3>3, <3>6
      <4> QED BY <3>4, <4>3
    <3>7. CASE v # t /\ u # t
      BY <3>7, <2>0, <3>4 DEF MeetInv
    <3> QED BY <3>5, <3>6, <3>7
  <2>2. CASE DeleteMenu(t)
    <3>1. pc'[t] = "children" /\ met' = met \cup {w \in Threads : pc[w] \in SavePc}
      BY <2>2 DEF DeleteMenu, SavesUnderWay, Goto, TypeOK
    <3>2. v # t
      BY <3>1 DEF SavePc
    <3> QED BY <3>1, <3>2, <2>0
  <2>3. CASE ~SaveMenu(t) /\ ~DeleteMenu(t)
    <3>1. /\ pc[v] \in SavePc /\ req'[v].role = req[v].role
          /\ v \in met => v \in met'
      BY <1>3, <2>0, <2>3, StepShape
    <3>2. Saving(u, req[v].role) \/ Deleting(u)
      BY <1>3, <2>0, <2>3, <3>1, StepShape
    <3> QED BY <3>1, <3>2 DEF MeetInv
  <2> QED BY <2>1, <2>2, <2>3
<1> QED BY <1>1, <1>2, <1>3 DEF Next

\* The menus that are there go by a deletion alone, those of a role besides by
\* the saves of that role.
LEMMA OtherMenus ==
  ASSUME GrantInv, MeetInv, NEW t \in Threads, Step(t),
         NEW u \in Threads, u # t, pc[u] \in SavePc, u \notin met
  PROVE  /\ shown \subseteq shown'
         /\ MenusOf(req[u].role)' = MenusOf(req[u].role)
<1> USE DEF GrantInv, TypeOK
<1> DEFINE r == req[u].role
<1>0. r \in Roles /\ req'[u] = req[u] /\ r # RootRole
  <2>1. req'[u] = req[u]
    BY StepFrame
  <2>2. r # RootRole
    BY DEF SaveInv
  <2> QED BY <2>1, <2>2 DEF Request
<1>1. pc[t] \notin DeletePc
  BY DEF MeetInv, Deleting
<1>2. CASE UNCHANGED <<shown, roleMenu>>
  BY <1>0, <1>2 DEF MenusOf
<1>3. CASE DeleteGrant(t) \/ InsertGrant(t)
  <2>1. pc[t] = "write" /\ shown' = shown
    BY <1>3 DEF DeleteGrant, InsertGrant
  <2>2. req[t].role # r
    BY <2>1 DEF MeetInv, Saving, SavePc
  <2>3. \A m \in MenuIds : <<r, m>> \in roleMenu' <=> <<r, m>> \in roleMenu
    <3>1. CASE DeleteGrant(t)
      BY <3>1, <2>2 DEF DeleteGrant
    <3>2. CASE InsertGrant(t)
      BY <3>2, <2>2 DEF InsertGrant
    <3> QED BY <1>3, <3>1, <3>2
  <2>4. shown \subseteq MenuIds
    BY MenusOfFacts
  <2> QED BY <1>0, <2>1, <2>3, <2>4 DEF MenusOf
<1>4. CASE InsertMenu(t)
  <2>1. /\ shown \subseteq shown' /\ shown' \subseteq shown \cup {nextMenu}
        /\ roleMenu' = roleMenu
    BY <1>4 DEF InsertMenu, Insert
  <2>2. <<r, nextMenu>> \notin roleMenu
    <3>1. \A g \in roleMenu : g[2] < nextMenu
      BY DEF IdInv
    <3>2. nextMenu \in Nat
      BY MenuAssumption
    <3>3. <<r, nextMenu>>[2] = nextMenu
      OBVIOUS
    <3> QED BY <3>1, <3>2, <3>3
  <2> QED BY <1>0, <2>1, <2>2 DEF MenusOf
<1>5. CASE GrantToRoot(t)
  <2>1. shown' = shown /\ roleMenu' = roleMenu \cup {<<RootRole, req[t].menu>>}
    BY <1>5 DEF GrantToRoot
  <2> QED BY <1>0, <2>1 DEF MenusOf
<1>6. CASE ClearChild(t) \/ DeleteRows(t) \/ ClearSelf(t)
  BY <1>1, <1>6 DEF ClearChild, DeleteRows, ClearSelf, DeletePc
<1> QED BY <1>2, <1>3, <1>4, <1>5, <1>6
        DEF Step, SaveMenu, Begin, ReadParentMenus, ReadRoleMenus,
            CheckNewMenus, SaveDone, AddMenu, DeleteMenu, ListChildren

\* The differences are taken at once, and a row written leaves its half.
LEMMA PlanNext ==
  GrantInv /\ MeetInv /\ PlanInv /\ [Next]_vars => PlanInv'
<1> DEFINE Plan(l, q, here, held) ==
             /\ l \in {"own", "check"} => q.parent \subseteq here
             /\ l = "write" => q.add \subseteq here
             /\ l \in {"check", "write"} =>
                  /\ q.add \subseteq q.now /\ q.del \cap q.now = {}
                  /\ q.now \ q.add \subseteq held
                  /\ held \subseteq q.now \cup q.del
<1> SUFFICES ASSUME GrantInv, MeetInv, PlanInv, [Next]_vars,
                    NEW u \in Threads, u \notin met',
                    pc'[u] \in {"own", "check", "write"}
             PROVE  Plan(pc[u], req[u], shown, MenusOf(req[u].role))'
  BY DEF PlanInv
<1>a. u \notin met => Plan(pc[u], req[u], shown, MenusOf(req[u].role))
  BY DEF PlanInv
<1> USE DEF GrantInv, TypeOK
<1>1. CASE UNCHANGED vars
  <2>1. /\ u \notin met /\ pc'[u] = pc[u] /\ req'[u] = req[u]
        /\ shown' = shown
        /\ MenusOf(req[u].role)' = MenusOf(req[u].role)
    BY <1>1 DEF vars, MenusOf, Present
  <2> QED BY <2>1, <1>a
<1>2. CASE Crash
  BY <1>2 DEF Crash
<1>3. CASE MoveMenu
  <2>1. pc' = pc /\ req' = req /\ u \notin met /\ pc[u] \in SavePc
    BY <1>3 DEF MoveMenu, SavePc
  <2>2. shown' = shown /\ roleMenu' = roleMenu
    BY <1>3, <2>1 DEF MoveMenu, SavesUnderWay
  <2>3. MenusOf(req[u].role)' = MenusOf(req[u].role)
    BY <2>1, <2>2 DEF MenusOf
  <2> QED BY <2>1, <2>2, <2>3, <1>a
<1>4. ASSUME NEW t \in Threads, Step(t), t # u
      PROVE  Plan(pc[u], req[u], shown, MenusOf(req[u].role))'
  <2>1. pc'[u] = pc[u] /\ req'[u] = req[u]
    BY <1>4, StepFrame
  <2>2. u \notin met
    BY <1>4, StepShape
  <2>3. pc[u] \in SavePc
    BY <2>1 DEF SavePc
  <2>4. /\ shown \subseteq shown'
        /\ MenusOf(req[u].role)' = MenusOf(req[u].role)
    BY <1>4, <2>2, <2>3, OtherMenus
  <2> QED BY <2>1, <2>2, <2>4, <1>a
<1>5. CASE Step(u)
  <2> USE DEF Goto, Set, Done
  <2> DEFINE H == MenusOf(req[u].role)
  <2>0. req[u] \in Request /\ H \subseteq shown
    BY MenusOfFacts
  <2>1. CASE ReadParentMenus(u)
    <3>1. /\ pc'[u] = "own" /\ shown' = shown
          /\ req'[u].parent = MenusOf(ParentRole[req[u].role])
      BY <2>0, <2>1 DEF ReadParentMenus, Request
    <3> QED BY <3>1, MenusOfFacts
  <2>2. CASE ReadRoleMenus(u)
    <3>1. /\ pc[u] = "own" /\ pc'[u] = "check" /\ u \notin met
          /\ UNCHANGED <<shown, roleMenu>>
          /\ req'[u].parent = req[u].parent /\ req'[u].role = req[u].role
          /\ req'[u].now = req[u].now
          /\ req'[u].del = H \ req[u].now /\ req'[u].add = req[u].now \ H
      BY <2>0, <2>2 DEF ReadRoleMenus, Request
    <3>2. MenusOf(req[u].role)' = H /\ shown' = shown
      BY <3>1 DEF MenusOf
    <3>3. req[u].parent \subseteq shown
      BY <3>1, <1>a
    <3> HIDE DEF H
    <3> QED BY <3>1, <3>2, <3>3
  <2>3. CASE CheckNewMenus(u)
    <3>1. /\ pc[u] = "check" /\ pc'[u] = "write" /\ u \notin met
          /\ UNCHANGED <<shown, roleMenu>>
          /\ req[u].add \subseteq req[u].parent
          /\ req' = [req EXCEPT ![u] = [req[u] EXCEPT !.parent = {}]]
      BY <2>3 DEF CheckNewMenus
    <3>2. /\ req'[u].role = req[u].role /\ req'[u].now = req[u].now
          /\ req'[u].del = req[u].del /\ req'[u].add = req[u].add
      BY <2>0, <3>1 DEF Request
    <3>3. MenusOf(req[u].role)' = H /\ shown' = shown
      BY <3>1, <3>2 DEF MenusOf
    <3>4. Plan("check", req[u], shown, H)
      BY <3>1, <1>a
    <3> HIDE DEF H
    <3> QED BY <3>1, <3>2, <3>3, <3>4
  <2>4. CASE DeleteGrant(u)
    <3>1. PICK m \in req[u].del :
            /\ roleMenu' = roleMenu \ {<<req[u].role, m>>}
            /\ req' = [req EXCEPT ![u] = [req[u] EXCEPT !.del = @ \ {m}]]
      BY <2>4 DEF DeleteGrant
    <3>2. /\ pc[u] = "write" /\ pc'[u] = "write" /\ u \notin met /\ shown' = shown
      BY <2>4 DEF DeleteGrant
    <3>3. /\ req'[u].role = req[u].role /\ req'[u].now = req[u].now
          /\ req'[u].add = req[u].add /\ req'[u].del = req[u].del \ {m}
      BY <2>0, <3>1 DEF Request
    <3>4. MenusOf(req[u].role)' = H \ {m} /\ shown' = shown
      BY <3>1, <3>2, <3>3 DEF MenusOf
    <3>5. Plan("write", req[u], shown, H)
      BY <3>2, <1>a
    <3> HIDE DEF H
    <3> QED BY <3>1, <3>2, <3>3, <3>4, <3>5
  <2>5. CASE InsertGrant(u)
    <3>0. /\ pc[u] = "write" /\ shown' = shown
          /\ pc'[u] = "write"
      <4>1. pc[u] = "write" /\ shown' = shown
        BY <2>5 DEF InsertGrant
      <4>2. pc'[u] = "idle" \/ pc'[u] = pc[u]
        BY <2>5 DEF InsertGrant
      <4> QED BY <4>1, <4>2
    <3>1. PICK m \in req[u].add :
            /\ roleMenu' = roleMenu \cup {<<req[u].role, m>>}
            /\ req' = [req EXCEPT ![u] = [req[u] EXCEPT !.add = @ \ {m}]]
            /\ UNCHANGED met
      BY <2>5, <3>0 DEF InsertGrant
    <3>2. u \notin met
      BY <3>1
    <3>3. /\ req'[u].role = req[u].role /\ req'[u].now = req[u].now
          /\ req'[u].del = req[u].del /\ req'[u].add = req[u].add \ {m}
      BY <2>0, <3>1 DEF Request
    <3>4. Plan("write", req[u], shown, H)
      BY <3>0, <3>2, <1>a
    <3>5. shown' = shown /\ m \in shown
      BY <3>0, <3>4 DEF Present
    <3>6. MenusOf(req[u].role)' = H \cup {m}
      BY <3>0, <3>1, <3>3, <3>5 DEF MenusOf
    <3> HIDE DEF H
    <3> QED BY <3>0, <3>1, <3>3, <3>4, <3>5, <3>6
  <2>6. CASE SaveMenu(u)
    <3>1. pc'[u] = "parent"
      BY <2>6 DEF SaveMenu, Begin
    <3> QED BY <3>1
  <2>7. CASE SaveDone(u) \/ GrantToRoot(u) \/ ClearSelf(u)
    BY <2>7 DEF SaveDone, GrantToRoot, ClearSelf
  <2>8. CASE AddMenu(u) \/ InsertMenu(u)
    BY <2>8 DEF AddMenu, InsertMenu, Insert
  <2>9. CASE DeleteMenu(u) \/ ListChildren(u) \/ ClearChild(u) \/ DeleteRows(u)
    BY <2>9 DEF DeleteMenu, ListChildren, ClearChild, DeleteRows
  <2> QED BY <1>5, <2>1, <2>2, <2>3, <2>4, <2>5, <2>6, <2>7, <2>8, <2>9
          DEF Step
<1> QED BY <1>1, <1>2, <1>3, <1>4, <1>5 DEF Next

-----------------------------------------------------------------------------

\* Every behaviour keeps the inductive invariant.
THEOREM GrantInvariant == Spec => []GrantInv
<1>1. GrantInv /\ [Next]_vars => GrantInv'
  <2> SUFFICES ASSUME GrantInv, [Next]_vars PROVE GrantInv'
    OBVIOUS
  <2>1. TypeOK'
    BY TypeNext DEF GrantInv
  <2> QED BY <2>1, IdNext, SaveNext, ParentNext, OperatorNext, DeleteNext,
             CoverNext DEF GrantInv
<1> QED BY <1>1, InitGrantInv, PTL DEF Spec

\* RoleMenuServiceImpl.saveMenus: whatever saves, additions, deletions and
\* crashes interleave, a role gets no menu its parent has not had.
THEOREM GrantsComeFromTheParent == Spec => []GrantComesFromParent
<1>1. GrantInv => GrantComesFromParent
  BY DEF GrantInv
<1> QED BY <1>1, GrantInvariant, PTL

\* And an operator gives only what a role of its session has had.
THEOREM OperatorsGiveTheirOwn == Spec => []OperatorHasHad
<1>1. GrantInv => OperatorHasHad
  BY DEF GrantInv
<1> QED BY <1>1, GrantInvariant, PTL

\* Role 1 may use every menu that another role may, but for those a deletion
\* is about to take: MenuServiceImpl.save grants each menu to it.
THEOREM RootCoversAll == Spec => []RootCovers
<1>1. GrantInv => RootCovers
  <2> SUFFICES ASSUME GrantInv, NEW r \in Roles,
                      NEW m \in MenusOf(r), m \notin doomed
               PROVE  m \in MenusOf(RootRole)
    BY DEF RootCovers
  <2>1. m \in shown /\ m \in Present(menu) /\ <<r, m>> \in roleMenu
    BY MenusOfFacts DEF GrantInv
  <2>2. <<RootRole, m>> \in roleMenu
    BY <2>1 DEF GrantInv, RowsCovered, Covered
  <2> QED BY <2>1, <2>2 DEF MenusOf
<1> QED BY <1>1, GrantInvariant, PTL

\* Every variable keeps its type: no step invents an id or a role.
THEOREM TypeCorrect == Spec => []TypeOK
<1>1. GrantInv => TypeOK
  BY DEF GrantInv
<1> QED BY <1>1, GrantInvariant, PTL

\* Every behaviour keeps what saves and deletions that overlap know of each
\* other.
THEOREM ExactInvariant == Spec => []ExactInv
<1>1. Init => ExactInv
  <2> SUFFICES ASSUME Init PROVE ExactInv
    OBVIOUS
  <2>1. \A t \in Threads : pc[t] = "idle"
    BY DEF Init
  <2> QED BY <2>1 DEF ExactInv, MeetInv, PlanInv, SavePc
<1>2. GrantInv /\ ExactInv /\ [Next]_vars => ExactInv'
  BY MeetNext, PlanNext DEF ExactInv, GrantInv
<1> QED BY <1>1, <1>2, GrantInvariant, PTL DEF Spec

\* RoleMenuServiceImpl.saveMenus: for any threads, a save that no other save
\* of its role and no deletion overlaps ends with the menus asked for.
THEOREM SavesAreExact == Spec => []SaveIsExact
<1>1. GrantInv /\ ExactInv => SaveIsExact
  <2> SUFFICES ASSUME GrantInv, ExactInv, NEW t \in Threads, pc[t] = "write",
                      req[t].del = {}, req[t].add = {}, t \notin met
               PROVE  MenusOf(req[t].role) = req[t].now
    BY DEF SaveIsExact
  <2>1. /\ req[t].now \ req[t].add \subseteq MenusOf(req[t].role)
        /\ MenusOf(req[t].role) \subseteq req[t].now \cup req[t].del
    BY DEF ExactInv, PlanInv
  <2> QED BY <2>1
<1> QED BY <1>1, GrantInvariant, ExactInvariant, PTL
=============================================================================
