---------------------------- MODULE UserRoleProofs ----------------------------
(***************************************************************************)
(* Proofs about UserRole, for any users, roles and number of sessions:     *)
(* RootInv is inductive, so the root role keeps the holders it was         *)
(* installed with.                                                         *)
(***************************************************************************)
EXTENDS UserRole, TLAPS

\* A request that names nothing is a request.
LEMMA NoRequestType == NoRequest \in Request
<1>1. (CHOOSE u \in Users : TRUE) \in Users
  BY UserAssumption
<1> QED BY <1>1 DEF NoRequest, Request

\* The root is no one's child: every path looked for has an element, and its
\* own has none.
LEMMA RootIsNoChild ==
  ASSUME TypeOK, path[RootRole] = <<>>, NEW ops \in SUBSET Exists(path)
  PROVE  ~IsChild(RootRole, ops)
<1> SUFFICES ASSUME NEW o \in ops,
                    IsPrefix(Append(path[o], o), path[RootRole])
             PROVE  FALSE
  BY DEF IsChild
<1>1. path[o] \in Seq(RoleIds) /\ o \in RoleIds
  BY DEF TypeOK, Exists
<1>2. Len(Append(path[o], o)) = Len(path[o]) + 1 /\ Len(path[o]) \in Nat
  BY <1>1
<1>3. Len(Append(path[o], o)) <= 0
  BY DEF IsPrefix
<1> QED BY <1>2, <1>3

\* Before the first request.
LEMMA InitRootInv == Init => RootInv
<1> SUFFICES ASSUME Init PROVE RootInv
  OBVIOUS
<1> USE DEF Init
<1>1. RootRole \in RoleIds /\ RootRole \in Exists(SeedRole)
  <2>1. RootRole \in RoleIds
    BY RoleAssumption DEF RootRole, RoleIds
  <2>2. SeedRole[RootRole] # NoRole
    <3>1. <<>> \in Seq(RoleIds)
      OBVIOUS
    <3> QED BY <3>1, RoleAssumption
  <2> QED BY <2>1, <2>2 DEF Exists
<1>2. TypeOK
  <2>1. SeedRows \subseteq Rows
    BY RowAssumption DEF Rows, Exists
  <2>2. nextRole \in 1..(MaxRole + 1) /\ path \in [RoleIds -> Seq(RoleIds) \cup {NoRole}]
    BY RoleAssumption
  <2> QED BY <2>1, <2>2, NoRequestType DEF TypeOK
<1>3. /\ RootRole < nextRole
      /\ \A r \in Exists(path) : r < nextRole
  BY <1>1, RoleAssumption DEF RoleIds
<1>4. \A c \in Clients : pc[c] # "write" /\ req[c].ops = {}
  BY DEF NoRequest
<1>5. RootHoldersFixed
  BY DEF RootHoldersFixed
<1> QED BY <1>2, <1>3, <1>4, <1>5, RoleAssumption DEF RootInv

-----------------------------------------------------------------------------
(* Types.                                                                  *)

\* The reads of saveRoles return ids of roles.
LEMMA RolesOfFacts ==
  ASSUME TypeOK, NEW u
  PROVE  /\ RolesOf(u) \subseteq RoleIds
         /\ ActiveRolesOf(u) \subseteq RoleIds
         /\ ActiveRolesOf(u) \subseteq Exists(path)
         /\ Exists(path) \subseteq RoleIds
BY DEF TypeOK, RolesOf, ActiveRolesOf, Exists

LEMMA TypeNext == TypeOK /\ [Next]_vars => TypeOK'
<1> SUFFICES ASSUME TypeOK, [Next]_vars PROVE TypeOK'
  OBVIOUS
<1> USE DEF TypeOK, roleVars
<1>1. CASE UNCHANGED vars
  BY <1>1 DEF vars, Exists
<1>2. CASE Crash
  BY <1>2, NoRequestType DEF Crash, Exists
<1>3. ASSUME NEW c \in Clients, Step(c) PROVE TypeOK'
  <2> USE DEF Goto, Set, Done
  <2>0. /\ req[c] \in Request /\ NoRequest \in Request
        /\ \A u : RolesOf(u) \subseteq RoleIds /\ ActiveRolesOf(u) \subseteq RoleIds
    BY NoRequestType, RolesOfFacts
  <2>1. CASE \E u \in Users : Login(c, u)
    BY <2>1, <2>0 DEF Login, Exists
  <2>2. CASE Logout(c)
    BY <2>2 DEF Logout, Exists
  <2>3. CASE AddRole(c)
    <3>1. PICK p \in Exists(path) : path' = [path EXCEPT ![nextRole] = Append(path[p], p)]
      BY <2>3 DEF AddRole
    <3>2. nextRole \in RoleIds /\ nextRole' \in 1..(MaxRole + 1)
      BY <2>3, RoleAssumption DEF AddRole, RoleIds
    <3>3. path[p] \in Seq(RoleIds) /\ p \in RoleIds
      BY DEF Exists
    <3>4. Append(path[p], p) \in Seq(RoleIds)
      BY <3>3
    <3>5. path' \in [RoleIds -> Seq(RoleIds) \cup {NoRole}]
      BY <3>1, <3>4
    <3>6. Exists(path) \cup {nextRole} \subseteq Exists(path')
      BY <3>1, <3>2, <3>4, RoleAssumption DEF Exists
    <3>7. active' \subseteq Exists(path')
      BY <2>3, <3>6 DEF AddRole
    <3> QED BY <2>3, <3>2, <3>5, <3>7 DEF AddRole
  <2>4. CASE DeleteRole(c)
    BY <2>4 DEF DeleteRole, Exists
  <2>5. CASE UpdateRole(c)
    BY <2>5 DEF UpdateRole, Exists
  <2>6. CASE SaveRoles(c)
    <3>1. PICK s \in Saves :
            /\ s[2] \subseteq Exists(path)
            /\ req' = [req EXCEPT ![c] = [NoRequest EXCEPT !.user = s[1],
                                   !.asked = s[2], !.ops = session[c]]]
      BY <2>6 DEF SaveRoles
    <3>2. session[c] \in SUBSET RoleIds
      BY <2>6 DEF SaveRoles
    <3>3. [NoRequest EXCEPT !.user = s[1], !.asked = s[2], !.ops = session[c]]
            \in Request
      BY <2>0, <3>2, RowAssumption DEF Request
    <3>4. met' \subseteq Clients
      BY <2>6 DEF SaveRoles
    <3>5. pc' \in [Clients -> {"idle", "roles", "held", "write", "failed"}]
      BY <2>6 DEF SaveRoles
    <3>6. req' \in [Clients -> Request]
      BY <3>1, <3>3
    <3> QED BY <2>6, <3>4, <3>5, <3>6 DEF SaveRoles, Exists
  <2>7. CASE ReadRoles(c)
    <3>1. [req[c] EXCEPT !.now = req[c].asked \cap Exists(path)] \in Request
      BY <2>0 DEF Request
    <3> QED BY <2>7, <3>1 DEF ReadRoles, Exists
  <2>8. CASE ReadHeldRoles(c)
    <3> DEFINE held == ActiveRolesOf(req[c].user)
               q == [req[c] EXCEPT !.del = held \ req[c].now,
                                   !.add = req[c].now \ held,
                                   !.off = RolesOf(req[c].user) \ active]
    <3>1. q \in Request
      BY <2>0 DEF Request
    <3>2. \/ Done(c)
          \/ Goto(c, "write") /\ Set(c, q) /\ UNCHANGED met
      BY <2>8 DEF ReadHeldRoles
    <3> HIDE DEF q
    <3>3. /\ pc' \in [Clients -> {"idle", "roles", "held", "write", "failed"}]
          /\ req' \in [Clients -> Request]
          /\ met' \subseteq Clients
      BY <3>1, <3>2, <2>0
    <3> QED BY <2>8, <3>3 DEF ReadHeldRoles, Exists
  <2>9. CASE DeleteUserRole(c)
    <3>1. PICK r \in req[c].del :
            /\ userRole' = userRole \ {<<req[c].user, r>>}
            /\ Set(c, [req[c] EXCEPT !.del = @ \ {r}])
      BY <2>9 DEF DeleteUserRole
    <3>2. [req[c] EXCEPT !.del = @ \ {r}] \in Request
      BY <2>0 DEF Request
    <3> QED BY <2>9, <3>1, <3>2 DEF DeleteUserRole, Exists
  <2>10. CASE InsertUserRole(c)
    <3>1. PICK r \in req[c].add :
            \/ Goto(c, "failed") /\ UNCHANGED <<userRole, req>>
            \/ /\ userRole' = userRole \cup {<<req[c].user, r>>}
               /\ Set(c, [req[c] EXCEPT !.add = @ \ {r}])
               /\ UNCHANGED pc
      BY <2>10 DEF InsertUserRole
    <3>2. /\ [req[c] EXCEPT !.add = @ \ {r}] \in Request
          /\ <<req[c].user, r>> \in Rows
      BY <2>0 DEF Request, Rows
    <3>3. /\ pc' \in [Clients -> {"idle", "roles", "held", "write", "failed"}]
          /\ req' \in [Clients -> Request]
          /\ userRole' \subseteq Rows
      BY <3>1, <3>2
    <3> QED BY <2>10, <3>3 DEF InsertUserRole, Exists
  <2>11. CASE SaveDone(c)
    BY <2>11, <2>0 DEF SaveDone, Exists
  <2> QED BY <1>3, <2>1, <2>2, <2>3, <2>4, <2>5, <2>6, <2>7, <2>8, <2>9, <2>10,
             <2>11 DEF Step
<1> QED BY <1>1, <1>2, <1>3 DEF Next

-----------------------------------------------------------------------------

\* Roles are only added, each under a new id: the root's path stays empty.
LEMMA PathsGrow ==
  ASSUME RootInv, [Next]_vars
  PROVE  /\ Exists(path) \subseteq Exists(path')
         /\ path'[RootRole] = <<>> /\ RootRole < nextRole'
         /\ \A r \in Exists(path') : r < nextRole'
<1> USE DEF RootInv, TypeOK, roleVars
<1>1. CASE UNCHANGED <<path, nextRole>>
  BY <1>1
<1>2. ASSUME NEW c \in Clients, AddRole(c)
      PROVE  /\ Exists(path) \subseteq Exists(path')
             /\ path'[RootRole] = <<>> /\ RootRole < nextRole'
             /\ \A r \in Exists(path') : r < nextRole'
  <2>1. PICK p \in Exists(path) :
          path' = [path EXCEPT ![nextRole] = Append(path[p], p)]
    BY <1>2 DEF AddRole
  <2>2. nextRole' = nextRole + 1 /\ nextRole \in Nat /\ nextRole \notin Exists(path)
    BY <1>2, RoleAssumption DEF AddRole
  <2>3. \A r \in Exists(path') : r \in Exists(path) \/ r = nextRole
    BY <2>1 DEF Exists
  <2>4. \A r \in Exists(path) : r \in Nat
    BY DEF Exists, RoleIds
  <2>5. Exists(path) \subseteq Exists(path')
    BY <2>1, <2>2 DEF Exists
  <2>6. path'[RootRole] = <<>>
    BY <2>1 DEF RootRole
  <2>7. RootRole < nextRole'
    BY <2>2 DEF RootRole
  <2> QED BY <2>2, <2>3, <2>4, <2>5, <2>6, <2>7
<1> QED BY <1>1, <1>2
        DEF Next, vars, Crash, Step, Login, Logout, DeleteRole, UpdateRole,
            SaveRoles, ReadRoles, ReadHeldRoles, DeleteUserRole,
            InsertUserRole, SaveDone

\* What a save is about to write does not name the root: IsChild has refused
\* it for any roles its session may hold.
LEMMA RequestNext ==
  ASSUME RootInv, TypeOK', [Next]_vars, NEW d \in Clients
  PROVE  /\ session'[d] # NoSession => session'[d] \subseteq Exists(path')
         /\ req'[d].ops \subseteq Exists(path')
         /\ pc'[d] = "write" => RootRole \notin req'[d].del \cup req'[d].add
<1> USE DEF RootInv, TypeOK
<1>0. Exists(path) \subseteq Exists(path')
  BY PathsGrow
<1>1. CASE UNCHANGED <<session, pc, req>>
  BY <1>0, <1>1
<1>2. CASE Crash
  BY <1>2 DEF Crash, NoRequest
<1>3. ASSUME NEW c \in Clients, Step(c), ~UNCHANGED <<session, pc, req>>
      PROVE  /\ session'[d] # NoSession => session'[d] \subseteq Exists(path')
             /\ req'[d].ops \subseteq Exists(path')
             /\ pc'[d] = "write" => RootRole \notin req'[d].del \cup req'[d].add
  <2> USE DEF Goto, Set, Done
  <2>0. NoRequest.ops = {} /\ NoRequest.del = {} /\ NoRequest.add = {}
    BY DEF NoRequest
  <2>1. CASE \E u \in Users : Login(c, u)
    <3>1. PICK u \in Users : session' = [session EXCEPT ![c] = ActiveRolesOf(u)]
      BY <2>1 DEF Login
    <3>2. ActiveRolesOf(u) \subseteq Exists(path)
      BY RolesOfFacts
    <3> QED BY <2>1, <3>1, <3>2, <1>0 DEF Login
  <2>2. CASE Logout(c)
    BY <2>2, <1>0 DEF Logout
  <2>3. CASE SaveRoles(c)
    <3>1. PICK s \in Saves :
            req' = [req EXCEPT ![c] = [NoRequest EXCEPT !.user = s[1],
                                   !.asked = s[2], !.ops = session[c]]]
      BY <2>3 DEF SaveRoles
    <3>2. /\ [NoRequest EXCEPT !.user = s[1], !.asked = s[2],
                              !.ops = session[c]].ops = session[c]
      BY DEF NoRequest
    <3>3. req'[c].ops = session[c]
      BY <3>1, <3>2
    <3>4. session[c] \subseteq Exists(path)
      BY <2>3 DEF SaveRoles
    <3>5. d # c => req'[d] = req[d] /\ pc'[d] = pc[d]
      BY <2>3, <3>1 DEF SaveRoles
    <3>6. pc'[c] = "roles" /\ session' = session
      BY <2>3 DEF SaveRoles
    <3> QED BY <3>3, <3>4, <3>5, <3>6, <1>0
  <2>4. CASE ReadRoles(c)
    <3>1. req'[c].ops = req[c].ops
      BY <2>4 DEF ReadRoles, Request
    <3>2. d # c => req'[d] = req[d] /\ pc'[d] = pc[d]
      BY <2>4 DEF ReadRoles
    <3>3. pc'[c] = "held" /\ session' = session
      BY <2>4 DEF ReadRoles
    <3> QED BY <3>1, <3>2, <3>3, <1>0
  <2>5. CASE ReadHeldRoles(c)
    <3> DEFINE held == ActiveRolesOf(req[c].user)
               del == held \ req[c].now
               add == req[c].now \ held
               q == [req[c] EXCEPT !.del = del, !.add = add,
                                   !.off = RolesOf(req[c].user) \ active]
    <3>1. \/ Done(c)
          \/ /\ \A r \in del \cup add : IsChild(r, req[c].ops)
             /\ Goto(c, "write") /\ Set(c, q)
      BY <2>5 DEF ReadHeldRoles
    <3>2. q.ops = req[c].ops /\ q.del = del /\ q.add = add
      BY DEF Request
    <3>3. ~IsChild(RootRole, req[c].ops)
      BY RootIsNoChild
    <3> HIDE DEF q, del, add
    <3>4. d # c => req'[d] = req[d] /\ pc'[d] = pc[d]
      BY <3>1
    <3>5. \/ pc'[c] = "idle" /\ req'[c].ops = {}
          \/ /\ req'[c].ops = req[c].ops
             /\ RootRole \notin req'[c].del \cup req'[c].add
      BY <3>1, <3>2, <3>3, <2>0
    <3>6. session' = session
      BY <2>5 DEF ReadHeldRoles
    <3> QED BY <3>4, <3>5, <3>6, <1>0
  <2>6. CASE DeleteUserRole(c) \/ InsertUserRole(c)
    <3>1. \/ req' = req /\ pc'[c] = "failed"
          \/ \E r : req' = [req EXCEPT ![c] = [req[c] EXCEPT !.del = @ \ {r}]]
          \/ \E r : req' = [req EXCEPT ![c] = [req[c] EXCEPT !.add = @ \ {r}]]
      BY <2>6 DEF DeleteUserRole, InsertUserRole
    <3>2. /\ req'[c].ops = req[c].ops
          /\ req'[c].del \cup req'[c].add \subseteq req[c].del \cup req[c].add
      BY <3>1 DEF Request
    <3>3. /\ d # c => req'[d] = req[d] /\ pc'[d] = pc[d]
          /\ session' = session /\ pc[c] = "write"
      BY <2>6, <3>1 DEF DeleteUserRole, InsertUserRole
    <3> QED BY <3>2, <3>3, <1>0
  <2>7. CASE SaveDone(c)
    BY <2>7, <2>0, <1>0 DEF SaveDone
  <2> QED BY <1>3, <2>1, <2>2, <2>3, <2>4, <2>5, <2>6, <2>7
          DEF Step, AddRole, DeleteRole, UpdateRole
<1> QED BY <1>1, <1>2, <1>3 DEF Next, vars

\* Nothing that is written names the root.
LEMMA HoldersNext == RootInv /\ [Next]_vars => RootHoldersFixed'
<1> SUFFICES ASSUME RootInv, [Next]_vars, NEW u \in Users
             PROVE  <<u, RootRole>> \in userRole' <=> <<u, RootRole>> \in userRole
  BY DEF RootHoldersFixed, RootInv
<1> USE DEF RootInv, TypeOK
<1>1. CASE userRole' = userRole
  BY <1>1
<1>2. ASSUME NEW c \in Clients, DeleteUserRole(c)
      PROVE  <<u, RootRole>> \in userRole' <=> <<u, RootRole>> \in userRole
  BY <1>2 DEF DeleteUserRole
<1>3. ASSUME NEW c \in Clients, InsertUserRole(c)
      PROVE  <<u, RootRole>> \in userRole' <=> <<u, RootRole>> \in userRole
  BY <1>3 DEF InsertUserRole
<1> QED BY <1>1, <1>2, <1>3
        DEF Next, vars, Crash, Step, Login, Logout, AddRole, DeleteRole,
            UpdateRole, SaveRoles, ReadRoles, ReadHeldRoles, SaveDone

-----------------------------------------------------------------------------
(* Saves that no other save of their user overlaps.                        *)

\* A save is under way.
Saving(l) == l \in {"roles", "held", "write"}

\* A request leaves the others alone, and its save keeps what it was asked for
\* and whom it has met.
LEMMA StepShape ==
  ASSUME TypeOK, NEW c \in Clients, Step(c)
  PROVE  /\ \A d \in Clients \ {c} :
              /\ pc'[d] = pc[d] /\ req'[d] = req[d]
              /\ d \in met => d \in met'
         /\ \/ SaveRoles(c)
            \/ Saving(pc'[c]) =>
                 /\ Saving(pc[c])
                 /\ req'[c].user = req[c].user /\ req'[c].asked = req[c].asked
                 /\ c \in met => c \in met'
<1> USE DEF TypeOK, Goto, Set, Done, Saving
<1>1. CASE SaveRoles(c)
  BY <1>1 DEF SaveRoles
<1>2. CASE ReadRoles(c)
  BY <1>2 DEF ReadRoles, Request
<1>3. CASE ReadHeldRoles(c)
  <2> DEFINE held == ActiveRolesOf(req[c].user)
             q == [req[c] EXCEPT !.del = held \ req[c].now,
                                 !.add = req[c].now \ held,
                                 !.off = RolesOf(req[c].user) \ active]
  <2>1. q.user = req[c].user /\ q.asked = req[c].asked
    BY DEF Request
  <2>2. /\ pc[c] = "held"
        /\ \/ Done(c)
           \/ Goto(c, "write") /\ Set(c, q) /\ UNCHANGED met
    BY <1>3 DEF ReadHeldRoles
  <2> HIDE DEF q
  <2> QED BY <2>1, <2>2
<1>4. CASE DeleteUserRole(c)
  BY <1>4 DEF DeleteUserRole, Request
<1>5. CASE InsertUserRole(c)
  BY <1>5 DEF InsertUserRole, Request
<1>6. CASE SaveDone(c)
  BY <1>6 DEF SaveDone
<1>7. CASE UNCHANGED <<pc, req, met>>
  BY <1>7
<1> QED BY <1>1, <1>2, <1>3, <1>4, <1>5, <1>6, <1>7
        DEF Step, Login, Logout, AddRole, DeleteRole, UpdateRole

LEMMA MeetNext == TypeOK /\ MeetInv /\ [Next]_vars => MeetInv'
<1> SUFFICES ASSUME TypeOK, MeetInv, [Next]_vars,
                    NEW u \in Users, NEW d \in Clients, NEW e \in Clients,
                    d # e, SavingUser(d, u)', SavingUser(e, u)'
             PROVE  d \in met'
  BY DEF MeetInv
<1>1. CASE UNCHANGED vars
  BY <1>1 DEF vars, MeetInv, SavingUser
<1>2. CASE Crash
  BY <1>2 DEF Crash, SavingUser
<1>3. ASSUME NEW c \in Clients, Step(c) PROVE d \in met'
  <2>1. CASE SaveRoles(c)
    <3>1. PICK s \in Saves :
            LET same == {b \in Clients : SavingUser(b, s[1])} IN
            /\ Set(c, [NoRequest EXCEPT !.user = s[1], !.asked = s[2],
                                        !.ops = session[c]])
            /\ met' = IF same = {} THEN met ELSE met \cup same \cup {c}
      BY <2>1 DEF SaveRoles
    <3>2. /\ pc' = [pc EXCEPT ![c] = "roles"]
          /\ req' = [req EXCEPT ![c] = [NoRequest EXCEPT !.user = s[1],
                                   !.asked = s[2], !.ops = session[c]]]
          /\ pc[c] = "idle"
      BY <2>1, <3>1 DEF SaveRoles, Goto, Set
    <3>3. [NoRequest EXCEPT !.user = s[1], !.asked = s[2],
                            !.ops = session[c]].user = s[1]
      BY DEF NoRequest
    <3>4. req'[c].user = s[1]
      BY <3>2, <3>3 DEF TypeOK
    <3>5. \A b \in Clients \ {c} : SavingUser(b, u)' => SavingUser(b, u)
      BY <3>2 DEF SavingUser
    <3>6. CASE c = d \/ c = e
      <4>1. u = s[1]
        BY <3>4, <3>6 DEF SavingUser
      <4>2. PICK b \in {d, e} : SavingUser(b, u) /\ b # c
        BY <3>5, <3>6
      <4>3. d \in {b1 \in Clients : SavingUser(b1, s[1])} \/ d = c
        BY <4>1, <4>2, <3>5
      <4>4. b \in {b1 \in Clients : SavingUser(b1, s[1])}
        BY <4>1, <4>2
      <4> QED BY <3>1, <4>3, <4>4
    <3>7. CASE c # d /\ c # e
      BY <3>7, <3>1, <3>5 DEF MeetInv
    <3> QED BY <3>6, <3>7
  <2>2. CASE ~SaveRoles(c)
    <3>1. \A b \in {d, e} : SavingUser(b, u) /\ (b \in met => b \in met')
      BY <1>3, <2>2, StepShape DEF SavingUser, Saving
    <3> QED BY <3>1 DEF MeetInv
  <2> QED BY <2>1, <2>2
<1> QED BY <1>1, <1>2, <1>3 DEF Next

LEMMA AskedNext == RootInv /\ AskedInv /\ [Next]_vars => AskedInv'
<1> SUFFICES ASSUME RootInv, AskedInv, [Next]_vars, NEW d \in Clients
             PROVE  /\ pc'[d] = "roles" => req'[d].asked \subseteq Exists(path')
                    /\ pc'[d] \in {"held", "write"} => req'[d].now = req'[d].asked
  BY DEF AskedInv, Exists
<1>0. TypeOK /\ Exists(path) \subseteq Exists(path')
  BY PathsGrow DEF RootInv
<1>1. CASE pc'[d] = pc[d] /\ req'[d] = req[d]
  BY <1>0, <1>1 DEF AskedInv
<1>2. CASE Crash
  BY <1>2 DEF Crash
<1>3. ASSUME NEW c \in Clients, Step(c), ~(pc'[d] = pc[d] /\ req'[d] = req[d])
      PROVE  /\ pc'[d] = "roles" => req'[d].asked \subseteq Exists(path')
             /\ pc'[d] \in {"held", "write"} => req'[d].now = req'[d].asked
  <2> USE DEF TypeOK, Goto, Set, Done
  <2>0. c = d
    BY <1>0, <1>3, StepShape
  <2>1. CASE SaveRoles(d)
    <3>1. PICK s \in Saves :
            /\ s[2] \subseteq Exists(path)
            /\ req' = [req EXCEPT ![d] = [NoRequest EXCEPT !.user = s[1],
                                   !.asked = s[2], !.ops = session[d]]]
      BY <2>1 DEF SaveRoles
    <3>2. [NoRequest EXCEPT !.user = s[1], !.asked = s[2],
                            !.ops = session[d]].asked = s[2]
      BY DEF NoRequest
    <3>3. req'[d].asked = s[2] /\ pc'[d] = "roles"
      BY <1>0, <2>1, <3>1, <3>2 DEF SaveRoles
    <3> QED BY <3>1, <3>3, <1>0
  <2>2. CASE ReadRoles(d)
    <3>1. req[d].asked \subseteq Exists(path)
      BY <2>2 DEF ReadRoles, AskedInv
    <3>2. /\ req'[d].now = req[d].asked \cap Exists(path)
          /\ req'[d].asked = req[d].asked
          /\ pc'[d] = "held"
      BY <1>0, <2>2 DEF ReadRoles, Request
    <3> QED BY <3>1, <3>2
  <2>3. CASE ReadHeldRoles(d)
    <3> DEFINE held == ActiveRolesOf(req[d].user)
               q == [req[d] EXCEPT !.del = held \ req[d].now,
                                   !.add = req[d].now \ held,
                                   !.off = RolesOf(req[d].user) \ active]
    <3>1. q.now = req[d].now /\ q.asked = req[d].asked
      BY <1>0 DEF Request
    <3>2. /\ pc[d] = "held"
          /\ (Done(d) \/ (Goto(d, "write") /\ Set(d, q)))
      BY <2>3 DEF ReadHeldRoles
    <3> HIDE DEF q
    <3> QED BY <3>1, <3>2, <1>0 DEF AskedInv
  <2>4. CASE DeleteUserRole(d)
    BY <1>0, <2>4 DEF DeleteUserRole, Request, AskedInv
  <2>5. CASE InsertUserRole(d)
    BY <1>0, <2>5 DEF InsertUserRole, Request, AskedInv
  <2>6. CASE SaveDone(d)
    BY <1>0, <2>6 DEF SaveDone
  <2> QED BY <1>3, <2>0, <2>1, <2>2, <2>3, <2>4, <2>5, <2>6
          DEF Step, Login, Logout, AddRole, DeleteRole, UpdateRole
<1> QED BY <1>1, <1>2, <1>3 DEF Next, vars

\* The rows of a user change by the saves of that user alone.
LEMMA OtherRows ==
  ASSUME TypeOK, MeetInv, NEW c \in Clients, Step(c),
         NEW d \in Clients, d # c, pc[d] = "write", d \notin met
  PROVE  RolesOf(req[d].user)' = RolesOf(req[d].user)
<1> USE DEF TypeOK
<1>1. req'[d] = req[d]
  BY StepShape
<1>2. CASE userRole' = userRole
  BY <1>1, <1>2 DEF RolesOf
<1>3. CASE DeleteUserRole(c) \/ InsertUserRole(c)
  <2>1. pc[c] = "write"
    BY <1>3 DEF DeleteUserRole, InsertUserRole
  <2>2. req[c].user # req[d].user
    <3>1. req[d].user \in Users
      BY DEF Request
    <3> QED BY <2>1, <3>1 DEF MeetInv, SavingUser
  <2>3. \A r \in RoleIds : <<req[d].user, r>> \in userRole' <=> <<req[d].user, r>> \in userRole
    <3>1. CASE DeleteUserRole(c)
      BY <3>1, <2>2 DEF DeleteUserRole
    <3>2. CASE InsertUserRole(c)
      BY <3>2, <2>2 DEF InsertUserRole
    <3> QED BY <1>3, <3>1, <3>2
  <2> QED BY <1>1, <2>3 DEF RolesOf
<1> QED BY <1>2, <1>3 DEF Step, Login, Logout, AddRole, DeleteRole, UpdateRole,
           SaveRoles, ReadRoles, ReadHeldRoles, SaveDone

\* The differences are taken at once, and a row written leaves its half.
LEMMA PlanNext == TypeOK /\ MeetInv /\ PlanInv /\ [Next]_vars => PlanInv'
<1> DEFINE Plan(q, held) ==
             /\ q.add \subseteq q.now /\ q.del \cap q.now = {}
             /\ q.now \ q.add \subseteq held
             /\ held \ (q.now \cup q.del) \subseteq q.off
             /\ held \cap q.add \subseteq q.off
<1> SUFFICES ASSUME TypeOK, MeetInv, PlanInv, [Next]_vars,
                    NEW d \in Clients, pc'[d] = "write", d \notin met'
             PROVE  Plan(req[d], RolesOf(req[d].user))'
  BY DEF PlanInv
<1>a. pc[d] = "write" /\ d \notin met => Plan(req[d], RolesOf(req[d].user))
  BY DEF PlanInv
<1>1. CASE UNCHANGED vars
  <2>1. pc[d] = "write" /\ d \notin met /\ req'[d] = req[d]
        /\ RolesOf(req[d].user)' = RolesOf(req[d].user)
    BY <1>1 DEF vars, RolesOf
  <2> QED BY <2>1, <1>a
<1>2. CASE Crash
  BY <1>2 DEF Crash
<1>3. ASSUME NEW c \in Clients, Step(c), c # d
      PROVE  Plan(req[d], RolesOf(req[d].user))'
  <2>1. pc[d] = "write" /\ d \notin met /\ req'[d] = req[d]
    BY <1>3, StepShape
  <2>2. RolesOf(req[d].user)' = RolesOf(req[d].user)
    BY <1>3, <2>1, OtherRows
  <2> QED BY <2>1, <2>2, <1>a
<1>4. CASE Step(d)
  <2> USE DEF TypeOK, Goto, Set, Done
  <2> DEFINE R == RolesOf(req[d].user)
  <2>0. req[d] \in Request /\ R \subseteq RoleIds
    BY DEF RolesOf
  <2>1. CASE ReadHeldRoles(d)
    <3> DEFINE held == ActiveRolesOf(req[d].user)
               q == [req[d] EXCEPT !.del = held \ req[d].now,
                                   !.add = req[d].now \ held,
                                   !.off = R \ active]
    <3>1. q.user = req[d].user /\ q.now = req[d].now /\ q.off = R \ active
          /\ q.del = held \ req[d].now /\ q.add = req[d].now \ held
      BY <2>0 DEF Request
    <3>2. held = R \cap active
      BY DEF ActiveRolesOf
    <3>3. /\ Done(d) \/ (Goto(d, "write") /\ Set(d, q))
          /\ UNCHANGED userRole
      BY <2>1 DEF ReadHeldRoles
    <3> HIDE DEF q, held
    <3>4. req'[d] = q /\ userRole' = userRole
      BY <2>1, <3>3 DEF ReadHeldRoles
    <3>5. RolesOf(req[d].user)' = R
      BY <3>1, <3>4 DEF RolesOf
    <3>6. Plan(q, R)
      BY <3>1, <3>2
    <3> QED BY <3>4, <3>5, <3>6
  <2>2. CASE DeleteUserRole(d)
    <3>1. PICK r \in req[d].del :
            /\ userRole' = userRole \ {<<req[d].user, r>>}
            /\ req' = [req EXCEPT ![d] = [req[d] EXCEPT !.del = @ \ {r}]]
      BY <2>2 DEF DeleteUserRole
    <3>2. /\ req'[d].user = req[d].user /\ req'[d].now = req[d].now
          /\ req'[d].add = req[d].add /\ req'[d].off = req[d].off
          /\ req'[d].del = req[d].del \ {r}
      BY <3>1, <2>0 DEF Request
    <3>3. RolesOf(req[d].user)' = R \ {r}
      BY <3>1, <3>2 DEF RolesOf
    <3>4. Plan(req[d], R)
      BY <2>2, <1>a DEF DeleteUserRole
    <3> QED BY <3>1, <3>2, <3>3, <3>4
  <2>3. CASE InsertUserRole(d)
    <3>1. PICK r \in req[d].add :
            \/ Goto(d, "failed")
            \/ /\ userRole' = userRole \cup {<<req[d].user, r>>}
               /\ req' = [req EXCEPT ![d] = [req[d] EXCEPT !.add = @ \ {r}]]
      BY <2>3 DEF InsertUserRole
    <3>2. /\ userRole' = userRole \cup {<<req[d].user, r>>}
          /\ req' = [req EXCEPT ![d] = [req[d] EXCEPT !.add = @ \ {r}]]
      BY <3>1
    <3>3. /\ req'[d].user = req[d].user /\ req'[d].now = req[d].now
          /\ req'[d].del = req[d].del /\ req'[d].off = req[d].off
          /\ req'[d].add = req[d].add \ {r} /\ r \in RoleIds
      BY <3>2, <2>0 DEF Request
    <3>4. RolesOf(req[d].user)' = R \cup {r}
      BY <3>2, <3>3 DEF RolesOf
    <3>5. Plan(req[d], R)
      BY <2>3, <1>a DEF InsertUserRole
    <3> QED BY <3>1, <3>3, <3>4, <3>5
  <2>4. CASE UNCHANGED <<pc, req, met, userRole>>
    <3>1. pc[d] = "write" /\ d \notin met /\ req'[d] = req[d]
          /\ RolesOf(req[d].user)' = RolesOf(req[d].user)
      BY <2>4 DEF RolesOf
    <3> QED BY <3>1, <1>a
  <2> QED BY <1>4, <2>1, <2>2, <2>3, <2>4
          DEF Step, Login, Logout, AddRole, DeleteRole, UpdateRole, SaveRoles,
              ReadRoles, SaveDone
<1> QED BY <1>1, <1>2, <1>3, <1>4 DEF Next

\* The unique key refuses only a row that was there before the save read it.
LEMMA FailsNext ==
  TypeOK /\ PlanInv /\ FailsOnlyFor /\ [Next]_vars => FailsOnlyFor'
<1> SUFFICES ASSUME TypeOK, PlanInv, FailsOnlyFor, [Next]_vars,
                    NEW d \in Clients, pc'[d] = "failed"
             PROVE  d \in met' \/ req'[d].add \cap req'[d].off # {}
  BY DEF FailsOnlyFor
<1>1. CASE UNCHANGED vars
  BY <1>1 DEF vars, FailsOnlyFor
<1>2. CASE Crash
  BY <1>2 DEF Crash
<1>3. ASSUME NEW c \in Clients, Step(c), c # d
      PROVE  d \in met' \/ req'[d].add \cap req'[d].off # {}
  BY <1>3, StepShape DEF FailsOnlyFor
<1>4. CASE Step(d)
  <2> USE DEF TypeOK, Goto, Set, Done
  <2>1. CASE InsertUserRole(d)
    <3>1. PICK r \in req[d].add :
            \/ /\ <<req[d].user, r>> \in userRole
               /\ UNCHANGED req
            \/ pc' = pc
      BY <2>1 DEF InsertUserRole
    <3>2. /\ <<req[d].user, r>> \in userRole /\ UNCHANGED <<req, met>>
          /\ pc[d] = "write"
      BY <2>1, <3>1 DEF InsertUserRole
    <3>3. r \in RolesOf(req[d].user)
      BY <3>2 DEF RolesOf, Request
    <3> QED BY <3>2, <3>3 DEF PlanInv
  <2> QED BY <1>4, <2>1
          DEF Step, Login, Logout, AddRole, DeleteRole, UpdateRole, SaveRoles,
              ReadRoles, ReadHeldRoles, DeleteUserRole, SaveDone, FailsOnlyFor
<1> QED BY <1>1, <1>2, <1>3, <1>4 DEF Next

-----------------------------------------------------------------------------

\* Every behaviour keeps the inductive invariant.
THEOREM RootInvariant == Spec => []RootInv
<1>1. RootInv /\ [Next]_vars => RootInv'
  <2> SUFFICES ASSUME RootInv, [Next]_vars PROVE RootInv'
    OBVIOUS
  <2>1. TypeOK'
    BY TypeNext DEF RootInv
  <2> QED BY <2>1, PathsGrow, RequestNext, HoldersNext DEF RootInv
<1> QED BY <1>1, InitRootInv, PTL DEF Spec

\* UserRoleServiceImpl.saveRoles: no one is given the root role and no one
\* loses it, whatever the sessions remember.
THEOREM RootHoldersStay == Spec => []RootHoldersFixed
<1>1. RootInv => RootHoldersFixed
  BY DEF RootInv
<1> QED BY <1>1, RootInvariant, PTL

\* Every variable keeps its type.
THEOREM TypeCorrect == Spec => []TypeOK
<1>1. RootInv => TypeOK
  BY DEF RootInv
<1> QED BY <1>1, RootInvariant, PTL

\* Every behaviour keeps what overlapping saves know of each other.
THEOREM ExactInvariant == Spec => []ExactInv
<1>1. Init => ExactInv
  BY DEF Init, ExactInv, MeetInv, SavingUser, AskedInv, PlanInv, FailsOnlyFor
<1>2. RootInv /\ ExactInv /\ [Next]_vars => ExactInv'
  BY MeetNext, AskedNext, PlanNext, FailsNext DEF ExactInv, RootInv
<1> QED BY <1>1, <1>2, RootInvariant, PTL DEF Spec

\* UserRoleServiceImpl.saveRoles: for any number of requests a save that no
\* other save of its user overlaps ends with the roles asked for, and besides
\* only inactive ones it cannot see.
THEOREM SavesAreExact == Spec => []SaveIsExact
<1>1. ExactInv => SaveIsExact
  BY DEF ExactInv, AskedInv, PlanInv, SaveIsExact
<1> QED BY <1>1, ExactInvariant, PTL

\* saveRoles stops halfway only for an overlapping save of the user or an
\* inactive role the user holds unseen.
THEOREM FailuresHaveReasons == Spec => []FailsOnlyFor
<1>1. ExactInv => FailsOnlyFor
  BY DEF ExactInv
<1> QED BY <1>1, ExactInvariant, PTL
=============================================================================
