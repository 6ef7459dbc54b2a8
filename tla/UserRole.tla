------------------------------- MODULE UserRole -------------------------------
(***************************************************************************)
(* Users and the roles they hold: the tables role and user_role under      *)
(* UserController.save (saveRoles), RoleController.add, del and update,    *)
(* and the sessions of LoginController, which remember the roles an        *)
(* operator held at login.  saveRoles is two reads, a check, and then one  *)
(* statement per row, without a transaction: requests interleave between   *)
(* them, and a crash falls there.                                          *)
(*                                                                         *)
(* A role is its id, its parentIdPath as the sequence of the ids in it and *)
(* whether its state is 1.  A user is an id; a user without roles may be   *)
(* one not created yet.  Passwords, user states (login does not look at    *)
(* them, see the README) and the URLs an operator may call are left out:   *)
(* any session may send any request.                                       *)
(*                                                                         *)
(* A definition commented "Mistake" is no part of the model: see           *)
(* DisruptorEvent.                                                         *)
(***************************************************************************)
EXTENDS Naturals, Sequences, FiniteSets, SequencesExt

CONSTANTS
  Clients,    \* operators' sessions, each with one request at a time
  Users,
  MaxRole,    \* bound: role ids ever used
  SeedRole,   \* the roles the database is installed with
  FirstRole,  \* and the AUTO_INCREMENT of role
  SeedRows,   \* and the rows of user_role
  Parents,    \* the parents that requests to add a role name
  Changed,    \* the roles that requests to delete or update one name
  Saves,      \* the users and role ids that requests to save name
  NoRole,     \* no row of role with this id
  NoSession   \* not logged in

RoleIds  == 1..MaxRole
RootRole == 1
Rows     == Users \X RoleIds

Exists(path) == {r \in RoleIds : path[r] # NoRole}

ASSUME RoleAssumption ==
  /\ MaxRole \in Nat \ {0} /\ FirstRole \in 1..(MaxRole + 1)
  /\ SeedRole \in [RoleIds -> Seq(RoleIds) \cup {NoRole}]
  /\ SeedRole[RootRole] = <<>> /\ NoRole \notin Seq(RoleIds)
  /\ Exists(SeedRole) \subseteq 1..(FirstRole - 1)
ASSUME RowAssumption ==
  /\ SeedRows \subseteq Users \X Exists(SeedRole)
  /\ Saves \subseteq Users \X SUBSET RoleIds
  /\ Parents \subseteq RoleIds /\ Changed \subseteq RoleIds
ASSUME UserAssumption == Users # {}

VARIABLES
  path,      \* table role: parentIdPath by id
  active,    \* and the roles whose state is 1
  nextRole,  \* and its AUTO_INCREMENT
  userRole,  \* table user_role: pairs of a user and a role
  session,   \* client: LoginUser.roles, cached at login
  pc,        \* client: next statement of its request
  req,       \* client: its request and what it has read
  met        \* history: clients whose save has overlapped with another of the
             \* same user

vars == <<path, active, nextRole, userRole, session, pc, req, met>>
roleVars == <<path, active, nextRole>>

Request ==
  [user : Users,
   asked : SUBSET RoleIds,   \* the role ids in the request
   ops : SUBSET RoleIds,     \* currentUserRoles
   now : SUBSET RoleIds,     \* nowRoleIds
   del : SUBSET RoleIds,     \* delSet
   add : SUBSET RoleIds,     \* newSet
   off : SUBSET RoleIds]     \* history: the user's inactive roles when it read them

NoRequest == [user |-> CHOOSE u \in Users : TRUE, asked |-> {}, ops |-> {},
              now |-> {}, del |-> {}, add |-> {}, off |-> {}]

TypeOK ==
  /\ path \in [RoleIds -> Seq(RoleIds) \cup {NoRole}]
  /\ active \subseteq Exists(path)
  /\ nextRole \in 1..(MaxRole + 1)
  /\ userRole \subseteq Rows
  /\ session \in [Clients -> (SUBSET RoleIds) \cup {NoSession}]
  /\ pc \in [Clients -> {"idle", "roles", "held", "write", "failed"}]
  /\ req \in [Clients -> Request]
  /\ met \subseteq Clients

Init ==
  /\ path = SeedRole
  /\ active = Exists(SeedRole)
  /\ nextRole = FirstRole
  /\ userRole = SeedRows
  /\ session = [c \in Clients |-> NoSession]
  /\ pc = [c \in Clients |-> "idle"]
  /\ req = [c \in Clients |-> NoRequest]
  /\ met = {}

RolesOf(u) == {r \in RoleIds : <<u, r>> \in userRole}

\* getRoleListByUserId: the inner join with role where state = 1.
ActiveRolesOf(u) == RolesOf(u) \cap active

Goto(c, l) == pc' = [pc EXCEPT ![c] = l]
Set(c, r)  == req' = [req EXCEPT ![c] = r]
Done(c)    == Goto(c, "idle") /\ Set(c, NoRequest) /\ met' = met \ {c}

-----------------------------------------------------------------------------
(* LoginController.                                                        *)

\* The roles of the session are those of this moment, until it ends.
Login(c, u) ==
  /\ pc[c] = "idle"
  /\ session' = [session EXCEPT ![c] = ActiveRolesOf(u)]
  /\ UNCHANGED <<roleVars, userRole, pc, req, met>>

Logout(c) ==
  /\ pc[c] = "idle" /\ session[c] # NoSession
  /\ session' = [session EXCEPT ![c] = NoSession]
  /\ UNCHANGED <<roleVars, userRole, pc, req, met>>

-----------------------------------------------------------------------------
(* RoleController.add, del and update.                                     *)

\* The path ends with the parent.  A role's path never changes, so it does not
\* matter that insert() takes the parent's from a cache.
AddRole(c) ==
  /\ pc[c] = "idle" /\ session[c] # NoSession
  /\ nextRole <= MaxRole
  /\ \E p \in Exists(path) \cap Parents :
       path' = [path EXCEPT ![nextRole] = Append(path[p], p)]
  /\ active' = active \cup {nextRole}
  /\ nextRole' = nextRole + 1
  /\ UNCHANGED <<userRole, session, pc, req, met>>

\* A role is deleted by making it inactive; its rows in user_role stay.
DeleteRole(c) ==
  /\ pc[c] = "idle" /\ session[c] # NoSession
  /\ \E r \in active \cap Changed : active' = active \ {r}
  /\ UNCHANGED <<path, nextRole, userRole, session, pc, req, met>>

\* An update with state 1 brings it back.
UpdateRole(c) ==
  /\ pc[c] = "idle" /\ session[c] # NoSession
  /\ \E r \in (Exists(path) \cap Changed) \ active : active' = active \cup {r}
  /\ UNCHANGED <<path, nextRole, userRole, session, pc, req, met>>

-----------------------------------------------------------------------------
(* UserController.save and UserRoleServiceImpl.saveRoles.                  *)

SavingUser(c, u) == pc[c] \in {"roles", "held", "write"} /\ req[c].user = u

\* A request names roles from the tree that the page shows, which exist; the
\* saves of that user that are under way and this one meet.
SaveRoles(c) ==
  /\ pc[c] = "idle" /\ session[c] # NoSession
  /\ \E s \in Saves :
       LET same == {d \in Clients : SavingUser(d, s[1])} IN
       /\ s[2] \subseteq Exists(path)
       /\ Set(c, [NoRequest EXCEPT !.user = s[1], !.asked = s[2],
                                   !.ops = session[c]])
       /\ met' = IF same = {} THEN met ELSE met \cup same \cup {c}
  /\ Goto(c, "roles")
  /\ UNCHANGED <<roleVars, userRole, session>>

\* Mistake: the ids of the request are taken as they are, 0 for an empty list.
TakeRoles(c) ==
  /\ pc[c] = "roles"
  /\ Goto(c, "held")
  /\ Set(c, [req[c] EXCEPT !.now = IF req[c].asked = {} THEN {0}
                                   ELSE req[c].asked])
  /\ UNCHANGED <<roleVars, userRole, session, met>>

\* Mistake: an empty list is passed on, which selects every role.
ReadRolesOfAny(c) ==
  /\ pc[c] = "roles"
  /\ Goto(c, "held")
  /\ Set(c, [req[c] EXCEPT !.now = IF req[c].asked = {} THEN Exists(path)
                                   ELSE req[c].asked \cap Exists(path)])
  /\ UNCHANGED <<roleVars, userRole, session, met>>

\* getRoles, whatever their state.  Without ids it would select every role: an
\* empty list asks for role 0 instead, which does not exist.
ReadRoles(c) ==
  /\ pc[c] = "roles"
  /\ Goto(c, "held")
  /\ Set(c, [req[c] EXCEPT !.now = req[c].asked \cap Exists(path)])
  /\ UNCHANGED <<roleVars, userRole, session, met>>

\* Mistake: the role's own id is left out of the path looked for.
BelowParent(r, ops) == \E o \in ops : IsPrefix(path[o], path[r])

\* isCurrentUserRolesOfChild.  A path starts at the root, so the text
\* "$1$2$" of role 2 can only be found at the start of another path.
IsChild(r, ops) == \E o \in ops : IsPrefix(Append(path[o], o), path[r])

\* Mistake: every role asked for is inserted, the difference is not taken.
ReadHeldForgotten(c) ==
  /\ pc[c] = "held"
  /\ LET del == ActiveRolesOf(req[c].user) \ req[c].now
         add == req[c].now
     IN IF \A r \in del \cup add : IsChild(r, req[c].ops)
        THEN /\ Goto(c, "write")
             /\ Set(c, [req[c] EXCEPT !.del = del, !.add = add,
                                      !.off = RolesOf(req[c].user) \ active])
             /\ UNCHANGED met
        ELSE Done(c)
  /\ UNCHANGED <<roleVars, userRole, session>>

\* The user's active roles give the differences; the request is refused if one
\* role taken or given is not below a role of the operator.
ReadHeldRoles(c) ==
  /\ pc[c] = "held"
  /\ LET held == ActiveRolesOf(req[c].user)
         del  == held \ req[c].now
         add  == req[c].now \ held
     IN IF \A r \in del \cup add : IsChild(r, req[c].ops)
        THEN /\ Goto(c, "write")
             /\ Set(c, [req[c] EXCEPT !.del = del, !.add = add,
                                      !.off = RolesOf(req[c].user) \ active])
             /\ UNCHANGED met
        ELSE Done(c)
  /\ UNCHANGED <<roleVars, userRole, session>>

DeleteUserRole(c) ==
  /\ pc[c] = "write"
  /\ \E r \in req[c].del :
       /\ userRole' = userRole \ {<<req[c].user, r>>}
       /\ Set(c, [req[c] EXCEPT !.del = @ \ {r}])
  /\ UNCHANGED <<roleVars, session, pc, met>>

\* The unique key refuses a row that is there already: the request fails with
\* its deletions, and some of its insertions, done.
InsertUserRole(c) ==
  /\ pc[c] = "write" /\ req[c].del = {}
  /\ \E r \in req[c].add :
       LET row == <<req[c].user, r>> IN
       IF row \in userRole
       THEN Goto(c, "failed") /\ UNCHANGED <<userRole, req>>
       ELSE /\ userRole' = userRole \cup {row}
            /\ Set(c, [req[c] EXCEPT !.add = @ \ {r}])
            /\ UNCHANGED pc
  /\ UNCHANGED <<roleVars, session, met>>

SaveDone(c) ==
  /\ \/ pc[c] = "write" /\ req[c].del = {} /\ req[c].add = {}
     \/ pc[c] = "failed"
  /\ Done(c)
  /\ UNCHANGED <<roleVars, userRole, session>>

-----------------------------------------------------------------------------

\* A restart ends requests and sessions; what they have written stays.
Crash ==
  /\ session' = [c \in Clients |-> NoSession]
  /\ pc' = [c \in Clients |-> "idle"]
  /\ req' = [c \in Clients |-> NoRequest]
  /\ met' = {}
  /\ UNCHANGED <<roleVars, userRole>>

Step(c) ==
  \/ \E u \in Users : Login(c, u)
  \/ Logout(c)
  \/ AddRole(c) \/ DeleteRole(c) \/ UpdateRole(c)
  \/ SaveRoles(c) \/ ReadRoles(c) \/ ReadHeldRoles(c)
  \/ DeleteUserRole(c) \/ InsertUserRole(c) \/ SaveDone(c)

Next == (\E c \in Clients : Step(c)) \/ Crash

Spec == Init /\ [][Next]_vars

-----------------------------------------------------------------------------
(* Properties.                                                             *)

\* saveRoles: no sequence of requests gives the root role to a user or takes
\* it from one, however the roles of operators change under their sessions.
RootHoldersFixed ==
  {u \in Users : <<u, RootRole>> \in userRole}
    = {u \in Users : <<u, RootRole>> \in SeedRows}

\* saveRoles: a save ends with the user holding the roles asked for, and
\* besides only roles that were not active, which it cannot see.  Another
\* save of that user must not have overlapped.
SaveIsExact ==
  \A c \in Clients :
    pc[c] = "write" /\ req[c].del = {} /\ req[c].add = {} /\ c \notin met
      => /\ req[c].asked \subseteq RolesOf(req[c].user)
         /\ RolesOf(req[c].user) \ req[c].asked \subseteq req[c].off

\* saveRoles stops halfway on the unique key only if another save of that
\* user overlapped, or the user already held, unseen, an inactive role it was
\* asked to give.
FailsOnlyFor ==
  \A c \in Clients :
    pc[c] = "failed" => c \in met \/ req[c].add \cap req[c].off # {}

-----------------------------------------------------------------------------
(* Why RootHoldersFixed holds: no path holds the root's own, which is empty,   *)
(* below it.  UserRoleProofs proves it.                                      *)

RootInv ==
  /\ TypeOK
  /\ path[RootRole] = <<>> /\ RootRole < nextRole
  /\ \A r \in Exists(path) : r < nextRole
  /\ \A c \in Clients :
       /\ session[c] # NoSession => session[c] \subseteq Exists(path)
       /\ req[c].ops \subseteq Exists(path)
       /\ pc[c] = "write" => RootRole \notin req[c].del \cup req[c].add
  /\ RootHoldersFixed

(* Why the other two hold: while no other save of its user has overlapped, *)
(* a save's own steps alone change the rows it has read.                   *)

\* Saves of one user that overlap know it.
MeetInv ==
  \A u \in Users : \A c, d \in Clients :
    c # d /\ SavingUser(c, u) /\ SavingUser(d, u) => c \in met

\* The roles asked for exist.
AskedInv ==
  \A c \in Clients :
    /\ pc[c] = "roles" => req[c].asked \subseteq Exists(path)
    /\ pc[c] \in {"held", "write"} => req[c].now = req[c].asked

\* What is still to be written, of what was asked for and what was found.
PlanInv ==
  \A c \in Clients : pc[c] = "write" /\ c \notin met =>
    LET held == RolesOf(req[c].user) IN
    /\ req[c].add \subseteq req[c].now /\ req[c].del \cap req[c].now = {}
    /\ req[c].now \ req[c].add \subseteq held
    /\ held \ (req[c].now \cup req[c].del) \subseteq req[c].off
    /\ held \cap req[c].add \subseteq req[c].off

ExactInv == MeetInv /\ AskedInv /\ PlanInv /\ FailsOnlyFor
=============================================================================
