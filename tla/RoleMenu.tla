------------------------------- MODULE RoleMenu -------------------------------
(***************************************************************************)
(* Menus and the roles that may use them: the tables menu and role_menu    *)
(* under the requests of RoleController.saveMenu, MenuController.add and   *)
(* MenuController.del.  Each request is a few SQL statements without a     *)
(* transaction (role_menu is a MyISAM table), so requests interleave       *)
(* between statements, and a crash leaves one half done.                   *)
(*                                                                         *)
(* A menu is its row's id, its parentId and whether its state is 1: a row  *)
(* with another state is there, but the joins with role_menu skip it.  A   *)
(* role is its id; its parentId never changes (updateByPrimaryKeySelective *)
(* leaves it out) and its row is never deleted, so the tree of roles is a  *)
(* constant, and a role not created yet is one without menus.  Which URLs  *)
(* an operator may call, and with what ids, is left open: any session may  *)
(* send any request.  Requests refused before their first statement change *)
(* nothing and are left out.                                               *)
(*                                                                         *)
(* A definition commented "Mistake" is no part of the model: see           *)
(* DisruptorEvent.                                                         *)
(***************************************************************************)
EXTENDS Naturals, FiniteSets

CONSTANTS
  Threads,      \* threads that handle requests
  Roles,
  RootRole,     \* role 1
  ParentRole,   \* role.parentId
  NoRole,       \* the parentId of the root, 0, which no role has
  MaxMenu,      \* bound: menu ids ever used
  SeedMenu,     \* the menus the database is installed with
  FirstMenu,    \* the AUTO_INCREMENT it is installed with
  SeedGrants,   \* and the rows of role_menu
  Saves,        \* what requests to save a role name: the role, the menus asked
                \* for, and the roles that the operator's session holds
  Parents,      \* the parents that requests to add a menu name
  Moves,        \* the menus and new parents that requests to move one name
  Deletions,    \* the ids that requests to delete a menu name
  NoMenu,       \* no row of menu with this id
  NoParent      \* the parentId of a top menu, -1

MenuIds == 1..MaxMenu
Grants  == Roles \X MenuIds

Present(menu) == {m \in MenuIds : menu[m] # NoMenu}

ASSUME RoleAssumption ==
  /\ RootRole \in Roles
  /\ ParentRole \in [Roles -> Roles \cup {NoRole}] /\ NoRole \notin Roles
  /\ \A r \in Roles : ParentRole[r] = NoRole <=> r = RootRole
ASSUME RequestAssumption ==
  /\ Saves \subseteq Roles \X ((SUBSET MenuIds) \ {{}}) \X SUBSET Roles
  /\ Parents \subseteq MenuIds
  /\ Moves \subseteq MenuIds \X (MenuIds \cup {NoParent})
  /\ Deletions \subseteq MenuIds \cup {NoParent}
ASSUME MenuAssumption ==
  /\ MaxMenu \in Nat
  /\ SeedMenu \in [MenuIds -> MenuIds \cup {NoMenu, NoParent}]
  /\ NoMenu \notin MenuIds /\ NoParent \notin MenuIds /\ NoMenu # NoParent
\* The root has every menu the database is installed with.
ASSUME SeedAssumption ==
  /\ SeedGrants \subseteq Grants
  /\ FirstMenu \in 1..(MaxMenu + 1)
  /\ \A m \in Present(SeedMenu) : m < FirstMenu
  /\ \A g \in SeedGrants : g[2] < FirstMenu
  /\ \A m \in Present(SeedMenu) : <<RootRole, m>> \in SeedGrants

VARIABLES
  menu,      \* table menu: parentId by id
  shown,     \* its rows with state 1
  nextMenu,  \* its AUTO_INCREMENT
  roleMenu,  \* table role_menu: pairs of a role and a menu id
  pc,        \* thread: next statement of its request
  req,       \* thread: its request and what it has read
  ever,      \* history: the rows role_menu has ever had
  doomed,    \* history: menus that outlive a deletion of their grants: the
             \* submenus a deletion has listed and not deleted yet, and menus
             \* whose id was given to a deletion before it was given out
  met        \* history: threads whose save has overlapped with another of its
             \* role, with a deletion or with a change of a menu's state

vars == <<menu, shown, nextMenu, roleMenu, pc, req, ever, doomed, met>>

Request ==
  [role : Roles,             \* the role to save, or the root
   now : SUBSET MenuIds,     \* nowMenu, the menus asked for
   ops : SUBSET Roles,       \* currentUser.getRoleIds(), cached at login
   parent : SUBSET MenuIds,  \* parentRoleMenus
   del : SUBSET MenuIds,     \* delSet, or the submenus a deletion has listed
   add : SUBSET MenuIds,     \* newSet
   menu : MenuIds \cup {NoParent}]  \* a menu to delete, or the parent or id of
                                    \* one to add

NoRequest == [role |-> RootRole, now |-> {}, ops |-> {}, parent |-> {},
              del |-> {}, add |-> {}, menu |-> NoParent]

SavePc   == {"parent", "own", "check", "write"}
DeletePc == {"children", "clear", "row", "self"}
AddPc    == {"insert", "grant"}

\* selectMenuListByRoleId: the inner join with menu, where m.state = 1, hides
\* the rows of menus that are gone or have another state.
MenusOf(r) == {m \in shown : <<r, m>> \in roleMenu}

\* selectMenuListByRoleIds; for no roles it asks for role 0, which has none.
MenusOfRoles(R) == UNION {MenusOf(r) : r \in R}

TypeOK ==
  /\ menu \in [MenuIds -> MenuIds \cup {NoMenu, NoParent}]
  /\ shown \subseteq MenuIds
  /\ nextMenu \in 1..(MaxMenu + 1)
  /\ roleMenu \subseteq Grants
  /\ pc \in [Threads -> {"idle"} \cup SavePc \cup DeletePc \cup AddPc]
  /\ req \in [Threads -> Request]
  /\ ever \subseteq Grants
  /\ doomed \subseteq MenuIds
  /\ met \subseteq Threads

Init ==
  /\ menu = SeedMenu
  /\ shown = Present(SeedMenu)
  /\ nextMenu = FirstMenu
  /\ roleMenu = SeedGrants
  /\ pc = [t \in Threads |-> "idle"]
  /\ req = [t \in Threads |-> NoRequest]
  /\ ever = SeedGrants
  /\ doomed = {}
  /\ met = {}

-----------------------------------------------------------------------------
(* RoleController.saveMenu and RoleMenuServiceImpl.saveMenus.              *)

Saving(t, r) == pc[t] \in SavePc /\ req[t].role = r
Deleting(t)  == pc[t] \in DeletePc

SavesUnderWay == {t \in Threads : pc[t] \in SavePc}

Goto(t, l) == pc' = [pc EXCEPT ![t] = l]
Set(t, r)  == req' = [req EXCEPT ![t] = r]
Done(t)    == Goto(t, "idle") /\ Set(t, NoRequest) /\ met' = met \ {t}

\* A request to save role s[1] arrives: it and the saves of that role that are
\* under way meet.
Begin(t, s) ==
  LET same == {u \in Threads : Saving(u, s[1])} IN
  /\ Goto(t, "parent")
  /\ Set(t, [NoRequest EXCEPT !.role = s[1], !.now = s[2], !.ops = s[3]])
  /\ met' = IF same = {} /\ \A u \in Threads : ~Deleting(u)
            THEN met ELSE met \cup same \cup {t}
  /\ UNCHANGED <<menu, shown, nextMenu, roleMenu, ever, doomed>>

\* Mistake: no check that the role is not the root.
SaveMenuOfAny(t) ==
  /\ pc[t] = "idle"
  /\ \E s \in Saves : Begin(t, s)

SaveMenu(t) ==
  /\ pc[t] = "idle"
  /\ \E s \in Saves : s[1] # RootRole /\ Begin(t, s)

ReadParentMenus(t) ==
  /\ pc[t] = "parent"
  /\ Goto(t, "own")
  /\ Set(t, [req[t] EXCEPT !.parent = MenusOf(ParentRole[req[t].role])])
  /\ UNCHANGED <<menu, shown, nextMenu, roleMenu, ever, doomed, met>>

\* Mistake: the operands of the second difference are swapped.
ReadRoleMenusSwapped(t) ==
  /\ pc[t] = "own"
  /\ Goto(t, "check")
  /\ LET roleSet == MenusOf(req[t].role) IN
     Set(t, [req[t] EXCEPT !.del = roleSet \ req[t].now,
                           !.add = roleSet \ req[t].now])
  /\ UNCHANGED <<menu, shown, nextMenu, roleMenu, ever, doomed, met>>

\* The role's own menus give the two differences.
ReadRoleMenus(t) ==
  /\ pc[t] = "own"
  /\ Goto(t, "check")
  /\ LET roleSet == MenusOf(req[t].role) IN
     Set(t, [req[t] EXCEPT !.del = roleSet \ req[t].now,
                           !.add = req[t].now \ roleSet])
  /\ UNCHANGED <<menu, shown, nextMenu, roleMenu, ever, doomed, met>>

\* Mistake: the parent role's menus are not looked at.
CheckAgainstOperator(t) ==
  /\ pc[t] = "check"
  /\ IF req[t].add \subseteq MenusOfRoles(req[t].ops)
     THEN /\ Goto(t, "write")
          /\ Set(t, [req[t] EXCEPT !.parent = {}])
          /\ UNCHANGED met
     ELSE Done(t)
  /\ UNCHANGED <<menu, shown, nextMenu, roleMenu, ever, doomed>>

\* Mistake: the operator's menus are not looked at.
CheckAgainstParent(t) ==
  /\ pc[t] = "check"
  /\ IF req[t].add \subseteq req[t].parent
     THEN /\ Goto(t, "write")
          /\ Set(t, [req[t] EXCEPT !.parent = {}])
          /\ UNCHANGED met
     ELSE Done(t)
  /\ UNCHANGED <<menu, shown, nextMenu, roleMenu, ever, doomed>>

\* The operator's menus are read last; then the new menus must be both the
\* parent's and the operator's, or the request is refused.
CheckNewMenus(t) ==
  /\ pc[t] = "check"
  /\ IF req[t].add \subseteq req[t].parent
        /\ req[t].add \subseteq MenusOfRoles(req[t].ops)
     THEN /\ Goto(t, "write")
          /\ Set(t, [req[t] EXCEPT !.parent = {}])
          /\ UNCHANGED met
     ELSE Done(t)
  /\ UNCHANGED <<menu, shown, nextMenu, roleMenu, ever, doomed>>

\* The deletions come first, one row at a time, in the order of a HashSet.
DeleteGrant(t) ==
  /\ pc[t] = "write"
  /\ \E m \in req[t].del :
       /\ roleMenu' = roleMenu \ {<<req[t].role, m>>}
       /\ Set(t, [req[t] EXCEPT !.del = @ \ {m}])
  /\ UNCHANGED <<menu, shown, nextMenu, pc, ever, doomed, met>>

\* The primary key refuses a row that is there already, which ends the
\* request with what it has done so far.
InsertGrant(t) ==
  /\ pc[t] = "write" /\ req[t].del = {}
  /\ \E m \in req[t].add :
       LET row == <<req[t].role, m>> IN
       IF row \in roleMenu
       THEN Done(t) /\ UNCHANGED <<roleMenu, ever>>
       ELSE /\ roleMenu' = roleMenu \cup {row}
            /\ ever' = ever \cup {row}
            /\ Set(t, [req[t] EXCEPT !.add = @ \ {m}])
            /\ UNCHANGED <<pc, met>>
  /\ UNCHANGED <<menu, shown, nextMenu, doomed>>

SaveDone(t) ==
  /\ pc[t] = "write" /\ req[t].del = {} /\ req[t].add = {}
  /\ Done(t)
  /\ UNCHANGED <<menu, shown, nextMenu, roleMenu, ever, doomed>>

-----------------------------------------------------------------------------
(* MenuController.add and MenuServiceImpl.save.                            *)

\* Reads the parent, which must be there (its path is used).
AddMenu(t) ==
  /\ pc[t] = "idle"
  /\ \E p \in Present(menu) \cap Parents : Set(t, [NoRequest EXCEPT !.menu = p])
  /\ Goto(t, "insert")
  /\ UNCHANGED <<menu, shown, nextMenu, roleMenu, ever, doomed, met>>

\* menu.parentId has no foreign key: the parent may be gone by now.  The
\* state is what the request says, 1 where it says nothing.  A deletion of
\* this id that has found no row is still to take the menu's grants.
Insert(t) ==
  /\ pc[t] = "insert" /\ nextMenu <= MaxMenu
  /\ menu' = [menu EXCEPT ![nextMenu] = req[t].menu]
  /\ \E on \in SUBSET {nextMenu} : shown' = shown \cup on
  /\ nextMenu' = nextMenu + 1
  /\ doomed' = doomed \cup {m \in {nextMenu} :
       \E u \in Threads : pc[u] = "self" /\ req[u].menu = m}
  /\ Goto(t, "grant")
  /\ UNCHANGED <<roleMenu, ever, met>>

\* Mistake: the id of the new row is not read back.
InsertMenuWithoutKey(t) ==
  /\ Insert(t)
  /\ Set(t, NoRequest)

InsertMenu(t) ==
  /\ Insert(t)
  /\ Set(t, [NoRequest EXCEPT !.menu = nextMenu])

\* The new menu is granted to role 1.
GrantToRoot(t) ==
  /\ pc[t] = "grant"
  /\ roleMenu' = roleMenu \cup {<<RootRole, req[t].menu>>}
  /\ ever' = ever \cup {<<RootRole, req[t].menu>>}
  /\ Done(t)
  /\ UNCHANGED <<menu, shown, nextMenu, doomed>>

\* A request to add that carries an id updates that row instead, its parentId
\* and its state with it, if it is there.  MenuController.update writes back
\* the row it has read, which may give the menu the parent and the state it
\* had before: a move as well.  A menu that is hidden or shown changes the
\* menus of any role that a save is at work on.
MoveMenu ==
  /\ \E move \in Moves : \E on \in SUBSET {move[1]} :
       /\ move[1] \in Present(menu)
       /\ menu' = [menu EXCEPT ![move[1]] = move[2]]
       /\ shown' = (shown \ {move[1]}) \cup on
  /\ met' = IF shown' = shown THEN met ELSE met \cup SavesUnderWay
  /\ UNCHANGED <<nextMenu, roleMenu, pc, req, ever, doomed>>

-----------------------------------------------------------------------------
(* MenuController.del and MenuServiceImpl.deleteById.                      *)

\* The id may be one that is not given out yet, or the parentId of the top
\* menus.  A deletion may change the menus of any role that a save is at work on.
DeleteMenu(t) ==
  /\ pc[t] = "idle"
  /\ \E m \in Deletions : Set(t, [NoRequest EXCEPT !.menu = m])
  /\ Goto(t, "children")
  /\ met' = met \cup SavesUnderWay
  /\ UNCHANGED <<menu, shown, nextMenu, roleMenu, ever, doomed>>

ListChildren(t) ==
  /\ pc[t] = "children"
  /\ LET sub == {c \in MenuIds : menu[c] = req[t].menu} IN
     /\ Set(t, [req[t] EXCEPT !.del = sub])
     /\ doomed' = doomed \cup sub
  /\ Goto(t, "clear")
  /\ UNCHANGED <<menu, shown, nextMenu, roleMenu, ever, met>>

\* deleteByMenuId.
WithoutMenu(m) == {g \in roleMenu : g[2] # m}

ClearChild(t) ==
  /\ pc[t] = "clear"
  /\ \E c \in req[t].del :
       /\ roleMenu' = WithoutMenu(c)
       /\ Set(t, [req[t] EXCEPT !.del = @ \ {c}])
  /\ UNCHANGED <<menu, shown, nextMenu, pc, ever, doomed, met>>

\* The menu and its submenus of this moment go; their own submenus stay.
DeleteRows(t) ==
  /\ pc[t] = "clear" /\ req[t].del = {}
  /\ menu' = [m \in MenuIds |-> IF m = req[t].menu \/ menu[m] = req[t].menu
                                THEN NoMenu ELSE menu[m]]
  /\ shown' = shown \cap Present(menu')
  /\ doomed' = doomed \cap Present(menu')
  /\ Goto(t, "self")
  /\ UNCHANGED <<nextMenu, roleMenu, req, ever, met>>

ClearSelf(t) ==
  /\ pc[t] = "self"
  /\ roleMenu' = WithoutMenu(req[t].menu)
  /\ Done(t)
  /\ UNCHANGED <<menu, shown, nextMenu, ever, doomed>>

-----------------------------------------------------------------------------

\* The application stops: what each request has written stays.
Crash ==
  /\ pc' = [t \in Threads |-> "idle"]
  /\ req' = [t \in Threads |-> NoRequest]
  /\ met' = {}
  /\ UNCHANGED <<menu, shown, nextMenu, roleMenu, ever, doomed>>

Step(t) ==
  \/ SaveMenu(t) \/ ReadParentMenus(t) \/ ReadRoleMenus(t) \/ CheckNewMenus(t)
  \/ DeleteGrant(t) \/ InsertGrant(t) \/ SaveDone(t)
  \/ AddMenu(t) \/ InsertMenu(t) \/ GrantToRoot(t)
  \/ DeleteMenu(t) \/ ListChildren(t) \/ ClearChild(t) \/ DeleteRows(t)
  \/ ClearSelf(t)

Next == (\E t \in Threads : Step(t)) \/ MoveMenu \/ Crash

Spec == Init /\ [][Next]_vars

-----------------------------------------------------------------------------
(* Properties.                                                             *)

\* saveMenus: a role other than the root has never had a menu that its
\* parent role had not had, but for the rows the database is installed with.
\* The parent's menus are read long before the rows are inserted, and may
\* have been taken away or deleted in between.
GrantComesFromParent ==
  \A g \in ever \ SeedGrants :
    g[1] # RootRole => <<ParentRole[g[1]], g[2]>> \in ever

\* saveMenus: what a save is about to insert is something a role of its
\* operator has had.  The operator's roles are those cached at login.
OperatorHasHad ==
  \A t \in Threads : pc[t] = "write" =>
    \A m \in req[t].add : \E o \in req[t].ops : <<o, m>> \in ever

\* The root may use whatever another role may use, but for two kinds of menus
\* (doomed): submenus whose grants a deletion of their parent takes away before
\* it takes the menus, and menus whose id a deletion was given before they
\* were there, as it takes the root's grant and leaves the menu.  role_menu
\* keeps rows of menus that are gone, and a save that read the menus before a
\* deletion inserts more of them: those are not visible.
RootCovers ==
  \A r \in Roles : MenusOf(r) \ doomed \subseteq MenusOf(RootRole)

\* saveMenus: a save that nothing overlapped with ends with the role's
\* menus being those asked for, whatever had been left behind before.  Of the
\* menus with state 1, that is: a save neither sees nor deletes the row of a
\* hidden menu, which the role has again when the menu is shown again.
SaveIsExact ==
  \A t \in Threads :
    pc[t] = "write" /\ req[t].del = {} /\ req[t].add = {} /\ t \notin met
      => MenusOf(req[t].role) = req[t].now

-----------------------------------------------------------------------------
(* Why: what a request has read stays true of the history, and of the      *)
(* root's rows, until it has written.  RoleMenuProofs proves it.           *)

\* The root has a menu that is there and not about to lose its grants.
Covered(m) == m \in Present(menu) \ doomed => <<RootRole, m>> \in roleMenu

\* Every row, of a hidden menu too, is of a menu that the root has.
RowsCovered == \A g \in roleMenu : Covered(g[2])

\* The menus a save has read and may still insert.
Pending(t) == IF pc[t] = "write" THEN req[t].add ELSE req[t].parent

\* Rows, and requests that write them, only name ids given out, and those are
\* never reused.
IdInv ==
  /\ \A g \in ever : g[2] < nextMenu
  /\ \A m \in Present(menu) : m < nextMenu
  /\ shown \subseteq Present(menu)
  /\ roleMenu \subseteq ever
  /\ \A t \in Threads :
       /\ pc[t] = "grant" => req[t].menu \in 1..(nextMenu - 1)
       /\ pc[t] = "clear" => \A c \in req[t].del : c < nextMenu

SaveInv ==
  \A t \in Threads : pc[t] \in SavePc =>
    /\ req[t].role # RootRole
    /\ \A m \in Pending(t) :
         /\ <<ParentRole[req[t].role], m>> \in ever
         /\ Covered(m)

\* A deletion takes grants of menus that are doomed, gone or not there yet.
DeleteInv ==
  \A t \in Threads :
    /\ pc[t] = "clear" => req[t].del \cap Present(menu) \subseteq doomed
    /\ pc[t] = "self"  => req[t].menu \notin Present(menu) \ doomed

GrantInv ==
  /\ TypeOK
  /\ IdInv
  /\ SaveInv
  /\ DeleteInv
  /\ GrantComesFromParent
  /\ OperatorHasHad
  /\ RowsCovered

(* And why SaveIsExact holds: while nothing overlaps with a save, its own  *)
(* steps alone change the menus of its role.                               *)

\* Saves of one role, and a save and a deletion, that overlap know it.
MeetInv ==
  \A t, u \in Threads :
    t # u /\ pc[t] \in SavePc /\ (Saving(u, req[t].role) \/ Deleting(u))
      => t \in met

\* What is still to be written, of what was asked for and what was found.
PlanInv ==
  \A t \in Threads : t \notin met =>
    LET held == MenusOf(req[t].role) IN
    /\ pc[t] \in {"own", "check"} => req[t].parent \subseteq shown
    /\ pc[t] = "write" => req[t].add \subseteq shown
    /\ pc[t] \in {"check", "write"} =>
         /\ req[t].add \subseteq req[t].now /\ req[t].del \cap req[t].now = {}
         /\ req[t].now \ req[t].add \subseteq held
         /\ held \subseteq req[t].now \cup req[t].del

ExactInv == MeetInv /\ PlanInv
=============================================================================
