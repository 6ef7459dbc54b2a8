------------------------------ MODULE MCRoleMenu ------------------------------
(* Instances of RoleMenu: the root, a role below it and one below that, and  *)
(* three menu ids of which the third is still free.                          *)
EXTENDS RoleMenu, TLC

ChainOfRoles == (1 :> 0) @@ (2 :> 1) @@ (3 :> 2)
TwoMenus     == (1 :> NoParent) @@ (2 :> 1) @@ (3 :> NoMenu)
FirstGrants  == {<<1, 1>>, <<1, 2>>, <<2, 2>>}
TwoMoves     == {<<2, 1>>, <<3, 1>>}
FiveSaves    == {<<1, {1}, {1}>>, <<2, {3}, {1}>>,
                 <<3, {2}, {1}>>, <<3, {2}, {3}>>, <<3, {3}, {1}>>}
Symmetry     == Permutations(Threads)
=============================================================================
