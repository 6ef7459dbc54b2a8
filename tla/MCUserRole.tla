------------------------------ MODULE MCUserRole ------------------------------
(* Instances of UserRole: the root role, a role below it with one of its own, *)
(* and an id still free; one user is the root, one holds the middle role.     *)
EXTENDS UserRole, TLC

Chain    == (1 :> <<>>) @@ (2 :> <<1>>) @@ (3 :> <<1, 2>>) @@ (4 :> NoRole)
TwoRows  == {<<"dev", 1>>, <<"admin", 2>>}
Requests == {<<"dev", {1, 3}>>, <<"dev", {}>>, <<"admin", {1}>>,
             <<"admin", {2, 3}>>, <<"admin", {3, 4}>>}
Symmetry == Permutations(Clients)
=============================================================================
