CONSTANTS
  Threads = {t1, t2}
  Roles = {1, 2, 3}
  RootRole = 1
  ParentRole <- ChainOfRoles
  NoRole = 0
  MaxMenu = 3
  SeedMenu <- TwoMenus
  FirstMenu = 3
  SeedGrants <- FirstGrants
  Saves <- FiveSaves
  Parents = {2}
  Moves <- TwoMoves
  Deletions = {1, 2, 3}
  NoMenu = NoMenu
  NoParent = NoParent
SYMMETRY Symmetry
SPECIFICATION Spec
INVARIANTS
  TypeOK
  GrantComesFromParent
  OperatorHasHad
  RootCovers
  SaveIsExact
CHECK_DEADLOCK FALSE
