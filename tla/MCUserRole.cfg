CONSTANTS
  Clients = {c1, c2}
  Users = {"dev", "admin"}
  MaxRole = 4
  SeedRole <- Chain
  FirstRole = 4
  SeedRows <- TwoRows
  Parents = {2}
  Changed = {2, 3}
  Saves <- Requests
  NoRole = NoRole
  NoSession = NoSession
SYMMETRY Symmetry
SPECIFICATION Spec
INVARIANTS
  TypeOK
  RootHoldersFixed
  SaveIsExact
  FailsOnlyFor
CHECK_DEADLOCK FALSE
