CONSTANTS
  Pages = {"user", "role", "menu", "scheduler"}
  Rows = {r1, r2, r3}
  SeedRows = {r1, r2}
  Owns = {{r1, r2}}
  NoRow = NoRow
  MaxNet = 2
  MaxClicks = 3
SYMMETRY Symmetry
SPECIFICATION Spec
INVARIANTS
  TypeOK
  TextStaysHome
  EditsLandHome
  GrantsLandHome
  WritesAreAsked
  AddIsClean
  ConfirmVisible
  ListInSync
PROPERTY DeletedStays
CHECK_DEADLOCK FALSE
