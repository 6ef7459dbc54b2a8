\* Two administrators whose requests interleave on one job name, a new row, and
\* a restart at any step.  Without a row left, and none to insert, it may stop.
SPECIFICATION Safety
CHECK_DEADLOCK FALSE
SYMMETRY ClientSymmetry
CONSTANTS
  Clients = {a1, a2}
  Names = {testTask}
  Beans = {testTask}
  Crons = {k1, k2}
  BadCrons = {}
  Limited = {k2}
  MaxId = 2
  MaxRestarts = 1
  Idcs = {"IDC_DEFAULT"}
  NoCron = NoCron
  NoRow = NoRow
  NoJob = NoJob
  NoRequest = NoRequest
INVARIANT InSync
