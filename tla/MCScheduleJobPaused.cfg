\* One administrator, nothing interleaves and nothing fails.
SPECIFICATION Safety
CHECK_DEADLOCK FALSE
CONSTANTS
  Clients = {a1}
  Names = {testTask}
  Beans = {testTask}
  Crons = {k1}
  BadCrons = {}
  Limited = {}
  MaxId = 2
  MaxRestarts = 0
  Idcs = {"IDC_DEFAULT"}
  NoCron = NoCron
  NoRow = NoRow
  NoJob = NoJob
  NoRequest = NoRequest
INVARIANT PausedJobRests
