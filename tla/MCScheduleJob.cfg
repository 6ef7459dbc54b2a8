\* One administrator, one task bean and a name without a bean, a cron that
\* Quartz rejects, a new row and a restart at any step.  The system stops when
\* an application that did not start has no restart left.
SPECIFICATION Safety
CHECK_DEADLOCK FALSE
CONSTANTS
  Clients = {a1}
  Names = {testTask, noBean}
  Beans = {testTask}
  Crons = {k1, k2, bad}
  BadCrons = {bad}
  Limited = {k2}
  MaxId = 2
  MaxRestarts = 1
  Idcs = {"IDC_DEFAULT", "DEFAULT"}
  NoCron = NoCron
  NoRow = NoRow
  NoJob = NoJob
  NoRequest = NoRequest
INVARIANTS TypeOK InSync
