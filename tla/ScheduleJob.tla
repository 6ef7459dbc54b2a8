----------------------------- MODULE ScheduleJob -----------------------------
(***************************************************************************)
(* Scheduled jobs: the rows of t_schedule_job and the in-memory Quartz     *)
(* scheduler, kept in step by hand.  ScheduleJobProxyService handles the   *)
(* requests of ScheduleJobController; each of its methods is a few SQL     *)
(* statements and calls of QuartzJobControllerImpl, with no transaction    *)
(* and no lock, so requests of several administrators interleave between   *)
(* them and a crash can fall there.                                        *)
(*                                                                         *)
(* A job's name stands for its name and group, which is the Quartz key.    *)
(* Quartz (external) keeps for a key a cron trigger, running or paused,    *)
(* and the ScheduleJob object stored in the job data.  A request that      *)
(* fails before it changes anything is a step that changes nothing and is  *)
(* left out.  A job fires without a change of the row or the trigger, so   *)
(* firings, the isBoot one and triggerJob with them, are left out, but for *)
(* the last one of a cron that has a last one, after which Quartz drops    *)
(* the trigger and its job.  From then on the cron is dead: Quartz takes   *)
(* no trigger that will never fire.                                        *)
(*                                                                         *)
(* A definition commented "Mistake" is no part of the model: see           *)
(* DisruptorEvent.                                                         *)
(***************************************************************************)
EXTENDS Naturals, FiniteSets, FiniteSetsExt

CONSTANTS
  Clients,      \* threads that handle requests
  Names,        \* job names requests use
  Beans,        \* names of task beans in the Spring context
  Crons,        \* cron expressions requests use
  BadCrons,     \* those CronScheduleBuilder rejects
  Limited,      \* those that name a year or a day that never comes
  MaxId,        \* bound: rows ever inserted
  MaxRestarts,  \* bound: restarts of the application
  Idcs,         \* idc values of rows; the page and the seed use IDC_DEFAULT
  NoCron,       \* no cron expression in an update request
  NoRow, NoJob, NoRequest

ASSUME NamesAssumption == Beans \subseteq Names /\ BadCrons \subseteq Crons
ASSUME LimitedAssumption == Limited \subseteq Crons \ BadCrons
ASSUME IdcAssumption   == "IDC_DEFAULT" \in Idcs
ASSUME IdAssumption    == MaxId \in Nat \ {0} /\ MaxRestarts \in Nat

Ids    == 1..MaxId
Status == {"NONE", "NORMAL", "PAUSED"}
Row    == [name : Names, status : Status, cron : Crons, idc : Idcs]
Job    == [paused : BOOLEAN, cron : Crons, data : Crons]

Ops == {"pause", "resume", "delete", "schedule", "create", "reschedule",
        "update"}

VARIABLES
  rows,       \* t_schedule_job, by FJOBID
  nextId,     \* AUTO_INCREMENT
  sched,      \* Quartz: the job of a key, with its cron trigger
  dead,       \* crons that will never fire again
  interrupt,  \* names whose bean has AbstractTaskInterface.interrupt set
  pc,         \* client: next step of its request
  req,        \* client: its request and the ScheduleJob object it works on
  restarts,   \* restarts so far
  up,         \* the application has started
  drift,      \* names for which a known cause of disagreement has occurred
  met         \* clients whose request has overlapped with another

vars == <<rows, nextId, sched, dead, interrupt, pc, req, restarts, up, drift,
          met>>

\* A job to be inserted has no id yet.
NoId == 0

Request == [op : Ops, id : Ids \cup {NoId}, name : Names, status : Status,
            cron : Crons \cup {NoCron}, idc : Idcs]

ASSUME NoneAssumption ==
  NoCron \notin Crons /\ NoRow \notin Row /\ NoJob \notin Job
  /\ NoRequest \notin Request
ASSUME ClientsAssumption == IsFiniteSet(Clients)

\* The row of the SQL script that creates the table.
Init ==
  /\ \E n \in Beans, k \in Crons \ BadCrons :
       rows = [i \in Ids |-> IF i = 1
                 THEN [name |-> n, status |-> "PAUSED", cron |-> k,
                       idc |-> "IDC_DEFAULT"]
                 ELSE NoRow]
  /\ nextId    = 2
  /\ sched     = [n \in Names |-> NoJob]
  /\ dead      \in SUBSET Limited
  /\ interrupt = {}
  /\ pc        = [c \in Clients |-> "idle"]
  /\ req       = [c \in Clients |-> NoRequest]
  /\ restarts  = 0
  /\ up        = TRUE
  /\ drift     = {}
  /\ met       = {}

\* The job of a cron trigger that runs.
Running(k) == [paused |-> FALSE, cron |-> k, data |-> k]

RowIds     == {i \in Ids : rows[i] # NoRow}
RowsOf(n)  == {i \in RowIds : rows[i].name = n}
Exists(n)  == sched[n] # NoJob

-----------------------------------------------------------------------------
(* Bookkeeping for the properties.                                         *)

NamesOf(r) == {r.name} \cup {rows[i].name : i \in {r.id} \cap RowIds}

Touches(c) == IF pc[c] = "idle" THEN {} ELSE NamesOf(req[c])

SameRow(q, r) == q.id # NoId /\ q.id = r.id

\* Clients whose request in progress works on a name or the row of r.
Meets(c, r) ==
  {d \in Clients \ {c} :
     pc[d] # "idle" /\ (Touches(d) \cap NamesOf(r) # {} \/ SameRow(req[d], r))}

Blame(names) == drift' = drift \cup names

\* The name of a request that nothing disturbed and that leaves one row, or
\* none, and the scheduler with its own values.
Heal(c, others) ==
  drift' = IF c \in met \/ others # {} THEN drift ELSE drift \ {req[c].name}

-----------------------------------------------------------------------------
(* A request begins.                                                       *)

Begin(c, r, step, causes) ==
  /\ up
  /\ pc[c] = "idle"
  /\ pc'  = [pc EXCEPT ![c] = step]
  /\ req' = [req EXCEPT ![c] = r]
  /\ LET ds == Meets(c, r)
     IN  /\ met' = IF ds = {} THEN met \ {c} ELSE met \cup {c} \cup ds
         /\ Blame(causes \cup (IF ds = {} THEN {} ELSE NamesOf(r))
                  \cup UNION {Touches(d) : d \in ds})
  /\ UNCHANGED <<rows, nextId, sched, dead, interrupt, restarts, up>>

\* The ScheduleJob object loadJobById returns.
Loaded(op, i) ==
  [op |-> op, id |-> i, name |-> rows[i].name, status |-> rows[i].status,
   cron |-> rows[i].cron, idc |-> rows[i].idc]

PauseJob(c) ==
  \E i \in RowIds : Begin(c, Loaded("pause", i), "quartz", {})

ResumeJob(c) ==
  \E i \in RowIds : Begin(c, Loaded("resume", i), "quartz", {})

\* Deploys a row only if its status is NORMAL, and reports success anyway.
ScheduleJob(c) ==
  \E i \in RowIds :
    Begin(c, Loaded("schedule", i),
          IF rows[i].status = "NORMAL" THEN "get" ELSE "reply", {})

\* updateCron: the row loaded, with the cron of the request.
RescheduleJob(c) ==
  \E i \in RowIds, k \in Crons :
    Begin(c, [Loaded("reschedule", i) EXCEPT !.cron = k], "quartz",
          IF rows[i].status = "NORMAL" THEN {} ELSE {rows[i].name})

\* The name and the id both come from the request.  Without a name JobKey
\* throws and nothing happens.
DeleteJob(c) ==
  \E i \in Ids, n \in Names :
    LET mismatch == {rows[j].name : j \in {i} \cap RowIds} \cup {n}
    IN  Begin(c, [op |-> "delete", id |-> i, name |-> n, status |-> "NONE",
                  cron |-> NoCron, idc |-> "IDC_DEFAULT"],
              "quartz", IF i \in RowIds /\ rows[i].name = n THEN {}
                        ELSE mismatch)

\* countByNameAndGroup: rows with the same key and the same idc.
Duplicates(n, idc, except) ==
  {i \in RowsOf(n) : rows[i].idc = idc /\ i # except}

\* The page offers NONE and NORMAL for a new job.
CreateJob(c) ==
  \E n \in Names, s \in {"NONE", "NORMAL"}, k \in Crons, idc \in Idcs :
    /\ Duplicates(n, idc, 0) = {}
    /\ nextId + Cardinality({d \in Clients : pc[d] = "insert"}) <= MaxId
    /\ Begin(c, [op |-> "create", id |-> NoId, name |-> n, status |-> s,
                 cron |-> k, idc |-> idc], "insert", {})

\* The request replaces the row, but for a cron it does not give; the status
\* becomes NONE and the scheduler is not told.
UpdateJob(c) ==
  \E i \in RowIds, n \in Names, k \in Crons \cup {NoCron}, idc \in Idcs :
    /\ Duplicates(n, idc, i) = {}
    /\ Begin(c, [op |-> "update", id |-> i, name |-> n, status |-> "NONE",
                 cron |-> k, idc |-> idc], "write", {n, rows[i].name})

-----------------------------------------------------------------------------
(* Its further steps.                                                      *)

GoTo(c, step) == pc' = [pc EXCEPT ![c] = step]

Done(c) ==
  /\ GoTo(c, "idle")
  /\ req' = [req EXCEPT ![c] = NoRequest]

\* Mistake: the flag is set for a name that has no bean.
PauseQuartzUnchecked(c) ==
  /\ pc[c] = "quartz" /\ req[c].op = "pause"
  /\ LET n == req[c].name
     IN  /\ sched' = IF Exists(n)
                     THEN [sched EXCEPT ![n].paused = TRUE] ELSE sched
         /\ interrupt' = interrupt \cup {n}
         /\ GoTo(c, "status")
  /\ UNCHANGED <<rows, nextId, dead, req, restarts, up, drift, met>>

\* QuartzJobControllerImpl.pauseJob.  Without a bean getBean throws, and the
\* status is never written.
PauseQuartz(c) ==
  /\ pc[c] = "quartz" /\ req[c].op = "pause"
  /\ LET n == req[c].name
     IN  /\ sched' = IF Exists(n)
                     THEN [sched EXCEPT ![n].paused = TRUE] ELSE sched
         /\ IF n \in Beans
            THEN /\ interrupt' = interrupt \cup {n}
                 /\ GoTo(c, "status")
                 /\ UNCHANGED req
            ELSE Done(c) /\ UNCHANGED interrupt
  /\ UNCHANGED <<rows, nextId, dead, restarts, up, drift, met>>

\* resumeJob: getBean comes first; a job Quartz does not know is scheduled.
ResumeQuartz(c) ==
  /\ pc[c] = "quartz" /\ req[c].op = "resume"
  /\ LET n == req[c].name
     IN  IF n \notin Beans
         THEN Done(c) /\ UNCHANGED <<sched, interrupt>>
         ELSE /\ interrupt' = interrupt \ {n}
              /\ IF Exists(n)
                 THEN /\ sched' = [sched EXCEPT ![n].paused = FALSE]
                      /\ GoTo(c, "status")
                 ELSE /\ GoTo(c, "get")
                      /\ UNCHANGED sched
              /\ UNCHANGED req
  /\ UNCHANGED <<rows, nextId, dead, restarts, up, drift, met>>

\* Mistake: rescheduleJob only replaces the trigger.
DeleteQuartzOnDelete(c) ==
  /\ pc[c] = "quartz" /\ req[c].op \in {"delete", "reschedule"}
  /\ sched' = IF req[c].op = "delete"
              THEN [sched EXCEPT ![req[c].name] = NoJob] ELSE sched
  /\ GoTo(c, IF req[c].op = "delete" THEN "remove" ELSE "get")
  /\ UNCHANGED <<rows, nextId, dead, interrupt, req, restarts, up, drift, met>>

\* Mistake: deleting the row leaves its job to Quartz.
DeleteQuartzOnReschedule(c) ==
  /\ pc[c] = "quartz" /\ req[c].op \in {"delete", "reschedule"}
  /\ sched' = IF req[c].op = "reschedule"
              THEN [sched EXCEPT ![req[c].name] = NoJob] ELSE sched
  /\ GoTo(c, IF req[c].op = "delete" THEN "remove" ELSE "get")
  /\ UNCHANGED <<rows, nextId, dead, interrupt, req, restarts, up, drift, met>>

\* deleteJob: on its own, or the first half of rescheduleJob.
DeleteQuartz(c) ==
  /\ pc[c] = "quartz" /\ req[c].op \in {"delete", "reschedule"}
  /\ sched' = [sched EXCEPT ![req[c].name] = NoJob]
  /\ GoTo(c, IF req[c].op = "delete" THEN "remove" ELSE "get")
  /\ UNCHANGED <<rows, nextId, dead, interrupt, req, restarts, up, drift, met>>

\* After scheduleSingleJob returns to the method of the proxy service.
Scheduled(c) ==
  CASE req[c].op = "resume"     -> GoTo(c, "status") /\ UNCHANGED req
    [] req[c].op = "reschedule" -> GoTo(c, "write") /\ UNCHANGED req
    [] OTHER                    -> Done(c)

\* scheduleSingleJob skips a job without a bean, or looks its trigger up.
GetTrigger(c) ==
  /\ pc[c] = "get"
  /\ IF req[c].name \notin Beans THEN Scheduled(c)
     ELSE /\ GoTo(c, IF Exists(req[c].name) THEN "replace" ELSE "add")
          /\ UNCHANGED req
  /\ UNCHANGED <<rows, nextId, sched, dead, interrupt, restarts, up, drift,
                 met>>

\* CronScheduleBuilder throws a RuntimeException, which nothing catches: the
\* request ends where it is.
RejectCron(c) ==
  /\ pc[c] \in {"add", "replace"}
  /\ req[c].cron \in BadCrons
  /\ Done(c)
  /\ Blame({req[c].name})
  /\ UNCHANGED <<rows, nextId, sched, dead, interrupt, restarts, up, met>>

\* scheduleJob(jobDetail, trigger): if another request was faster, or the cron
\* will never fire, Quartz refuses.  The SchedulerException is logged, and the
\* request goes on.
AddJob(c) ==
  /\ pc[c] = "add"
  /\ req[c].cron \notin BadCrons
  /\ sched' = IF Exists(req[c].name) \/ req[c].cron \in dead THEN sched
              ELSE [sched EXCEPT ![req[c].name] =
                      Running(req[c].cron)]
  /\ Scheduled(c)
  /\ UNCHANGED <<rows, nextId, dead, interrupt, restarts, up, drift, met>>

\* rescheduleJob(triggerKey, trigger) replaces the trigger, which runs, and
\* keeps the job data; without a trigger it does nothing.  A cron that will
\* never fire is refused and logged, and the old trigger stays.
ReplaceTrigger(c) ==
  /\ pc[c] = "replace"
  /\ req[c].cron \notin BadCrons
  /\ sched' = IF Exists(req[c].name) /\ req[c].cron \notin dead
              THEN [sched EXCEPT ![req[c].name].cron = req[c].cron,
                                 ![req[c].name].paused = FALSE]
              ELSE sched
  /\ Scheduled(c)
  /\ UNCHANGED <<rows, nextId, dead, interrupt, restarts, up, drift, met>>

\* updateStatus sets the status and leaves the rest of the row alone.
WriteStatus(c) ==
  /\ pc[c] = "status"
  /\ rows' = IF req[c].id \in RowIds
             THEN [rows EXCEPT ![req[c].id].status =
                     IF req[c].op = "pause" THEN "PAUSED" ELSE "NORMAL"]
             ELSE rows
  /\ Done(c)
  /\ UNCHANGED <<nextId, sched, dead, interrupt, restarts, up, drift, met>>

\* update writes every column of the object the request works on.
WriteRow(c) ==
  /\ pc[c] = "write"
  /\ rows' = IF req[c].id \in RowIds
             THEN [rows EXCEPT ![req[c].id] =
                     [name |-> req[c].name, status |-> req[c].status,
                      cron |-> IF req[c].cron = NoCron THEN @.cron
                               ELSE req[c].cron,
                      idc |-> req[c].idc]]
             ELSE rows
  /\ IF req[c].op = "reschedule" /\ req[c].status = "NORMAL"
     THEN Heal(c, RowsOf(req[c].name) \ {req[c].id})
     ELSE UNCHANGED drift
  /\ Done(c)
  /\ UNCHANGED <<nextId, sched, dead, interrupt, restarts, up, met>>

Reply(c) ==
  /\ pc[c] = "reply"
  /\ Done(c)
  /\ UNCHANGED <<rows, nextId, sched, dead, interrupt, restarts, up, drift,
                 met>>

RemoveRow(c) ==
  /\ pc[c] = "remove"
  /\ rows' = [rows EXCEPT ![req[c].id] = NoRow]
  /\ Heal(c, RowsOf(req[c].name) \ {req[c].id})
  /\ Done(c)
  /\ UNCHANGED <<nextId, sched, dead, interrupt, restarts, up, met>>

\* A delete may name the new row's id before the row is there.
InsertRow(c) ==
  /\ pc[c] = "insert"
  /\ rows'   = [rows EXCEPT ![nextId] =
                  [name |-> req[c].name, status |-> req[c].status,
                   cron |-> req[c].cron, idc |-> req[c].idc]]
  /\ nextId' = nextId + 1
  /\ IF req[c].status = "NORMAL"
     THEN GoTo(c, "get") /\ req' = [req EXCEPT ![c].id = nextId]
     ELSE Done(c)
  /\ LET ds == {d \in Clients \ {c} : pc[d] # "idle" /\ req[d].id = nextId}
     IN  /\ met' = IF ds = {} THEN met ELSE met \cup {c} \cup ds
         /\ Blame((IF RowsOf(req[c].name) = {} /\ ds = {} THEN {}
                   ELSE {req[c].name}) \cup UNION {Touches(d) : d \in ds})
  /\ UNCHANGED <<sched, dead, interrupt, restarts, up>>

-----------------------------------------------------------------------------
(* The application stops at any point and starts again.                    *)

\* findAllEnabled("DEFAULT"), highest id first.
Enabled == {i \in RowIds : rows[i].status = "NORMAL" /\ rows[i].idc = "DEFAULT"}

\* Those of a name that Quartz takes.
EnabledOf(n) == {i \in Enabled : rows[i].name = n /\ rows[i].cron \notin dead}

\* loadAndStartTaskFromDB: the first row of a name schedules the job, later
\* rows replace its trigger.  One that will never fire is logged and skipped.
LoadedJob(n) ==
  IF n \notin Beans \/ EnabledOf(n) = {} THEN NoJob
  ELSE [paused |-> FALSE, cron |-> rows[Min(EnabledOf(n))].cron,
        data |-> rows[Max(EnabledOf(n))].cron]

\* A cron Quartz rejects ends the start of the whole application.
Restart ==
  /\ restarts < MaxRestarts
  /\ restarts'  = restarts + 1
  /\ up'        = (\A i \in Enabled : rows[i].name \in Beans =>
                     rows[i].cron \notin BadCrons)
  /\ sched'     = [n \in Names |-> IF up' THEN LoadedJob(n) ELSE NoJob]
  /\ interrupt' = {}
  /\ pc'        = [c \in Clients |-> "idle"]
  /\ req'       = [c \in Clients |-> NoRequest]
  /\ met'       = {}
  /\ Blame({rows[i].name : i \in {j \in RowIds : rows[j].status = "NORMAL"
                                                 /\ j \notin Enabled}}
           \cup UNION {Touches(c) : c \in Clients})
  /\ UNCHANGED <<rows, nextId, dead>>

-----------------------------------------------------------------------------
(* Time passes.                                                            *)

\* The last time a cron names goes by.
Expire ==
  /\ \E k \in Limited \ dead : dead' = dead \cup {k}
  /\ UNCHANGED <<rows, nextId, sched, interrupt, pc, req, restarts, up, drift,
                 met>>

\* Quartz drops a trigger after its last firing, and the job, which is not
\* durable, with it.
LastFiring(n) ==
  /\ Exists(n) /\ ~sched[n].paused /\ sched[n].cron \in dead
  /\ sched' = [sched EXCEPT ![n] = NoJob]
  /\ UNCHANGED <<rows, nextId, dead, interrupt, pc, req, restarts, up, drift,
                 met>>

TimePasses == Expire \/ \E n \in Names : LastFiring(n)

-----------------------------------------------------------------------------
Receive(c) ==
  \/ PauseJob(c) \/ ResumeJob(c) \/ DeleteJob(c) \/ ScheduleJob(c)
  \/ CreateJob(c) \/ RescheduleJob(c) \/ UpdateJob(c)

Step(c) ==
  \/ PauseQuartz(c) \/ ResumeQuartz(c) \/ DeleteQuartz(c)
  \/ GetTrigger(c) \/ RejectCron(c) \/ AddJob(c) \/ ReplaceTrigger(c)
  \/ WriteStatus(c) \/ WriteRow(c) \/ RemoveRow(c) \/ InsertRow(c) \/ Reply(c)

Next ==
  \/ \E c \in Clients : Receive(c) \/ Step(c)
  \/ Restart
  \/ TimePasses

Safety == Init /\ [][Next]_vars

\* A request that has begun is carried on by its thread.
Spec == Safety /\ \A c \in Clients : WF_vars(Step(c))

-----------------------------------------------------------------------------
(* Properties                                                              *)

\* Rows, scheduler and requests have values the code can give them.
TypeOK ==
  /\ rows      \in [Ids -> Row \cup {NoRow}]
  /\ nextId    \in 2..(MaxId + 1)
  /\ sched     \in [Names -> Job \cup {NoJob}]
  /\ dead      \subseteq Limited
  /\ interrupt \subseteq Beans
  /\ pc        \in [Clients -> {"idle", "quartz", "get", "add", "replace",
                               "status", "write", "remove", "insert", "reply"}]
  /\ req       \in [Clients -> Request \cup {NoRequest}]
  /\ \A c \in Clients : pc[c] = "idle" <=> req[c] = NoRequest
  /\ restarts  \in 0..MaxRestarts
  /\ up        \in BOOLEAN
  /\ drift     \subseteq Names
  /\ met       \subseteq Clients

\* Quartz runs the job of name n by cron k, or has dropped or refused it.
Serves(n, k) == sched[n] = Running(k) \/ (~Exists(n) /\ k \in dead)

\* What a row says of its job, and what Quartz has.
Agrees(row) ==
  LET job == sched[row.name]
  IN  CASE row.status = "NORMAL" -> Serves(row.name, row.cron)
        [] row.status = "PAUSED" -> job = NoJob
                                    \/ job = [paused |-> TRUE, cron |-> row.cron,
                                              data |-> row.cron]
        [] row.status = "NONE"   -> job = NoJob

\* Table and scheduler are two copies kept in step by hand.  Between requests
\* they agree on every job, its trigger's cron and its job data, and a job
\* without a row is not in Quartz.  A row NORMAL whose cron will never fire
\* again may have no job, as Quartz drops it or refuses it, but never one of
\* another cron or data.  All this unless one of these has happened to the
\* name: two requests overlapped on it; updateCron on a row that was not
\* NORMAL; an update; a delete whose name is not its row's; a cron Quartz
\* rejects; two rows with the name; a restart that did not load its row, or
\* that cut a request short.  Whatever has happened, an updateCron of a NORMAL
\* row or a delete that nothing disturbs brings its name back in step: both
\* begin by deleting the job from Quartz.
InSync ==
  up => \A n \in Beans \ drift :
    (\A c \in Clients : n \notin Touches(c)) =>
      /\ \A i \in RowsOf(n) : Agrees(rows[i])
      /\ RowsOf(n) = {} => ~Exists(n)

\* A request of client c ends, other than by a restart.
Ends(c, op) ==
  /\ pc[c] # "idle" /\ req[c].op = op
  /\ pc'[c] = "idle" /\ restarts' = restarts

\* scheduler.js: the operation offered for a NONE job is to deploy it, which
\* turns its status to NORMAL and starts it by its cron.
DeployStartsJob ==
  [][\A c \in Clients :
       Ends(c, "schedule") /\ req[c].id \in RowIds /\ req[c].status = "NONE"
       /\ req[c].name \in Beans /\ req[c].cron \notin BadCrons \cup dead
         => rows'[req[c].id].status = "NORMAL" /\ sched'[req[c].name] # NoJob]_vars

\* QuartzJobControllerImpl: the tasks configured in the database are loaded
\* and deployed when the application starts.
StartLoadsJobs ==
  [][restarts' # restarts /\ up' =>
       \A i \in RowIds : rows[i].status = "NORMAL" /\ rows[i].name \in Beans
                         /\ rows[i].cron \notin dead
         => sched'[rows[i].name] # NoJob]_vars

\* The status PAUSED of a row means that its job is paused: between requests
\* Quartz does not fire it.
PausedJobRests ==
  (\A c \in Clients : pc[c] = "idle") =>
    \A i \in RowIds : rows[i].status = "PAUSED" =>
      ~Exists(rows[i].name) \/ sched[rows[i].name].paused

-----------------------------------------------------------------------------
(* Why InSync holds: a name out of drift has one row at most, and one      *)
(* request at most is at work on it, which knows what Quartz has.          *)
(* ScheduleJobProofs proves it.                                            *)

\* The steps of each request.
Path(op) ==
  CASE op = "pause"      -> {"quartz", "status"}
    [] op = "resume"     -> {"quartz", "get", "add", "replace", "status"}
    [] op = "delete"     -> {"quartz", "remove"}
    [] op = "schedule"   -> {"get", "add", "replace", "reply"}
    [] op = "create"     -> {"insert", "get", "add", "replace"}
    [] op = "reschedule" -> {"quartz", "get", "add", "replace", "write"}
    [] op = "update"     -> {"write"}

PathInv ==
  \A c \in Clients : pc[c] # "idle" =>
    /\ pc[c] \in Path(req[c].op)
    /\ req[c].op \notin {"delete", "update"} => req[c].cron # NoCron

\* There is an id for every row about to be inserted.
SpaceInv ==
  nextId + Cardinality({c \in Clients : pc[c] = "insert"}) <= MaxId + 1

\* Requests that share a name or a row have met, and their names are in drift.
MeetInv ==
  /\ \A c, d \in Clients :
       c # d /\ pc[c] # "idle" /\ pc[d] # "idle"
       /\ (Touches(c) \cap Touches(d) # {} \/ SameRow(req[c], req[d]))
         => c \in met
  /\ \A c \in met : Touches(c) \subseteq drift

RowInv ==
  /\ \A i \in RowIds : i < nextId
  /\ up \/ \A c \in Clients : pc[c] = "idle"
  /\ \A n \in Names \ drift : \A i, j \in RowsOf(n) : i = j

Loads == {"pause", "resume", "schedule", "reschedule"}

\* What a request that met no other knows of its row and of its job.
Own(c) ==
  LET r == req[c]
      n == req[c].name
  IN  /\ r.op \in Loads \/ (r.op = "create" /\ pc[c] # "insert") =>
           /\ r.id \in RowsOf(n)
           /\ rows[r.id].status = r.status
           /\ r.op # "reschedule" => rows[r.id].cron = r.cron
      /\ r.op \in {"resume", "reschedule"} =>
           pc[c] # "replace" /\ (pc[c] \in {"get", "add"} => ~Exists(n))
      /\ r.op = "reschedule" /\ pc[c] = "write" /\ n \in Beans =>
           Serves(n, r.cron)
      /\ r.op = "delete" /\ pc[c] = "remove" => ~Exists(n)

OwnInv == \A c \in Clients \ met : pc[c] # "idle" => Own(c)

\* The row a request names has its name, or one in drift.
NamedInv ==
  \A c \in Clients : pc[c] # "idle" /\ req[c].id \in RowIds =>
    rows[req[c].id].name \in drift \cup {req[c].name}

\* Quartz has the job that the row of the name says, or there is neither.
Synced(n) ==
  /\ \A i \in RowsOf(n) : Agrees(rows[i])
  /\ RowsOf(n) = {} => ~Exists(n)

\* What a request knows whose name is not in drift: the row is its own, and
\* Quartz has the job of the row but for the step in hand.
Known(c) ==
  LET r == req[c]
      n == req[c].name
  IN  /\ r.op # "update"
      /\ r.op = "delete" => r.id \in RowsOf(n)
      /\ r.op = "reschedule" => r.status = "NORMAL"
      /\ r.op = "schedule" => pc[c] = "reply" \/ r.status = "NORMAL"
      /\ r.op = "create" /\ pc[c] # "insert" => r.status = "NORMAL"
      /\ n \in Beans =>
           /\ pc[c] \in {"quartz", "insert"} \/ r.op = "schedule" => Synced(n)
           /\ r.op = "create" /\ pc[c] # "insert" =>
                pc[c] # "replace" /\ ~Exists(n)
           /\ r.op = "pause" /\ pc[c] = "status" =>
                ~Exists(n) \/ sched[n] = [Running(r.cron) EXCEPT !.paused = TRUE]
           /\ r.op = "resume" /\ pc[c] = "status" => Serves(n, r.cron)

StepInv ==
  \A c \in Clients : pc[c] # "idle" /\ req[c].name \notin drift => Known(c)

TypeInv == TypeOK /\ PathInv /\ SpaceInv

SyncInv ==
  /\ MeetInv
  /\ RowInv
  /\ OwnInv
  /\ NamedInv
  /\ StepInv
  /\ InSync
=============================================================================
