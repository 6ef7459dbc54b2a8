# car-fitline-manage: TLA+ models, checks and proofs

The repository is a management console (Spring MVC, MyBatis, Quartz) with a TCP
gateway for car devices (Netty, LMAX disruptor) in the same process.  This
directory models the parts where something can go wrong that a test would hardly
reach: threads that share a ring, requests that pass through several threads,
two copies of the same data (a table and the Quartz scheduler) kept in step by
hand, permissions that are read, checked and written row by row without a
transaction, and pages whose dialogs share their fields while answers are on their
way.

Paths are those of the repository's `src/`: Java under `src/main/java`, pages under
`src/main/webapp`.

## Inventory

| Part | State it keeps | Operations | Interacts with |
|---|---|---|---|
| Business thread, `com.fitline.server.disruptor` | a ring of 1024 events, the sequences of LMAX disruptor 3.2.0 | `publish`, the loop of the pool's workers, `stack`, `shutdown` | IO threads call `publish`; the worker runs the gateway's tasks |
| TCP gateway, `com.fitline.server` | four business threads; per channel a `Context` with a device | start, accept, `channelActive`, `channelRead0`, `Dispatcher.process`, login, ping, `shutdown` | Netty's boss and IO threads; one ring per channel, chosen by hash of the channel id |
| Frame codec | bytes not yet decoded | decode, encode | Netty's pipeline |
| TCP client, `com.fitline.client` | a socket, heartbeat timer, `ClientManager` map | connect, login, heartbeat, close | the gateway |
| Scheduled jobs, `cn.lfy.base.job` | rows of `t_schedule_job`; Quartz jobs and triggers in memory; the `interrupt` flag of task beans | create, update, updateCron, deploy, pause, resume, delete, run once, load at start | HTTP threads, MySQL, Quartz, the Spring context |
| Roles and permissions | `role`, `role_menu` | `saveMenus`, add, update, delete | menus, the operator's session |
| Users | `user`, `user_role` | add, update, delete, `saveRoles` | roles, login |
| Menus | `menu` with parent paths | save, update, delete | `role_menu` |
| Sessions | `LoginUser` with roles and permitted uris | login, `/manager/menu`, requests, logout | users, roles |
| Console pages, `resources/js/{user,role,menu,scheduler}.js` | one DOM: the fields of a form, a tree of checkboxes, the buttons shown, the closures bound to them | edit, add, delete, grant, run now; the callbacks of their requests | the controllers of users, roles, menus and jobs |
| Car information, captcha, upload, Swagger | one table; nothing else | one statement per request | - |

What is hard in each part, and what makes it correct:

- **Business thread.**  Producer and workers meet in plain fields, a cursor and
  gating sequences; the ring wraps; the pool's workers compete.  Correct: every
  task runs exactly once, in order for one worker, none is overwritten, the
  producer waits when the ring is full and goes on afterwards.
- **Gateway.**  A request crosses three threads.  Back-pressure holds the IO
  thread with all its channels.  Clients disconnect with tasks in the ring, the
  server starts and stops while they connect.  Correct: requests are neither lost
  nor reordered, responses follow them, a login has set the device before its
  answer arrives, and nothing waits for ever.
- **Scheduled jobs.**  No transaction and no lock: each request is a sequence of
  SQL statements and Quartz calls which other requests, failures and crashes cut.
  Correct: table and Quartz agree between requests.
- **Roles, users, menus, sessions.**  Read, check, then write row by row without
  a transaction; permissions held in a session while tables change.  Correct: a
  role has no menu its parent has not, an operator grants only what he has, no
  grant refers to a menu that is gone, a session is judged by its permissions.
- **Console pages.**  All dialogs of a page share one form and one set of buttons,
  and a closure remembers the row; answers fill them whenever they arrive, after the
  dialog was closed and opened for another row too.  Correct: what the operator
  typed or ticked for a row is written to that row, a row is deleted only on a click
  that asked for it, and the page lists what there is.
- **Codec.**  Lengths at their bounds.  Correct: what is decoded is what was encoded.

`PROJECT.json` lists every hazard at its line.

## Modules

    TaskQueue               what the gateway expects of a business thread
      ^ implemented by
    DisruptorEvent          the ring, publish() and the workers, step by step
      ^                ^
    DisruptorEventInv  Gateway     (INSTANCE: IO threads are the producers)
      ^                ^
    DisruptorEventProofs <- DisruptorQueueProofs <- GatewayProofs
    Conversation            what a client may expect; implemented by Gateway
    ScheduleJob  <- ScheduleJobProofs   table and Quartz
    RoleMenu  <- RoleMenuProofs     menus, roles and the grants between them
    UserRole  <- UserRoleProofs     users, roles and sessions
    ConsolePage  <- ConsolePageProofs  <- ConsoleOrderProofs
                            the four pages and their requests
    MC*                     small instances for TLC

### DisruptorEvent

`nextValue` and `cursor` are the fields of `SingleProducerSequencer`, `slot` the
`Event` objects, `workSequence`, `sequence`, `nextSequence`, `available` the
variables of `WorkProcessor.run` (library, modelled from the way the constructor
of `DisruptorEvent` uses it).  `publish()` is four actions, because other threads
run between them: read `nextValue`, claim the sequence once the ring has room,
`setEvent`, publish the cursor.  A worker's loop is six.  `accepted` and `ran` are
histories, for the properties.  `StartTask` of a slot that was never filled throws
into `IgnoreExceptionHandler`, as in the code.

Waiting for the gating sequences reads their minimum at once; each only grows, so
reading them one by one can only make the producer wait longer.  Sequences are
64-bit and do not wrap.  Wake-ups of `BlockingWaitStrategy` are not modelled: a
waiting worker goes on whenever the cursor allows it.  `AtMostOnce` and the others
do not depend on that; the liveness properties assume the library's wake-ups, and would
not notice one that is missed.

`SingleProducer` is what `ProducerType.SINGLE` asks of the callers: that their calls of
`publish()` do not overlap (and that each sees what the one before has written, as
`nextValue` is a plain field).  Nothing in `publish()` or in the gateway sees to it:
`disruptor_shared` shows what happens without it, and what is said of the ring and the
gateway elsewhere is said of behaviours that have it.

### Gateway

One of the four rings with the channels that hash to it.  `Bind`, `AllocateRings`
and `CreateRing` are the steps of `TcpServer.start` a connection can fall between
(`ChannelActive` finds no array, no element or a ring).  `ChannelRead` enters
`publish()`; until the IO thread has left it, no handler of its channels runs and
nothing of theirs is flushed (`IOFree`).  `Process` is the task a worker runs,
`Dispatcher.process` with the handler, in two steps: with the first the task begins and
a login sets the device, with the second the response goes into the channel's queue and
the task is over.  In between every other thread may run.  The IO thread flushes the
queue (`Flush`).  A request is a channel, a number and one of three kinds of cmd: ping,
login, and one that comes to nothing, a login whose body the handler fails on or a cmd
without a handler.

`Conversation` is what one client may count on, without threads, ring or other
clients: its requests are handled one at a time in the order it sent them, and those that
have an answer are answered in that order, until the channel closes.  Whether the
channel is served at all is settled when it becomes active: one that falls between the
steps of `TcpServer.start` is refused, request after request, until it closes, even
when the rings are there at last.  A close loses the responses on their way
and requests not yet handled.  `EachClientAlone` says that `Gateway` implements it:
a channel's requests are those in the ring, in the IO thread's hand and in the inbox, in this
order (`Asked`), and one is handled when its task is over.

### ScheduleJob

`rows` is the table, `sched` what Quartz keeps for a key, `req` and `pc` a request
in progress with the `ScheduleJob` object it works on.  Each SQL statement and each
Quartz call is an action, so requests interleave and `Restart` falls anywhere
between them.  `RejectCron` is the exception of `CronScheduleBuilder`, which ends
the request where it stands.  A cron may also be one that has a last firing (`Limited`:
it names a year, or a day that no calendar has).  Once that has gone by (`Expire`, or
before the model begins), the cron is in `dead`: Quartz drops a running trigger and its
job with it (`LastFiring`; the jobs are not durable), and refuses to schedule by it with
a `SchedulerException`, which `scheduleSingleJob` logs, so that the request goes on and
writes its row (`AddJob`, `ReplaceTrigger`).  `drift` and `met` are bookkeeping for `InSync`: they
record that one of the causes it names has happened to a name, and influence
nothing.  A job to be inserted has no id: `InsertRow` gives it the next one.  A delete
may name that id before the row is there (it sends the id and nothing checks it), so
`InsertRow` records that the two have met.

`MyBatis`' tests in the `update` statement are always true (`#{...}` in OGNL builds
a map), except the one for the cron: `WriteRow` writes every column but a missing
cron.

### RoleMenu

`menu` and `roleMenu` are the tables; a thread's `pc` is the next statement of its
request and `req` the parameters and local variables of `saveMenus`, `save` or
`deleteById`.  Every SQL statement is an action, because requests interleave between
statements and a `Crash` falls there (`role_menu` is a MyISAM table and nothing opens a
transaction).  `CheckNewMenus` reads the operator's menus and compares in memory,
which nothing can observe in between.  `DeleteRows` is the one statement
that deletes a menu and its submenus; `ListChildren` and `ClearChild` have
taken the grants of the submenus one by one before it.  The rows of `role_menu`
that name a menu that is gone, or one whose state is not 1, stay in the table and are
hidden by the inner join (`MenusOf` reads `shown`, the menus with state 1), as in the
code.  A request that changes a menu writes its parent and its state (`MoveMenu`), and
a menu may be added hidden.  `MenuController.del` takes any id, also one that no menu
has yet (`Deletions`).  A role's parent never changes (the update statement
leaves it out) and its row is never deleted, so the tree of roles is a constant.  A
save may be sent by a session with any roles, current or not: the roles in a session
are a parameter of the request.  `ever` (the rows `role_menu` has ever had), `doomed`
(menus that outlive a deletion of their grants: the submenus it has listed, or the menu
it was given before that was there) and `met` (threads whose save was overlapped, by a
menu that is hidden or shown too) are histories.  Ids of menus are not reused, which holds as long as the database server
itself does not restart after deleting the newest ones.

### UserRole

`path` is `role.parentIdPath` as a sequence of ids, `active` the roles with state 1,
`session` the roles a session keeps from its login on.  `saveRoles` is its two reads
with the check, then one statement per row.  Deleting a role only changes its state;
its rows in `user_role` stay and `getRoleListByUserId` does not return them, while
`getRoles` returns roles of any state: the insert then meets the unique key and the
request ends halfway (`failed`).  `IsChild` is the search for the operator's path in
another one, which can only match at its start because a path starts at the root.
The state and the password of users, and the URLs a session may call, are left out:
any session may send any request.

### ConsolePage

`page` says which of the four pages is loaded; they differ in a few lines, each a
condition in the action concerned.  `form` is what the inputs of the editor hold (of
the form in `#myModal` on the scheduler's page): the hidden id, the text of all other
fields as one value, the state.  `bound` is the row in the closure last bound to a
button, `buttons` those without the class `none`, `shown` the dialogs shown, `tree`
the row whose roles or menus the tree of checkboxes has, `listed` what the table or
tree of rows says.  `net` has requests and answers: a request is served (`Serve`) or
refused, its answer taken (`TakeDone`, `TakeRefused`), in any order, and may be lost
at any time.  A text is known by where it is from (`Of`, `Typed`, `New`, `Blank`),
because the properties are about texts that reach the wrong row.  The server is one
table with one step per request; the other modules have what it really does.
`opened`, `crossed` and `calm` are histories: the click that opened a dialog last,
whether a dialog was ever opened before an earlier one was filled, and whether the
operator has waited for every answer, none of which was lost.  The lists to choose a
state from are left out, so that the state in the form is the one it was filled with.
`stale` is a history too: two lists were on their way at a time, or one was lost,
since a list was last asked for with no other on its way.

The list of the role page is not the table alone: `api_tree` takes the operator's own
roles from his session, with the names they had when he logged in, and reads the others
(`own`, `Listing`).  A text of a role is its name: the editor's description is never
sent (`role.js:165`).  Nor is its state, and the `Role` made from the request has that
of a new one, which the update writes: on the role page an edit brings a deleted role
back (`HandleUpdate`).  The scheduler's page sends no name of the job to delete
(`scheduler.js:284`), so that no key can be made, and every deletion there is refused.

The definitions commented "Mistake" are no part of the models: each is a plausible
slip in the definition that follows it, and `PROJECT.json` names the property that
notices it.

## Runs

| Run | Instance | Checks |
|---|---|---|
| `disruptor_pool` | 1 producer, 2 workers, ring of 2, 3 tasks | `TypeOK`, the inductive invariant `RingInv`, `NothingLost`, `AtMostOnce`, `NoOverwrite`, `StackCoversBacklog`, `EveryTaskRuns` |
| `disruptor_shared` | 2 producers | **violated**: `EveryTaskRuns` |
| `gateway` | 2 IO threads whose calls of `publish()` do not overlap (`TurnsSafety`), 2 channels of 2 requests, ring of 1 | `TypeOK`, `RequestsConserved`, `RepliesFollowRequests`, `DeviceBeforeReply`, and the refinement `EachClientAlone` of `Conversation` |
| `gateway_live` | 1 IO thread, 2 channels of 1 request, ring of 1 | `EveryRequestServed`, and the refinement `RingIsTaskQueue` of `TaskQueue` with its liveness |
| `scheduler` | 1 administrator, 2 names (one without a bean), 3 crons (one bad, one with a last firing), both idc values, 1 restart | `TypeOK`, `InSync` |
| `scheduler_race` | 2 administrators on one name, 2 crons (one with a last firing), 1 restart | `InSync` |
| `scheduler_deploy` | 1 administrator, nothing fails | **violated**: `DeployStartsJob` |
| `scheduler_start` | 1 administrator, 1 restart | **violated**: `StartLoadsJobs` |
| `scheduler_paused` | 1 administrator, nothing fails | **violated**: `PausedJobRests` |
| `role_menu` | 2 threads, a chain of 3 roles, 3 menu ids (1 free), 5 different saves, 2 moves, menus hidden and shown, deletions of any of the ids, crashes | `TypeOK`, `GrantComesFromParent`, `OperatorHasHad`, `RootCovers`, `SaveIsExact` |
| `user_role` | 2 sessions, 2 users, a chain of 3 roles and 1 free id, 5 different saves, crashes | `TypeOK`, `RootHoldersFixed`, `SaveIsExact`, `FailsOnlyFor` |
| `console_page` | each of the 4 pages, 2 rows and an id for a third, one of the rows the operator's own role on the role page, 2 requests or answers on their way, 3 clicks that open a dialog | `TypeOK`, `TextStaysHome`, `EditsLandHome`, `GrantsLandHome`, `WritesAreAsked`, `AddIsClean`, `ConfirmVisible`, `ListInSync`, `DeletedStays` |

### Bounds

- A ring of 2 with 3 tasks wraps: a slot is reused while a worker is before, in and
  after the task it held, and one worker is a round behind the other.  The proofs
  cover every size.
- A ring of 1 in the gateway: the second request already holds the IO thread, and
  every request reuses the slot of the one before.  Two
  requests of two channels give every order of two channels on one ring, a second
  login of a channel, and a disconnect with requests in every place they can be.  Two
  IO threads give channels that share one and channels that do not; with more there is
  no other case for two channels.  `gateway_live` has one IO thread, as `publish()`
  needs one at a time and fairness excludes no overlap.
- `MaxRequests` bounds what a client sends; `MaxId` the rows ever inserted (2: the
  seed row and one more, which may have the same name); `MaxRestarts` the restarts
  (1: what a restart loses it loses at once).  `Limited` has one cron, which may be dead
  from the start or die at any step; the other never does.
- `MaxMenu` and `MaxRole` bound the ids ever given out; with one free id a request
  can meet a menu or role that did not exist when another began.  `Saves`,
  `Parents`, `Moves`, `Deletions` and `Changed` choose what requests name: a save whose
  operator has the menus and one whose operator has not, a save for the root, an
  empty list of roles, a role that does not exist yet, the parent of the
  one a save is at work on.  Two requests at a time are enough for a step
  of one between any two of the other; the number of requests is not bounded.  The
  proofs cover all of these.
- `MaxClicks` is 3: one dialog leaves something behind, a second does not clear it or
  is still to be filled, a third writes it.  `MaxNet` is 2: one answer overtakes
  another.  With two rows, the one a dialog was for and the one it is for differ.
  The operator has both roles there are at first; the one that can be added, and then
  edited and deleted, is not his.  `own` changes no more than what a row is listed as, a
  row at a time, and the proofs cover any choice of it.
- Symmetry is used where the members are interchangeable and only safety is
  checked (`GatewaySymmetry`, `ClientSymmetry`, and `Symmetry` of the threads and
  sessions in the two modules about roles, and of the rows of the pages).

`CHECK_DEADLOCK FALSE` is set where the system really stops: no IO thread has
anything to publish, clients fall silent, the application did not come up, all ids
of menus or roles are given out, the operator has clicked enough.

### Fairness

`DisruptorEvent`: a producer inside `publish()` and each worker go on whenever they
can (weak fairness on threads the operating system schedules); nobody has to call
`publish()`.  `Gateway`: the same for the main thread, the IO threads and the worker;
an IO thread comes round to each of its channels, whose steps its other channels
disable while it is inside `publish()`, so that strong fairness per channel and kind
of step says what the selector loop does.  Clients may do nothing, and a channel
may close at any time.  The runs of `ScheduleJob`, `RoleMenu`, `UserRole` and
`ConsolePage` check safety and assume no fairness: an operator may stop, and an
answer may never come.

## What the violated runs show

1. `disruptor_shared`: the rings are created with `ProducerType.SINGLE`
   (`DisruptorEvent.java:47`), and the four IO threads of `spring-service.xml:19` all
   publish to them.  Two threads read the same `nextValue`; one fills the slot over
   the other; one task never runs and its client gets no answer.  What `disruptor_pool`
   and `gateway` show holds as long as calls of `publish()` do not overlap, which is why
   the former has one producer and the latter two that take turns.  Until the rings are
   created with `ProducerType.MULTI`, or `publish()` is synchronized, it says what the
   gateway does when no two IO threads happen to publish to a ring at once.
2. `scheduler_deploy`: the page says that deploying a NONE job makes it NORMAL and
   starts it (`scheduler.js:92`); `scheduleJob` ignores rows that are not NORMAL and
   reports success.
3. `scheduler_start`: jobs are loaded at start for idc `DEFAULT`
   (`QuartzJobControllerImpl.java:58`), rows and page use `IDC_DEFAULT`.
4. `scheduler_paused`: updateCron on a PAUSED job starts it and leaves the row PAUSED.

## What the runs about roles show

- A role is never granted a menu its parent has not had (`GrantComesFromParent`), but
  the parent may lose it between the check and the insert, or later: nothing takes
  it from the children.  The rows the database is installed with already have one
  such grant (role 3, menu 22).
- What a save inserts, a role in its operator's session has had (`OperatorHasHad`); the
  operator may not hold that role any more.
- Role 1 may use whatever another role may (`RootCovers`), although no statement of
  `saveMenus` looks at role 1; but for two kinds of menus.  The grants of submenus of a
  menu that is being deleted go before the menus do, while a save may insert one of them
  anew.  And a deletion that was given an id before the menu was added finds no row, but
  takes the grant to role 1 of the menu that has the id by then, which another role may
  have got meanwhile.  Menus left without
  a grant to role 1 by a crash or a deletion are menus no one may use.
- A save that nothing overlapped ends with what was asked for (`SaveIsExact`), also
  on top of what a crash or another save had left half done.  For menus that means the
  menus with state 1: a save neither sees nor deletes the row of a hidden menu, and the
  role has that menu again when it is shown again.  For users it leaves the
  inactive roles they hold, which it cannot see, and stops halfway if it was asked
  to give one of those (`FailsOnlyFor`).
- The root role keeps its holders (`RootHoldersFixed`) in every order of requests.

## What the run about the pages shows

- The text a row had at first is never written to another row (`TextStaysHome`),
  whatever is late, lost or clicked in between, because the id and the text of a form
  arrive in one answer; but on the user page a row can be left blank:
  `users.clearData` (`user.js:263`) empties the fields and keeps the hidden id, so that
  saving an editor that was never filled writes to the user edited before.
- What is typed for a row can reach another one (`EditsLandHome`): on the role and menu
  pages if an editor was opened before the detail for an earlier one had arrived, on
  the user page if any answer was late or lost.  The boxes ticked (`GrantsLandHome`)
  likewise.  For an operator who waits there is no such write (`EditsLand`,
  `GrantsLand`, proved for any number of rows and requests).
- On the scheduler's page "run now" shows the last dialog with its content and button
  (`scheduler.js:207`): until the answer hides the dialog, a click in it changes the job
  that dialog was for, or adds one (`WritesAreAsked`).  A deletion confirmed there comes
  to nothing, as every deletion of that page does.
- On the role and menu pages the dialog of a deletion has no button any more once an
  editor was opened: `beforeRemove` never takes the class `none` from it
  (`ConfirmVisible` leaves this dialog out).
- The user page takes every user saved for a failure, as it looks for `result.ret`,
  which no answer has (`user.js:191`, `231`): it neither lists again nor closes its
  dialog (`ListInSync` leaves it out).
- The other pages list what the table says as soon as no write and no list is on its
  way, whether or not the operator waits (`ListInSync`), unless two lists overtook each
  other, or one was lost, which the next list that is asked for alone makes good; and but
  for the operator's own roles, which the role page goes on listing as they were when he
  logged in.
- A deleted user comes back only if the operator did not wait (`DeletedStays`): the
  state is sent with every save, from the last answer that filled the form.  A deleted
  role, which the page goes on listing, comes back whenever it is edited; but only when
  it is edited itself, unless a dialog was opened before an earlier one was filled.

## Proofs

`DisruptorEventProofs`, checked by TLAPS, for any number of producers, workers, slots and
tasks, from the assumptions on the constants in `DisruptorEvent` (a ring has a slot,
there is a thread of each kind, "no task" is not a task):

- `TypeCorrect` in every behaviour;
- in every behaviour in which the calls of `publish()` do not overlap
  (`[]SingleProducer`, see above): `RingInvariant`, that `RingInv` holds, and
  `NothingIsLost`, `RunAtMostOnce`, `NothingOverwritten`, `StackCovers`, the properties
  TLC checks on the small instances.

The hypothesis is one about behaviours and not about constants: there may be four
producers, as in `spring-service.xml`, and `disruptor_shared` shows that no weaker one
about their number would do.

`RingInv` (module `DisruptorEventInv`, checked by `disruptor_pool`) is the inductive
invariant.  None of the properties is inductive by itself.  `RoomInv` keeps the last
claimed sequence less than a round ahead of every consumer; `WorkerInv` keeps a
worker's own sequence behind the one it holds, which makes the room it leaves real;
`HoldInv` says that the compare-and-set gives a sequence to one worker; `SlotInv`
that the slots hold the last round of `accepted`, but for the one being refilled;
`HistoryInv` that `ran` has, each once, the tasks of the sequences no longer
waiting.  The step that fills a slot needs that two sequences less than a round apart
have different slots (`SlotsDiffer`), the step that starts a task that its slot still
holds its task (`SlotOfHeld`).  There is one lemma per action, with one step per
conjunct.  `stack()` takes the minimum of the gating sequences, which is a choice: that
it is one of them and not above another needs that there is a least one
(`LeastSequence`, from the well-foundedness of the natural numbers).  The backlog lies
between it and the claimed sequence, whence its cardinality (`StackCovers`).

`DisruptorQueueProofs`, for one worker (`SingleWorker`), as `TcpServer` creates the ring:
`RingImplementsQueue`, every behaviour of the ring in which calls of `publish()` do not
overlap is one of `TaskQueue` (`ImplementsTaskQueue` without its fairness).  `OrderInv` adds to `RingInv` that
`ran` is a prefix of `accepted` and that the worker holds the sequence claimed last.
`PublishCursor` maps to `Accept` (`QueueAccept`: room in the ring is room in the queue),
`StartTask` to `Begin`, `EndTask` to `Finish`, and every other step to a stutter.

`GatewayProofs`, for any number of IO threads, channels, requests and slots, and the one
worker a ring has (`WorkerAssumption`): `TypeCorrect` in every behaviour, and in those in
which the IO threads' calls of `publish()` do not overlap `GatewayInvariant`, from it
`DeviceSetBefore`, `RequestsKept` (`RequestsConserved`), `RepliesInOrder`
(`RepliesFollowRequests`) and `EachClientServed` (`EachClientAlone`), and `RequestsQueue`.
Every step of the gateway is one of the ring or leaves the ring alone
(`RingSteps`), so that the ring's invariant and its queue hold of the ring inside the
gateway; a few lemmas carry formulas from the instance `Gateway` makes of the ring to the one
the proofs are about, which are equal.  `StreamInv` says that the requests of a channel are
in the order they were sent, from the ring over the IO thread's hand to the channel's
inbox; with `OrderInv` the worker begins them in that order (`LaterTask`), and so the
device of a channel is never that of an earlier login (`ServedInv`).

That nothing is missing needs numbers.  `RequestsConserved` speaks of served channels
only and says nothing of one whose requests wait before it is active; `ConservedInv` does:
the k-th request of a channel in `accepted` has the number k, the one in
the hand of the channel's own IO thread and those in the inbox go on from there to the last one sent, and
only a channel that was given a worker has any in the ring.  It holds of single
positions too (the request at i has as number its rank among those of its channel), so
that the request the worker begins next, which is the one after `ran`, has the next
number (`RankPrefix`).  `AnsweredInv` says the same of `ran` and that responses
received and queued are those of the requests done with.  `Of` and `AnsweredOf` select a
channel's requests from a history.  No backend knows what `SelectSeq` returns, so they
are defined by position (`Subsequence`, `Rank`); what they do when a history
grows by a request is proved from cardinalities (`SubsequenceFacts`,
`SubsequenceAppend`, `OfAppend`), and `OfAssumption` in `MCGateway` compares them with
`SelectSeq` on short sequences.

For `EachClientServed` every step is a step of one channel's `Conversation` (`Send` is
`Ask`, `ChannelActive` `Admit`, the end of a task `Handle`, `Flush` `Answer`, `Disconnect`
`Close`) or unseen: taking a request into the hand and from there into the ring moves
it within `Asked` (`ClientRead`, `ClientPublish`).  `ClientRead` needs that a channel
without a worker has nothing in the ring, so that the request refused is its oldest,
`ClientEnd` that the task that ends is the channel's next, and `ClientDisconnect`
that what is done is in the ring, of which a disconnect takes nothing.  That calls of
`publish()` do not overlap is needed where a request enters a hand (`NoneHeld`) and
where one leaves it for the ring (`Held`).

`RoleMenuProofs`, for any threads, menus and tree of roles, from the
assumptions of `RoleMenu` (every role but the root has a parent, the root has
every menu the database is installed with): `GrantInvariant`, and from it
`GrantsComeFromTheParent`, `OperatorsGiveTheirOwn` and `RootCoversAll`.  The
inductive invariant `GrantInv` has three parts of its own.  `IdInv`: rows and requests
name only ids already given out, so that a new menu starts without grants.
`SaveInv`: whatever a save has read from the parent and not written yet, the parent
has had, and the root has it as long as the menu is there and not doomed.  `DeleteInv`: a
deletion takes grants only of menus that are doomed, gone or not there yet.
`RowsCovered` says of every row, also of those that no join returns, what `RootCovers`
says of those it does: a menu that is hidden may be shown again.  `CoverStable` carries the
second part over any step of another request: the root's row goes only with its menu.
`TypeCorrect` and `SavesAreExact` are about every request and every save.  For the latter
`ExactInv` says of a save at its writes that the menus of its role are those it still has
to delete and those it keeps, as long as nothing has overlapped it (`PlanInv`); and
that a save which another request joins is marked as overlapped before that request
can write to the same role (`MeetInv`), so that `OtherMenus` leaves its plan alone.

`UserRoleProofs`, for any users, roles and sessions, from the assumptions of `UserRole`
(the root's path is empty, users exist): `RootInvariant`, `RootHoldersStay`
and `TypeCorrect`.  `RootInv` adds that new roles get new ids, that the roles in a
session or a request exist, and that a save about to write does not name the root.
The argument is `RootIsNoChild`: a path that is looked for has an element and the
root's has none.  `SavesAreExact` and `FailuresHaveReasons` follow from `ExactInv` in the same
way as for menus (`MeetInv`, `PlanInv`, and `AskedInv` for what was read from the request);
the roles a save cannot see, `off`, are kept apart from those it has to delete.

`ScheduleJobProofs`, for any administrators, names, rows, crons and restarts, from the
assumptions of `ScheduleJob` (administrators are finitely many, "no row", "no job" and
the like are not rows or jobs): `TypeCorrect` and `StaysInSync`.  `TypeInv` adds to the
types the steps a request can be at (`PathInv`), and that there is an id for every row
about to be inserted (`SpaceInv`).  `SyncInv` is why `InSync` holds.  Requests that share a name or a row
have met, and their names are in drift (`MeetInv`); a name out of drift has one row at most
(`RowInv`).  So a request that met no other still knows its row, and what its own steps
have done to the job (`OwnInv`); if its name is not in drift either, Quartz has the job
of the row but for the step in hand (`StepInv`), and the row it names has its name
(`NamedInv`).  The proof first says what a request may touch (`Openings`, `StepMoves`,
`StepReaches`, `StepTouches`), from which a step leaves alone what every stranger to it knows
(`Strangers`, `NameKept`); then what it does to its own name, action by action; then
that an `updateCron` or delete which met nobody ends with row and job agreeing, so
that it may take its name out of drift (`Healing`, `EndsInSync`).  `Restart` takes the
first and the last enabled row of a name (`LoadedJob`): that there are such rows comes
from the well-foundedness of the natural numbers (`Least`).  A cron that dies, and a job
that Quartz drops for it, leave a NORMAL row with its job or with none (`Serves`), and
every other row as it was (`SyncTime`).

`ConsolePageProofs`, for any rows, requests on their way and clicks, on each of the four
pages, from the assumptions of `ConsolePage`: `HomeInvariant`, and from it `TypeCorrect` and
`TextsStayHome`.  The inductive invariant `HomeInv` says that the text in a form belongs
to the id in it, or, on the scheduler's page, to the row in the closure of the edit
button; that every update on its way and every answer to a detail carries the id its
text belongs to; and that a dialog with a form in it was opened for a row, or to add one,
so that what the operator types belongs to the id as well.  There is one lemma for each
group of steps: `ClickKeeps`, `ConfirmKeeps`, `ServeKeeps` and `TakeKeeps` for what the group
leaves alone, `ClicksHome`, `DialogHome`, `ServeHome` and `TakeHome` for the invariant.

`ConsoleOrderProofs`, from the same assumptions, has the seven other properties of
`ConsolePage`: `WritesAsked`, `EditsLand`, `GrantsLand`, `AddsClean`, `Visible`,
`ListsInSync`, `DeletedRowsStay`.  `OrderInv` is `HomeInv` and a part for each.  Buttons and
closures change at clicks only, and a click finds no dialog shown, so they are those
of the click that opened a dialog last (`OpenInv`), and a dialog shown belongs to that
click but for that of a tree (`ShownInv`); hence a confirmation is for that click, or
for what "run now" shows again while its own request is on its way (`Confirmable`).
Who waits has one message on its way at most (`CalmInv`), so whatever is filled is
filled for that click (`EditInv`, `GrantInv`), the state in the editor is the user's
(`StateInv`).  Without two lists at a time, a list on its way has read the table as it
is, or a write will be answered and ask for another (`ListInv`); this needs no one to
wait.  The proof first takes `net` for a set: what a step adds
to it and removes (`Swap`).  One lemma says so for each group of steps (`Clicks`,
`Confirmations`, `Serves`, `Callbacks`, `Touches`); the lemma of each part
(`EditKeeps`, `CleanKeeps` and so on) needs no sequence any more.

Only model-checked: liveness (`EveryTaskRuns`, `EveryRequestServed`, the fairness of
`TaskQueue` in `RingIsTaskQueue`), which is out of this prover's reach under fairness.
`gateway_live` checks it for one IO thread, and how a worker that waits is woken is
assumed (see `DisruptorEvent`).  Every invariant of a passing run is proved.

## Not modelled

The frame codec: netty's `LengthFieldBasedFrameDecoder` cuts the stream, and the
decoder above it is a straight function of one frame.  `NioClient` and `NioClient2`:
programs to try a gateway by hand, used by nothing (and `NioClient2` speaks a
protocol this gateway does not).  Users' passwords and states at login, the paths of menus and the
permissions a session caches are planned, see below.
Car information, captcha, upload, Swagger and plain models have no
state of their own that several steps could bring into disorder.  In the gateway,
`regist` and the device maps are left out: nothing calls them.  In the scheduler,
firing a job is left out, but for the last firing of a cron: it changes neither the row
nor the trigger.  Of the pages, a
user's details, search and paging are left out, which send no write, and so is the
scheduler's status link, which writes without a dialog.

Nearly all JavaScript in the repository is third-party code in readable form
(`resources/ace`, jQuery UI, bootstrap, DataTables, zTree, `swagger`, `resources/plugins`)
and not modelled; the program's own scripts are the four that `ConsolePage`
models and the table helper of `public.js` it uses.  `notice.js` belongs to no page.

## Plan

In this order, the most important first:

1. `UserSession`: passwords and states at login, the uri set loaded by
   `/manager/menu`, requests that race it, logout; composed with `RoleMenu` for
   permissions that change during a session.
2. `MenuTree`: parent paths and their rewriting when a menu moves; orphans of a
   deletion.
3. The assignment of inactive roles by `saveRoles`, whose comment
   (`UserRoleServiceImpl.java:60`) calls the ids it has read the active ones.
