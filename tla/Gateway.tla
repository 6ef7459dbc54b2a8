------------------------------- MODULE Gateway -------------------------------
(***************************************************************************)
(* The TCP gateway of com.fitline.server: TcpServer, ServerChannelHandler, *)
(* Context, Dispatcher, LoginHandler, PingHandler and Response, around one *)
(* of the four business threads.  The channels are those whose id hashes   *)
(* to this ring (TcpServer.getBusinessThread); the other three rings serve *)
(* other channels and share nothing but the IO threads with this one.      *)
(*                                                                         *)
(* Netty (external): the boss thread accepts a connection and gives it to  *)
(* an IO thread for good; that thread runs every handler of the channel    *)
(* and every write, so it does neither while it is inside publish().       *)
(* The ring's own steps are those of DisruptorEvent, whose producers are   *)
(* the IO threads.                                                         *)
(*                                                                         *)
(* A definition commented "Mistake" is no part of the model: see           *)
(* DisruptorEvent.                                                         *)
(***************************************************************************)
EXTENDS Integers, Sequences, FiniteSets, Functions

CONSTANTS
  Channels,     \* connections
  IOThreads,    \* threads of workerGroup
  Workers,      \* threads of the ring
  BufferSize,   \* slots of the ring
  MaxRequests,  \* bound: requests a client sends on one channel
  NoRequest

ASSUME RequestsAssumption == MaxRequests \in Nat
ASSUME RingAssumption ==
  BufferSize \in Nat \ {0} /\ IOThreads # {} /\ Workers # {}

\* TcpServer.initBusinessThread gives a ring one worker.
ASSUME WorkerAssumption == \A v, w \in Workers : v = w

\* "FUTILE": a cmd without a handler, or a login whose body is empty or is no
\* JSON object.
Cmds == {"PING", "LOGIN", "FUTILE"}

Request == [chan : Channels, id : 1..MaxRequests, cmd : Cmds]

ASSUME RequestAssumption == NoRequest \notin Request

VARIABLES
  \* the ring (see DisruptorEvent)
  nextValue, cursor, slot, pPc, claimed, task, workSequence, wPc, sequence,
  nextSequence, available, accepted, ran,
  server,    \* how far TcpServer.start() and shutdown() are
  conn,      \* channel: "none", "accepted", "active" or "closed"
  io,        \* channel: its IO thread, once accepted
  context,   \* channel: ServerChannelHandler.context: none, or with or
             \* without a business thread
  device,    \* channel: Context.device, named by the login that set it; 0: null
  sent,      \* channel: requests the client has sent
  inbox,     \* channel: requests received and not read by the IO thread
  outbox,    \* channel: responses written and not flushed by the IO thread
  replies    \* channel: responses the client has received

ringVars == <<nextValue, cursor, slot, pPc, claimed, task, workSequence, wPc,
              sequence, nextSequence, available, accepted, ran>>
chanVars == <<conn, io, context, device, sent, inbox, outbox, replies>>
vars     == <<ringVars, server, chanVars>>

Ring == INSTANCE DisruptorEvent
          WITH Producers <- IOThreads, Task <- Request, NoTask <- NoRequest

Init ==
  /\ Ring!Init
  /\ server  = "new"
  /\ conn    = [c \in Channels |-> "none"]
  /\ io      \in [Channels -> IOThreads]
  /\ context = [c \in Channels |-> "null"]
  /\ device  = [c \in Channels |-> 0]
  /\ sent    = [c \in Channels |-> 0]
  /\ inbox   = [c \in Channels |-> <<>>]
  /\ outbox  = [c \in Channels |-> <<>>]
  /\ replies = [c \in Channels |-> <<>>]

-----------------------------------------------------------------------------
(* TcpServer                                                               *)

\* start(): bind is asynchronous and comes before initBusinessThread.
Bind ==
  /\ server = "new"
  /\ server' = "bound"
  /\ UNCHANGED <<ringVars, chanVars>>

\* initBusinessThread: the array is assigned first, its elements later.
AllocateRings ==
  /\ server = "bound"
  /\ server' = "allocated"
  /\ UNCHANGED <<ringVars, chanVars>>

CreateRing ==
  /\ server = "allocated"
  /\ server' = "serving"
  /\ UNCHANGED <<ringVars, chanVars>>

\* shutdown() closes the listening channel, the only member of allChannels.
\* The executors it shuts down go on running the workers they have started.
Shutdown ==
  /\ server = "serving"
  /\ server' = "closed"
  /\ UNCHANGED <<ringVars, chanVars>>

-----------------------------------------------------------------------------
(* Netty and the client                                                    *)

Accept(c) ==
  /\ server \in {"bound", "allocated", "serving"}
  /\ conn[c] = "none"
  /\ conn' = [conn EXCEPT ![c] = "accepted"]
  /\ UNCHANGED <<ringVars, server, io, context, device, sent, inbox, outbox,
                 replies>>

Send(c, cmd) ==
  /\ conn[c] \in {"accepted", "active"}
  /\ sent[c] < MaxRequests
  /\ sent'  = [sent EXCEPT ![c] = @ + 1]
  /\ inbox' = [inbox EXCEPT ![c] =
                 Append(@, [chan |-> c, id |-> sent[c] + 1, cmd |-> cmd])]
  /\ UNCHANGED <<ringVars, server, conn, io, context, device, outbox, replies>>

IOFree(c) == pPc[io[c]] = "idle"

\* What was received and not read, or written and not flushed, is dropped.
\* No handler overrides channelInactive: tasks in the ring stay there.
Disconnect(c) ==
  /\ conn[c] = "active"
  /\ IOFree(c)
  /\ conn'   = [conn EXCEPT ![c] = "closed"]
  /\ inbox'  = [inbox EXCEPT ![c] = <<>>]
  /\ outbox' = [outbox EXCEPT ![c] = <<>>]
  /\ UNCHANGED <<ringVars, server, io, context, device, sent, replies>>

Flush(c) ==
  /\ IOFree(c)
  /\ outbox[c] # <<>>
  /\ replies' = [replies EXCEPT ![c] = Append(@, Head(outbox[c]))]
  /\ outbox'  = [outbox EXCEPT ![c] = Tail(@)]
  /\ UNCHANGED <<ringVars, server, conn, io, context, device, sent, inbox>>

-----------------------------------------------------------------------------
(* ServerChannelHandler                                                    *)

\* getBusinessThread reads businessThread[code & 3]: without the array it
\* throws before the context exists; with an element not yet created the
\* context gets no worker.
ChannelActive(c) ==
  /\ conn[c] = "accepted"
  /\ IOFree(c)
  /\ conn'    = [conn EXCEPT ![c] = "active"]
  /\ context' = [context EXCEPT ![c] = CASE server = "bound"     -> "null"
                                         [] server = "allocated" -> "noWorker"
                                         [] OTHER                -> "worker"]
  /\ UNCHANGED <<ringVars, server, io, device, sent, inbox, outbox, replies>>

\* Mistake: a request is dropped when the ring is full, as tryPublish would.
ChannelReadDropping(c) ==
  /\ conn[c] = "active"
  /\ inbox[c] # <<>>
  /\ IOFree(c)
  /\ inbox' = [inbox EXCEPT ![c] = Tail(@)]
  /\ IF context[c] = "worker" /\ Ring!HasRoom(nextValue + 1)
     THEN Ring!NextSequence(io[c], Head(inbox[c]))
     ELSE UNCHANGED ringVars
  /\ UNCHANGED <<server, conn, io, context, device, sent, outbox, replies>>

\* Mistake: the worker is looked up again at each request.
ChannelReadLooking(c) ==
  /\ conn[c] = "active"
  /\ inbox[c] # <<>>
  /\ IOFree(c)
  /\ inbox' = [inbox EXCEPT ![c] = Tail(@)]
  /\ IF server \in {"serving", "closed"}
     THEN Ring!NextSequence(io[c], Head(inbox[c])) ELSE UNCHANGED ringVars
  /\ UNCHANGED <<server, conn, io, context, device, sent, outbox, replies>>

\* channelRead0 enters publish() with a task for the oldest request; without
\* a context or a worker it throws, and the request is gone.
ChannelRead(c) ==
  /\ conn[c] = "active"
  /\ inbox[c] # <<>>
  /\ IOFree(c)
  /\ inbox' = [inbox EXCEPT ![c] = Tail(@)]
  /\ \/ context[c] = "worker" /\ Ring!NextSequence(io[c], Head(inbox[c]))
     \/ context[c] # "worker" /\ UNCHANGED ringVars
  /\ UNCHANGED <<server, conn, io, context, device, sent, outbox, replies>>

-----------------------------------------------------------------------------
(* Dispatcher.process, LoginHandler, PingHandler and Response.write, in the *)
(* task a worker runs.  LoginHandler sets the device, then writes.          *)

\* The request of the task the worker is in, or NoRequest.
Running == Ring!Running

\* Dispatcher.process logs a cmd that has no handler, and a throw of one that
\* has: LoginHandler's first use of a bad body, before it does anything.
Answered(r) == r.cmd \in {"PING", "LOGIN"}

SetDevice(r) ==
  IF r.cmd = "LOGIN" THEN [device EXCEPT ![r.chan] = r.id] ELSE device

\* Mistake: a channel has one pending response.
WriteLatest(r) ==
  IF Answered(r) /\ conn[r.chan] = "active"
  THEN [outbox EXCEPT ![r.chan] = <<r>>]
  ELSE outbox

\* A write on a channel that is gone only fails its future.
Write(r) ==
  IF Answered(r) /\ conn[r.chan] = "active"
  THEN [outbox EXCEPT ![r.chan] = Append(@, r)]
  ELSE outbox

\* Mistake: the response is written before the device is set.
ProcessReplyingFirst(w) ==
  /\ \/ /\ Ring!StartTask(w)
        /\ LET r == slot[Ring!SlotOf(nextSequence[w])]
           IN  outbox' = IF r # NoRequest THEN Write(r) ELSE outbox
        /\ UNCHANGED device
     \/ /\ Ring!EndTask(w)
        /\ device' = SetDevice(Running)
        /\ UNCHANGED outbox
  /\ UNCHANGED <<server, conn, io, context, sent, inbox, replies>>

Process(w) ==
  /\ \/ /\ Ring!StartTask(w)
        /\ LET r == slot[Ring!SlotOf(nextSequence[w])]
           IN  device' = IF r # NoRequest THEN SetDevice(r) ELSE device
        /\ UNCHANGED outbox
     \/ /\ Ring!EndTask(w)
        /\ outbox' = Write(Running)
        /\ UNCHANGED device
  /\ UNCHANGED <<server, conn, io, context, sent, inbox, replies>>

\* The other steps of the worker and of publish() touch only the ring.
Publish(p) == Ring!Publish(p) /\ UNCHANGED <<server, chanVars>>

Work(w) ==
  /\ \/ Ring!ReadWorkSequence(w)
     \/ Ring!SetSequence(w)
     \/ Ring!ClaimWork(w)
     \/ Ring!WaitFor(w)
  /\ UNCHANGED <<server, chanVars>>

-----------------------------------------------------------------------------
Start == Bind \/ AllocateRings \/ CreateRing

Serve(c) == ChannelActive(c) \/ ChannelRead(c) \/ Flush(c)

Next ==
  \/ Start \/ Shutdown
  \/ \E c \in Channels : Accept(c) \/ Disconnect(c) \/ Serve(c)
  \/ \E c \in Channels, cmd \in Cmds : Send(c, cmd)
  \/ \E p \in IOThreads : Publish(p)
  \/ \E w \in Workers : Process(w) \/ Work(w)

Safety == Init /\ [][Next]_vars

\* The main thread, the IO threads and the worker are scheduled; an IO thread
\* comes round to each of its channels, whose steps the thread's other
\* channels disable while it is in publish() (strong fairness).  Clients may
\* do nothing.
Fairness ==
  /\ WF_vars(Start)
  /\ \A c \in Channels : SF_vars(ChannelActive(c)) /\ SF_vars(ChannelRead(c))
                         /\ SF_vars(Flush(c))
  /\ \A p \in IOThreads : WF_vars(Publish(p))
  /\ \A w \in Workers : WF_vars(Process(w) \/ Work(w))

Spec == Safety /\ Fairness

-----------------------------------------------------------------------------
(* Properties                                                              *)

\* Every variable of the channels has a value the code can give it.
TypeOK ==
  /\ Ring!TypeOK
  /\ server \in {"new", "bound", "allocated", "serving", "closed"}
  /\ conn    \in [Channels -> {"none", "accepted", "active", "closed"}]
  /\ io      \in [Channels -> IOThreads]
  /\ context \in [Channels -> {"null", "noWorker", "worker"}]
  /\ device  \in [Channels -> 0..MaxRequests]
  /\ sent    \in [Channels -> 0..MaxRequests]
  /\ inbox   \in [Channels -> Seq(Request)]
  /\ outbox  \in [Channels -> Seq(Request)]
  /\ replies \in [Channels -> Seq(Request)]

\* How many members of I are i or come before it.
Rank(I, i) == Cardinality({j \in I : j <= i})

\* The elements of s at the indices I, in the order of s.
Subsequence(s, I) ==
  [k \in 1..Cardinality(I) |-> s[CHOOSE i \in I : Rank(I, i) = k]]

At(c, s) == {i \in 1..Len(s) : s[i].chan = c}

AnsweredAt(c, s) == {i \in At(c, s) : Answered(s[i])}

\* The requests of channel c in s, and those of them that have a response.
Of(c, s) == Subsequence(s, At(c, s))

AnsweredOf(c, s) == Subsequence(s, AnsweredAt(c, s))

InHand(c) ==
  IF task[io[c]] # NoRequest /\ task[io[c]].chan = c
  THEN <<task[io[c]]>> ELSE <<>>

\* The requests of channel c from the ring back to the client.
Asked(c) == Of(c, accepted) \o InHand(c) \o inbox[c]

\* Back-pressure keeps requests: while the IO thread is held up in publish(),
\* or has yet to read, the requests of a served channel wait in the order
\* they were sent, and none is missing or repeated on its way to the worker.
RequestsConserved ==
  \A c \in Channels : conn[c] = "active" /\ context[c] = "worker" =>
    Len(Asked(c)) = sent[c] /\ \A i \in 1..Len(Asked(c)) : Asked(c)[i].id = i

\* The requests whose task is over.
Done == IF Running = NoRequest THEN ran ELSE SubSeq(ran, 1, Len(ran) - 1)

\* A client sees the responses of its own requests, in the order it sent them
\* and with none skipped: the worker has started the requests 1, 2, ... of the
\* channel, and the responses written are those of the ones it has done with
\* that have one.
RepliesFollowRequests ==
  \A c \in Channels : conn[c] = "active" =>
    /\ \A i \in 1..Len(Of(c, ran)) : Of(c, ran)[i].id = i
    /\ replies[c] \o outbox[c] = AnsweredOf(c, Done)

\* Once a client has the response of a login, the context of its channel holds
\* the device of that login or of a later one (LoginHandler: "Login Success
\* Set Device to Context"), whatever the channels that share the worker do.
DeviceBeforeReply ==
  \A c \in Channels : \A i \in 1..Len(replies[c]) :
    replies[c][i].cmd = "LOGIN" =>
      /\ replies[c][i].id <= device[c]
      /\ [chan |-> c, id |-> device[c], cmd |-> "LOGIN"] \in Range(ran)

Link(c) ==
  CASE conn[c] = "closed" -> "closed"
    [] conn[c] = "active" ->
         IF context[c] = "worker" THEN "served" ELSE "refused"
    [] OTHER -> "open"

Client == INSTANCE Conversation
            WITH Answerable <- {r \in Request : Answered(r)},
                 link       <- [c \in Channels |-> Link(c)],
                 asked      <- [c \in Channels |-> Asked(c)],
                 done       <- [c \in Channels |-> Len(Of(c, Done))],
                 owed       <- outbox,
                 answers    <- replies

\* Each client has a Conversation of its own: the IO thread, the ring and the
\* worker that the channels share never reorder, lose, repeat or answer the
\* requests of one because of another; a channel that became active before
\* initBusinessThread was done is refused until it closes, and what was not
\* handled or flushed before a disconnect is never answered.
EachClientAlone == Client!Safety

\* The ring the channels share is the TaskQueue their requests count on, through
\* back-pressure, disconnects and shutdown().
RingIsTaskQueue == Ring!ImplementsTaskQueue

\* Every request of a served channel is handled, and answered if it has an
\* answer, unless the channel closes: no IO thread stays in publish() for
\* ever, and no task is left in the ring, after shutdown() either.
EveryRequestServed ==
  \A c \in Channels, k \in 1..MaxRequests :
    conn[c] = "active" /\ context[c] = "worker" /\ sent[c] >= k ~>
      \/ conn[c] = "closed"
      \/ \E i \in 1..Len(ran) :
           /\ ran[i].chan = c /\ ran[i].id = k
           /\ Answered(ran[i]) => ran[i] \in Range(replies[c])

-----------------------------------------------------------------------------
(* Why these hold: the requests of a channel stay in order all the way to  *)
(* the worker.  GatewayProofs proves it.                                   *)

\* Request r was sent before request q of the same channel.
Before(r, q) == r.chan = q.chan => r.id < q.id

Ordered(s) == \A i, j \in 1..Len(s) : i < j => Before(s[i], s[j])

\* The requests accepted, in an IO thread's hand and received, in this order.
StreamInv ==
  /\ Ordered(accepted)
  /\ \A p \in IOThreads : task[p] # NoRequest =>
       /\ task[p].id <= sent[task[p].chan]
       /\ \A i \in 1..Len(accepted) : Before(accepted[i], task[p])
  /\ \A i \in 1..Len(accepted) : accepted[i].id <= sent[accepted[i].chan]
  /\ \A c \in Channels :
       /\ Ordered(inbox[c])
       /\ \A j \in 1..Len(inbox[c]) :
            /\ inbox[c][j].chan = c /\ inbox[c][j].id <= sent[c]
            /\ \A i \in 1..Len(accepted) : Before(accepted[i], inbox[c][j])
            /\ \A p \in IOThreads :
                 task[p] # NoRequest => Before(task[p], inbox[c][j])

\* A channel's device is that of the last login the worker has begun, and
\* every response is one to such a request.
ServedInv ==
  /\ \A c \in Channels :
       device[c] # 0 => [chan |-> c, id |-> device[c], cmd |-> "LOGIN"]
                          \in Range(ran)
  /\ \A i \in 1..Len(ran) : ran[i].cmd = "LOGIN" =>
       ran[i].id <= device[ran[i].chan]
  /\ \A c \in Channels :
       /\ \A i \in 1..Len(outbox[c]) :
            outbox[c][i].chan = c /\ outbox[c][i] \in Range(ran)
       /\ \A i \in 1..Len(replies[c]) :
            replies[c][i].chan = c /\ replies[c][i] \in Range(ran)

\* A channel whose requests are not dropped: it has yet to become active, or
\* it has a worker.
Served(c) ==
  conn[c] # "closed" /\ (conn[c] = "active" => context[c] = "worker")

\* A channel that has requests in the ring: it has, or had, a worker.
Admitted(c) == conn[c] \in {"active", "closed"} /\ context[c] = "worker"

\* The requests of a channel are numbered 1, 2, ... where they enter the ring,
\* by way of the channel's own IO thread; those a served channel has yet to
\* read go on from there to the last one sent, and only channels that have been
\* given a worker have any in the ring.
ConservedInv ==
  /\ \A i \in 1..Len(accepted) :
       /\ Admitted(accepted[i].chan)
       /\ accepted[i].id = Rank(At(accepted[i].chan, accepted), i)
  /\ \A p \in IOThreads : task[p] # NoRequest =>
       /\ Admitted(task[p].chan) /\ io[task[p].chan] = p
       /\ task[p].id = Len(Of(task[p].chan, accepted)) + 1
  /\ \A c \in Channels :
       /\ \A k \in 1..Len(Of(c, accepted)) : Of(c, accepted)[k].id = k
       /\ Served(c) =>
            LET taken == Len(Of(c, accepted)) + Len(InHand(c))
            IN  /\ sent[c] = taken + Len(inbox[c])
                /\ \A j \in 1..Len(inbox[c]) : inbox[c][j].id = taken + j

\* The worker starts the requests of a channel in that order, and the channel
\* holds the responses of those done until it closes.
AnsweredInv ==
  \A c \in Channels :
    /\ \A k \in 1..Len(Of(c, ran)) : Of(c, ran)[k].id = k
    /\ conn[c] # "closed" => replies[c] \o outbox[c] = AnsweredOf(c, Done)
=============================================================================
