-------------------------- MODULE DisruptorQueueProofs --------------------------
(***************************************************************************)
(* The ring with one worker, as TcpServer creates it, implements TaskQueue *)
(* while no two producers are in publish() at once: the task running is    *)
(* the one whose run() the worker is in.  publish() accepts a task when it *)
(* moves the cursor, and the queue's task begins and ends with the         *)
(* worker's; every other step leaves the queue alone.                      *)
(***************************************************************************)
EXTENDS DisruptorEventProofs

\* What TcpServer.initBusinessThread asks for: a pool of one thread.
SingleWorker == \A v, w \in Workers : v = w

\* One worker runs the tasks in the order of their sequences.
OrderInv ==
  /\ \A w \in Workers :
       /\ wPc[w] \in {"take", "run"} => nextSequence[w] = workSequence
       /\ wPc[w] \in {"set", "cas"}  => nextSequence[w] = workSequence + 1
       /\ Len(ran) = IF wPc[w] = "take" THEN workSequence ELSE workSequence + 1
  /\ \A i \in 1..Len(ran) : i <= Len(accepted) /\ ran[i] = accepted[i]

QueueInv == RingInv /\ OrderInv

LEMMA OrderInit == Init => OrderInv
BY DEF Init, OrderInv, InitialCursor

\* What the invariant says of the one worker there is.
LEMMA WorkerFacts ==
  ASSUME SingleWorker, RingInv, NEW w \in Workers
  PROVE  /\ \A v \in Workers : v = w
         /\ wPc \in [Workers -> {"read", "set", "cas", "take", "run"}]
         /\ nextSequence \in [Workers -> SequenceNumber]
         /\ nextSequence[w] \in Int /\ sequence[w] \in Int
         /\ workSequence \in Int /\ cursor \in Int /\ nextValue \in Int
         /\ accepted \in Seq(Task) /\ ran \in Seq(Task)
         /\ Len(accepted) = cursor + 1
<1>1. SequenceNumber \subseteq Int
  BY DEF SequenceNumber, InitialCursor
<1> QED BY <1>1 DEF SingleWorker, RingInv, TypeOK, HistoryInv

-----------------------------------------------------------------------------
(* Every step keeps the order.                                             *)

LEMMA OrderPublish ==
  ASSUME SingleWorker, QueueInv, NEW p \in Producers, PublishCursor(p)
  PROVE  OrderInv'
<1>1. PICK w \in Workers : TRUE
  BY ThreadsAssumption
<1>2. accepted \in Seq(Task) /\ task[p] \in Task /\ ran \in Seq(Task)
  BY DEF QueueInv, RingInv, TypeOK, PublishCursor
<1>3. /\ accepted' = Append(accepted, task[p])
      /\ UNCHANGED <<wPc, nextSequence, workSequence, ran>>
  BY DEF PublishCursor, workerVars
<1>4. /\ Len(accepted') = Len(accepted) + 1 /\ Len(accepted) \in Nat
      /\ \A i \in 1..Len(accepted) : accepted'[i] = accepted[i]
  BY <1>2, <1>3, AppendFacts
<1>5. ASSUME NEW i \in 1..Len(ran')
      PROVE  i <= Len(accepted') /\ ran'[i] = accepted'[i]
  <2>1. i \in 1..Len(ran) /\ i \in 1..Len(accepted) /\ ran[i] = accepted[i]
    BY <1>2, <1>3 DEF QueueInv, OrderInv
  <2> QED BY <2>1, <1>3, <1>4
<1> QED BY <1>3, <1>5 DEF QueueInv, OrderInv

LEMMA OrderWork ==
  ASSUME SingleWorker, QueueInv, NEW w \in Workers, Work(w)
  PROVE  OrderInv'
<1> USE DEF QueueInv
<1>0. /\ \A v \in Workers : v = w
      /\ wPc \in [Workers -> {"read", "set", "cas", "take", "run"}]
      /\ nextSequence \in [Workers -> SequenceNumber]
      /\ nextSequence[w] \in Int /\ workSequence \in Int /\ cursor \in Int
      /\ accepted \in Seq(Task) /\ ran \in Seq(Task)
  BY WorkerFacts
<1>1. CASE ReadWorkSequence(w)
  BY <1>0, <1>1 DEF ReadWorkSequence, OrderInv
<1>2. CASE SetSequence(w)
  BY <1>0, <1>2 DEF SetSequence, OrderInv
<1>3. CASE ClaimWork(w)
  BY <1>0, <1>3 DEF ClaimWork, OrderInv
<1>4. CASE WaitFor(w)
  BY <1>0, <1>4 DEF WaitFor, OrderInv
<1>5. CASE EndTask(w)
  BY <1>0, <1>5 DEF EndTask, OrderInv
<1>6. CASE StartTask(w)
  <2> DEFINE n == nextSequence[w]
             t == accepted[n + 1]
  <2>1. wPc[w] = "take" /\ available[w] >= nextSequence[w]
    BY <1>6 DEF StartTask
  <2>2. /\ n \in 0..cursor /\ slot[SlotOf(n)] = t /\ t \in Task
    BY <2>1, SlotOfHeld
  <2>3. /\ wPc' = [wPc EXCEPT ![w] = "run"]
        /\ ran' = Append(ran, t)
        /\ UNCHANGED <<accepted, workSequence, nextSequence>>
    BY <1>6, <2>2, TaskAssumption DEF StartTask
  <2>4. n = workSequence /\ Len(ran) = workSequence
    BY <2>1 DEF OrderInv
  <2>5. Len(accepted) = cursor + 1
    BY WorkerFacts
  <2> HIDE DEF t
  <2>6. /\ Len(ran') = Len(ran) + 1 /\ Len(ran) \in Nat
        /\ ran'[Len(ran) + 1] = t
        /\ \A i \in 1..Len(ran) : ran'[i] = ran[i]
    BY <2>2, <2>3, <1>0, AppendFacts
  <2>7. ASSUME NEW i \in 1..Len(ran')
        PROVE  i <= Len(accepted') /\ ran'[i] = accepted'[i]
    <3>1. CASE i = Len(ran) + 1
      BY <3>1, <2>2, <2>3, <2>4, <2>5, <2>6, <1>0 DEF t
    <3>2. CASE i \in 1..Len(ran)
      BY <3>2, <2>3, <2>6 DEF OrderInv
    <3> QED BY <3>1, <3>2, <2>6
  <2>8. wPc'[w] = "run" /\ nextSequence'[w] = workSequence'
        /\ Len(ran') = workSequence' + 1
    BY <2>3, <2>4, <2>6, <1>0
  <2> QED BY <2>7, <2>8, <1>0 DEF OrderInv
<1> QED BY <1>1, <1>2, <1>3, <1>4, <1>5, <1>6 DEF Work

LEMMA QueueStep ==
  ASSUME SingleWorker, SingleProducer, SingleProducer', QueueInv, [Next]_vars
  PROVE  QueueInv'
<1>1. RingInv'
  BY RingStep DEF QueueInv
<1>2. OrderInv'
  <2>1. ASSUME NEW p \in Producers, NEW t \in Task, NextSequence(p, t)
        PROVE  OrderInv'
    BY <2>1 DEF NextSequence, workerVars, QueueInv, OrderInv
  <2>2. ASSUME NEW p \in Producers, Publish(p)
        PROVE  OrderInv'
    <3>1. CASE ClaimSequence(p) \/ FillSlot(p)
      BY <3>1 DEF ClaimSequence, FillSlot, workerVars, QueueInv, OrderInv
    <3>2. CASE PublishCursor(p)
      BY <3>2, OrderPublish
    <3> QED BY <2>2, <3>1, <3>2 DEF Publish
  <2>3. ASSUME NEW w \in Workers, Work(w)
        PROVE  OrderInv'
    BY <2>3, OrderWork
  <2>4. CASE UNCHANGED vars
    BY <2>4 DEF vars, QueueInv, OrderInv
  <2> QED BY <2>1, <2>2, <2>3, <2>4 DEF Next
<1> QED BY <1>1, <1>2 DEF QueueInv

-----------------------------------------------------------------------------
(* Every step is a step of the queue, or leaves it as it is.               *)

\* What Running is.
LEMMA RunningFacts ==
  ASSUME SingleWorker, QueueInv, NEW w \in Workers
  PROVE  /\ wPc[w] # "run" => Running = NoTask
         /\ wPc[w] = "run" => /\ Running = ran[Len(ran)]
                              /\ Running # NoTask
<1>1. \A v \in Workers : v = w
  BY DEF SingleWorker
<1>2. ASSUME wPc[w] = "run"
      PROVE  ran[Len(ran)] # NoTask
  <2>1. Len(ran) = nextSequence[w] + 1 /\ nextSequence[w] \in Int
    BY <1>2, WorkerFacts DEF QueueInv, OrderInv
  <2>2. nextSequence[w] >= 0
    BY <1>2 DEF QueueInv, RingInv, WorkerInv, TypeOK, SequenceNumber,
                InitialCursor
  <2>3. Len(ran) \in 1..Len(ran) /\ ran \in Seq(Task)
    BY <2>1, <2>2, WorkerFacts DEF QueueInv
  <2>4. ran[Len(ran)] \in Task
    BY <2>3, RangeFacts
  <2> QED BY <2>4, TaskAssumption
<1> QED BY <1>1, <1>2 DEF Running

\* A step that changes no history, and neither enters nor leaves run().
LEMMA QueueStutter ==
  ASSUME UNCHANGED <<accepted, ran>>,
         \A v \in Workers : wPc'[v] = "run" <=> wPc[v] = "run"
  PROVE  UNCHANGED Queue!vars
BY DEF Queue!vars, Running

\* The room of the ring is the room of the queue.
LEMMA QueueAccept ==
  ASSUME SingleWorker, QueueInv, NEW p \in Producers, PublishCursor(p)
  PROVE  Queue!Accept(task[p])
<1> USE DEF QueueInv
<1>1. PICK w \in Workers : TRUE
  BY ThreadsAssumption
<1>2. /\ workSequence \in Int /\ cursor \in Int /\ nextValue \in Int
      /\ sequence[w] \in Int /\ nextSequence[w] \in Int
      /\ Len(accepted) = cursor + 1
      /\ BufferSize \in Nat
  BY WorkerFacts, BufferAssumption
<1>3. nextValue = cursor + 1
  BY DEF PublishCursor, RingInv, ProducerInv
<1>4. Len(ran) = IF wPc[w] = "take" THEN workSequence ELSE workSequence + 1
  BY DEF OrderInv
<1>5. /\ nextValue - BufferSize <= workSequence
      /\ nextValue - BufferSize <= sequence[w]
      /\ wPc[w] \in {"take", "run"} => sequence[w] = workSequence - 1
  BY DEF RingInv, RoomInv, HasRoom, WorkerInv, OrderInv
<1>6. Queue!Unfinished < BufferSize
  <2>1. CASE wPc[w] = "run"
    <3>1. Running # NoTask
      BY <2>1, RunningFacts
    <3> QED BY <3>1, <2>1, <1>2, <1>3, <1>4, <1>5 DEF Queue!Unfinished
  <2>2. CASE wPc[w] # "run"
    <3>1. Running = NoTask
      BY <2>2, RunningFacts
    <3> QED BY <3>1, <2>2, <1>2, <1>3, <1>4, <1>5 DEF Queue!Unfinished
  <2> QED BY <2>1, <2>2
<1>7. \A i \in 1..Len(accepted) : accepted[i] # task[p]
  <2>1. task[p] \notin Range(accepted)
    BY DEF PublishCursor, RingInv, HistoryInv
  <2>2. accepted \in Seq(Task)
    BY DEF RingInv, TypeOK
  <2> QED BY <2>1, <2>2, RangeFacts
<1>8. /\ accepted' = Append(accepted, task[p])
      /\ UNCHANGED <<ran, wPc>>
  BY DEF PublishCursor, workerVars
<1>9. UNCHANGED Running
  BY <1>8 DEF Running
<1> QED BY <1>6, <1>7, <1>8, <1>9 DEF Queue!Accept

LEMMA QueueBegin ==
  ASSUME SingleWorker, QueueInv, OrderInv', RingInv', NEW w \in Workers,
         StartTask(w)
  PROVE  Queue!Begin
<1> USE DEF QueueInv
<1> DEFINE n == nextSequence[w]
           t == accepted[n + 1]
<1>1. wPc[w] = "take" /\ available[w] >= nextSequence[w]
  BY DEF StartTask
<1>2. /\ n \in 0..cursor /\ slot[SlotOf(n)] = t /\ t \in Task
  BY <1>1, SlotOfHeld
<1>3. /\ wPc' = [wPc EXCEPT ![w] = "run"]
      /\ ran' = Append(ran, t)
      /\ UNCHANGED accepted
  BY <1>2, TaskAssumption DEF StartTask
<1>4. /\ n = Len(ran) /\ Len(accepted) = cursor + 1
      /\ wPc \in [Workers -> {"read", "set", "cas", "take", "run"}]
      /\ ran \in Seq(Task) /\ \A v \in Workers : v = w
      /\ cursor \in Int
  BY <1>1, WorkerFacts DEF OrderInv
<1>5. Running = NoTask
  BY <1>1, RunningFacts
<1> HIDE DEF t
<1>6. Len(ran') = Len(ran) + 1 /\ ran'[Len(ran) + 1] = t /\ Len(ran) \in Nat
  BY <1>2, <1>3, <1>4, AppendFacts
<1>7. Running' = t
  <2>1. wPc'[w] = "run"
    BY <1>3, <1>4
  <2>2. Running' = ran'[Len(ran')]
    BY <2>1, <1>4 DEF Running
  <2> QED BY <2>2, <1>6
<1> QED BY <1>2, <1>3, <1>4, <1>5, <1>6, <1>7 DEF Queue!Begin, t

LEMMA QueueFinish ==
  ASSUME SingleWorker, QueueInv, NEW w \in Workers, EndTask(w)
  PROVE  Queue!Finish
<1>1. wPc[w] = "run" /\ wPc' = [wPc EXCEPT ![w] = "read"]
      /\ UNCHANGED <<accepted, ran>>
  BY DEF EndTask
<1>2. Running # NoTask
  BY <1>1, RunningFacts
<1>3. Running' = NoTask
  <2>1. /\ \A v \in Workers : v = w
        /\ wPc \in [Workers -> {"read", "set", "cas", "take", "run"}]
    BY WorkerFacts DEF QueueInv
  <2> QED BY <1>1, <2>1 DEF Running
<1> QED BY <1>1, <1>2, <1>3 DEF Queue!Finish

LEMMA QueueSimulation ==
  ASSUME SingleWorker, SingleProducer, SingleProducer', QueueInv, [Next]_vars
  PROVE  [Queue!Next]_(Queue!vars)
<1>0. wPc \in [Workers -> {"read", "set", "cas", "take", "run"}]
      /\ \A p \in Producers : pPc[p] # "idle" => task[p] \in Task
  BY DEF QueueInv, RingInv, TypeOK
<1>1. ASSUME NEW p \in Producers, NEW t \in Task, NextSequence(p, t)
      PROVE  UNCHANGED Queue!vars
  BY <1>1, QueueStutter DEF NextSequence, workerVars
<1>2. ASSUME NEW p \in Producers, Publish(p)
      PROVE  [Queue!Next]_(Queue!vars)
  <2>1. CASE ClaimSequence(p) \/ FillSlot(p)
    BY <2>1, QueueStutter DEF ClaimSequence, FillSlot, workerVars
  <2>2. CASE PublishCursor(p)
    <3>1. task[p] \in Task
      BY <2>2, <1>0 DEF PublishCursor
    <3> QED BY <3>1, <2>2, QueueAccept DEF Queue!Next
  <2> QED BY <1>2, <2>1, <2>2 DEF Publish
<1>3. ASSUME NEW w \in Workers, Work(w)
      PROVE  [Queue!Next]_(Queue!vars)
  <2>1. CASE ReadWorkSequence(w)
    BY <2>1, <1>0, QueueStutter DEF ReadWorkSequence
  <2>2. CASE SetSequence(w)
    BY <2>2, <1>0, QueueStutter DEF SetSequence
  <2>3. CASE ClaimWork(w)
    <3>1. \A v \in Workers : wPc'[v] = "run" <=> wPc[v] = "run"
      BY <2>3, <1>0 DEF ClaimWork
    <3> QED BY <3>1, <2>3, QueueStutter DEF ClaimWork
  <2>4. CASE WaitFor(w)
    BY <2>4, QueueStutter DEF WaitFor
  <2>5. CASE StartTask(w)
    <3>1. QueueInv'
      BY QueueStep
    <3> QED BY <3>1, <2>5, QueueBegin DEF Queue!Next, QueueInv
  <2>6. CASE EndTask(w)
    BY <2>6, QueueFinish DEF Queue!Next
  <2> QED BY <1>3, <2>1, <2>2, <2>3, <2>4, <2>5, <2>6 DEF Work
<1>4. CASE UNCHANGED vars
  BY <1>4, QueueStutter DEF vars
<1> QED BY <1>1, <1>2, <1>3, <1>4 DEF Next

\* A ring with one worker, whose publish() is called by any number of threads
\* but never by two at once, keeps the promises of TaskQueue: publish() accepts
\* every task once and only while fewer than BufferSize are unfinished, and
\* run() takes them one at a time, in that order.  This is ImplementsTaskQueue
\* without its fairness.
THEOREM RingImplementsQueue ==
  ASSUME SingleWorker PROVE Safety /\ []SingleProducer => Queue!Safety
<1>1. Init => QueueInv
  BY RingInit, OrderInit DEF QueueInv
<1>2. Init => Queue!Init
  BY DEF Init, Queue!Init, Running
<1>3. SingleProducer /\ SingleProducer' /\ QueueInv /\ [Next]_vars => QueueInv'
  BY QueueStep
<1>4. SingleProducer /\ SingleProducer' /\ QueueInv /\ [Next]_vars
        => [Queue!Next]_(Queue!vars)
  BY QueueSimulation
<1> QED BY <1>1, <1>2, <1>3, <1>4, PTL DEF Safety, Queue!Safety
=============================================================================
