---------------------------- MODULE DisruptorEvent ----------------------------
(***************************************************************************)
(* com.fitline.server.disruptor.DisruptorEvent: a pre-allocated ring of    *)
(* BufferSize events (LMAX disruptor 3.2.0) created with                   *)
(* ProducerType.SINGLE, and a WorkerPool whose threads run the events.     *)
(*                                                                         *)
(* publish() is four steps, because other threads can run between them:    *)
(*   NextSequence   buffer.next() reads nextValue, a plain field;          *)
(*   ClaimSequence  buffer.next() has waited for the slowest consumer and  *)
(*                  writes nextValue back;                                 *)
(*   FillSlot       buffer.get(next) and setEvent(event);                  *)
(*   PublishCursor  buffer.publish(next), in the finally block.            *)
(* A worker repeats: read the shared workSequence and set its own sequence *)
(* behind it, claim the next sequence by compare-and-set, wait until the   *)
(* cursor has reached it, run the event found in the slot.                 *)
(*                                                                         *)
(* The sequences never wrap: they are 64-bit.  Reading the gating          *)
(* sequences one after the other is modelled as reading their minimum at   *)
(* once: each only grows, so a slow read can only make the producer wait   *)
(* longer.                                                                 *)
(*                                                                         *)
(* The definitions commented "Mistake" are no part of the model: each is a *)
(* plausible slip in the definition after it, which a run must notice when *)
(* it takes its place.                                                     *)
(***************************************************************************)
EXTENDS Integers, Sequences, FiniteSets, Functions, FiniteSetsExt

CONSTANTS
  Producers,   \* threads that call publish()
  Workers,     \* threads of the WorkerPool
  BufferSize,  \* slots of the ring
  Task,        \* the Runnables: every call of publish() gets a new one
  NoTask       \* the content of a slot never filled

ASSUME BufferAssumption  == BufferSize \in Nat \ {0}
ASSUME ThreadsAssumption == Workers # {} /\ Producers # {}
ASSUME TaskAssumption    == NoTask \notin Task

VARIABLES
  nextValue,     \* SingleProducerSequencer: last sequence claimed by next()
  cursor,        \* SingleProducerSequencer: last sequence published
  slot,          \* the Event objects: [0..BufferSize-1 -> Task or NoTask]
  pPc,           \* producer: where it is in publish()
  claimed,       \* producer: local variable next of publish()
  task,          \* producer: argument event of publish()
  workSequence,  \* WorkerPool: last sequence claimed by any worker
  wPc,           \* worker: where it is in the loop of WorkProcessor.run
  sequence,      \* worker: its gating sequence
  nextSequence,  \* worker: local variable nextSequence
  available,     \* worker: local variable cachedAvailableSequence
  accepted,      \* history: tasks in the order publish() made them visible
  ran            \* history: tasks in the order they began to run

producerVars == <<nextValue, pPc, claimed, task>>
workerVars   == <<workSequence, wPc, sequence, nextSequence, available>>
vars == <<nextValue, cursor, slot, pPc, claimed, task, workSequence, wPc,
          sequence, nextSequence, available, accepted, ran>>

Slots == 0..(BufferSize - 1)

SlotOf(s) == s % BufferSize

InitialCursor == -1

\* Tasks that some call of publish() has already received.
Submitted == Range(accepted) \cup {task[p] : p \in Producers}

Init ==
  /\ nextValue    = InitialCursor
  /\ cursor       = InitialCursor
  /\ slot         = [i \in Slots |-> NoTask]
  /\ pPc          = [p \in Producers |-> "idle"]
  /\ claimed      = [p \in Producers |-> InitialCursor]
  /\ task         = [p \in Producers |-> NoTask]
  /\ workSequence = InitialCursor
  /\ wPc          = [w \in Workers |-> "read"]
  /\ sequence     = [w \in Workers |-> InitialCursor]
  /\ nextSequence = [w \in Workers |-> InitialCursor]
  /\ available    = [w \in Workers |-> InitialCursor]
  /\ accepted     = <<>>
  /\ ran          = <<>>

-----------------------------------------------------------------------------
(* publish()                                                               *)

NextSequence(p, t) ==
  /\ pPc[p] = "idle"
  /\ t \notin Submitted
  /\ task'    = [task EXCEPT ![p] = t]
  /\ claimed' = [claimed EXCEPT ![p] = nextValue + 1]
  /\ pPc'     = [pPc EXCEPT ![p] = "claim"]
  /\ UNCHANGED <<nextValue, cursor, slot, workerVars, accepted, ran>>

\* Mistake: addGatingSequences without the workers' own sequences.
HasRoomOfPool(s) == s - BufferSize <= workSequence

\* next() parks while the slot of the new sequence may still be in use: the
\* gating sequences are those of the workers and the shared workSequence.
HasRoom(s) ==
  /\ s - BufferSize <= workSequence
  /\ \A w \in Workers : s - BufferSize <= sequence[w]

ClaimSequence(p) ==
  /\ pPc[p] = "claim"
  /\ HasRoom(claimed[p])
  /\ nextValue' = claimed[p]
  /\ pPc'       = [pPc EXCEPT ![p] = "fill"]
  /\ UNCHANGED <<claimed, task, cursor, slot, workerVars, accepted, ran>>

FillSlot(p) ==
  /\ pPc[p] = "fill"
  /\ slot' = [slot EXCEPT ![SlotOf(claimed[p])] = task[p]]
  /\ pPc'  = [pPc EXCEPT ![p] = "publish"]
  /\ UNCHANGED <<nextValue, claimed, task, cursor, workerVars, accepted, ran>>

PublishCursor(p) ==
  /\ pPc[p] = "publish"
  /\ cursor'   = claimed[p]
  /\ accepted' = Append(accepted, task[p])
  /\ task'     = [task EXCEPT ![p] = NoTask]
  /\ pPc'      = [pPc EXCEPT ![p] = "idle"]
  /\ UNCHANGED <<nextValue, claimed, slot, workerVars, ran>>

-----------------------------------------------------------------------------
(* WorkProcessor.run()                                                     *)

\* Mistake: the worker takes the sequence that was claimed last.
ReadWorkSequenceLast(w) ==
  /\ wPc[w] = "read"
  /\ nextSequence' = [nextSequence EXCEPT ![w] = workSequence]
  /\ wPc'          = [wPc EXCEPT ![w] = "set"]
  /\ UNCHANGED <<producerVars, cursor, slot, workSequence, sequence, available,
                 accepted, ran>>

ReadWorkSequence(w) ==
  /\ wPc[w] = "read"
  /\ nextSequence' = [nextSequence EXCEPT ![w] = workSequence + 1]
  /\ wPc'          = [wPc EXCEPT ![w] = "set"]
  /\ UNCHANGED <<producerVars, cursor, slot, workSequence, sequence, available,
                 accepted, ran>>

\* Mistake: the worker's own sequence already counts the event it wants.
SetSequenceAhead(w) ==
  /\ wPc[w] = "set"
  /\ sequence' = [sequence EXCEPT ![w] = nextSequence[w]]
  /\ wPc'      = [wPc EXCEPT ![w] = "cas"]
  /\ UNCHANGED <<producerVars, cursor, slot, workSequence, nextSequence,
                 available, accepted, ran>>

SetSequence(w) ==
  /\ wPc[w] = "set"
  /\ sequence' = [sequence EXCEPT ![w] = nextSequence[w] - 1]
  /\ wPc'      = [wPc EXCEPT ![w] = "cas"]
  /\ UNCHANGED <<producerVars, cursor, slot, workSequence, nextSequence,
                 available, accepted, ran>>

\* Mistake: set instead of compareAndSet.
ClaimWorkBlindly(w) ==
  /\ wPc[w] = "cas"
  /\ workSequence' = nextSequence[w]
  /\ wPc' = [wPc EXCEPT ![w] = "take"]
  /\ UNCHANGED <<producerVars, cursor, slot, sequence, nextSequence, available,
                 accepted, ran>>

ClaimWork(w) ==
  /\ wPc[w] = "cas"
  /\ IF workSequence = nextSequence[w] - 1
     THEN /\ workSequence' = nextSequence[w]
          /\ wPc' = [wPc EXCEPT ![w] = "take"]
     ELSE /\ wPc' = [wPc EXCEPT ![w] = "read"]
          /\ UNCHANGED workSequence
  /\ UNCHANGED <<producerVars, cursor, slot, sequence, nextSequence, available,
                 accepted, ran>>

\* Mistake: the worker waits until the cursor has passed its sequence.
WaitForMore(w) ==
  /\ wPc[w] = "take"
  /\ available[w] < nextSequence[w]
  /\ cursor > nextSequence[w]
  /\ available' = [available EXCEPT ![w] = cursor]
  /\ UNCHANGED <<producerVars, cursor, slot, workSequence, wPc, sequence,
                 nextSequence, accepted, ran>>

\* Blocks until the cursor has reached the claimed sequence.
WaitFor(w) ==
  /\ wPc[w] = "take"
  /\ available[w] < nextSequence[w]
  /\ cursor >= nextSequence[w]
  /\ available' = [available EXCEPT ![w] = cursor]
  /\ UNCHANGED <<producerVars, cursor, slot, workSequence, wPc, sequence,
                 nextSequence, accepted, ran>>

\* Mistake: the worker runs the event without waiting for it.
StartTaskEarly(w) ==
  /\ wPc[w] = "take"
  /\ LET t == slot[SlotOf(nextSequence[w])]
     IN  IF t = NoTask
         THEN /\ wPc' = [wPc EXCEPT ![w] = "read"]
              /\ UNCHANGED ran
         ELSE /\ wPc' = [wPc EXCEPT ![w] = "run"]
              /\ ran' = Append(ran, t)
  /\ UNCHANGED <<producerVars, cursor, slot, workSequence, sequence,
                 nextSequence, available, accepted>>

\* EventWorkHandler.onEvent.  A slot never filled holds no Runnable: the
\* NullPointerException goes to IgnoreExceptionHandler and nothing runs.
StartTask(w) ==
  /\ wPc[w] = "take"
  /\ available[w] >= nextSequence[w]
  /\ LET t == slot[SlotOf(nextSequence[w])]
     IN  IF t = NoTask
         THEN /\ wPc' = [wPc EXCEPT ![w] = "read"]
              /\ UNCHANGED ran
         ELSE /\ wPc' = [wPc EXCEPT ![w] = "run"]
              /\ ran' = Append(ran, t)
  /\ UNCHANGED <<producerVars, cursor, slot, workSequence, sequence,
                 nextSequence, available, accepted>>

\* The Runnable returns, or throws into IgnoreExceptionHandler.
EndTask(w) ==
  /\ wPc[w] = "run"
  /\ wPc' = [wPc EXCEPT ![w] = "read"]
  /\ UNCHANGED <<producerVars, cursor, slot, workSequence, sequence,
                 nextSequence, available, accepted, ran>>

-----------------------------------------------------------------------------
Publish(p) ==
  \/ ClaimSequence(p)
  \/ FillSlot(p)
  \/ PublishCursor(p)

Work(w) ==
  \/ ReadWorkSequence(w)
  \/ SetSequence(w)
  \/ ClaimWork(w)
  \/ WaitFor(w)
  \/ StartTask(w)
  \/ EndTask(w)

Next ==
  \/ \E p \in Producers, t \in Task : NextSequence(p, t)
  \/ \E p \in Producers : Publish(p)
  \/ \E w \in Workers : Work(w)

Safety == Init /\ [][Next]_vars

\* Every thread is scheduled: a producer that has entered publish() and a
\* worker go on whenever they can.  Nobody has to call publish().
Fairness ==
  /\ \A p \in Producers : WF_vars(Publish(p))
  /\ \A w \in Workers : WF_vars(Work(w))

Spec == Safety /\ Fairness

\* What ProducerType.SINGLE asks of its callers: the calls of publish() do not
\* overlap.  Nothing in publish() sees to it.
SingleProducer ==
  \A p, q \in Producers : pPc[p] # "idle" /\ pPc[q] # "idle" => p = q

-----------------------------------------------------------------------------
(* stack(): size - remainingCapacity(), the claimed sequences the slowest  *)
(* gating sequence has not passed.                                         *)

\* Mistake: only the shared workSequence gates the ring.
GatingOfPool == {nextValue, workSequence}

Gating == {nextValue, workSequence} \cup Range(sequence)

Stack == nextValue - Min(Gating)

-----------------------------------------------------------------------------
(* Properties                                                              *)

SequenceNumber == Nat \cup {InitialCursor}

\* Every variable of the ring, of publish() and of WorkProcessor.run has a
\* value the code can give it.
TypeOK ==
  /\ nextValue    \in SequenceNumber
  /\ cursor       \in SequenceNumber
  /\ slot         \in [Slots -> Task \cup {NoTask}]
  /\ pPc          \in [Producers -> {"idle", "claim", "fill", "publish"}]
  /\ claimed      \in [Producers -> SequenceNumber]
  /\ task         \in [Producers -> Task \cup {NoTask}]
  /\ \A p \in Producers : pPc[p] = "idle" <=> task[p] = NoTask
  /\ workSequence \in SequenceNumber
  /\ wPc          \in [Workers -> {"read", "set", "cas", "take", "run"}]
  /\ sequence     \in [Workers -> SequenceNumber]
  /\ nextSequence \in [Workers -> SequenceNumber]
  /\ available    \in [Workers -> SequenceNumber]
  /\ accepted     \in Seq(Task)
  /\ ran          \in Seq(Task)

\* A worker holds the sequence it has claimed until its task is over.
Holds(w, s) == wPc[w] \in {"take", "run"} /\ nextSequence[w] = s

\* The Runnable published with sequence s has not begun to run, and some
\* worker holds s or the pool has yet to claim it.
Waiting(s) ==
  \/ s > workSequence
  \/ \E w \in Workers : wPc[w] = "take" /\ nextSequence[w] = s

\* publish() loses nothing: a task it has made visible has begun to run, or
\* it is still in the slot of its sequence and a worker will come to it.
NothingLost ==
  \A i \in 1..Len(accepted) :
    \/ accepted[i] \in Range(ran)
    \/ slot[SlotOf(i - 1)] = accepted[i] /\ Waiting(i - 1) /\ i - 1 <= cursor

\* A task is run at most once, whichever workers compete for it, and never
\* before publish() has made it visible.
AtMostOnce ==
  /\ IsInjective(ran)
  /\ Range(ran) \subseteq Range(accepted)

\* setEvent never replaces a task that has yet to begin, nor one whose worker
\* is still inside its run(): a producer about to fill a slot finds it free.
NoOverwrite ==
  \A p \in Producers : pPc[p] = "fill" =>
    LET old == slot[SlotOf(claimed[p])]
    IN  old # NoTask =>
          /\ old \in Range(ran)
          /\ \A w \in Workers : wPc[w] = "run" =>
               SlotOf(nextSequence[w]) # SlotOf(claimed[p])

\* Tasks visible to the workers whose run() is not over.
Backlog ==
  {i \in 1..Len(accepted) : Waiting(i - 1)
                            \/ \E w \in Workers : Holds(w, i - 1)}

\* What stack() reports is never less than the tasks waiting or running, and
\* never more than the ring holds.
StackCoversBacklog == Cardinality(Backlog) <= Stack /\ Stack <= BufferSize

\* A task handed to publish() is eventually run.
EveryTaskRuns ==
  \A t \in Task : t \in Submitted ~> t \in Range(ran)

-----------------------------------------------------------------------------
(* With one worker, as TcpServer creates it, the ring is a TaskQueue: the  *)
(* task running is the one whose run() the worker is in.                   *)

Running ==
  IF \A w \in Workers : wPc[w] # "run" THEN NoTask ELSE ran[Len(ran)]

Queue == INSTANCE TaskQueue WITH Capacity <- BufferSize, running <- Running

\* The business thread runs the tasks one at a time, each once, in the order
\* publish() accepted them, with at most BufferSize unfinished, and goes on
\* while there is one.
ImplementsTaskQueue == Queue!Spec
=============================================================================
