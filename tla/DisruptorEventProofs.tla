-------------------------- MODULE DisruptorEventProofs --------------------------
(***************************************************************************)
(* Proofs about DisruptorEvent for any number of producers, workers, slots *)
(* and tasks.  Every behaviour keeps the types.  While no two producers    *)
(* are in publish() at once, RingInv is inductive, and implies that no     *)
(* task is lost, none is run twice and none is overwritten.                *)
(***************************************************************************)
EXTENDS DisruptorEventInv, FiniteSetTheorems, WellFoundedInduction, TLAPS

-----------------------------------------------------------------------------
(* Slots.                                                                  *)

\* What div and mod are.
LEMMA Division ==
  ASSUME NEW B \in Nat \ {0}, NEW s \in Nat
  PROVE  /\ s = B * (s \div B) + (s % B)
         /\ s \div B \in Int
         /\ s % B \in 0..(B - 1)
OBVIOUS

\* Two sequences less than a round apart have different slots.
LEMMA SlotsDiffer ==
  ASSUME NEW s \in Nat, NEW c \in Nat, s < c, c < s + BufferSize
  PROVE  SlotOf(s) # SlotOf(c)
<1> DEFINE B == BufferSize
           q == c \div B
           r == s \div B
<1>0. B \in Nat \ {0}
  BY BufferAssumption
<1>1. s = B * r + (s % B) /\ r \in Int /\ s % B \in Int
  BY <1>0, Division
<1>2. c = B * q + (c % B) /\ q \in Int
  BY <1>0, Division
<1>3. SUFFICES ASSUME s % B = c % B PROVE FALSE
  BY DEF SlotOf
<1> HIDE DEF B, q, r
<1>4. c - s = B * (q - r)
  <2>1. c - s = B * q - B * r
    BY <1>0, <1>1, <1>2, <1>3
  <2>2. B * q - B * r = B * (q - r)
    BY <1>0, <1>1, <1>2
  <2> QED BY <2>1, <2>2
<1>5. 0 < B * (q - r) /\ B * (q - r) < B
  BY <1>0, <1>4 DEF B
<1>6. CASE q - r <= 0
  <2>1. B * (q - r) <= 0
    BY <1>6, <1>0, <1>1, <1>2
  <2> QED BY <2>1, <1>5, <1>0, <1>1, <1>2
<1>7. CASE q - r >= 1
  <2>1. B * (q - r) >= B
    BY <1>7, <1>0, <1>1, <1>2
  <2> QED BY <2>1, <1>5, <1>0, <1>1, <1>2
<1> QED BY <1>6, <1>7, <1>1, <1>2

\* A sequence and the one a round earlier have the same slot.
LEMMA SlotsRepeat ==
  ASSUME NEW s \in Nat
  PROVE  SlotOf(s + BufferSize) = SlotOf(s)
<1> DEFINE B == BufferSize
           c == s + B
           q == c \div B
           r == s \div B
<1>0. B \in Nat \ {0} /\ c \in Nat
  BY BufferAssumption
<1>1. s = B * r + (s % B) /\ r \in Int /\ s % B \in 0..(B - 1)
  BY <1>0, Division
<1>2. c = B * q + (c % B) /\ q \in Int /\ c % B \in 0..(B - 1)
  BY <1>0, Division
<1>c. c = s + B
  OBVIOUS
<1> HIDE DEF B, c, q, r
<1>3. B * (q - r - 1) = (s % B) - (c % B)
  <2>1. B * (q - r - 1) = B * q - B * r - B
    BY <1>0, <1>1, <1>2
  <2> QED BY <2>1, <1>0, <1>1, <1>2, <1>c
<1>4. q - r - 1 = 0
  <2>1. CASE q - r - 1 >= 1
    <3>1. B * (q - r - 1) >= B
      BY <2>1, <1>0, <1>1, <1>2
    <3> QED BY <3>1, <1>3, <1>0, <1>1, <1>2
  <2>2. CASE q - r - 1 <= -1
    <3>1. B * (q - r - 1) <= -B
      BY <2>2, <1>0, <1>1, <1>2
    <3> QED BY <3>1, <1>3, <1>0, <1>1, <1>2
  <2> QED BY <2>1, <2>2, <1>1, <1>2
<1>5. s % B = c % B
  BY <1>3, <1>4, <1>0, <1>1, <1>2
<1> QED BY <1>5 DEF SlotOf, B, c

\* Every sequence has a slot, and the first round has its own.
LEMMA SlotOfSlot ==
  ASSUME NEW s \in Nat
  PROVE  SlotOf(s) \in Slots /\ (s < BufferSize => SlotOf(s) = s)
<1>1. SlotOf(s) \in Slots
  BY BufferAssumption, Division DEF SlotOf, Slots
<1>2. ASSUME s < BufferSize PROVE SlotOf(s) = s
  BY <1>2, BufferAssumption DEF SlotOf
<1> QED BY <1>1, <1>2

-----------------------------------------------------------------------------
(* Sequences.                                                              *)

\* Appending an element adds it to the range, and keeps a sequence injective
\* if it was not there.
LEMMA AppendFacts ==
  ASSUME NEW S, NEW q \in Seq(S), NEW e \in S
  PROVE  /\ Append(q, e) \in Seq(S)
         /\ Len(Append(q, e)) = Len(q) + 1
         /\ Append(q, e)[Len(q) + 1] = e
         /\ \A i \in 1..Len(q) : Append(q, e)[i] = q[i]
         /\ Range(Append(q, e)) = Range(q) \cup {e}
         /\ IsInjective(q) /\ e \notin Range(q) => IsInjective(Append(q, e))
<1>1. /\ Append(q, e) \in Seq(S)
      /\ Len(q) \in Nat
      /\ Len(Append(q, e)) = Len(q) + 1
      /\ Append(q, e)[Len(q) + 1] = e
      /\ \A i \in 1..Len(q) : Append(q, e)[i] = q[i]
  OBVIOUS
<1>2. DOMAIN q = 1..Len(q) /\ DOMAIN Append(q, e) = 1..(Len(q) + 1)
  OBVIOUS
<1>3. Range(Append(q, e)) = Range(q) \cup {e}
  BY <1>1, <1>2 DEF Range
<1>4. ASSUME IsInjective(q), e \notin Range(q)
      PROVE  IsInjective(Append(q, e))
  <2> SUFFICES ASSUME NEW i \in 1..(Len(q) + 1), NEW j \in 1..(Len(q) + 1),
                      Append(q, e)[i] = Append(q, e)[j]
               PROVE  i = j
    BY <1>2 DEF IsInjective
  <2>1. \A k \in 1..Len(q) : q[k] # e
    BY <1>2, <1>4 DEF Range
  <2>2. CASE i \in 1..Len(q) /\ j \in 1..Len(q)
    BY <2>2, <1>1, <1>2, <1>4 DEF IsInjective
  <2>3. CASE i = Len(q) + 1 \/ j = Len(q) + 1
    BY <2>3, <2>1, <1>1
  <2> QED BY <2>2, <2>3, <1>1
<1> QED BY <1>1, <1>3, <1>4

\* The range of a sequence is what its positions hold.
LEMMA RangeFacts ==
  ASSUME NEW S, NEW q \in Seq(S)
  PROVE  /\ \A i \in 1..Len(q) : q[i] \in Range(q) /\ q[i] \in S
         /\ \A e \in Range(q) : \E i \in 1..Len(q) : q[i] = e
         /\ IsInjective(q) <=> \A i, j \in 1..Len(q) : q[i] = q[j] => i = j
         /\ Len(q) \in Nat
<1>1. DOMAIN q = 1..Len(q) /\ Len(q) \in Nat
  OBVIOUS
<1> QED BY <1>1 DEF Range, IsInjective

-----------------------------------------------------------------------------
(* The invariant holds initially.                                          *)

LEMMA RingInit == Init => RingInv
<1> SUFFICES ASSUME Init PROVE RingInv
  OBVIOUS
<1> USE BufferAssumption, ThreadsAssumption, TaskAssumption
        DEF Init, InitialCursor
<1>1. TypeOK
  BY DEF TypeOK, SequenceNumber
<1>2. ProducerInv /\ RoomInv /\ WorkerInv /\ HoldInv
  BY DEF ProducerInv, RoomInv, HasRoom, WorkerInv, HoldInv
<1>3. SlotInv
  BY DEF SlotInv, Filling
<1>4. HistoryInv
  BY DEF HistoryInv, IsInjective
<1> QED BY <1>1, <1>2, <1>3, <1>4 DEF RingInv

-----------------------------------------------------------------------------
(* publish() preserves it.                                                 *)

\* A producer in publish() is there alone.
LEMMA AloneInPublish ==
  ASSUME SingleProducer, NEW p \in Producers, pPc[p] # "idle"
  PROVE  \A q \in Producers : q # p => pPc[q] = "idle"
BY DEF SingleProducer

\* The cursor is at most one sequence behind the claimed one.
LEMMA CursorBehind ==
  ASSUME RingInv
  PROVE  /\ cursor \in Int /\ nextValue \in Int
         /\ nextValue \in {cursor, cursor + 1}
<1>1. cursor \in Int /\ nextValue \in Int
      /\ \A p \in Producers : pPc[p] \in {"idle", "claim", "fill", "publish"}
  BY DEF RingInv, TypeOK, SequenceNumber, InitialCursor
<1> QED BY <1>1 DEF RingInv, ProducerInv

LEMMA NextSequenceStep ==
  ASSUME SingleProducer', RingInv, NEW p \in Producers, NEW t \in Task,
         NextSequence(p, t)
  PROVE  RingInv'
<1>0. /\ \A q \in Producers : pPc[q] = "idle"
      /\ pPc' = [pPc EXCEPT ![p] = "claim"]
      /\ pPc \in [Producers -> {"idle", "claim", "fill", "publish"}]
  <2>1. /\ pPc \in [Producers -> {"idle", "claim", "fill", "publish"}]
        /\ pPc' = [pPc EXCEPT ![p] = "claim"] /\ pPc[p] = "idle"
    BY DEF RingInv, TypeOK, NextSequence
  <2> QED BY <2>1 DEF SingleProducer
<1> USE BufferAssumption, TaskAssumption DEF RingInv, NextSequence, workerVars
<1>1. TypeOK'
  <2>1. nextValue + 1 \in SequenceNumber
    BY DEF TypeOK, SequenceNumber, InitialCursor
  <2>2. /\ claimed' \in [Producers -> SequenceNumber]
        /\ task' \in [Producers -> Task \cup {NoTask}]
        /\ pPc' \in [Producers -> {"idle", "claim", "fill", "publish"}]
    BY <2>1 DEF TypeOK
  <2>3. \A q \in Producers : pPc'[q] = "idle" <=> task'[q] = NoTask
    BY DEF TypeOK
  <2> QED BY <2>2, <2>3 DEF TypeOK
<1>2. ProducerInv'
  BY <1>0 DEF ProducerInv, TypeOK, SequenceNumber
<1>3. RoomInv' /\ WorkerInv' /\ HoldInv'
  BY DEF RoomInv, HasRoom, WorkerInv, HoldInv
<1>4. SlotInv'
  BY <1>0 DEF SlotInv, Filling, SlotOf
<1>5. HistoryInv'
  <2>1. t \notin Range(accepted)
    BY DEF Submitted
  <2>2. \A q \in Producers : pPc'[q] # "idle" => task'[q] \notin Range(accepted)
    BY <1>0, <2>1 DEF TypeOK
  <2>3. UNCHANGED <<accepted, ran, cursor, workSequence>>
        /\ \A s : Waiting(s)' <=> Waiting(s)
    BY DEF Waiting
  <2> HIDE DEF NextSequence
  <2> QED BY <2>2, <2>3 DEF HistoryInv
<1> QED BY <1>1, <1>2, <1>3, <1>4, <1>5

LEMMA ClaimSequenceStep ==
  ASSUME SingleProducer, RingInv, NEW p \in Producers, ClaimSequence(p)
  PROVE  RingInv'
<1>0. /\ \A q \in Producers : q # p => pPc[q] = "idle"
      /\ pPc[p] = "claim" /\ pPc' = [pPc EXCEPT ![p] = "fill"]
      /\ pPc \in [Producers -> {"idle", "claim", "fill", "publish"}]
  BY AloneInPublish DEF RingInv, TypeOK, ClaimSequence
<1> USE BufferAssumption, TaskAssumption DEF RingInv, ClaimSequence, workerVars
<1>1. TypeOK'
  BY DEF TypeOK, SequenceNumber
<1>2. ProducerInv'
  <2>1. nextValue = cursor
    BY <1>0 DEF ProducerInv
  <2> QED BY <1>0, <2>1 DEF ProducerInv
<1>3. RoomInv' /\ WorkerInv' /\ HoldInv'
  BY DEF RoomInv, HasRoom, WorkerInv, HoldInv
<1>4. SlotInv'
  BY <1>0 DEF SlotInv, Filling, SlotOf
<1>5. HistoryInv'
  BY <1>0 DEF HistoryInv, Waiting
<1> QED BY <1>1, <1>2, <1>3, <1>4, <1>5

\* setEvent changes the slot of the claimed sequence only, which is that of
\* the one sequence that leaves the round.
LEMMA FillSlotStep ==
  ASSUME SingleProducer, RingInv, NEW p \in Producers, FillSlot(p)
  PROVE  RingInv'
<1>0. /\ \A q \in Producers : q # p => pPc[q] = "idle"
      /\ pPc[p] = "fill" /\ pPc' = [pPc EXCEPT ![p] = "publish"]
      /\ pPc \in [Producers -> {"idle", "claim", "fill", "publish"}]
  BY AloneInPublish DEF RingInv, TypeOK, FillSlot
<1> USE BufferAssumption, TaskAssumption DEF RingInv, FillSlot, workerVars
<1>1. TypeOK'
  BY DEF TypeOK, SequenceNumber
<1>2. ProducerInv'
  BY <1>0 DEF ProducerInv
<1>3. RoomInv' /\ WorkerInv' /\ HoldInv'
  BY DEF RoomInv, HasRoom, WorkerInv, HoldInv
<1>4. SlotInv'
  <2> DEFINE c == claimed[p]
  <2>1. c = cursor + 1 /\ c \in Nat /\ cursor \in SequenceNumber
    BY DEF ProducerInv, TypeOK, SequenceNumber, InitialCursor
  <2>2. /\ \A s : ~Filling(s)
        /\ \A s : Filling(s)' <=> s = c
    BY <1>0 DEF Filling
  <2>3. SlotOf(c) \in Slots
    BY <2>1, SlotOfSlot
  <2>4. slot' = [slot EXCEPT ![SlotOf(c)] = task[p]] /\ slot \in [Slots -> Task \cup {NoTask}]
    BY DEF TypeOK
  <2>5. ASSUME NEW s \in 0..cursor, s > cursor - BufferSize,
               ~Filling(s + BufferSize)'
        PROVE  slot'[SlotOf(s)] = accepted[s + 1]
    <3>1. s < c /\ c < s + BufferSize /\ s \in Nat
      BY <2>1, <2>2, <2>5 DEF SequenceNumber, InitialCursor
    <3>2. SlotOf(s) # SlotOf(c)
      BY <3>1, <2>1, SlotsDiffer
    <3>3. slot[SlotOf(s)] = accepted[s + 1]
      BY <2>5, <2>2 DEF SlotInv
    <3>4. SlotOf(s) \in Slots
      BY <3>1, SlotOfSlot
    <3> QED BY <3>2, <3>3, <3>4, <2>3, <2>4
  <2>6. ASSUME NEW s \in Slots, s > cursor, ~Filling(s)'
        PROVE  slot'[s] = NoTask
    <3>1. s \in Nat /\ s < BufferSize /\ s > c
      BY <2>6, <2>1, <2>2 DEF Slots, SequenceNumber, InitialCursor
    <3>2. SlotOf(c) = c
      BY <3>1, <2>1, SlotOfSlot
    <3>3. slot[s] = NoTask
      BY <2>6, <2>2 DEF SlotInv
    <3> QED BY <3>1, <3>2, <3>3, <2>1, <2>4, <2>3
  <2>7. ASSUME NEW q \in Producers, pPc'[q] = "publish"
        PROVE  slot'[SlotOf(claimed[q])] = task[q]
    BY <1>0, <2>7, <2>3, <2>4
  <2>8. /\ \A s : SlotOf(s)' = SlotOf(s)
        /\ UNCHANGED <<cursor, accepted, claimed, task>>
    BY DEF SlotOf
  <2> QED BY <2>5, <2>6, <2>7, <2>8 DEF SlotInv
<1>5. HistoryInv'
  BY <1>0 DEF HistoryInv, Waiting
<1> QED BY <1>1, <1>2, <1>3, <1>4, <1>5

\* The cursor reaches the claimed sequence: its task joins accepted.
LEMMA PublishCursorStep ==
  ASSUME SingleProducer, RingInv, NEW p \in Producers, PublishCursor(p)
  PROVE  RingInv'
<1> USE BufferAssumption, TaskAssumption DEF RingInv, PublishCursor, workerVars
<1> DEFINE c == claimed[p]
<1>0. /\ c = cursor + 1 /\ c = nextValue /\ c \in Nat
      /\ cursor \in SequenceNumber /\ cursor \in Int
      /\ task[p] \in Task
      /\ cursor' = c
      /\ Len(accepted) = c
      /\ \A q \in Producers : q # p => pPc[q] = "idle"
      /\ pPc[p] = "publish" /\ pPc' = [pPc EXCEPT ![p] = "idle"]
      /\ pPc \in [Producers -> {"idle", "claim", "fill", "publish"}]
  BY AloneInPublish DEF ProducerInv, TypeOK, SequenceNumber, InitialCursor,
     HistoryInv
<1>a. /\ accepted' \in Seq(Task)
      /\ Len(accepted') = c + 1
      /\ accepted'[c + 1] = task[p]
      /\ \A i \in 1..c : accepted'[i] = accepted[i]
      /\ Range(accepted') = Range(accepted) \cup {task[p]}
      /\ IsInjective(accepted) /\ task[p] \notin Range(accepted)
           => IsInjective(accepted')
  <2>1. accepted \in Seq(Task)
    BY DEF TypeOK
  <2> QED BY <2>1, <1>0, AppendFacts
<1>1. TypeOK'
  BY <1>0, <1>a DEF TypeOK, SequenceNumber
<1>2. ProducerInv'
  BY <1>0 DEF ProducerInv, TypeOK
<1>3. RoomInv' /\ WorkerInv' /\ HoldInv'
  <2>1. RoomInv' /\ HoldInv'
    BY DEF RoomInv, HasRoom, HoldInv
  <2>2. WorkerInv'
    <3>1. \A w \in Workers : nextSequence[w] \in Int /\ available[w] \in Int
      BY DEF TypeOK, SequenceNumber, InitialCursor
    <3> QED BY <3>1, <1>0 DEF WorkerInv
  <2> QED BY <2>1, <2>2
<1>4. SlotInv'
  <2>1. /\ \A s : Filling(s) <=> s = c
        /\ \A s : ~Filling(s)'
    BY <1>0 DEF Filling
  <2>2. ASSUME NEW s \in 0..c, s > c - BufferSize
        PROVE  slot[SlotOf(s)] = accepted'[s + 1]
    <3>1. CASE s = c
      <4>1. slot[SlotOf(c)] = task[p]
        BY <1>0 DEF SlotInv
      <4> QED BY <4>1, <3>1, <1>a
    <3>2. CASE s # c
      <4>1. s \in 0..cursor /\ s > cursor - BufferSize /\ s + BufferSize # c
        BY <3>2, <2>2, <1>0
      <4>2. slot[SlotOf(s)] = accepted[s + 1]
        BY <4>1, <2>1 DEF SlotInv
      <4> QED BY <4>1, <4>2, <1>a, <1>0
    <3> QED BY <3>1, <3>2
  <2>3. ASSUME NEW s \in Slots, s > c
        PROVE  slot[s] = NoTask
    BY <2>3, <2>1, <1>0 DEF SlotInv, Slots
  <2>4. \A q \in Producers : pPc'[q] # "publish"
    BY <1>0
  <2>5. slot' = slot /\ \A s : SlotOf(s)' = SlotOf(s)
    BY DEF SlotOf
  <2> QED BY <2>2, <2>3, <2>4, <2>5, <1>0 DEF SlotInv
<1>5. HistoryInv'
  <2>1. Len(accepted') = cursor' + 1
    BY <1>a, <1>0
  <2>2. IsInjective(accepted')
    BY <1>a DEF HistoryInv
  <2>3. \A q \in Producers : pPc'[q] = "idle"
    BY <1>0
  <2>4. \A s : Waiting(s)' <=> Waiting(s)
    BY DEF Waiting
  <2>5. ASSUME NEW s \in 0..workSequence, ~Waiting(s)
        PROVE  s <= cursor' /\ accepted'[s + 1] \in Range(ran)
               /\ accepted'[s + 1] = accepted[s + 1]
    <3>1. s <= cursor /\ accepted[s + 1] \in Range(ran) /\ s \in Nat
      BY <2>5 DEF HistoryInv
    <3> QED BY <3>1, <1>a, <1>0
  <2>6. ran' = ran /\ workSequence' = workSequence
    OBVIOUS
  <2>7. \A i \in 1..Len(ran) :
          \E s \in 0..workSequence : ~Waiting(s) /\ ran[i] = accepted'[s + 1]
    BY <2>5 DEF HistoryInv
  <2>8. IsInjective(ran)
    BY DEF HistoryInv
  <2>9. \A s \in 0..workSequence :
          ~Waiting(s) => s <= cursor' /\ accepted'[s + 1] \in Range(ran)
    BY <2>5
  <2> HIDE DEF PublishCursor, RingInv
  <2> QED BY <2>1, <2>2, <2>3, <2>4, <2>6, <2>7, <2>8, <2>9 DEF HistoryInv
<1> QED BY <1>1, <1>2, <1>3, <1>4, <1>5

-----------------------------------------------------------------------------
(* WorkProcessor.run() preserves it.  These steps leave alone everything   *)
(* the producer's part of the invariant speaks of.                         *)

LEMMA ProducerUnchanged ==
  ASSUME RingInv,
         UNCHANGED <<producerVars, cursor, slot, accepted>>
  PROVE  ProducerInv' /\ SlotInv'
BY DEF RingInv, producerVars, ProducerInv, SlotInv, Filling, SlotOf

LEMMA ReadWorkSequenceStep ==
  ASSUME RingInv, NEW w \in Workers, ReadWorkSequence(w)
  PROVE  RingInv'
<1> USE DEF RingInv, ReadWorkSequence, producerVars
<1>1. TypeOK'
  BY DEF TypeOK, SequenceNumber, InitialCursor
<1>2. ProducerInv' /\ SlotInv'
  BY ProducerUnchanged
<1>3. RoomInv' /\ HoldInv'
  BY DEF RoomInv, HasRoom, HoldInv, TypeOK
<1>4. WorkerInv'
  BY DEF WorkerInv, TypeOK, SequenceNumber, InitialCursor
<1>5. HistoryInv'
  BY DEF HistoryInv, Waiting, TypeOK
<1> QED BY <1>1, <1>2, <1>3, <1>4, <1>5

LEMMA SetSequenceStep ==
  ASSUME RingInv, NEW w \in Workers, SetSequence(w)
  PROVE  RingInv'
<1> USE DEF RingInv, SetSequence, producerVars
<1>0. /\ nextSequence[w] \in Int /\ sequence[w] \in SequenceNumber
      /\ sequence[w] < nextSequence[w]
      /\ nextSequence[w] <= workSequence + 1
  BY DEF WorkerInv, TypeOK, SequenceNumber, InitialCursor
<1>1. TypeOK'
  BY <1>0 DEF TypeOK, SequenceNumber, InitialCursor
<1>2. ProducerInv' /\ SlotInv'
  BY ProducerUnchanged
<1>3. RoomInv' /\ HoldInv'
  <2>1. nextValue - BufferSize <= sequence[w] /\ nextValue \in Int
        /\ sequence[w] \in Int
    BY DEF RoomInv, HasRoom, TypeOK, SequenceNumber, InitialCursor
  <2>2. nextValue - BufferSize <= sequence'[w]
    BY <2>1, <1>0, BufferAssumption DEF TypeOK
  <2>3. RoomInv'
    BY <2>2 DEF RoomInv, HasRoom, TypeOK
  <2>4. HoldInv'
    BY DEF HoldInv, TypeOK
  <2> QED BY <2>3, <2>4
<1>4. WorkerInv'
  BY <1>0 DEF WorkerInv, TypeOK, SequenceNumber, InitialCursor
<1>5. HistoryInv'
  BY DEF HistoryInv, Waiting, TypeOK
<1> QED BY <1>1, <1>2, <1>3, <1>4, <1>5

\* The sequence a worker claims is above those all others hold.
LEMMA ClaimWorkStep ==
  ASSUME RingInv, NEW w \in Workers, ClaimWork(w)
  PROVE  RingInv'
<1> USE DEF RingInv, producerVars
<1>1. ASSUME workSequence # nextSequence[w] - 1
      PROVE  RingInv'
  <2> USE <1>1 DEF ClaimWork
  <2>1. TypeOK'
    BY DEF TypeOK
  <2>2. ProducerInv' /\ SlotInv'
    BY ProducerUnchanged
  <2>3. RoomInv' /\ HoldInv' /\ WorkerInv'
    BY DEF RoomInv, HasRoom, HoldInv, WorkerInv, TypeOK
  <2>4. HistoryInv'
    BY DEF HistoryInv, Waiting, TypeOK
  <2> QED BY <2>1, <2>2, <2>3, <2>4
<1>2. ASSUME workSequence = nextSequence[w] - 1
      PROVE  RingInv'
  <2>0. /\ workSequence \in Int /\ nextSequence[w] = workSequence + 1
        /\ workSequence + 1 \in Nat
        /\ workSequence' = workSequence + 1
        /\ wPc' = [wPc EXCEPT ![w] = "take"]
        /\ UNCHANGED <<producerVars, cursor, slot, sequence, nextSequence,
                      available, accepted, ran>>
        /\ wPc \in [Workers -> {"read", "set", "cas", "take", "run"}]
        /\ wPc[w] = "cas"
    BY <1>2 DEF ClaimWork, TypeOK, SequenceNumber, InitialCursor
  <2>1. TypeOK'
    BY <2>0 DEF TypeOK, SequenceNumber
  <2>2. ProducerInv' /\ SlotInv'
    BY <2>0, ProducerUnchanged
  <2>3. RoomInv'
    BY <2>0, BufferAssumption DEF RoomInv, HasRoom, TypeOK, SequenceNumber,
                                  InitialCursor
  <2>4. ASSUME NEW v \in Workers, wPc[v] \in {"take", "run"}
        PROVE  nextSequence[v] # workSequence + 1
    <3>1. nextSequence[v] <= workSequence /\ nextSequence[v] \in Int
      BY <2>4 DEF WorkerInv, TypeOK, SequenceNumber, InitialCursor
    <3> QED BY <3>1, <2>0
  <2>5. HoldInv'
    BY <2>0, <2>4 DEF HoldInv
  <2>6. WorkerInv'
    <3>1. \A v \in Workers : sequence[v] \in Int /\ nextSequence[v] \in Int
      BY DEF TypeOK, SequenceNumber, InitialCursor
    <3> QED BY <2>0, <3>1 DEF WorkerInv
  <2>7. HistoryInv'
    <3>1. ASSUME NEW s \in Int
          PROVE  Waiting(s)' <=> Waiting(s)
      <4>1. CASE s = workSequence + 1
        BY <4>1, <2>0 DEF Waiting
      <4>2. CASE s # workSequence + 1
        BY <4>2, <2>0 DEF Waiting
      <4> QED BY <4>1, <4>2
    <3>2. Waiting(workSequence + 1)
      BY <2>0 DEF Waiting
    <3>3. \A s \in 0..workSequence' : s \in 0..workSequence \/ s = workSequence + 1
      BY <2>0
    <3>4. 0..workSequence \subseteq 0..workSequence'
      BY <2>0
    <3>5. \A s \in 0..workSequence' : ~Waiting(s)' => s \in 0..workSequence /\ ~Waiting(s)
      BY <3>1, <3>2, <3>3
    <3>6. /\ Len(accepted) = cursor + 1 /\ IsInjective(accepted)
          /\ \A p \in Producers : pPc[p] # "idle" => task[p] \notin Range(accepted)
          /\ IsInjective(ran)
      BY DEF HistoryInv
    <3>7. \A s \in 0..workSequence' :
            ~Waiting(s)' => s <= cursor /\ accepted[s + 1] \in Range(ran)
      BY <3>5 DEF HistoryInv
    <3>8. \A i \in 1..Len(ran) :
            \E s \in 0..workSequence' : ~Waiting(s)' /\ ran[i] = accepted[s + 1]
      BY <3>1, <3>4 DEF HistoryInv
    <3>9. UNCHANGED <<accepted, cursor, pPc, task, ran>>
      BY <2>0
    <3> HIDE DEF RingInv
    <3> QED BY <3>6, <3>7, <3>8, <3>9 DEF HistoryInv
  <2> QED BY <2>1, <2>2, <2>3, <2>5, <2>6, <2>7
<1> QED BY <1>1, <1>2

LEMMA WaitForStep ==
  ASSUME RingInv, NEW w \in Workers, WaitFor(w)
  PROVE  RingInv'
<1> USE DEF RingInv, WaitFor, producerVars
<1>1. TypeOK'
  BY DEF TypeOK
<1>2. ProducerInv' /\ SlotInv'
  BY ProducerUnchanged
<1>3. RoomInv' /\ HoldInv'
  BY DEF RoomInv, HasRoom, HoldInv
<1>4. WorkerInv'
  BY DEF WorkerInv, TypeOK, SequenceNumber, InitialCursor
<1>5. HistoryInv'
  BY DEF HistoryInv, Waiting
<1> QED BY <1>1, <1>2, <1>3, <1>4, <1>5

LEMMA EndTaskStep ==
  ASSUME RingInv, NEW w \in Workers, EndTask(w)
  PROVE  RingInv'
<1> USE DEF RingInv, EndTask, producerVars
<1>1. TypeOK'
  BY DEF TypeOK
<1>2. ProducerInv' /\ SlotInv'
  BY ProducerUnchanged
<1>3. RoomInv' /\ HoldInv' /\ WorkerInv'
  BY DEF RoomInv, HasRoom, HoldInv, WorkerInv, TypeOK
<1>4. HistoryInv'
  BY DEF HistoryInv, Waiting, TypeOK
<1> QED BY <1>1, <1>2, <1>3, <1>4

\* The slot of a sequence a worker holds and sees published still has the
\* Runnable accepted with it.
LEMMA SlotOfHeld ==
  ASSUME RingInv, NEW w \in Workers, wPc[w] = "take",
         available[w] >= nextSequence[w]
  PROVE  /\ nextSequence[w] \in 0..workSequence
         /\ nextSequence[w] \in 0..cursor
         /\ slot[SlotOf(nextSequence[w])] = accepted[nextSequence[w] + 1]
         /\ accepted[nextSequence[w] + 1] \in Task
<1> USE DEF RingInv
<1> DEFINE n == nextSequence[w]
<1>1. /\ n \in Int /\ sequence[w] = n - 1 /\ n >= 0
      /\ workSequence \in Int /\ cursor \in Int /\ nextValue \in Int
      /\ available[w] \in Int
  BY DEF TypeOK, SequenceNumber, InitialCursor, WorkerInv
<1>2. n <= workSequence /\ n <= cursor
  BY <1>1 DEF WorkerInv
<1>3. nextValue - BufferSize <= n - 1 /\ BufferSize \in Nat
  BY <1>1, BufferAssumption DEF RoomInv, HasRoom
<1>5. n > cursor - BufferSize
  BY <1>1, <1>3, CursorBehind
<1>6. ~Filling(n + BufferSize)
  BY <1>1, <1>3 DEF Filling, ProducerInv
<1>7. slot[SlotOf(n)] = accepted[n + 1]
  BY <1>1, <1>2, <1>5, <1>6 DEF SlotInv
<1>8. accepted[n + 1] \in Task
  <2>1. n + 1 \in 1..Len(accepted) /\ accepted \in Seq(Task)
    BY <1>1, <1>2 DEF HistoryInv, TypeOK
  <2> QED BY <2>1, RangeFacts
<1> QED BY <1>1, <1>2, <1>7, <1>8

LEMMA StartTaskStep ==
  ASSUME RingInv, NEW w \in Workers, StartTask(w)
  PROVE  RingInv'
<1> DEFINE n == nextSequence[w]
           t == accepted[n + 1]
<1>0. wPc[w] = "take" /\ available[w] >= nextSequence[w]
  BY DEF StartTask
<1>1. n \in 0..workSequence /\ n \in 0..cursor /\ t \in Task
  BY <1>0, SlotOfHeld
<1>2. slot[SlotOf(n)] = t
  BY <1>0, SlotOfHeld
<1>3. /\ wPc' = [wPc EXCEPT ![w] = "run"]
      /\ ran' = Append(ran, t)
      /\ UNCHANGED <<producerVars, cursor, slot, workSequence, sequence,
                     nextSequence, available, accepted>>
  BY <1>1, <1>2, TaskAssumption DEF StartTask
<1>4. /\ wPc \in [Workers -> {"read", "set", "cas", "take", "run"}]
      /\ nextSequence \in [Workers -> SequenceNumber]
      /\ accepted \in Seq(Task) /\ ran \in Seq(Task)
      /\ cursor \in Int /\ workSequence \in Int
  BY DEF RingInv, TypeOK, SequenceNumber, InitialCursor
<1> HIDE DEF n, t
<1>5. /\ ran' \in Seq(Task)
      /\ Len(ran') = Len(ran) + 1 /\ Len(ran) \in Nat
      /\ ran'[Len(ran) + 1] = t
      /\ \A i \in 1..Len(ran) : ran'[i] = ran[i]
      /\ Range(ran') = Range(ran) \cup {t}
      /\ IsInjective(ran) /\ t \notin Range(ran) => IsInjective(ran')
  BY <1>1, <1>3, <1>4, AppendFacts
<1>6. TypeOK'
  BY <1>3, <1>4, <1>5 DEF RingInv, TypeOK, producerVars
<1>7. ProducerInv' /\ SlotInv'
  BY <1>3, ProducerUnchanged
<1>8. RoomInv' /\ HoldInv'
  BY <1>3, <1>4 DEF RingInv, RoomInv, HasRoom, HoldInv, producerVars
<1>9. WorkerInv'
  BY <1>0, <1>1, <1>3, <1>4 DEF RingInv, WorkerInv, n
<1>10. HistoryInv'
  <2>1. Waiting(n)
    BY <1>0 DEF Waiting, n
  <2>2. \A s \in 0..workSequence : Waiting(s)' <=> Waiting(s) /\ s # n
    <3>1. \A v \in Workers : wPc[v] = "take" /\ nextSequence[v] = n => v = w
      BY <1>0 DEF RingInv, HoldInv, n
    <3>2. \A s \in 0..workSequence : ~(s > workSequence)
      BY <1>4
    <3> QED BY <1>0, <1>3, <1>4, <3>1, <3>2 DEF Waiting, n
  <2>3. /\ Len(accepted) = cursor + 1 /\ IsInjective(accepted)
        /\ \A p \in Producers : pPc[p] # "idle" => task[p] \notin Range(accepted)
        /\ \A s \in 0..workSequence :
             ~Waiting(s) => s <= cursor /\ accepted[s + 1] \in Range(ran)
        /\ \A i \in 1..Len(ran) :
             \E s \in 0..workSequence : ~Waiting(s) /\ ran[i] = accepted[s + 1]
        /\ IsInjective(ran)
    BY DEF RingInv, HistoryInv
  <2>4. t \notin Range(ran)
    <3> SUFFICES ASSUME t \in Range(ran) PROVE FALSE
      OBVIOUS
    <3>1. PICK i \in 1..Len(ran) : ran[i] = t
      BY <1>4, RangeFacts
    <3>2. PICK s \in 0..workSequence : ~Waiting(s) /\ t = accepted[s + 1]
      BY <3>1, <2>3
    <3>3. /\ s + 1 \in 1..Len(accepted) /\ n + 1 \in 1..Len(accepted)
          /\ accepted[s + 1] = accepted[n + 1]
      BY <3>2, <2>3, <1>1, <1>4 DEF t
    <3>4. s + 1 = n + 1
      BY <3>3, <2>3, <1>4, RangeFacts
    <3> QED BY <3>4, <3>2, <2>1, <1>1
  <2>5. \A s \in 0..workSequence :
          ~Waiting(s)' => s <= cursor /\ accepted[s + 1] \in Range(ran')
    BY <2>2, <2>3, <1>1, <1>5 DEF t
  <2>6. ASSUME NEW i \in 1..Len(ran')
        PROVE  \E s \in 0..workSequence : ~Waiting(s)' /\ ran'[i] = accepted[s + 1]
    <3>1. CASE i = Len(ran) + 1
      BY <3>1, <1>5, <1>1, <2>2 DEF t
    <3>2. CASE i \in 1..Len(ran)
      BY <3>2, <1>5, <2>2, <2>3
    <3> QED BY <3>1, <3>2, <1>5
  <2>7. IsInjective(ran')
    BY <1>5, <2>3, <2>4
  <2>8. UNCHANGED <<accepted, cursor, workSequence, pPc, task>>
    BY <1>3 DEF producerVars
  <2> QED BY <2>3, <2>5, <2>6, <2>7, <2>8 DEF HistoryInv
<1> QED BY <1>6, <1>7, <1>8, <1>9, <1>10 DEF RingInv

-----------------------------------------------------------------------------
(* The invariant, and what it gives.                                       *)

LEMMA RingStep ==
  SingleProducer /\ SingleProducer' /\ RingInv /\ [Next]_vars => RingInv'
<1> SUFFICES ASSUME SingleProducer, SingleProducer', RingInv, [Next]_vars
             PROVE  RingInv'
  OBVIOUS
<1>1. ASSUME NEW p \in Producers, NEW t \in Task, NextSequence(p, t)
      PROVE  RingInv'
  BY <1>1, NextSequenceStep
<1>2. ASSUME NEW p \in Producers, Publish(p)
      PROVE  RingInv'
  BY <1>2, ClaimSequenceStep, FillSlotStep, PublishCursorStep DEF Publish
<1>3. ASSUME NEW w \in Workers, Work(w)
      PROVE  RingInv'
  BY <1>3, ReadWorkSequenceStep, SetSequenceStep, ClaimWorkStep, WaitForStep,
     StartTaskStep, EndTaskStep DEF Work
<1>4. ASSUME UNCHANGED vars
      PROVE  RingInv'
  BY <1>4 DEF vars, RingInv, TypeOK, ProducerInv, RoomInv, HasRoom, WorkerInv,
     HoldInv, SlotInv, Filling, SlotOf, HistoryInv, Waiting
<1> QED BY <1>1, <1>2, <1>3, <1>4 DEF Next

\* While calls of publish() do not overlap, every behaviour of the ring keeps
\* RingInv, whatever the number of producers, of workers, of slots and of tasks
\* (DisruptorEvent.publish, WorkProcessor.run).
THEOREM RingInvariant == Safety /\ []SingleProducer => []RingInv
<1>1. Init => RingInv
  BY RingInit
<1>2. SingleProducer /\ SingleProducer' /\ RingInv /\ [Next]_vars => RingInv'
  BY RingStep
<1> QED BY <1>1, <1>2, PTL DEF Safety

-----------------------------------------------------------------------------
(* The types do not need the contract of ProducerType.SINGLE.              *)

\* What a worker writes to the sequences is never below the initial cursor,
\* and a worker inside run() has begun a task.
TypeInv ==
  /\ TypeOK
  /\ \A w \in Workers :
       /\ wPc[w] \in {"set", "cas", "take"} => nextSequence[w] \in Nat
       /\ wPc[w] = "run" => ran # <<>>

LEMMA TypeInit == Init => TypeInv
BY RingInit DEF RingInv, TypeInv, Init

LEMMA TypePublish ==
  ASSUME TypeInv, NEW p \in Producers,
         Publish(p) \/ \E t \in Task : NextSequence(p, t)
  PROVE  TypeInv'
<1> USE TaskAssumption DEF TypeInv, TypeOK, workerVars
<1>1. ASSUME NEW t \in Task, NextSequence(p, t) PROVE TypeInv'
  <2>1. nextValue + 1 \in SequenceNumber
    BY DEF SequenceNumber, InitialCursor
  <2> QED BY <1>1, <2>1 DEF NextSequence
<1>2. ASSUME ClaimSequence(p) PROVE TypeInv'
  BY <1>2 DEF ClaimSequence
<1>3. ASSUME FillSlot(p) PROVE TypeInv'
  BY <1>3 DEF FillSlot
<1>4. ASSUME PublishCursor(p) PROVE TypeInv'
  <2>1. task[p] \in Task
    BY <1>4 DEF PublishCursor
  <2>2. Append(accepted, task[p]) \in Seq(Task)
    BY <2>1
  <2> QED BY <1>4, <2>2 DEF PublishCursor
<1> QED BY <1>1, <1>2, <1>3, <1>4 DEF Publish

\* A sequence with one element more is a sequence, and not empty.
LEMMA AppendNotEmpty ==
  ASSUME NEW S, NEW q \in Seq(S), NEW e \in S
  PROVE  Append(q, e) \in Seq(S) /\ Append(q, e) # <<>>
<1>1. /\ Append(q, e) \in Seq(S) /\ Len(q) \in Nat
      /\ Len(Append(q, e)) = Len(q) + 1
  OBVIOUS
<1>2. Len(Append(q, e)) # 0
  BY <1>1
<1> QED BY <1>1, <1>2

LEMMA TypeWork ==
  ASSUME TypeInv, NEW w \in Workers, Work(w)
  PROVE  TypeInv'
<1> USE DEF TypeInv, TypeOK, producerVars
<1>0. SequenceNumber = Nat \cup {-1}
  BY DEF SequenceNumber, InitialCursor
<1>1. ASSUME ReadWorkSequence(w) PROVE TypeInv'
  BY <1>0, <1>1 DEF ReadWorkSequence
<1>2. ASSUME SetSequence(w) PROVE TypeInv'
  BY <1>0, <1>2 DEF SetSequence
<1>3. ASSUME ClaimWork(w) PROVE TypeInv'
  BY <1>3 DEF ClaimWork
<1>4. ASSUME WaitFor(w) PROVE TypeInv'
  BY <1>4 DEF WaitFor
<1>5. ASSUME StartTask(w) PROVE TypeInv'
  <2> DEFINE i == SlotOf(nextSequence[w])
  <2>1. CASE slot[i] = NoTask
    BY <1>5, <2>1 DEF StartTask
  <2>2. CASE slot[i] # NoTask
    <3>1. i \in Slots
      BY <1>5, SlotOfSlot DEF StartTask
    <3>2. slot[i] \in Task
      BY <2>2, <3>1
    <3>3. ran \in Seq(Task)
      OBVIOUS
    <3> HIDE DEF TypeInv, TypeOK, i
    <3>4. Append(ran, slot[i]) \in Seq(Task) /\ Append(ran, slot[i]) # <<>>
      BY <3>2, <3>3, AppendNotEmpty
    <3> USE DEF TypeInv, TypeOK, i
    <3> QED BY <1>5, <2>2, <3>4 DEF StartTask
  <2> QED BY <2>1, <2>2
<1>6. ASSUME EndTask(w) PROVE TypeInv'
  BY <1>6 DEF EndTask
<1> QED BY <1>1, <1>2, <1>3, <1>4, <1>5, <1>6 DEF Work

LEMMA TypeStep == TypeInv /\ [Next]_vars => TypeInv'
<1> SUFFICES ASSUME TypeInv, [Next]_vars PROVE TypeInv'
  OBVIOUS
<1>1. ASSUME UNCHANGED vars PROVE TypeInv'
  BY <1>1 DEF vars, TypeInv, TypeOK
<1> QED BY <1>1, TypePublish, TypeWork DEF Next

\* Every variable keeps its type, also when calls of publish() overlap: the
\* content of a slot is a task or nothing, and a sequence is never below the
\* initial cursor.
THEOREM TypeCorrect == Safety => []TypeOK
<1>1. Init => TypeInv
  BY TypeInit
<1>2. TypeInv /\ [Next]_vars => TypeInv'
  BY TypeStep
<1>3. TypeInv => TypeOK
  BY DEF TypeInv
<1> QED BY <1>1, <1>2, <1>3, PTL DEF Safety

\* publish() loses nothing: every task it made visible has begun to run, or
\* is in its slot and a worker will come to it.
THEOREM NothingIsLost == Safety /\ []SingleProducer => []NothingLost
<1>1. RingInv => NothingLost
  <2> SUFFICES ASSUME RingInv, NEW i \in 1..Len(accepted),
                      accepted[i] \notin Range(ran)
               PROVE  /\ slot[SlotOf(i - 1)] = accepted[i]
                      /\ Waiting(i - 1)
                      /\ i - 1 <= cursor
    BY DEF NothingLost
  <2> DEFINE s == i - 1
  <2>1. /\ Len(accepted) = cursor + 1 /\ cursor \in Int /\ nextValue \in Int
        /\ workSequence \in Int /\ s \in 0..cursor /\ s + 1 = i
        /\ BufferSize \in Nat /\ nextValue >= cursor
    BY BufferAssumption, CursorBehind
       DEF RingInv, HistoryInv, TypeOK, SequenceNumber, InitialCursor
  <2>2. Waiting(s)
    <3>1. CASE s > workSequence
      BY <3>1 DEF Waiting
    <3>2. CASE s <= workSequence
      BY <3>2, <2>1 DEF RingInv, HistoryInv
    <3> QED BY <3>1, <3>2, <2>1
  <2>3. s > nextValue - BufferSize
    <3>1. CASE s > workSequence
      BY <3>1, <2>1 DEF RingInv, RoomInv, HasRoom
    <3>2. CASE ~(s > workSequence)
      <4>1. PICK w \in Workers : wPc[w] = "take" /\ nextSequence[w] = s
        BY <3>2, <2>2 DEF Waiting
      <4>2. sequence[w] = s - 1 /\ nextValue - BufferSize <= sequence[w]
        BY <4>1 DEF RingInv, WorkerInv, RoomInv, HasRoom
      <4> QED BY <4>2, <2>1
    <3> QED BY <3>1, <3>2
  <2>4. ~Filling(s + BufferSize)
    BY <2>1, <2>3 DEF RingInv, Filling, ProducerInv
  <2>5. slot[SlotOf(s)] = accepted[s + 1]
    BY <2>1, <2>3, <2>4 DEF RingInv, SlotInv
  <2> QED BY <2>1, <2>2, <2>5
<1> QED BY <1>1, RingInvariant, PTL

\* Whatever the interleaving of the workers, a task is run at most once, and
\* only after publish() made it visible.
THEOREM RunAtMostOnce == Safety /\ []SingleProducer => []AtMostOnce
<1>1. RingInv => AtMostOnce
  <2> SUFFICES ASSUME RingInv PROVE AtMostOnce
    OBVIOUS
  <2>1. IsInjective(ran) /\ ran \in Seq(Task) /\ accepted \in Seq(Task)
    BY DEF RingInv, HistoryInv, TypeOK
  <2>2. ASSUME NEW t \in Range(ran)
        PROVE  t \in Range(accepted)
    <3>1. PICK i \in 1..Len(ran) : ran[i] = t
      BY <2>1, RangeFacts
    <3>2. PICK s \in 0..workSequence : ~Waiting(s) /\ ran[i] = accepted[s + 1]
      BY <3>1 DEF RingInv, HistoryInv
    <3>3. s + 1 \in 1..Len(accepted)
      BY <3>2 DEF RingInv, HistoryInv, TypeOK, SequenceNumber, InitialCursor
    <3> QED BY <3>1, <3>2, <3>3, <2>1, RangeFacts
  <2> QED BY <2>1, <2>2 DEF AtMostOnce
<1> QED BY <1>1, RingInvariant, PTL

\* The slot a producer is about to fill is free: its last task has begun, and
\* its worker has left run().
THEOREM NothingOverwritten == Safety /\ []SingleProducer => []NoOverwrite
<1>1. SingleProducer /\ RingInv => NoOverwrite
  <2> SUFFICES ASSUME SingleProducer, RingInv, NEW p \in Producers, pPc[p] = "fill",
                      slot[SlotOf(claimed[p])] # NoTask
               PROVE  /\ slot[SlotOf(claimed[p])] \in Range(ran)
                      /\ \A w \in Workers : wPc[w] = "run" =>
                           SlotOf(nextSequence[w]) # SlotOf(claimed[p])
    BY DEF NoOverwrite
  <2> DEFINE c == claimed[p]
             s == c - BufferSize
  <2>1. /\ c = nextValue /\ c = cursor + 1 /\ c \in Nat /\ cursor \in Int
        /\ workSequence \in Int /\ BufferSize \in Nat
        /\ BufferSize > 0
        /\ s <= workSequence
        /\ \A w \in Workers : s <= sequence[w]
    BY BufferAssumption
       DEF RingInv, ProducerInv, RoomInv, HasRoom, TypeOK, SequenceNumber,
           InitialCursor
  <2>2. s >= 0
    <3> SUFFICES ASSUME c < BufferSize PROVE FALSE
      BY <2>1
    <3>1. SlotOf(c) = c /\ c \in Slots
      BY <2>1, SlotOfSlot DEF Slots
    <3>2. slot[c] = NoTask
      <4>1. ~Filling(c)
        BY DEF Filling, SingleProducer
      <4> QED BY <4>1, <3>1, <2>1 DEF RingInv, SlotInv
    <3> QED BY <3>1, <3>2
  <2>3. SlotOf(s) = SlotOf(c)
    <3>1. s \in Nat /\ s + BufferSize = c
      BY <2>1, <2>2
    <3> QED BY <3>1, SlotsRepeat
  <2>4. ~Waiting(s)
    <3>1. ~(s > workSequence)
      BY <2>1
    <3>2. \A w \in Workers : wPc[w] \in {"take", "run"} => nextSequence[w] # s
      BY <2>1 DEF RingInv, WorkerInv, TypeOK, SequenceNumber, InitialCursor
    <3> QED BY <3>1, <3>2 DEF Waiting
  <2>5. accepted[s + 1] \in Range(ran)
    BY <2>1, <2>2, <2>4 DEF RingInv, HistoryInv
  <2>6. slot[SlotOf(s)] = accepted[s + 1]
    <3>1. ~Filling(s + BufferSize)
      BY <2>1 DEF Filling, SingleProducer
    <3>2. s \in 0..cursor /\ s > cursor - BufferSize
      BY <2>1, <2>2
    <3> QED BY <3>1, <3>2 DEF RingInv, SlotInv
  <2>7. ASSUME NEW w \in Workers, wPc[w] = "run"
        PROVE  SlotOf(nextSequence[w]) # SlotOf(c)
    <3>1. /\ nextSequence[w] \in Nat /\ nextSequence[w] < c
          /\ c < nextSequence[w] + BufferSize
      BY <2>1, <2>2, <2>7 DEF RingInv, WorkerInv, TypeOK, SequenceNumber,
                              InitialCursor
    <3> QED BY <3>1, <2>1, SlotsDiffer
  <2> QED BY <2>3, <2>5, <2>6, <2>7
<1> QED BY <1>1, RingInvariant, PTL

\* Every nonempty set of sequences has a least one.
LessNat == {ss \in Nat \X Nat : ss[1] < ss[2]}

LEMMA LeastNat ==
  ASSUME NEW T, T \subseteq Nat, T # {}
  PROVE  \E x \in T : \A y \in T : x <= y
<1>1. IsWellFoundedOn(LessNat, Nat)
  BY NatLessThanWellFounded DEF OpToRel, LessNat
<1>2. PICK x \in T : \A y \in T : <<y, x>> \notin LessNat
  BY <1>1, WFMin
<1>3. ASSUME NEW y \in T PROVE x <= y
  <2>1. x \in Nat /\ y \in Nat
    OBVIOUS
  <2>2. <<y, x>>[1] = y /\ <<y, x>>[2] = x /\ <<y, x>> \in Nat \X Nat
    BY <2>1
  <2>3. ~(y < x)
    BY <1>2, <2>2 DEF LessNat
  <2> QED BY <2>1, <2>3
<1> QED BY <1>3

LEMMA LeastSequence ==
  ASSUME NEW S, S \subseteq SequenceNumber, S # {}
  PROVE  /\ Min(S) \in S
         /\ \A s \in S : Min(S) <= s
<1> DEFINE T == {s + 1 : s \in S}
<1>1. T \subseteq Nat /\ T # {}
  <2>1. \A s \in S : s + 1 \in Nat
    BY DEF SequenceNumber, InitialCursor
  <2>2. T # {}
    <3>1. PICK s \in S : TRUE
      OBVIOUS
    <3>2. s + 1 \in T
      OBVIOUS
    <3> QED BY <3>2
  <2> QED BY <2>1, <2>2
<1>2. PICK t \in T : \A u \in T : t <= u
  BY <1>1, LeastNat
<1>3. PICK m \in S : t = m + 1
  OBVIOUS
<1>4. ASSUME NEW s \in S PROVE m <= s
  <2>1. m + 1 <= s + 1
    BY <1>2, <1>3
  <2> QED BY <2>1 DEF SequenceNumber, InitialCursor
<1> QED BY <1>3, <1>4 DEF Min

\* What stack() reports is never less than the tasks waiting or running, and
\* never more than the ring holds, for any number of workers.
THEOREM StackCovers == Safety /\ []SingleProducer => []StackCoversBacklog
<1>1. RingInv => StackCoversBacklog
  <2> SUFFICES ASSUME RingInv PROVE StackCoversBacklog
    OBVIOUS
  <2> DEFINE m == Min(Gating)
  <2>1. /\ nextValue \in SequenceNumber /\ workSequence \in SequenceNumber
        /\ sequence \in [Workers -> SequenceNumber]
        /\ nextSequence \in [Workers -> SequenceNumber]
        /\ accepted \in Seq(Task)
        /\ cursor \in Int /\ BufferSize \in Nat
    BY BufferAssumption DEF RingInv, TypeOK, SequenceNumber, InitialCursor
  <2>2. Gating \subseteq SequenceNumber /\ Gating # {}
    BY <2>1 DEF Gating, Range
  <2>3. m \in Gating /\ \A s \in Gating : m <= s
    BY <2>2, LeastSequence
  <2>4. /\ m <= nextValue /\ m <= workSequence
        /\ \A w \in Workers : m <= sequence[w]
    BY <2>1, <2>3 DEF Gating, Range
  <2>5. m \in Int /\ nextValue \in Int /\ workSequence \in Int
        /\ \A w \in Workers : sequence[w] \in Int /\ nextSequence[w] \in Int
    <3>1. SequenceNumber \subseteq Int
      BY DEF SequenceNumber, InitialCursor
    <3>2. m \in SequenceNumber
      BY <2>2, <2>3
    <3> QED BY <2>1, <3>1, <3>2
  <2>6. nextValue - BufferSize <= m
    <3>1. \A s \in Gating : nextValue - BufferSize <= s
      BY <2>1, <2>5 DEF RingInv, RoomInv, HasRoom, Gating, Range
    <3> QED BY <3>1, <2>3
  <2>7. Len(accepted) <= nextValue + 1 /\ Len(accepted) \in Nat
    BY <2>1, <2>5, CursorBehind DEF RingInv, HistoryInv
  <2> HIDE DEF m
  <2>8. Backlog \subseteq (m + 2)..(nextValue + 1)
    <3> SUFFICES ASSUME NEW i \in 1..Len(accepted),
                        \/ Waiting(i - 1)
                        \/ \E w \in Workers : Holds(w, i - 1)
                 PROVE  m + 2 <= i /\ i <= nextValue + 1
      BY <2>5, <2>7 DEF Backlog
    <3>1. CASE i - 1 > workSequence
      BY <3>1, <2>4, <2>5, <2>7
    <3>2. CASE \E w \in Workers : wPc[w] \in {"take", "run"}
                                  /\ nextSequence[w] = i - 1
      <4>1. PICK w \in Workers : wPc[w] \in {"take", "run"}
                                 /\ nextSequence[w] = i - 1
        BY <3>2
      <4>2. sequence[w] = nextSequence[w] - 1
        BY <4>1 DEF RingInv, WorkerInv
      <4> QED BY <4>1, <4>2, <2>4, <2>5, <2>7
    <3> QED BY <3>1, <3>2 DEF Waiting, Holds
  <2>9. /\ IsFiniteSet((m + 2)..(nextValue + 1))
        /\ Cardinality((m + 2)..(nextValue + 1)) <= nextValue - m
    <3> DEFINE a == m + 2
               b == nextValue + 1
    <3>1. a \in Int /\ b \in Int /\ b - a + 1 = nextValue - m /\ 0 <= nextValue - m
      BY <2>4, <2>5
    <3> HIDE DEF a, b
    <3>2. /\ IsFiniteSet(a..b)
          /\ Cardinality(a..b) = IF a > b THEN 0 ELSE b - a + 1
      BY <3>1, FS_Interval
    <3>3. IsFiniteSet(a..b) /\ Cardinality(a..b) <= nextValue - m
      BY <3>1, <3>2, <2>5
    <3> QED BY <3>3 DEF a, b
  <2>10. Cardinality(Backlog) <= nextValue - m
    <3>1. /\ IsFiniteSet(Backlog)
          /\ Cardinality(Backlog) <= Cardinality((m + 2)..(nextValue + 1))
      BY <2>8, <2>9, FS_Subset
    <3>2. /\ Cardinality(Backlog) \in Nat
          /\ Cardinality((m + 2)..(nextValue + 1)) \in Nat
      BY <3>1, <2>9, FS_CardinalityType
    <3> QED BY <3>1, <3>2, <2>9, <2>5
  <2> QED BY <2>10, <2>6, <2>5, <2>1 DEF StackCoversBacklog, Stack, m
<1> QED BY <1>1, RingInvariant, PTL
=============================================================================
