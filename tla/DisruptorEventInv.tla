--------------------------- MODULE DisruptorEventInv ---------------------------
(***************************************************************************)
(* Why the ring of DisruptorEvent is correct while calls of publish() do   *)
(* not overlap, whatever the number of producers, of workers and of slots: *)
(* an invariant that every such step preserves.  DisruptorEventProofs      *)
(* proves it.                                                              *)
(***************************************************************************)
EXTENDS DisruptorEvent

\* The claimed sequence and the published one are equal, but for the sequence
\* that some producer is filling.
ProducerInv ==
  /\ (\A p \in Producers : pPc[p] \in {"idle", "claim"}) => nextValue = cursor
  /\ \A p \in Producers :
       /\ pPc[p] = "claim" => claimed[p] = nextValue + 1
       /\ pPc[p] \in {"fill", "publish"} => claimed[p] = nextValue
                                            /\ nextValue = cursor + 1

\* The last claimed sequence is less than a round ahead of every consumer.
RoomInv == HasRoom(nextValue)

\* A worker's gating sequence stays behind the sequence it holds, and no
\* worker believes the cursor to be further than it is.
WorkerInv ==
  \A w \in Workers :
    /\ sequence[w] <= workSequence
    /\ available[w] <= cursor
    /\ wPc[w] \in {"set", "cas"} => sequence[w] < nextSequence[w]
                                    /\ nextSequence[w] <= workSequence + 1
    /\ wPc[w] \in {"cas", "take", "run"} => sequence[w] = nextSequence[w] - 1
    /\ wPc[w] \in {"take", "run"} => nextSequence[w] <= workSequence
    /\ wPc[w] = "run" => nextSequence[w] <= cursor

\* The compare-and-set gives every sequence to one worker.
HoldInv ==
  \A v, w \in Workers :
    wPc[v] = "take" /\ wPc[w] = "take" /\ nextSequence[v] = nextSequence[w]
      => v = w

\* The slots hold the tasks of the last round.  The one being replaced is out
\* of the round from the moment setEvent has run.
Filling(s) == \E p \in Producers : pPc[p] = "publish" /\ s = claimed[p]

SlotInv ==
  /\ \A s \in 0..cursor : s > cursor - BufferSize /\ ~Filling(s + BufferSize)
                           => slot[SlotOf(s)] = accepted[s + 1]
  /\ \A s \in Slots : s > cursor /\ ~Filling(s) => slot[s] = NoTask
  /\ \A p \in Producers : pPc[p] = "publish"
                           => slot[SlotOf(claimed[p])] = task[p]

\* accepted is indexed by sequence and repeats no task; ran holds, each once,
\* the tasks of the sequences no longer waiting.
HistoryInv ==
  /\ Len(accepted) = cursor + 1
  /\ IsInjective(accepted)
  /\ \A p \in Producers : pPc[p] # "idle" => task[p] \notin Range(accepted)
  /\ \A s \in 0..workSequence :
       ~Waiting(s) => s <= cursor /\ accepted[s + 1] \in Range(ran)
  /\ \A i \in 1..Len(ran) :
       \E s \in 0..workSequence : ~Waiting(s) /\ ran[i] = accepted[s + 1]
  /\ IsInjective(ran)

RingInv ==
  /\ TypeOK
  /\ ProducerInv
  /\ RoomInv
  /\ WorkerInv
  /\ HoldInv
  /\ SlotInv
  /\ HistoryInv
=============================================================================
