----------------------------- MODULE GatewayProofs -----------------------------
(***************************************************************************)
(* Proofs about Gateway for any number of channels, IO threads, requests   *)
(* and slots: the types; and, while no two IO threads are in publish() of  *)
(* the ring at once, that the ring inside keeps what DisruptorQueueProofs  *)
(* proves of it; that requests and responses of a channel stay in order    *)
(* and complete; that a client that has the response of a login finds the  *)
(* device in its context; that each client has a Conversation.             *)
(*                                                                         *)
(* SingleProducer is what ProducerType.SINGLE asks of the IO threads and   *)
(* nothing in the gateway sees to: MCDisruptorShared.cfg shows that the    *)
(* ring loses tasks without it.                                            *)
(***************************************************************************)
EXTENDS Gateway, FiniteSetTheorems, SequenceTheorems, TLAPS

RingP == INSTANCE DisruptorQueueProofs
           WITH Producers <- IOThreads, Task <- Request, NoTask <- NoRequest

\* TcpServer.initBusinessThread gives the ring one worker.
LEMMA OneWorker == RingP!SingleWorker
BY WorkerAssumption DEF RingP!SingleWorker

-----------------------------------------------------------------------------
(* The ring of Gateway and that of the proofs are the same.                *)

LEMMA SameInit == Ring!Init <=> RingP!Init
BY DEF Ring!Init, RingP!Init, Ring!InitialCursor, RingP!InitialCursor,
       Ring!Slots, RingP!Slots

LEMMA SameTypes == Ring!TypeOK <=> RingP!TypeOK
BY DEF Ring!TypeOK, RingP!TypeOK, Ring!SequenceNumber, RingP!SequenceNumber,
       Ring!InitialCursor, RingP!InitialCursor, Ring!Slots, RingP!Slots

LEMMA SameNextSequence ==
  ASSUME NEW p, NEW t
  PROVE  Ring!NextSequence(p, t) <=> RingP!NextSequence(p, t)
BY DEF Ring!NextSequence, RingP!NextSequence, Ring!Submitted, RingP!Submitted,
       Ring!Range, RingP!Range, Ring!workerVars, RingP!workerVars

LEMMA SamePublish ==
  ASSUME NEW p
  PROVE  Ring!Publish(p) <=> RingP!Publish(p)
BY DEF Ring!Publish, RingP!Publish, Ring!ClaimSequence, RingP!ClaimSequence,
       Ring!HasRoom, RingP!HasRoom, Ring!FillSlot, RingP!FillSlot,
       Ring!PublishCursor, RingP!PublishCursor, Ring!SlotOf, RingP!SlotOf,
       Ring!workerVars, RingP!workerVars

LEMMA SameStartTask ==
  ASSUME NEW w
  PROVE  Ring!StartTask(w) <=> RingP!StartTask(w)
BY DEF Ring!StartTask, RingP!StartTask, Ring!SlotOf, RingP!SlotOf,
       Ring!producerVars, RingP!producerVars

LEMMA SameWork ==
  ASSUME NEW w
  PROVE  /\ Ring!ReadWorkSequence(w) <=> RingP!ReadWorkSequence(w)
         /\ Ring!SetSequence(w) <=> RingP!SetSequence(w)
         /\ Ring!ClaimWork(w) <=> RingP!ClaimWork(w)
         /\ Ring!WaitFor(w) <=> RingP!WaitFor(w)
         /\ Ring!EndTask(w) <=> RingP!EndTask(w)
BY DEF Ring!ReadWorkSequence, RingP!ReadWorkSequence, Ring!SetSequence,
       RingP!SetSequence, Ring!ClaimWork, RingP!ClaimWork, Ring!WaitFor,
       RingP!WaitFor, Ring!EndTask, RingP!EndTask, Ring!producerVars,
       RingP!producerVars

\* Every step of the gateway is one step of the ring or none.
LEMMA RingSteps ==
  ASSUME io \in [Channels -> IOThreads], inbox \in [Channels -> Seq(Request)],
         [Next]_vars
  PROVE  [RingP!Next]_(RingP!vars)
<1>0. SUFFICES ASSUME ~UNCHANGED ringVars, Next PROVE RingP!Next
  BY DEF vars, ringVars, RingP!vars
<1>1. ASSUME NEW c \in Channels, ChannelRead(c) PROVE RingP!Next
  <2>1. Ring!NextSequence(io[c], Head(inbox[c])) /\ inbox[c] # <<>>
    BY <1>0, <1>1 DEF ChannelRead
  <2>2. io[c] \in IOThreads /\ Head(inbox[c]) \in Request
    BY <2>1
  <2> QED BY <2>1, <2>2, SameNextSequence DEF RingP!Next
<1>2. ASSUME NEW p \in IOThreads, Publish(p) PROVE RingP!Next
  BY <1>2, SamePublish DEF Publish, RingP!Next
<1>3. ASSUME NEW w \in Workers, Process(w) \/ Work(w) PROVE RingP!Next
  <2>1. RingP!Work(w)
    BY <1>3, SameStartTask, SameWork DEF Process, Work, RingP!Work
  <2> QED BY <2>1 DEF RingP!Next
<1> QED BY <1>0, <1>1, <1>2, <1>3
        DEF Next, Start, Bind, AllocateRings, CreateRing, Shutdown, Accept,
            Disconnect, Serve, ChannelActive, Flush, Send

-----------------------------------------------------------------------------
(* Sequences.                                                              *)

LEMMA AppendFacts ==
  ASSUME NEW S, NEW q \in Seq(S), NEW e \in S
  PROVE  /\ Append(q, e) \in Seq(S)
         /\ Len(q) \in Nat /\ Len(Append(q, e)) = Len(q) + 1
         /\ Append(q, e)[Len(q) + 1] = e
         /\ \A i \in 1..Len(q) : Append(q, e)[i] = q[i]
         /\ Range(Append(q, e)) = Range(q) \cup {e}
<1>1. /\ Append(q, e) \in Seq(S)
      /\ Len(q) \in Nat /\ Len(Append(q, e)) = Len(q) + 1
      /\ Append(q, e)[Len(q) + 1] = e
      /\ \A i \in 1..Len(q) : Append(q, e)[i] = q[i]
  OBVIOUS
<1>2. DOMAIN q = 1..Len(q) /\ DOMAIN Append(q, e) = 1..(Len(q) + 1)
  OBVIOUS
<1> QED BY <1>1, <1>2 DEF Range

\* A sequence is its last element after the ones before it.
LEMMA FrontFacts ==
  ASSUME NEW S, NEW q \in Seq(S), Len(q) \in Nat \ {0}
  PROVE  /\ SubSeq(q, 1, Len(q) - 1) \in Seq(S)
         /\ Len(SubSeq(q, 1, Len(q) - 1)) = Len(q) - 1
         /\ \A i \in 1..(Len(q) - 1) : SubSeq(q, 1, Len(q) - 1)[i] = q[i]
         /\ q = Append(SubSeq(q, 1, Len(q) - 1), q[Len(q)])
<1> DEFINE n == Len(q)
           f == SubSeq(q, 1, n - 1)
<1>1. n \in Nat \ {0} /\ n - 1 \in 0..n /\ \A i \in 1..n : q[i] \in S
  OBVIOUS
<1>2. f \in Seq(S) /\ Len(f) = n - 1 /\ \A i \in 1..(n - 1) : f[i] = q[i]
  <2>1. 1 \in Int /\ n - 1 \in Int /\ \A i \in 1..(n - 1) : q[i] \in S
    BY <1>1
  <2>2. /\ f \in Seq(S)
        /\ Len(f) = IF 1 <= n - 1 THEN (n - 1) - 1 + 1 ELSE 0
        /\ \A i \in 1..((n - 1) - 1 + 1) : f[i] = q[1 + i - 1]
    <3> HIDE DEF n
    <3> QED BY <2>1, SubSeqProperties
  <2> HIDE DEF f, n
  <2> QED BY <2>2, <1>1
<1>3. q[n] \in S
  BY <1>1
<1> HIDE DEF f
<1>4. q = Append(f, q[n])
  <2> DEFINE e == q[n]
  <2>1. e \in S
    BY <1>3
  <2> HIDE DEF e
  <2>2. /\ Append(f, e) \in Seq(S) /\ Len(Append(f, e)) = (n - 1) + 1
        /\ Append(f, e)[(n - 1) + 1] = e
        /\ \A i \in 1..(n - 1) : Append(f, e)[i] = q[i]
    BY <1>2, <2>1, AppendFacts
  <2>3. \A i \in 1..n : Append(f, e)[i] = q[i]
    <3>1. \A i \in 1..n : i \in 1..(n - 1) \/ i = n
      BY <1>1
    <3>2. (n - 1) + 1 = n
      BY <1>1
    <3> QED BY <2>2, <3>1, <3>2 DEF e
  <2>4. Len(Append(f, e)) = Len(q)
    BY <1>1, <2>2
  <2>5. Append(f, e) = q
    <3> DEFINE t == Append(f, e)
    <3>1. t \in Seq(S) /\ Len(t) = Len(q) /\ \A i \in 1..Len(q) : t[i] = q[i]
      BY <2>2, <2>3, <2>4
    <3> HIDE DEF t
    <3>2. t = q
      BY <3>1, SeqEqual
    <3> QED BY <3>2 DEF t
  <2> QED BY <2>5 DEF e
<1> QED BY <1>2, <1>4 DEF f

LEMMA TailFacts ==
  ASSUME NEW S, NEW q \in Seq(S), q # <<>>
  PROVE  /\ Tail(q) \in Seq(S)
         /\ Len(q) \in Nat \ {0} /\ Len(Tail(q)) = Len(q) - 1
         /\ Head(q) = q[1] /\ Head(q) \in S
         /\ \A i \in 1..Len(Tail(q)) : Tail(q)[i] = q[i + 1]
OBVIOUS

-----------------------------------------------------------------------------
(* Subsequences: what Of and AnsweredOf select from a history, and from    *)
(* one that has grown by a request.                                        *)

LEMMA RankFacts ==
  ASSUME NEW n \in Nat, NEW I \in SUBSET (1..n)
  PROVE  /\ IsFiniteSet(I) /\ Cardinality(I) \in Nat
         /\ \A i \in I : Rank(I, i) \in 1..Cardinality(I)
         /\ \A i, j \in I : i < j => Rank(I, i) < Rank(I, j)
<1>1. IsFiniteSet(I) /\ Cardinality(I) \in Nat
  <2>1. IsFiniteSet(1..n)
    BY FS_Interval
  <2>2. IsFiniteSet(I)
    BY <2>1, FS_Subset
  <2> QED BY <2>2, FS_CardinalityType
<1> DEFINE Upto(i) == {j \in I : j <= i}
<1>2. ASSUME NEW i \in Nat
      PROVE  /\ IsFiniteSet(Upto(i)) /\ Cardinality(Upto(i)) \in Nat
             /\ Rank(I, i) = Cardinality(Upto(i)) /\ Rank(I, i) \in Nat
             /\ Rank(I, i) <= Cardinality(I)
  <2>1. Upto(i) \in SUBSET I
    OBVIOUS
  <2>2. IsFiniteSet(Upto(i)) /\ Cardinality(Upto(i)) <= Cardinality(I)
    BY <1>1, <2>1, FS_Subset
  <2> QED BY <2>2, FS_CardinalityType DEF Rank
<1>3. ASSUME NEW i \in I PROVE Rank(I, i) >= 1
  <2>1. i \in Upto(i) /\ i \in Nat
    OBVIOUS
  <2> HIDE DEF Upto
  <2>2. Upto(i) # {}
    BY <2>1
  <2>3. Cardinality(Upto(i)) # 0
    BY <1>2, <2>1, <2>2, FS_EmptySet
  <2> QED BY <1>2, <2>1, <2>3
<1>4. ASSUME NEW i \in I, NEW j \in I, i < j
      PROVE  Rank(I, i) < Rank(I, j)
  <2>1. i \in Nat /\ j \in Nat
    OBVIOUS
  <2>2. Upto(i) \in SUBSET Upto(j) /\ Upto(i) # Upto(j)
    <3>1. \A k \in Upto(i) : k \in I /\ k <= j
      BY <1>4, <2>1
    <3>2. j \in Upto(j) /\ j \notin Upto(i)
      BY <1>4, <2>1
    <3>3. \A k \in Upto(i) : k \in Upto(j)
      BY <3>1
    <3> HIDE DEF Upto
    <3> QED BY <3>2, <3>3
  <2> HIDE DEF Upto
  <2>3. /\ Cardinality(Upto(i)) <= Cardinality(Upto(j))
        /\ Cardinality(Upto(i)) # Cardinality(Upto(j))
    BY <1>2, <2>1, <2>2, FS_Subset
  <2> QED BY <1>2, <2>1, <2>3
<1>5. \A i \in I : i \in Nat
  OBVIOUS
<1> HIDE DEF Upto
<1>6. \A i \in I : Rank(I, i) \in 1..Cardinality(I)
  BY <1>1, <1>2, <1>3, <1>5
<1> QED BY <1>1, <1>4, <1>6

\* Each rank is taken, and by one member only.
LEMMA RankOnto ==
  ASSUME NEW n \in Nat, NEW I \in SUBSET (1..n)
  PROVE  /\ \A k \in 1..Cardinality(I) : \E i \in I : Rank(I, i) = k
         /\ \A i, j \in I : Rank(I, i) = Rank(I, j) => i = j
<1> DEFINE N == Cardinality(I)
           f == [i \in I |-> Rank(I, i)]
<1>1. /\ IsFiniteSet(I) /\ N \in Nat
      /\ \A i \in I : Rank(I, i) \in 1..N
      /\ \A i, j \in I : i < j => Rank(I, i) < Rank(I, j)
  BY RankFacts
<1>2. \A i, j \in I : Rank(I, i) = Rank(I, j) => i = j
  <2>1. \A i, j \in I : i < j \/ j < i \/ i = j
    OBVIOUS
  <2> QED BY <1>1, <2>1
<1>3. f \in Injection(I, 1..N)
  BY <1>1, <1>2 DEF Injection, IsInjective
<1>4. IsFiniteSet(1..N) /\ Cardinality(1..N) = N
  BY <1>1, FS_Interval
<1> HIDE DEF f
<1>5. f \in Surjection(I, 1..N)
  BY <1>3, <1>4, FS_Injection
<1>6. \A k \in 1..N : \E i \in I : Rank(I, i) = k
  BY <1>5 DEF Surjection, f
<1> QED BY <1>2, <1>6

LEMMA SubsequenceFacts ==
  ASSUME NEW S, NEW s \in Seq(S), NEW I \in SUBSET (1..Len(s))
  PROVE  /\ Subsequence(s, I) \in Seq(S)
         /\ Len(Subsequence(s, I)) = Cardinality(I)
         /\ \A i \in I : /\ Rank(I, i) \in 1..Cardinality(I)
                         /\ Subsequence(s, I)[Rank(I, i)] = s[i]
<1> DEFINE Pick(k) == CHOOSE i \in I : Rank(I, i) = k
<1>0. Len(s) \in Nat
  OBVIOUS
<1>1. /\ Cardinality(I) \in Nat
      /\ \A i \in I : Rank(I, i) \in 1..Cardinality(I)
  BY <1>0, RankFacts
<1>2. \A k \in 1..Cardinality(I) : Pick(k) \in I /\ Rank(I, Pick(k)) = k
  <2>1. \A k \in 1..Cardinality(I) : \E i \in I : Rank(I, i) = k
    BY <1>0, RankOnto
  <2> QED BY <2>1
<1>3. \A i \in I : Pick(Rank(I, i)) = i
  BY <1>0, <1>1, <1>2, RankOnto
<1>4. Subsequence(s, I) = [k \in 1..Cardinality(I) |-> s[Pick(k)]]
  BY DEF Subsequence
<1> HIDE DEF Pick
<1>5. \A i \in I : s[i] \in S
  OBVIOUS
<1>6. \A k \in 1..Cardinality(I) : s[Pick(k)] \in S
  BY <1>2, <1>5
<1> QED BY <1>1, <1>3, <1>4, <1>6

LEMMA SubsequenceAppend ==
  ASSUME NEW S, NEW s \in Seq(S), NEW e \in S, NEW I \in SUBSET (1..Len(s))
  PROVE  /\ Subsequence(Append(s, e), I) = Subsequence(s, I)
         /\ Subsequence(Append(s, e), I \cup {Len(s) + 1})
              = Append(Subsequence(s, I), e)
<1> DEFINE t == Append(s, e)
           n == Len(s)
           J == I \cup {n + 1}
           N == Cardinality(I)
<1>1. /\ t \in Seq(S) /\ n \in Nat /\ Len(t) = n + 1
      /\ t[n + 1] = e /\ \A i \in 1..n : t[i] = s[i]
  BY AppendFacts
<1>2. /\ I \in SUBSET (1..Len(t)) /\ J \in SUBSET (1..Len(t))
      /\ n + 1 \notin I /\ n + 1 \in J /\ \A i \in I : i \in J
  <2>1. /\ \A i \in I : i \in 1..n /\ i # n + 1
        /\ 1..Len(t) = 1..n \cup {n + 1}
    BY <1>1
  <2> HIDE DEF t, n
  <2> QED BY <2>1
<1>3. IsFiniteSet(I) /\ N \in Nat
  BY <1>1, RankFacts
<1>4. Cardinality(J) = N + 1
  BY <1>2, <1>3, FS_AddElement
<1>5. /\ Subsequence(s, I) \in Seq(S) /\ Len(Subsequence(s, I)) = N
      /\ \A i \in I : Subsequence(s, I)[Rank(I, i)] = s[i]
  BY SubsequenceFacts
<1> HIDE DEF t, n
<1>6. /\ Subsequence(t, I) \in Seq(S) /\ Len(Subsequence(t, I)) = N
      /\ \A i \in I : Subsequence(t, I)[Rank(I, i)] = t[i]
  BY <1>1, <1>2, SubsequenceFacts
<1>7. /\ Subsequence(t, J) \in Seq(S) /\ Len(Subsequence(t, J)) = N + 1
      /\ \A i \in J : Subsequence(t, J)[Rank(J, i)] = t[i]
  BY <1>1, <1>2, <1>4, SubsequenceFacts
<1>8. \A k \in 1..N : \E i \in I : Rank(I, i) = k
  BY <1>1, RankOnto DEF n
<1>9. \A i \in I : t[i] = s[i]
  BY <1>1 DEF n
<1>10. \A k \in 1..N : Subsequence(t, I)[k] = Subsequence(s, I)[k]
  BY <1>5, <1>6, <1>8, <1>9
<1>11. ASSUME NEW i \in I PROVE Rank(J, i) = Rank(I, i)
  <2>1. {j \in J : j <= i} = {j \in I : j <= i}
    BY <1>1 DEF n
  <2> QED BY <2>1 DEF Rank
<1>12. Rank(J, n + 1) = N + 1
  <2>1. {j \in J : j <= n + 1} = J
    BY <1>1 DEF n
  <2> QED BY <2>1, <1>4 DEF Rank
<1>13. \A k \in 1..N : Subsequence(t, J)[k] = Subsequence(s, I)[k]
  <2>1. \A i \in I : Rank(J, i) = Rank(I, i)
    BY <1>11
  <2> HIDE DEF J
  <2> QED BY <1>2, <1>5, <1>7, <1>8, <1>9, <2>1
<1>14. Subsequence(t, J)[N + 1] = e
  <2> HIDE DEF J
  <2> QED BY <1>1, <1>2, <1>7, <1>12
<1> DEFINE u == Subsequence(s, I)
           v == Subsequence(t, I)
           w == Subsequence(t, J)
<1> HIDE DEF u, v, w, J, N
<1>15. v = u
  BY <1>3, <1>5, <1>6, <1>10 DEF u, v
<1>16. w = Append(u, e)
  BY <1>3, <1>5, <1>7, <1>13, <1>14, AppendFacts DEF u, w
<1> QED BY <1>15, <1>16 DEF t, n, u, v, w, J

LEMMA OfFacts ==
  ASSUME NEW s \in Seq(Request), NEW c
  PROVE  /\ At(c, s) \in SUBSET (1..Len(s))
         /\ AnsweredAt(c, s) \in SUBSET (1..Len(s))
         /\ Of(c, s) \in Seq(Request)
         /\ Len(Of(c, s)) = Cardinality(At(c, s)) /\ Len(Of(c, s)) \in Nat
         /\ AnsweredOf(c, s) \in Seq(Request)
<1>1. /\ At(c, s) \in SUBSET (1..Len(s))
      /\ AnsweredAt(c, s) \in SUBSET (1..Len(s))
  BY DEF At, AnsweredAt
<1> QED BY <1>1, SubsequenceFacts DEF Of, AnsweredOf

LEMMA OfEmpty ==
  ASSUME NEW c
  PROVE  Of(c, <<>>) = <<>> /\ AnsweredOf(c, <<>>) = <<>>
<1>1. At(c, <<>>) = {} /\ AnsweredAt(c, <<>>) = {}
  BY DEF At, AnsweredAt
<1>2. Subsequence(<<>>, {}) = <<>>
  BY FS_EmptySet DEF Subsequence
<1> QED BY <1>1, <1>2 DEF Of, AnsweredOf

\* A history that grows by request r: so does what is selected of it, for the
\* channel of r.
LEMMA OfAppend ==
  ASSUME NEW s \in Seq(Request), NEW r \in Request, NEW c
  PROVE  /\ r.chan = c => Of(c, Append(s, r)) = Append(Of(c, s), r)
         /\ r.chan # c => Of(c, Append(s, r)) = Of(c, s)
         /\ r.chan = c /\ Answered(r) =>
              AnsweredOf(c, Append(s, r)) = Append(AnsweredOf(c, s), r)
         /\ ~(r.chan = c /\ Answered(r)) =>
              AnsweredOf(c, Append(s, r)) = AnsweredOf(c, s)
<1> DEFINE t == Append(s, r)
           n == Len(s)
<1>1. /\ n \in Nat /\ Len(t) = n + 1
      /\ t[n + 1] = r /\ \A i \in 1..n : t[i] = s[i]
  BY AppendFacts
<1>2. /\ At(c, s) \in SUBSET (1..n) /\ AnsweredAt(c, s) \in SUBSET (1..n)
  BY OfFacts
<1>3. \A I \in SUBSET (1..n) :
        /\ Subsequence(t, I) = Subsequence(s, I)
        /\ Subsequence(t, I \cup {n + 1}) = Append(Subsequence(s, I), r)
  BY SubsequenceAppend
<1> HIDE DEF t, n
<1>4. 1..Len(t) = 1..n \cup {n + 1}
  BY <1>1
<1>5. /\ r.chan = c => At(c, t) = At(c, s) \cup {n + 1}
      /\ r.chan # c => At(c, t) = At(c, s)
  BY <1>1, <1>4 DEF At, n
<1>6. /\ r.chan = c /\ Answered(r) =>
           AnsweredAt(c, t) = AnsweredAt(c, s) \cup {n + 1}
      /\ ~(r.chan = c /\ Answered(r)) => AnsweredAt(c, t) = AnsweredAt(c, s)
  <2>1. \A i \in At(c, s) : t[i] = s[i] /\ i # n + 1
    BY <1>1, <1>2
  <2> QED BY <1>1, <1>5, <2>1 DEF AnsweredAt
<1> QED BY <1>2, <1>3, <1>5, <1>6 DEF Of, AnsweredOf, t

\* In a history t that begins with s, ranks up to the end of s are those of s,
\* and the request after s is next to those of its channel in s.
LEMMA RankPrefix ==
  ASSUME NEW s \in Seq(Request), NEW t \in Seq(Request), Len(s) < Len(t),
         \A i \in 1..Len(s) : s[i] = t[i]
  PROVE  /\ \A c : \A i \in 1..Len(s) : Rank(At(c, t), i) = Rank(At(c, s), i)
         /\ LET n == Len(s) + 1
            IN  Rank(At(t[n].chan, t), n) = Len(Of(t[n].chan, s)) + 1
<1> DEFINE n == Len(s) + 1
           c == t[n].chan
<1>1. Len(s) \in Nat /\ n \in 1..Len(t) /\ 1..Len(s) \subseteq 1..Len(t)
  OBVIOUS
<1>2. ASSUME NEW d, NEW i \in 1..Len(s)
      PROVE  Rank(At(d, t), i) = Rank(At(d, s), i)
  <2>1. \A j \in At(d, t) : j <= i => j \in At(d, s)
    BY <1>1 DEF At
  <2>2. \A j \in At(d, s) : j \in At(d, t)
    BY <1>1 DEF At
  <2>3. {j \in At(d, t) : j <= i} = {j \in At(d, s) : j <= i}
    BY <2>1, <2>2
  <2> QED BY <2>3 DEF Rank
<1>3. {j \in At(c, t) : j <= n} = At(c, s) \cup {n}
  <2>1. ASSUME NEW j \in 1..Len(t), j <= n
        PROVE  (j \in At(c, t)) <=> (j \in At(c, s) \/ j = n)
    BY <1>1, <2>1 DEF At
  <2>2. \A j \in At(c, s) : j \in 1..Len(t) /\ j <= n
    BY <1>1 DEF At
  <2>3. \A j \in At(c, t) : j \in 1..Len(t)
    BY DEF At
  <2>4. n \in 1..Len(t) /\ n <= n
    BY <1>1
  <2> HIDE DEF n, c
  <2> QED BY <2>1, <2>2, <2>3, <2>4
<1>4. Len(Of(c, s)) = Cardinality(At(c, s)) /\ IsFiniteSet(At(c, s))
  <2>1. At(c, s) \in SUBSET (1..Len(s))
    BY OfFacts
  <2>2. IsFiniteSet(At(c, s))
    BY <1>1, <2>1, RankFacts
  <2> QED BY <2>2, OfFacts
<1>5. n \notin At(c, s)
  BY <1>1 DEF At
<1> HIDE DEF n, c
<1>6. Cardinality(At(c, s) \cup {n}) = Cardinality(At(c, s)) + 1
  BY <1>4, <1>5, FS_AddElement
<1>7. Rank(At(c, t), n) = Len(Of(c, s)) + 1
  BY <1>3, <1>4, <1>6 DEF Rank
<1> QED BY <1>2, <1>7 DEF n, c

-----------------------------------------------------------------------------
(* Types.                                                                  *)

\* TypeOK without the ring.
ChannelTypes ==
  /\ server \in {"new", "bound", "allocated", "serving", "closed"}
  /\ conn    \in [Channels -> {"none", "accepted", "active", "closed"}]
  /\ io      \in [Channels -> IOThreads]
  /\ context \in [Channels -> {"null", "noWorker", "worker"}]
  /\ device  \in [Channels -> 0..MaxRequests]
  /\ sent    \in [Channels -> 0..MaxRequests]
  /\ inbox   \in [Channels -> Seq(Request)]
  /\ outbox  \in [Channels -> Seq(Request)]
  /\ replies \in [Channels -> Seq(Request)]

GatewayTypes == RingP!TypeInv /\ ChannelTypes

GatewayInv ==
  /\ RingP!QueueInv /\ RingP!TypeInv /\ ChannelTypes
  /\ StreamInv /\ ServedInv /\ ConservedInv /\ AnsweredInv

\* What the types of the ring are in the gateway.
LEMMA RingTyped ==
  ASSUME GatewayTypes
  PROVE  /\ TypeOK
         /\ accepted \in Seq(Request) /\ ran \in Seq(Request)
         /\ task \in [IOThreads -> Request \cup {NoRequest}]
         /\ slot \in [0..(BufferSize - 1) -> Request \cup {NoRequest}]
         /\ wPc \in [Workers -> {"read", "set", "cas", "take", "run"}]
<1>1. RingP!TypeOK
  BY DEF GatewayTypes, RingP!TypeInv
<1> QED BY <1>1, SameTypes
        DEF GatewayTypes, ChannelTypes, TypeOK, RingP!TypeOK, RingP!Slots

\* What the invariant says of the types.
LEMMA Typed ==
  ASSUME GatewayInv
  PROVE  /\ TypeOK
         /\ accepted \in Seq(Request) /\ ran \in Seq(Request)
         /\ task \in [IOThreads -> Request \cup {NoRequest}]
         /\ slot \in [0..(BufferSize - 1) -> Request \cup {NoRequest}]
         /\ wPc \in [Workers -> {"read", "set", "cas", "take", "run"}]
BY RingTyped DEF GatewayInv, GatewayTypes

\* The worker inside run() is in the last task begun.
LEMMA InTask ==
  ASSUME GatewayTypes, NEW w \in Workers, wPc[w] = "run"
  PROVE  /\ Running = ran[Len(ran)] /\ Running \in Request
         /\ Running # NoRequest
         /\ Len(ran) \in 1..Len(ran)
<1>1. ran \in Seq(Request) /\ ran # <<>>
  BY RingTyped DEF GatewayTypes, RingP!TypeInv
<1>2. Len(ran) \in 1..Len(ran) /\ ran[Len(ran)] \in Request
  BY <1>1
<1> QED BY <1>2, RequestAssumption DEF Running, Ring!Running

\* The tasks over are the first of those begun, and the first accepted.
LEMMA DoneFacts ==
  ASSUME GatewayInv
  PROVE  /\ Done \in Seq(Request) /\ Len(Done) \in Nat /\ Len(ran) \in Nat
         /\ Len(Done) <= Len(ran) /\ Len(ran) <= Len(accepted)
         /\ \A i \in 1..Len(Done) : Done[i] = ran[i] /\ Done[i] = accepted[i]
         /\ \A i \in 1..Len(ran) : ran[i] = accepted[i]
<1>1. ran \in Seq(Request) /\ accepted \in Seq(Request)
  BY Typed
<1>2. /\ Len(ran) <= Len(accepted)
      /\ \A i \in 1..Len(ran) : ran[i] = accepted[i]
  <2>1. Len(ran) \in Nat /\ Len(accepted) \in Nat
    BY <1>1
  <2>2. \A i \in 1..Len(ran) : i <= Len(accepted) /\ ran[i] = accepted[i]
    BY DEF GatewayInv, RingP!QueueInv, RingP!OrderInv
  <2> QED BY <2>1, <2>2
<1>3. CASE Running = NoRequest
  BY <1>1, <1>2, <1>3 DEF Done
<1>4. CASE Running # NoRequest
  <2>1. Done = SubSeq(ran, 1, Len(ran) - 1)
    BY <1>4 DEF Done
  <2>2. Len(ran) \in Nat \ {0}
    <3>1. PICK w \in Workers : wPc[w] = "run"
      BY <1>4 DEF Running, Ring!Running
    <3> QED BY <3>1, InTask DEF GatewayInv, GatewayTypes
  <2>3. /\ Done \in Seq(Request) /\ Len(Done) = Len(ran) - 1
        /\ \A i \in 1..Len(Done) : Done[i] = ran[i]
    BY <1>1, <2>1, <2>2, FrontFacts
  <2> QED BY <1>2, <2>2, <2>3
<1> QED BY <1>3, <1>4

LEMMA InitHolds == Init => GatewayInv
<1> SUFFICES ASSUME Init PROVE GatewayInv
  OBVIOUS
<1>1. RingP!RingInv
  BY SameInit, RingP!RingInit, RingAssumption, RequestAssumption DEF Init
<1>2. RingP!OrderInv
  BY SameInit, RingP!OrderInit, RingAssumption, RequestAssumption DEF Init
<1>3. ChannelTypes /\ RingP!TypeInv
  BY SameInit, RingP!TypeInit, RingAssumption, RequestAssumption,
     RequestsAssumption
     DEF Init, ChannelTypes
<1>4. accepted = <<>> /\ ran = <<>> /\ task = [p \in IOThreads |-> NoRequest]
  BY DEF Init, Ring!Init
<1>5. StreamInv
  BY <1>4 DEF Init, StreamInv, Ordered
<1>6. ServedInv
  BY <1>4 DEF Init, ServedInv
<1>7. \A c : Of(c, <<>>) = <<>> /\ AnsweredOf(c, <<>>) = <<>>
  BY OfEmpty
<1>8. ConservedInv
  <2>1. \A c \in Channels : InHand(c) = <<>>
    BY <1>3, <1>4 DEF InHand, ChannelTypes
  <2>2. \A c \in Channels : inbox[c] = <<>> /\ sent[c] = 0
    BY DEF Init
  <2>3. /\ \A i \in 1..Len(<<>>) : FALSE
        /\ Len(<<>>) + Len(<<>>) + Len(<<>>) = 0
    OBVIOUS
  <2>4. \A i \in 1..Len(accepted) : FALSE
    BY <1>4, <2>3
  <2>5. \A p \in IOThreads : task[p] = NoRequest
    BY <1>4
  <2>6. ASSUME NEW c \in Channels
        PROVE  /\ \A k \in 1..Len(Of(c, accepted)) : FALSE
               /\ sent[c] = Len(Of(c, accepted)) + Len(InHand(c))
                              + Len(inbox[c])
               /\ \A j \in 1..Len(inbox[c]) : FALSE
    <3>1. Of(c, accepted) = <<>> /\ InHand(c) = <<>>
      BY <1>4, <1>7, <2>1
    <3>2. inbox[c] = <<>> /\ sent[c] = 0
      BY <2>2
    <3> QED BY <3>1, <3>2, <2>3, Zenon
  <2> QED BY <2>4, <2>5, <2>6, Zenon DEF ConservedInv
<1>9. AnsweredInv
  <2>1. Done = <<>>
    BY <1>4 DEF Init, Ring!Init, Done, Running, Ring!Running
  <2> QED BY <1>4, <1>7, <2>1 DEF Init, AnsweredInv
<1> QED BY <1>1, <1>2, <1>3, <1>5, <1>6, <1>8, <1>9
        DEF GatewayInv, RingP!QueueInv

\* The task of StartTask is the next one in the order of acceptance.
LEMMA TaskStarted ==
  ASSUME GatewayInv, NEW w \in Workers, Ring!StartTask(w)
  PROVE  \E r \in Request :
           /\ slot[Ring!SlotOf(nextSequence[w])] = r
           /\ Len(ran) + 1 \in 1..Len(accepted)
           /\ r = accepted[Len(ran) + 1]
           /\ ran' = Append(ran, r)
           /\ Done = ran /\ Done' = ran
           /\ UNCHANGED <<accepted, task>>
<1> DEFINE n == nextSequence[w]
<1>1. wPc[w] = "take" /\ available[w] >= n
  BY DEF Ring!StartTask
<1>2. RingP!RingInv /\ RingP!OrderInv
  BY DEF GatewayInv, RingP!QueueInv
<1>3. /\ n \in 0..cursor
      /\ slot[RingP!SlotOf(n)] = accepted[n + 1] /\ accepted[n + 1] \in Request
  BY <1>1, <1>2, RingP!SlotOfHeld, RingAssumption, RequestAssumption
<1>4. n = workSequence /\ Len(ran) = workSequence
  BY <1>1, <1>2 DEF RingP!OrderInv
<1>5. Len(accepted) = cursor + 1 /\ cursor \in Int
  BY <1>2 DEF RingP!RingInv, RingP!HistoryInv, RingP!TypeOK,
              RingP!SequenceNumber, RingP!InitialCursor
<1>6. slot[Ring!SlotOf(n)] = accepted[n + 1]
  BY <1>3 DEF Ring!SlotOf, RingP!SlotOf
<1>7. /\ ran' = Append(ran, accepted[n + 1]) /\ UNCHANGED <<accepted, task>>
      /\ wPc' = [wPc EXCEPT ![w] = "run"]
  BY <1>1, <1>3, <1>6, RequestAssumption DEF Ring!StartTask, Ring!producerVars
<1>8. Done = ran
  BY <1>1, WorkerAssumption DEF Done, Running, Ring!Running
<1>9. Done' = ran
  <2> DEFINE r == accepted[n + 1]
  <2>1. ran \in Seq(Request) /\ r \in Request
    BY <1>3, Typed
  <2>2. wPc'[w] = "run"
    BY <1>7, Typed
  <2> HIDE DEF r
  <2>3. ran' = Append(ran, r)
    BY <1>7 DEF r
  <2>4. /\ Len(ran') = Len(ran) + 1 /\ Len(ran) \in Nat
        /\ ran'[Len(ran')] = r
        /\ SubSeq(ran', 1, Len(ran') - 1) = ran
    BY <2>1, <2>3
  <2>5. Running' = r
    BY <2>2, <2>4 DEF Running, Ring!Running
  <2> QED BY <2>1, <2>4, <2>5, RequestAssumption DEF Done
<1> QED BY <1>3, <1>4, <1>5, <1>6, <1>7, <1>8, <1>9

\* The task of EndTask is the last one begun.
LEMMA TaskEnded ==
  ASSUME GatewayInv, NEW w \in Workers, Ring!EndTask(w)
  PROVE  \E r \in Request :
           /\ Running = r
           /\ Len(Done) + 1 = Len(ran) /\ Len(ran) \in 1..Len(accepted)
           /\ r = ran[Len(ran)] /\ r = accepted[Len(ran)]
           /\ Done' = ran /\ ran = Append(Done, r)
           /\ UNCHANGED <<accepted, task, ran>>
<1>1. /\ wPc[w] = "run" /\ wPc' = [wPc EXCEPT ![w] = "read"]
      /\ UNCHANGED <<accepted, task, ran>>
  BY DEF Ring!EndTask, Ring!producerVars
<1>2. PICK r \in Request : /\ r = Running /\ r = ran[Len(ran)]
                           /\ r # NoRequest /\ Len(ran) \in 1..Len(ran)
  BY <1>1, InTask DEF GatewayInv, GatewayTypes
<1>3. /\ ran \in Seq(Request) /\ accepted \in Seq(Request)
      /\ Len(ran) <= Len(accepted) /\ Len(accepted) \in Nat
      /\ \A i \in 1..Len(ran) : ran[i] = accepted[i]
  <2>1. ran \in Seq(Request) /\ accepted \in Seq(Request)
    BY Typed
  <2> QED BY <2>1, DoneFacts
<1>4. Done = SubSeq(ran, 1, Len(ran) - 1)
  BY <1>2 DEF Done
<1>5. Len(Done) + 1 = Len(ran) /\ ran = Append(Done, r)
  <2>1. Len(ran) \in Nat \ {0} /\ Len(ran) - 1 + 1 = Len(ran)
    BY <1>2, <1>3
  <2> QED BY <1>2, <1>3, <1>4, <2>1, FrontFacts
<1>6. Running' = NoRequest
  <2>1. \A v \in Workers : wPc'[v] # "run"
    BY <1>1, Typed, WorkerAssumption
  <2> QED BY <2>1 DEF Running, Ring!Running
<1>7. Done' = ran
  BY <1>1, <1>6 DEF Done
<1> QED BY <1>1, <1>2, <1>3, <1>5, <1>7

\* The worker's other steps begin and end no task.
LEMMA WorkSame ==
  ASSUME GatewayInv, NEW w \in Workers, Work(w)
  PROVE  UNCHANGED <<accepted, task, ran, Done, server, chanVars>>
<1>1. UNCHANGED <<accepted, task, ran, server, chanVars>>
  BY DEF Work, Ring!ReadWorkSequence, Ring!SetSequence, Ring!ClaimWork,
         Ring!WaitFor, Ring!producerVars
<1>2. \A v \in Workers : wPc'[v] = "run" <=> wPc[v] = "run"
  BY Typed DEF Work, Ring!ReadWorkSequence, Ring!SetSequence, Ring!ClaimWork,
               Ring!WaitFor
<1>3. Running' = Running
  BY <1>1, <1>2 DEF Running, Ring!Running
<1> QED BY <1>1, <1>3 DEF Done

\* Nor does any step of the main thread, the IO threads and the clients.
LEMMA DoneSame ==
  ASSUME UNCHANGED <<ran, wPc>>
  PROVE  UNCHANGED Done
BY DEF Done, Running, Ring!Running

\* Only the worker writes the device and the responses; it leaves the requests
\* on their way to the ring where they are.
LEMMA ProcessSame ==
  ASSUME GatewayInv, NEW w \in Workers, Process(w)
  PROVE  UNCHANGED <<accepted, task, server, conn, io, context, sent, inbox,
                     replies>>
<1>1. UNCHANGED <<accepted, task>>
  BY DEF Process, Ring!StartTask, Ring!EndTask, Ring!producerVars
<1> QED BY <1>1 DEF Process

LEMMA TypesNext ==
  ASSUME GatewayTypes, [Next]_vars
  PROVE  ChannelTypes'
<1>0. ChannelTypes
  BY DEF GatewayTypes
<1> USE <1>0 DEF ChannelTypes
<1>1. ASSUME Start \/ Shutdown PROVE ChannelTypes'
  BY <1>1 DEF Start, Bind, AllocateRings, CreateRing, Shutdown, chanVars
<1>2. ASSUME NEW c \in Channels, Accept(c) \/ ChannelActive(c)
      PROVE  ChannelTypes'
  BY <1>2 DEF Accept, ChannelActive
<1>3. ASSUME NEW c \in Channels, Disconnect(c) PROVE ChannelTypes'
  BY <1>3 DEF Disconnect
<1>4. ASSUME NEW c \in Channels, ChannelRead(c) PROVE ChannelTypes'
  <2>1. Tail(inbox[c]) \in Seq(Request)
    BY <1>4, TailFacts DEF ChannelRead
  <2> QED BY <1>4, <2>1 DEF ChannelRead
<1>5. ASSUME NEW c \in Channels, Flush(c) PROVE ChannelTypes'
  <2>1. Tail(outbox[c]) \in Seq(Request) /\ Head(outbox[c]) \in Request
    BY <1>5, TailFacts DEF Flush
  <2>2. Append(replies[c], Head(outbox[c])) \in Seq(Request)
    BY <2>1
  <2> QED BY <1>5, <2>1, <2>2 DEF Flush
<1>6. ASSUME NEW c \in Channels, NEW cmd \in Cmds, Send(c, cmd)
      PROVE  ChannelTypes'
  <2> DEFINE r == [chan |-> c, id |-> sent[c] + 1, cmd |-> cmd]
  <2>1. sent[c] + 1 \in 1..MaxRequests
    BY <1>6, RequestsAssumption DEF Send
  <2>2. r \in Request
    BY <2>1 DEF Request
  <2>3. Append(inbox[c], r) \in Seq(Request)
    BY <2>2
  <2> QED BY <1>6, <2>1, <2>3, RequestsAssumption DEF Send
<1>7. ASSUME NEW w \in Workers, Process(w) PROVE ChannelTypes'
  <2>0. \A r \in Request : r.chan \in Channels /\ r.id \in 0..MaxRequests
    BY RequestsAssumption DEF Request
  <2>1. CASE Ring!StartTask(w)
    <3> DEFINE i == nextSequence[w]
    <3>1. i \in Nat
      BY <2>1 DEF Ring!StartTask, GatewayTypes, RingP!TypeInv
    <3>2. RingP!SlotOf(i) \in RingP!Slots
      BY <3>1, RingP!SlotOfSlot, RingAssumption, RequestAssumption
    <3>3. slot[Ring!SlotOf(i)] \in Request \cup {NoRequest}
      BY <3>2, RingTyped DEF RingP!SlotOf, RingP!Slots, Ring!SlotOf
    <3>4. \A r \in Request : SetDevice(r) \in [Channels -> 0..MaxRequests]
      BY <2>0 DEF SetDevice
    <3>5. device' \in [Channels -> 0..MaxRequests] /\ UNCHANGED outbox
      BY <1>7, <2>1, <3>3, <3>4
         DEF Process, Ring!StartTask, Ring!EndTask
    <3> QED BY <1>7, <3>5 DEF Process
  <2>2. CASE Ring!EndTask(w)
    <3>1. Running \in Request
      BY <2>2, InTask DEF Ring!EndTask
    <3>2. \A r \in Request : Write(r) \in [Channels -> Seq(Request)]
      BY <2>0 DEF Write
    <3>3. outbox' \in [Channels -> Seq(Request)] /\ UNCHANGED device
      BY <1>7, <2>2, <3>1, <3>2 DEF Process, Ring!StartTask, Ring!EndTask
    <3> QED BY <1>7, <3>3 DEF Process
  <2> QED BY <1>7, <2>1, <2>2 DEF Process
<1>8. ASSUME UNCHANGED chanVars /\ UNCHANGED server PROVE ChannelTypes'
  BY <1>8 DEF chanVars
<1> QED BY <1>1, <1>2, <1>3, <1>4, <1>5, <1>6, <1>7, <1>8
        DEF Next, Serve, Publish, Work, vars

-----------------------------------------------------------------------------
(* The requests of a channel stay in order.                                *)

\* What an IO thread has in its hand: the task of the call of publish() that it
\* is in, for the channel whose request it is.
LEMMA Held ==
  ASSUME RingP!SingleProducer, GatewayInv, NEW p \in IOThreads,
         task[p] # NoRequest
  PROVE  /\ \A q \in IOThreads \ {p} : task[q] = NoRequest
         /\ \A c \in Channels :
              InHand(c) = IF task[p].chan = c THEN <<task[p]>> ELSE <<>>
<1>1. \A q \in IOThreads \ {p} : task[q] = NoRequest
  BY Typed DEF TypeOK, Ring!TypeOK, RingP!SingleProducer
<1>2. task[p].chan \in Channels => io[task[p].chan] = p
  BY DEF GatewayInv, ConservedInv
<1>3. ASSUME NEW c \in Channels
      PROVE  InHand(c) = IF task[p].chan = c THEN <<task[p]>> ELSE <<>>
  <2>1. io[c] \in IOThreads
    BY DEF GatewayInv, ChannelTypes
  <2> QED BY <1>1, <1>2, <2>1 DEF InHand
<1> QED BY <1>1, <1>3

\* When an IO thread enters publish(), none is in it.
LEMMA NoneHeld ==
  ASSUME RingP!SingleProducer', GatewayInv, NEW c \in Channels,
         ChannelRead(c), context[c] = "worker"
  PROVE  \A p \in IOThreads : task[p] = NoRequest
<1>1. /\ io[c] \in IOThreads /\ pPc[io[c]] = "idle"
      /\ pPc' = [pPc EXCEPT ![io[c]] = "claim"]
  BY DEF GatewayInv, ChannelTypes, ChannelRead, Ring!NextSequence
<1>2. /\ pPc \in [IOThreads -> {"idle", "claim", "fill", "publish"}]
      /\ \A p \in IOThreads : pPc[p] = "idle" <=> task[p] = NoRequest
  BY Typed DEF TypeOK, Ring!TypeOK
<1>3. \A p \in IOThreads : pPc[p] = "idle"
  BY <1>1, <1>2 DEF RingP!SingleProducer
<1> QED BY <1>2, <1>3

\* Where requests come from and go to: Send, ChannelRead, PublishCursor and
\* Disconnect; every other step leaves them where they are.
LEMMA StreamSend ==
  ASSUME GatewayInv, NEW c \in Channels, NEW cmd \in Cmds, Send(c, cmd)
  PROVE  StreamInv'
<1> DEFINE r == [chan |-> c, id |-> sent[c] + 1, cmd |-> cmd]
<1>1. /\ accepted \in Seq(Request) /\ ran \in Seq(Request)
      /\ task \in [IOThreads -> Request \cup {NoRequest}]
  BY Typed
<1>2. /\ sent \in [Channels -> 0..MaxRequests]
      /\ inbox \in [Channels -> Seq(Request)]
  BY DEF GatewayInv, ChannelTypes
<1>3. /\ sent[c] \in Nat /\ r \in Request
      /\ r.chan = c /\ r.id = sent[c] + 1
  <2>1. sent[c] + 1 \in 1..MaxRequests
    BY <1>2, RequestsAssumption DEF Send
  <2> QED BY <2>1, <1>2, RequestsAssumption DEF Request
<1>4. /\ sent' = [sent EXCEPT ![c] = @ + 1]
      /\ inbox' = [inbox EXCEPT ![c] = Append(@, r)]
      /\ UNCHANGED <<accepted, task>>
  BY DEF Send, ringVars
<1> HIDE DEF r
<1>5. /\ Len(inbox'[c]) = Len(inbox[c]) + 1 /\ Len(inbox[c]) \in Nat
      /\ inbox'[c][Len(inbox[c]) + 1] = r
      /\ \A i \in 1..Len(inbox[c]) : inbox'[c][i] = inbox[c][i]
  <2>1. inbox'[c] = Append(inbox[c], r)
    BY <1>2, <1>4
  <2> QED BY <2>1, <1>2, <1>3, AppendFacts
<1>6. \A d \in Channels : sent[d] \in Nat /\ sent'[d] \in Nat
                          /\ sent[d] <= sent'[d]
  BY <1>2, <1>4, RequestsAssumption
<1>7. sent'[c] = sent[c] + 1 /\ r.id = sent'[c]
  BY <1>2, <1>3, <1>4
<1>8. \A q \in Request : q.chan \in Channels /\ q.id \in Nat
  BY RequestsAssumption DEF Request
<1>9. \A i \in 1..Len(accepted) : accepted[i] \in Request
  BY <1>1
<1>10. \A i \in 1..Len(inbox[c]) : inbox[c][i] \in Request
  BY <1>2
<1> USE DEF GatewayInv, StreamInv, Before
<1>11. Ordered(accepted')
  BY <1>4
<1>12. \A p \in IOThreads : task'[p] # NoRequest =>
         /\ task'[p].id <= sent'[task'[p].chan]
         /\ \A i \in 1..Len(accepted') : Before(accepted'[i], task'[p])
  BY <1>1, <1>4, <1>6, <1>8
<1>13. \A i \in 1..Len(accepted') : accepted'[i].id <= sent'[accepted'[i].chan]
  BY <1>4, <1>6, <1>8, <1>9
<1>14. ASSUME NEW d \in Channels
       PROVE  /\ Ordered(inbox'[d])
              /\ \A j \in 1..Len(inbox'[d]) :
                   /\ inbox'[d][j].chan = d /\ inbox'[d][j].id <= sent'[d]
                   /\ \A i \in 1..Len(accepted') :
                        Before(accepted'[i], inbox'[d][j])
                   /\ \A p \in IOThreads : task'[p] # NoRequest =>
                        Before(task'[p], inbox'[d][j])
  <2>1. CASE d # c
    <3>1. inbox'[d] = inbox[d] /\ sent'[d] = sent[d]
      BY <2>1, <1>2, <1>4
    <3> QED BY <3>1, <1>4
  <2>2. CASE d = c
    <3>1. ASSUME NEW j \in 1..Len(inbox[c])
          PROVE  /\ inbox'[c][j].chan = c /\ inbox'[c][j].id <= sent'[c]
                 /\ inbox'[c][j].id < r.id
                 /\ \A i \in 1..Len(accepted') :
                      Before(accepted'[i], inbox'[c][j])
                 /\ \A p \in IOThreads : task'[p] # NoRequest =>
                      Before(task'[p], inbox'[c][j])
      BY <1>3, <1>4, <1>5, <1>7, <1>8, <1>10
    <3>2. /\ r.chan = c /\ r.id <= sent'[c]
          /\ \A i \in 1..Len(accepted') : Before(accepted'[i], r)
          /\ \A p \in IOThreads : task'[p] # NoRequest => Before(task'[p], r)
      BY <1>1, <1>3, <1>4, <1>7, <1>8, <1>9
    <3>4. \A j \in 1..Len(inbox'[c]) :
            j \in 1..Len(inbox[c]) \/ j = Len(inbox[c]) + 1
      BY <1>5
    <3>3. ASSUME NEW i \in 1..Len(inbox'[c]), NEW j \in 1..Len(inbox'[c]),
                 i < j
          PROVE  Before(inbox'[c][i], inbox'[c][j])
      <4>1. i \in 1..Len(inbox[c])
        BY <3>3, <3>4, <1>5
      <4>2. CASE j \in 1..Len(inbox[c])
        <5>1. Before(inbox[c][i], inbox[c][j])
          BY <3>3, <4>1, <4>2 DEF Ordered
        <5> QED BY <5>1, <4>1, <4>2, <1>5
      <4>3. CASE j = Len(inbox[c]) + 1
        BY <4>1, <4>3, <3>1, <1>5
      <4> QED BY <4>2, <4>3, <3>4
    <3> HIDE DEF Before
    <3>5. ASSUME NEW j \in 1..Len(inbox'[c])
          PROVE  /\ inbox'[c][j].chan = c /\ inbox'[c][j].id <= sent'[c]
                 /\ \A i \in 1..Len(accepted') :
                      Before(accepted'[i], inbox'[c][j])
                 /\ \A p \in IOThreads : task'[p] # NoRequest =>
                      Before(task'[p], inbox'[c][j])
      <4>1. CASE j \in 1..Len(inbox[c])
        BY <4>1, <3>1
      <4>2. CASE j = Len(inbox[c]) + 1
        BY <4>2, <3>2, <1>5
      <4> QED BY <4>1, <4>2, <3>4
    <3>6. Ordered(inbox'[c])
      BY <3>3 DEF Ordered
    <3> QED BY <2>2, <3>5, <3>6
  <2> QED BY <2>1, <2>2
<1> QED BY <1>11, <1>12, <1>13, <1>14

LEMMA StreamRead ==
  ASSUME GatewayInv, NEW c \in Channels, ChannelRead(c)
  PROVE  StreamInv'
<1> DEFINE r == Head(inbox[c])
           h == io[c]
<1>1. /\ accepted \in Seq(Request)
      /\ task \in [IOThreads -> Request \cup {NoRequest}]
  BY Typed
<1>2. /\ inbox \in [Channels -> Seq(Request)] /\ inbox[c] # <<>>
      /\ h \in IOThreads
  BY DEF GatewayInv, ChannelTypes, ChannelRead
<1>4. /\ inbox' = [inbox EXCEPT ![c] = Tail(@)]
      /\ UNCHANGED <<accepted, sent>>
      /\ task' = task \/ task' = [task EXCEPT ![h] = r]
  BY DEF ChannelRead, ringVars, Ring!NextSequence
<1>5. /\ inbox'[c] = Tail(inbox[c])
      /\ \A d \in Channels \ {c} : inbox'[d] = inbox[d]
  BY <1>2, <1>4
<1>6. /\ Len(inbox[c]) \in Nat \ {0}
      /\ Len(inbox'[c]) = Len(inbox[c]) - 1
      /\ r = inbox[c][1] /\ r \in Request
      /\ \A i \in 1..Len(inbox'[c]) : inbox'[c][i] = inbox[c][i + 1]
  BY <1>2, <1>5, TailFacts
<1> HIDE DEF r, h
<1>7. \A i \in 1..Len(inbox'[c]) : i + 1 \in 1..Len(inbox[c])
  BY <1>6
<1>8. 1 \in 1..Len(inbox[c])
  BY <1>6
<1> USE DEF GatewayInv, StreamInv
<1>9. /\ r.chan = c /\ r.id <= sent[c]
      /\ \A i \in 1..Len(accepted) : Before(accepted[i], r)
      /\ \A j \in 1..Len(inbox'[c]) : Before(r, inbox'[c][j])
  <2>1. ASSUME NEW j \in 1..Len(inbox'[c]) PROVE Before(r, inbox'[c][j])
    <3>1. 1 < j + 1 /\ j + 1 \in 1..Len(inbox[c])
      BY <1>7
    <3>2. Before(inbox[c][1], inbox[c][j + 1])
      BY <3>1, <1>8 DEF Ordered
    <3> QED BY <3>2, <1>6
  <2> QED BY <2>1, <1>6, <1>8
<1>10. \A p \in IOThreads : task'[p] = task[p] \/ task'[p] = r
  BY <1>1, <1>2, <1>4
<1>11. \A p \in IOThreads : task'[p] # NoRequest =>
         /\ task'[p].id <= sent'[task'[p].chan]
         /\ \A i \in 1..Len(accepted') : Before(accepted'[i], task'[p])
  BY <1>4, <1>9, <1>10
<1>12. ASSUME NEW d \in Channels
       PROVE  /\ Ordered(inbox'[d])
              /\ \A j \in 1..Len(inbox'[d]) :
                   /\ inbox'[d][j].chan = d /\ inbox'[d][j].id <= sent'[d]
                   /\ \A i \in 1..Len(accepted') :
                        Before(accepted'[i], inbox'[d][j])
                   /\ \A p \in IOThreads : task'[p] # NoRequest =>
                        Before(task'[p], inbox'[d][j])
  <2>1. CASE d # c
    <3>1. inbox'[d] = inbox[d]
      BY <2>1, <1>5
    <3>2. \A j \in 1..Len(inbox[d]) : Before(r, inbox[d][j])
      BY <2>1, <1>9 DEF Before
    <3> QED BY <3>1, <3>2, <1>4, <1>10
  <2>2. CASE d = c
    <3>1. Ordered(inbox'[c])
      <4>1. \A i, j \in 1..Len(inbox'[c]) : i < j =>
              /\ i + 1 \in 1..Len(inbox[c]) /\ j + 1 \in 1..Len(inbox[c])
              /\ i + 1 < j + 1
        BY <1>7
      <4> QED BY <4>1, <1>6 DEF Ordered
    <3>2. ASSUME NEW j \in 1..Len(inbox'[c])
          PROVE  /\ inbox'[c][j].chan = c /\ inbox'[c][j].id <= sent'[c]
                 /\ \A i \in 1..Len(accepted') :
                      Before(accepted'[i], inbox'[c][j])
                 /\ \A p \in IOThreads : task'[p] # NoRequest =>
                      Before(task'[p], inbox'[c][j])
      <4>1. j + 1 \in 1..Len(inbox[c]) /\ inbox'[c][j] = inbox[c][j + 1]
        BY <1>6, <1>7
      <4>2. /\ inbox[c][j + 1].chan = c /\ inbox[c][j + 1].id <= sent[c]
            /\ \A i \in 1..Len(accepted) : Before(accepted[i], inbox[c][j + 1])
            /\ \A p \in IOThreads : task[p] # NoRequest =>
                 Before(task[p], inbox[c][j + 1])
        BY <4>1
      <4>3. Before(r, inbox'[c][j])
        BY <1>9
      <4> QED BY <4>1, <4>2, <4>3, <1>4, <1>10
    <3> QED BY <2>2, <3>1, <3>2
  <2> QED BY <2>1, <2>2
<1> QED BY <1>4, <1>11, <1>12

LEMMA StreamPublish ==
  ASSUME RingP!SingleProducer, GatewayInv, NEW p \in IOThreads,
         Ring!PublishCursor(p), UNCHANGED chanVars
  PROVE  StreamInv'
<1> DEFINE r == task[p]
<1>1. /\ accepted \in Seq(Request)
      /\ task \in [IOThreads -> Request \cup {NoRequest}]
  BY Typed
<1>2. r # NoRequest
  BY DEF Ring!PublishCursor, GatewayInv, RingP!QueueInv, RingP!RingInv,
         RingP!TypeOK
<1>3. \A q \in IOThreads \ {p} : task[q] = NoRequest
  BY <1>2, Held
<1>4. /\ accepted' = Append(accepted, r)
      /\ task' = [task EXCEPT ![p] = NoRequest]
      /\ UNCHANGED <<inbox, sent>>
  BY DEF Ring!PublishCursor, chanVars
<1>5. r \in Request
  BY <1>1, <1>2
<1> HIDE DEF r
<1>6. /\ Len(accepted') = Len(accepted) + 1 /\ Len(accepted) \in Nat
      /\ accepted'[Len(accepted) + 1] = r
      /\ \A i \in 1..Len(accepted) : accepted'[i] = accepted[i]
  BY <1>1, <1>4, <1>5, AppendFacts
<1>7. \A i \in 1..Len(accepted') :
        i \in 1..Len(accepted) \/ i = Len(accepted) + 1
  BY <1>6
<1>8. \A q \in IOThreads : task'[q] = NoRequest
  BY <1>1, <1>3, <1>4
<1> USE DEF GatewayInv, StreamInv
<1>9. /\ r.id <= sent[r.chan]
      /\ \A i \in 1..Len(accepted) : Before(accepted[i], r)
      /\ \A c \in Channels : \A j \in 1..Len(inbox[c]) : Before(r, inbox[c][j])
  BY <1>2 DEF r
<1>10. ASSUME NEW i \in 1..Len(accepted'), NEW j \in 1..Len(accepted'), i < j
       PROVE  Before(accepted'[i], accepted'[j])
  <2>1. i \in 1..Len(accepted)
    BY <1>6, <1>7, <1>10
  <2>2. CASE j \in 1..Len(accepted)
    <3>1. Before(accepted[i], accepted[j])
      BY <1>10, <2>1, <2>2 DEF Ordered
    <3> QED BY <3>1, <2>1, <2>2, <1>6
  <2>3. CASE j = Len(accepted) + 1
    BY <2>1, <2>3, <1>6, <1>9
  <2> QED BY <2>2, <2>3, <1>7
<1>11. \A i \in 1..Len(accepted') : accepted'[i].id <= sent'[accepted'[i].chan]
  BY <1>4, <1>6, <1>7, <1>9
<1>12. ASSUME NEW c \in Channels
       PROVE  /\ Ordered(inbox'[c])
              /\ \A j \in 1..Len(inbox'[c]) :
                   /\ inbox'[c][j].chan = c /\ inbox'[c][j].id <= sent'[c]
                   /\ \A i \in 1..Len(accepted') :
                        Before(accepted'[i], inbox'[c][j])
  BY <1>4, <1>6, <1>7, <1>9
<1>13. Ordered(accepted')
  BY <1>10 DEF Ordered
<1> QED BY <1>8, <1>11, <1>12, <1>13

LEMMA StreamNext ==
  ASSUME RingP!SingleProducer, GatewayInv, [Next]_vars
  PROVE  StreamInv'
<1>0. StreamInv
  BY DEF GatewayInv
<1>1. ASSUME UNCHANGED <<accepted, task, sent, inbox>> PROVE StreamInv'
  BY <1>0, <1>1 DEF StreamInv, Ordered
<1>2. ASSUME NEW c \in Channels, Disconnect(c) PROVE StreamInv'
  <2>1. /\ inbox \in [Channels -> Seq(Request)]
        /\ inbox' = [inbox EXCEPT ![c] = <<>>]
        /\ UNCHANGED <<accepted, task, sent>>
    BY <1>2 DEF Disconnect, ringVars, GatewayInv, ChannelTypes
  <2>2. \A d \in Channels : inbox'[d] = inbox[d] \/ inbox'[d] = <<>>
    BY <2>1
  <2>3. Ordered(<<>>)
    BY DEF Ordered
  <2>4. ASSUME NEW d \in Channels
        PROVE  /\ Ordered(inbox'[d])
               /\ \A j \in 1..Len(inbox'[d]) :
                    /\ inbox'[d][j].chan = d /\ inbox'[d][j].id <= sent'[d]
                    /\ \A i \in 1..Len(accepted') :
                         Before(accepted'[i], inbox'[d][j])
                    /\ \A p \in IOThreads : task'[p] # NoRequest =>
                         Before(task'[p], inbox'[d][j])
    <3>1. CASE inbox'[d] = inbox[d]
      BY <1>0, <2>1, <3>1 DEF StreamInv
    <3>2. CASE inbox'[d] = <<>>
      BY <2>3, <3>2
    <3> QED BY <2>2, <3>1, <3>2
  <2>5. Ordered(accepted')
    BY <1>0, <2>1 DEF StreamInv
  <2> QED BY <1>0, <2>1, <2>4, <2>5 DEF StreamInv
<1>3. ASSUME NEW c \in Channels, Serve(c) \/ Accept(c) PROVE StreamInv'
  <2>1. CASE ChannelRead(c)
    BY <2>1, StreamRead
  <2>2. CASE ChannelActive(c) \/ Flush(c) \/ Accept(c)
    BY <2>2, <1>1 DEF ChannelActive, Flush, Accept, ringVars
  <2> QED BY <1>3, <2>1, <2>2 DEF Serve
<1>4. ASSUME NEW c \in Channels, NEW cmd \in Cmds, Send(c, cmd)
      PROVE  StreamInv'
  BY <1>4, StreamSend
<1>5. ASSUME NEW p \in IOThreads, Publish(p) PROVE StreamInv'
  <2>1. CASE Ring!PublishCursor(p)
    BY <1>5, <2>1, StreamPublish DEF Publish
  <2>2. CASE Ring!ClaimSequence(p) \/ Ring!FillSlot(p)
    BY <1>5, <2>2, <1>1 DEF Publish, Ring!ClaimSequence, Ring!FillSlot, chanVars
  <2> QED BY <1>5, <2>1, <2>2 DEF Publish, Ring!Publish
<1>6. ASSUME NEW w \in Workers, Process(w) PROVE StreamInv'
  BY <1>6, <1>1, ProcessSame
<1>7. ASSUME NEW w \in Workers, Work(w) PROVE StreamInv'
  BY <1>7, <1>1, WorkSame DEF chanVars
<1>8. ASSUME Start \/ Shutdown \/ UNCHANGED vars PROVE StreamInv'
  BY <1>8, <1>1 DEF Start, Bind, AllocateRings, CreateRing, Shutdown, vars,
     ringVars, chanVars
<1> QED BY <1>2, <1>3, <1>4, <1>5, <1>6, <1>7, <1>8 DEF Next

-----------------------------------------------------------------------------
(* Devices and responses are those of requests the worker has begun.       *)

\* The task begun is later than every earlier one of its channel.
LEMMA LaterTask ==
  ASSUME GatewayInv, Len(ran) + 1 \in 1..Len(accepted)
  PROVE  \A i \in 1..Len(ran) : Before(ran[i], accepted[Len(ran) + 1])
<1>1. \A i \in 1..Len(ran) : i \in 1..Len(accepted) /\ ran[i] = accepted[i]
  BY DEF GatewayInv, RingP!QueueInv, RingP!OrderInv
<1>2. \A i \in 1..Len(ran) : i < Len(ran) + 1
  BY Typed
<1> QED BY <1>1, <1>2 DEF GatewayInv, StreamInv, Ordered

LEMMA ServedStart ==
  ASSUME GatewayInv, NEW w \in Workers, Process(w), Ring!StartTask(w)
  PROVE  ServedInv'
<1>0. wPc[w] = "take"
  BY DEF Ring!StartTask
<1>1. PICK r \in Request :
        /\ slot[Ring!SlotOf(nextSequence[w])] = r
        /\ Len(ran) + 1 \in 1..Len(accepted)
        /\ r = accepted[Len(ran) + 1]
        /\ ran' = Append(ran, r)
  BY TaskStarted
<1>2. \A i \in 1..Len(ran) : Before(ran[i], r)
  BY <1>1, LaterTask
<1>3. ran \in Seq(Request)
  BY Typed
<1>4. /\ Len(ran) \in Nat /\ Len(ran') = Len(ran) + 1
      /\ ran'[Len(ran) + 1] = r
      /\ \A i \in 1..Len(ran) : ran'[i] = ran[i]
      /\ Range(ran') = Range(ran) \cup {r}
  BY <1>1, <1>3, AppendFacts
<1>5. \A i \in 1..Len(ran') : i \in 1..Len(ran) \/ i = Len(ran) + 1
  BY <1>4
<1>6. device \in [Channels -> 0..MaxRequests]
  BY DEF GatewayInv, ChannelTypes
<1>7. /\ r.chan \in Channels /\ r.id \in Nat /\ r.cmd \in Cmds
      /\ r = [chan |-> r.chan, id |-> r.id, cmd |-> r.cmd]
      /\ \A i \in 1..Len(ran) : ran[i].chan \in Channels /\ ran[i].id \in Nat
  <2>1. \A q \in Request :
          /\ q.chan \in Channels /\ q.id \in Nat /\ q.cmd \in Cmds
          /\ q = [chan |-> q.chan, id |-> q.id, cmd |-> q.cmd]
    BY RequestsAssumption DEF Request
  <2>2. \A i \in 1..Len(ran) : ran[i] \in Request
    BY <1>3
  <2> QED BY <2>1, <2>2
<1>8. /\ IF r.cmd = "LOGIN" THEN device' = [device EXCEPT ![r.chan] = r.id]
         ELSE device' = device
      /\ UNCHANGED <<outbox, replies>>
  BY <1>0, <1>1, RequestAssumption
     DEF Process, Ring!StartTask, Ring!EndTask, SetDevice
<1> USE DEF GatewayInv, ServedInv
<1>9. ASSUME NEW c \in Channels, device'[c] # 0
      PROVE  [chan |-> c, id |-> device'[c], cmd |-> "LOGIN"] \in Range(ran')
  <2>1. CASE device'[c] = device[c]
    BY <1>4, <1>9, <2>1
  <2>2. CASE device'[c] # device[c]
    <3>1. r.cmd = "LOGIN" /\ c = r.chan /\ device'[c] = r.id
      BY <1>6, <1>8, <2>2
    <3> QED BY <1>4, <1>7, <3>1
  <2> QED BY <2>1, <2>2
<1>10. ASSUME NEW i \in 1..Len(ran'), ran'[i].cmd = "LOGIN"
       PROVE  ran'[i].id <= device'[ran'[i].chan]
  <2>1. CASE i = Len(ran) + 1
    <3>1. ran'[i] = r /\ device'[r.chan] = r.id
      BY <1>4, <1>6, <1>7, <1>8, <1>10, <2>1
    <3> QED BY <1>7, <3>1
  <2>2. CASE i \in 1..Len(ran)
    <3>1. ran'[i] = ran[i] /\ ran[i].id <= device[ran[i].chan]
      BY <1>4, <1>10, <2>2
    <3>2. CASE device'[ran[i].chan] = device[ran[i].chan]
      BY <3>1, <3>2
    <3>3. CASE device'[ran[i].chan] # device[ran[i].chan]
      <4>1. ran[i].chan = r.chan /\ device'[r.chan] = r.id
        BY <1>6, <1>7, <1>8, <2>2, <3>3
      <4>2. ran[i].id < r.id
        BY <1>2, <2>2, <4>1 DEF Before
      <4> QED BY <1>7, <2>2, <3>1, <4>1, <4>2
    <3> QED BY <3>2, <3>3
  <2> QED BY <1>5, <2>1, <2>2
<1>11. \A c \in Channels : \A i \in 1..Len(outbox'[c]) :
         outbox'[c][i].chan = c /\ outbox'[c][i] \in Range(ran')
  BY <1>4, <1>8
<1>12. \A c \in Channels : \A i \in 1..Len(replies'[c]) :
         replies'[c][i].chan = c /\ replies'[c][i] \in Range(ran')
  BY <1>4, <1>8
<1> QED BY <1>9, <1>10, <1>11, <1>12

LEMMA ServedEnd ==
  ASSUME GatewayInv, NEW w \in Workers, Process(w), Ring!EndTask(w)
  PROVE  ServedInv'
<1>0. wPc[w] = "run"
  BY DEF Ring!EndTask
<1>1. PICK r \in Request : /\ Running = r /\ r = ran[Len(ran)]
                           /\ Len(Done) + 1 = Len(ran) /\ UNCHANGED ran
  BY TaskEnded
<1>2. r \in Range(ran)
  <2>1. ran \in Seq(Request) /\ DOMAIN ran = 1..Len(ran)
    BY Typed
  <2>2. Len(Done) \in Nat
    BY DoneFacts
  <2>3. Len(ran) \in 1..Len(ran)
    BY <1>1, <2>1, <2>2
  <2> QED BY <1>1, <2>1, <2>3 DEF Range
<1>3. /\ outbox \in [Channels -> Seq(Request)] /\ r.chan \in Channels
      /\ outbox' = outbox
           \/ outbox' = [outbox EXCEPT ![r.chan] = Append(@, r)]
      /\ UNCHANGED <<device, replies>>
  BY <1>0, <1>1
     DEF GatewayInv, ChannelTypes, Request, Process, Ring!StartTask,
         Ring!EndTask, Write
<1> USE DEF GatewayInv, ServedInv
<1>4. ASSUME NEW c \in Channels, NEW i \in 1..Len(outbox'[c])
      PROVE  outbox'[c][i].chan = c /\ outbox'[c][i] \in Range(ran)
  <2>1. CASE outbox'[c] = outbox[c]
    BY <1>4, <2>1
  <2>2. CASE outbox'[c] # outbox[c]
    <3>1. c = r.chan /\ outbox'[c] = Append(outbox[c], r)
      BY <1>3, <2>2
    <3>2. /\ Len(outbox[c]) \in Nat /\ Len(outbox'[c]) = Len(outbox[c]) + 1
          /\ outbox'[c][Len(outbox[c]) + 1] = r
          /\ \A j \in 1..Len(outbox[c]) : outbox'[c][j] = outbox[c][j]
      <4>1. outbox[c] \in Seq(Request)
        BY <1>3
      <4> QED BY <4>1, <3>1, AppendFacts
    <3>3. i \in 1..Len(outbox[c]) \/ i = Len(outbox[c]) + 1
      BY <3>2
    <3> QED BY <1>2, <3>1, <3>2, <3>3
  <2> QED BY <2>1, <2>2
<1> QED BY <1>1, <1>3, <1>4

LEMMA ServedProcess ==
  ASSUME GatewayInv, NEW w \in Workers, Process(w)
  PROVE  ServedInv'
BY ServedStart, ServedEnd DEF Process

LEMMA ServedFlush ==
  ASSUME GatewayInv, NEW c \in Channels, Flush(c)
  PROVE  ServedInv'
<1>1. /\ outbox \in [Channels -> Seq(Request)] /\ outbox[c] # <<>>
      /\ replies \in [Channels -> Seq(Request)]
      /\ outbox' = [outbox EXCEPT ![c] = Tail(@)]
      /\ replies' = [replies EXCEPT ![c] = Append(@, Head(outbox[c]))]
      /\ UNCHANGED <<device, ran>>
  BY DEF Flush, ringVars, GatewayInv, ChannelTypes
<1>2. /\ Len(outbox[c]) \in Nat \ {0}
      /\ Len(Tail(outbox[c])) = Len(outbox[c]) - 1
      /\ Head(outbox[c]) = outbox[c][1] /\ Head(outbox[c]) \in Request
      /\ \A i \in 1..Len(Tail(outbox[c])) :
           Tail(outbox[c])[i] = outbox[c][i + 1]
  BY <1>1, TailFacts
<1>3. /\ Len(replies[c]) \in Nat
      /\ Len(replies'[c]) = Len(replies[c]) + 1
      /\ replies'[c][Len(replies[c]) + 1] = outbox[c][1]
      /\ \A i \in 1..Len(replies[c]) : replies'[c][i] = replies[c][i]
  <2>1. replies'[c] = Append(replies[c], Head(outbox[c]))
    BY <1>1
  <2> QED BY <2>1, <1>1, <1>2, AppendFacts
<1> USE DEF GatewayInv, ServedInv
<1>4. ASSUME NEW d \in Channels, NEW i \in 1..Len(outbox'[d])
      PROVE  outbox'[d][i].chan = d /\ outbox'[d][i] \in Range(ran')
  <2>1. CASE d # c
    BY <1>1, <1>4, <2>1
  <2>2. CASE d = c
    <3>1. outbox'[c] = Tail(outbox[c])
      BY <1>1
    <3>2. i + 1 \in 1..Len(outbox[c]) /\ outbox'[c][i] = outbox[c][i + 1]
      BY <1>2, <1>4, <2>2, <3>1
    <3> QED BY <1>1, <2>2, <3>2
  <2> QED BY <2>1, <2>2
<1>5. ASSUME NEW d \in Channels, NEW i \in 1..Len(replies'[d])
      PROVE  replies'[d][i].chan = d /\ replies'[d][i] \in Range(ran')
  <2>1. CASE d # c
    BY <1>1, <1>5, <2>1
  <2>2. CASE d = c
    <3>1. i \in 1..Len(replies[c]) \/ i = Len(replies[c]) + 1
      BY <1>3, <1>5, <2>2
    <3>2. 1 \in 1..Len(outbox[c])
      BY <1>2
    <3>3. outbox[c][1].chan = c /\ outbox[c][1] \in Range(ran)
      BY <3>2
    <3> QED BY <1>1, <1>3, <2>2, <3>1, <3>3
  <2> QED BY <2>1, <2>2
<1> QED BY <1>1, <1>4, <1>5

LEMMA ServedNext ==
  ASSUME GatewayInv, [Next]_vars
  PROVE  ServedInv'
<1>0. ServedInv
  BY DEF GatewayInv
<1>1. ASSUME UNCHANGED <<ran, device, outbox, replies>> PROVE ServedInv'
  BY <1>0, <1>1 DEF ServedInv
<1>2. ASSUME NEW c \in Channels, Disconnect(c) PROVE ServedInv'
  <2>1. /\ outbox \in [Channels -> Seq(Request)]
        /\ outbox' = [outbox EXCEPT ![c] = <<>>]
        /\ UNCHANGED <<ran, device, replies>>
    BY <1>2 DEF Disconnect, ringVars, GatewayInv, ChannelTypes
  <2>2. \A d \in Channels : outbox'[d] = outbox[d] \/ outbox'[d] = <<>>
    BY <2>1
  <2>3. \A d \in Channels : \A i \in 1..Len(outbox'[d]) :
          outbox'[d][i].chan = d /\ outbox'[d][i] \in Range(ran)
    BY <1>0, <2>2 DEF ServedInv
  <2> QED BY <1>0, <2>1, <2>3 DEF ServedInv
<1>3. ASSUME NEW c \in Channels, Serve(c) \/ Accept(c) PROVE ServedInv'
  <2>1. CASE Flush(c)
    BY <2>1, ServedFlush
  <2>2. CASE ChannelActive(c) \/ ChannelRead(c) \/ Accept(c)
    BY <2>2, <1>1 DEF ChannelActive, ChannelRead, Accept, ringVars,
       Ring!NextSequence
  <2> QED BY <1>3, <2>1, <2>2 DEF Serve
<1>4. ASSUME NEW c \in Channels, NEW cmd \in Cmds, Send(c, cmd)
      PROVE  ServedInv'
  BY <1>4, <1>1 DEF Send, ringVars
<1>5. ASSUME NEW p \in IOThreads, Publish(p) PROVE ServedInv'
  BY <1>5, <1>1 DEF Publish, chanVars, Ring!Publish, Ring!ClaimSequence,
     Ring!FillSlot, Ring!PublishCursor
<1>6. ASSUME NEW w \in Workers, Process(w) PROVE ServedInv'
  BY <1>6, ServedProcess
<1>7. ASSUME NEW w \in Workers, Work(w) PROVE ServedInv'
  BY <1>7, <1>1, WorkSame DEF chanVars
<1>8. ASSUME Start \/ Shutdown \/ UNCHANGED vars PROVE ServedInv'
  BY <1>8, <1>1 DEF Start, Bind, AllocateRings, CreateRing, Shutdown, vars,
     ringVars, chanVars
<1> QED BY <1>2, <1>3, <1>4, <1>5, <1>6, <1>7, <1>8 DEF Next

-----------------------------------------------------------------------------
(* The requests of a channel are numbered on their way to the worker.      *)

\* What ConservedInv counts.
LEMMA Counted ==
  ASSUME GatewayInv
  PROVE  \A c \in Channels :
           /\ Of(c, accepted) \in Seq(Request) /\ Len(Of(c, accepted)) \in Nat
           /\ inbox[c] \in Seq(Request) /\ Len(inbox[c]) \in Nat
           /\ sent[c] \in Nat
           /\ Len(InHand(c)) \in {0, 1}
<1>1. /\ accepted \in Seq(Request)
      /\ sent \in [Channels -> 0..MaxRequests]
      /\ inbox \in [Channels -> Seq(Request)]
  BY Typed DEF GatewayInv, ChannelTypes
<1>2. \A c : Len(InHand(c)) \in {0, 1}
  BY DEF InHand
<1>3. \A c : Of(c, accepted) \in Seq(Request) /\ Len(Of(c, accepted)) \in Nat
  BY <1>1, OfFacts
<1>4. \A c \in Channels :
        inbox[c] \in Seq(Request) /\ Len(inbox[c]) \in Nat /\ sent[c] \in Nat
  BY <1>1, RequestsAssumption
<1> QED BY <1>2, <1>3, <1>4

\* A step that moves no request of a channel that stays served.
LEMMA ConservedSame ==
  ASSUME GatewayInv, UNCHANGED <<accepted, task, io>>,
         \A d \in Channels :
           /\ Admitted(d) => Admitted(d)'
           /\ Served(d)' =>
                Served(d) /\ sent'[d] = sent[d] /\ inbox'[d] = inbox[d]
  PROVE  ConservedInv'
<1>1. /\ accepted \in Seq(Request)
      /\ task \in [IOThreads -> Request \cup {NoRequest}]
  BY Typed
<1>2. \A q \in Request : q.chan \in Channels
  BY DEF Request
<1>3. /\ \A i \in 1..Len(accepted) : accepted[i].chan \in Channels
      /\ \A p \in IOThreads : task[p] # NoRequest => task[p].chan \in Channels
  BY <1>1, <1>2
<1>4. \A c \in Channels : Len(InHand(c)') = Len(InHand(c))
  BY DEF InHand
<1>5. /\ \A i \in 1..Len(accepted') :
           /\ Admitted(accepted[i].chan)'
           /\ accepted'[i].id = Rank(At(accepted'[i].chan, accepted'), i)
      /\ \A p \in IOThreads : task'[p] # NoRequest =>
           /\ Admitted(task[p].chan)' /\ io'[task'[p].chan] = p
           /\ task'[p].id = Len(Of(task'[p].chan, accepted')) + 1
  BY <1>3 DEF GatewayInv, ConservedInv
<1>6. ASSUME NEW c \in Channels
      PROVE  /\ \A k \in 1..Len(Of(c, accepted')) :
                  Of(c, accepted')[k].id = k
             /\ Served(c)' =>
                  LET taken == Len(Of(c, accepted')) + Len(InHand(c)')
                  IN  /\ sent'[c] = taken + Len(inbox'[c])
                      /\ \A j \in 1..Len(inbox'[c]) :
                           inbox'[c][j].id = taken + j
  <2>1. /\ \A k \in 1..Len(Of(c, accepted)) : Of(c, accepted)[k].id = k
        /\ Served(c) =>
             LET taken == Len(Of(c, accepted)) + Len(InHand(c))
             IN  /\ sent[c] = taken + Len(inbox[c])
                 /\ \A j \in 1..Len(inbox[c]) : inbox[c][j].id = taken + j
    BY DEF GatewayInv, ConservedInv
  <2>2. Of(c, accepted') = Of(c, accepted) /\ Len(InHand(c)') = Len(InHand(c))
    BY <1>4
  <2>3. Served(c)' =>
          Served(c) /\ sent'[c] = sent[c] /\ inbox'[c] = inbox[c]
    OBVIOUS
  <2> QED BY <2>1, <2>2, <2>3, ZenonT(30)
<1> QED BY <1>5, <1>6 DEF ConservedInv

LEMMA ConservedSend ==
  ASSUME GatewayInv, NEW c \in Channels, NEW cmd \in Cmds, Send(c, cmd)
  PROVE  ConservedInv'
<1> DEFINE r == [chan |-> c, id |-> sent[c] + 1, cmd |-> cmd]
<1>1. /\ sent' = [sent EXCEPT ![c] = @ + 1]
      /\ inbox' = [inbox EXCEPT ![c] = Append(@, r)]
      /\ UNCHANGED <<accepted, task, conn, context, io>>
  BY DEF Send, ringVars
<1>2. /\ sent \in [Channels -> 0..MaxRequests]
      /\ inbox \in [Channels -> Seq(Request)]
      /\ io \in [Channels -> IOThreads]
  BY DEF GatewayInv, ChannelTypes
<1>3. r \in Request /\ r.id = sent[c] + 1
  <2>1. sent[c] + 1 \in 1..MaxRequests
    BY <1>2, RequestsAssumption DEF Send
  <2> QED BY <2>1 DEF Request
<1> HIDE DEF r
<1>4. /\ sent'[c] = sent[c] + 1
      /\ \A d \in Channels \ {c} : sent'[d] = sent[d] /\ inbox'[d] = inbox[d]
  BY <1>1, <1>2, RequestsAssumption
<1>5. /\ Len(inbox'[c]) = Len(inbox[c]) + 1
      /\ inbox'[c][Len(inbox[c]) + 1] = r
      /\ \A i \in 1..Len(inbox[c]) : inbox'[c][i] = inbox[c][i]
  <2>1. inbox'[c] = Append(inbox[c], r)
    BY <1>1, <1>2
  <2> QED BY <2>1, <1>2, <1>3, AppendFacts
<1>6. \A d \in Channels : /\ Len(InHand(d)') = Len(InHand(d))
                          /\ Served(d)' <=> Served(d)
  BY <1>1 DEF InHand, Served
<1> DEFINE taken == Len(Of(c, accepted)) + Len(InHand(c))
<1>7. taken \in Nat /\ Len(inbox[c]) \in Nat /\ sent[c] \in Nat
  BY Counted
<1>8. ASSUME Served(c)
      PROVE  /\ sent'[c] = taken + Len(inbox'[c])
             /\ \A j \in 1..Len(inbox'[c]) : inbox'[c][j].id = taken + j
  <2>1. /\ sent[c] = taken + Len(inbox[c])
        /\ \A j \in 1..Len(inbox[c]) : inbox[c][j].id = taken + j
    BY <1>8 DEF GatewayInv, ConservedInv
  <2>2. \A j \in 1..Len(inbox'[c]) :
          j \in 1..Len(inbox[c]) \/ j = Len(inbox[c]) + 1
    BY <1>5, <1>7
  <2> HIDE DEF taken
  <2>3. ASSUME NEW j \in 1..Len(inbox'[c]) PROVE inbox'[c][j].id = taken + j
    <3>1. CASE j \in 1..Len(inbox[c])
      BY <3>1, <2>1, <1>5
    <3>2. CASE j = Len(inbox[c]) + 1
      <4>1. inbox'[c][j] = r
        BY <3>2, <1>5
      <4>2. r.id = taken + j
        BY <3>2, <2>1, <1>3, <1>7
      <4> QED BY <4>1, <4>2
    <3> QED BY <2>2, <3>1, <3>2
  <2>4. sent'[c] = taken + Len(inbox'[c])
    BY <2>1, <1>4, <1>5, <1>7
  <2> QED BY <2>3, <2>4
<1>9. ASSUME NEW d \in Channels, Served(d)'
      PROVE  LET all == Len(Of(d, accepted')) + Len(InHand(d)')
             IN  /\ sent'[d] = all + Len(inbox'[d])
                 /\ \A j \in 1..Len(inbox'[d]) : inbox'[d][j].id = all + j
  <2>1. Served(d)
    BY <1>6, <1>9
  <2>2. CASE d = c
    BY <2>1, <2>2, <1>1, <1>6, <1>8
  <2>3. CASE d # c
    <3>1. LET all == Len(Of(d, accepted)) + Len(InHand(d))
          IN  /\ sent[d] = all + Len(inbox[d])
              /\ \A j \in 1..Len(inbox[d]) : inbox[d][j].id = all + j
      BY <2>1 DEF GatewayInv, ConservedInv
    <3>2. /\ sent'[d] = sent[d] /\ inbox'[d] = inbox[d]
          /\ Len(InHand(d)') = Len(InHand(d)) /\ accepted' = accepted
      BY <2>3, <1>1, <1>4, <1>6
    <3> QED BY <3>1, <3>2
  <2> QED BY <2>2, <2>3
<1>10. \A d : Admitted(d)' <=> Admitted(d)
  BY <1>1 DEF Admitted
<1> QED BY <1>1, <1>9, <1>10 DEF GatewayInv, ConservedInv

LEMMA ConservedRead ==
  ASSUME RingP!SingleProducer', GatewayInv, NEW c \in Channels,
         ChannelRead(c)
  PROVE  ConservedInv'
<1> DEFINE p == io[c]
           r == Head(inbox[c])
<1>1. /\ inbox \in [Channels -> Seq(Request)] /\ inbox[c] # <<>>
      /\ p \in IOThreads
      /\ inbox' = [inbox EXCEPT ![c] = Tail(@)]
      /\ UNCHANGED <<accepted, sent, conn, context, io>>
  BY DEF ChannelRead, GatewayInv, ChannelTypes, ringVars, Ring!NextSequence
<1>2. /\ Len(inbox[c]) \in Nat \ {0} /\ 1 \in 1..Len(inbox[c])
      /\ Len(inbox'[c]) = Len(inbox[c]) - 1
      /\ r = inbox[c][1]
      /\ \A i \in 1..Len(inbox'[c]) :
           i + 1 \in 1..Len(inbox[c]) /\ inbox'[c][i] = inbox[c][i + 1]
  BY <1>1, TailFacts
<1>3. \A d \in Channels \ {c} : inbox'[d] = inbox[d]
  BY <1>1
<1>4. \A d \in Channels : Served(d)' <=> Served(d)
  BY <1>1 DEF Served
<1>5. CASE context[c] # "worker"
  <2>1. ~Served(c) /\ UNCHANGED task
    BY <1>5 DEF ChannelRead, Served, ringVars
  <2>2. \A d : Admitted(d)' <=> Admitted(d)
    BY <1>1 DEF Admitted
  <2> QED BY <2>1, <2>2, <1>1, <1>3, <1>4, ConservedSame
<1>6. CASE context[c] = "worker"
  <2>1. /\ conn[c] = "active" /\ Served(c)
        /\ task' = [task EXCEPT ![p] = r] /\ pPc[p] = "idle"
    BY <1>6 DEF ChannelRead, Served, Ring!NextSequence
  <2>2. /\ task \in [IOThreads -> Request \cup {NoRequest}]
        /\ \A q \in IOThreads : task[q] = NoRequest
    BY <1>6, Typed, NoneHeld
  <2> HIDE DEF p, r
  <2>3. \A q \in IOThreads : task'[q] = IF q = p THEN r ELSE NoRequest
    BY <1>1, <2>1, <2>2
  <2>4. io[c] = p /\ \A d \in Channels : io[d] \in IOThreads
    BY <1>1 DEF p, GatewayInv, ChannelTypes
  <2>5. r.chan = c /\ r # NoRequest
    <3>1. inbox[c][1] \in Request
      BY <1>1, <1>2
    <3> QED BY <3>1, <1>2, RequestAssumption DEF GatewayInv, StreamInv
  <2>6. \A d \in Channels :
          /\ Len(InHand(d)) = 0
          /\ Len(InHand(d)') = IF d = c THEN 1 ELSE 0
    <3>1. \A d \in Channels : InHand(d) = <<>>
      BY <2>2, <2>4 DEF InHand
    <3>2. \A d \in Channels : InHand(d)' = IF d = c THEN <<r>> ELSE <<>>
      BY <1>1, <2>3, <2>4, <2>5 DEF InHand
    <3> QED BY <3>1, <3>2
  <2>7. Len(Of(c, accepted)) \in Nat /\ sent[c] \in Nat
    BY <1>1, Counted
  <2>8. /\ sent[c] = Len(Of(c, accepted)) + Len(inbox[c])
        /\ \A j \in 1..Len(inbox[c]) : inbox[c][j].id = Len(Of(c, accepted)) + j
    <3>1. LET taken == Len(Of(c, accepted)) + Len(InHand(c))
          IN  /\ sent[c] = taken + Len(inbox[c])
              /\ \A j \in 1..Len(inbox[c]) : inbox[c][j].id = taken + j
      BY <2>1 DEF GatewayInv, ConservedInv
    <3>2. Len(Of(c, accepted)) + Len(InHand(c)) = Len(Of(c, accepted))
      BY <2>6, <2>7
    <3> QED BY <3>1, <3>2
  <2>9. r.id = Len(Of(c, accepted)) + 1
    BY <1>2, <2>8
  <2>10. /\ sent'[c] = Len(Of(c, accepted)) + 1 + Len(inbox'[c])
         /\ \A j \in 1..Len(inbox'[c]) :
              inbox'[c][j].id = Len(Of(c, accepted)) + 1 + j
    BY <1>1, <1>2, <2>7, <2>8
  <2>11. ASSUME NEW d \in Channels, Served(d)'
         PROVE  LET all == Len(Of(d, accepted')) + Len(InHand(d)')
                IN  /\ sent'[d] = all + Len(inbox'[d])
                    /\ \A j \in 1..Len(inbox'[d]) : inbox'[d][j].id = all + j
    <3>1. CASE d = c
      BY <3>1, <1>1, <2>6, <2>10
    <3>2. CASE d # c
      <4>1. LET taken == Len(Of(d, accepted)) + Len(InHand(d))
            IN  /\ sent[d] = taken + Len(inbox[d])
                /\ \A j \in 1..Len(inbox[d]) : inbox[d][j].id = taken + j
        BY <1>4, <2>11 DEF GatewayInv, ConservedInv
      <4>2. Len(InHand(d)') = Len(InHand(d))
        BY <3>2, <2>6
      <4> QED BY <3>2, <4>1, <4>2, <1>1, <1>3
    <3> QED BY <3>1, <3>2
  <2>12. \A q \in IOThreads : task'[q] # NoRequest =>
           /\ Admitted(task[q].chan)' /\ io'[task'[q].chan] = q
           /\ task'[q].id = Len(Of(task'[q].chan, accepted')) + 1
    BY <1>1, <1>6, <2>1, <2>3, <2>4, <2>5, <2>9 DEF Admitted
  <2>13. \A d : Admitted(d)' <=> Admitted(d)
    BY <1>1 DEF Admitted
  <2> QED BY <1>1, <2>11, <2>12, <2>13 DEF GatewayInv, ConservedInv
<1> QED BY <1>5, <1>6

LEMMA ConservedPublish ==
  ASSUME RingP!SingleProducer, GatewayInv, NEW p \in IOThreads,
         Ring!PublishCursor(p), UNCHANGED chanVars
  PROVE  ConservedInv'
<1> DEFINE r == task[p]
<1>1. /\ accepted \in Seq(Request)
      /\ task \in [IOThreads -> Request \cup {NoRequest}]
      /\ r # NoRequest
  BY Typed DEF TypeOK, Ring!TypeOK, Ring!PublishCursor
<1>2. /\ accepted' = Append(accepted, r)
      /\ task' = [task EXCEPT ![p] = NoRequest]
      /\ UNCHANGED <<inbox, sent, conn, context, io>>
  BY DEF Ring!PublishCursor, chanVars
<1>3. r \in Request
  BY <1>1
<1>4. \A q \in IOThreads : task'[q] = NoRequest
  BY <1>1, <1>2, Held
<1>5. \A d \in Channels : /\ Len(InHand(d)') = 0
                          /\ Len(InHand(d)) = IF d = r.chan THEN 1 ELSE 0
  <2>1. \A d \in Channels : io[d] \in IOThreads
    BY DEF GatewayInv, ChannelTypes
  <2>2. \A d \in Channels : InHand(d)' = <<>>
    BY <1>2, <1>4, <2>1 DEF InHand
  <2>3. \A d \in Channels : Len(InHand(d)) = IF d = r.chan THEN 1 ELSE 0
    BY <1>1, Held
  <2> QED BY <2>2, <2>3
<1>6. /\ r.chan \in Channels /\ Admitted(r.chan)
      /\ r.id = Len(Of(r.chan, accepted)) + 1
  BY <1>1, <1>3 DEF GatewayInv, ConservedInv, Request
<1> HIDE DEF r
<1>7. /\ Len(accepted) \in Nat /\ Len(accepted') = Len(accepted) + 1
      /\ accepted' \in Seq(Request)
      /\ accepted'[Len(accepted) + 1] = r
      /\ \A i \in 1..Len(accepted) : accepted'[i] = accepted[i]
  BY <1>1, <1>2, <1>3, AppendFacts
<1>8. \A i \in 1..Len(accepted') :
        i \in 1..Len(accepted) \/ i = Len(accepted) + 1
  BY <1>7
<1>9. /\ \A d : \A i \in 1..Len(accepted) :
           Rank(At(d, accepted'), i) = Rank(At(d, accepted), i)
      /\ Rank(At(r.chan, accepted'), Len(accepted) + 1)
           = Len(Of(r.chan, accepted)) + 1
  <2>1. Len(accepted) < Len(accepted')
    BY <1>7
  <2> QED BY <1>1, <1>7, <2>1, RankPrefix
<1>10. \A i \in 1..Len(accepted') :
         /\ Admitted(accepted[i].chan)'
         /\ accepted'[i].id = Rank(At(accepted'[i].chan, accepted'), i)
  <2>1. \A d : Admitted(d)' <=> Admitted(d)
    BY <1>2 DEF Admitted
  <2> HIDE DEF Admitted
  <2> QED BY <2>1, <1>2, <1>6, <1>7, <1>8, <1>9 DEF GatewayInv, ConservedInv
<1>11. ASSUME NEW d \in Channels
       PROVE  /\ \A k \in 1..Len(Of(d, accepted')) :
                   Of(d, accepted')[k].id = k
              /\ Len(Of(d, accepted'))
                   = Len(Of(d, accepted)) + Len(InHand(d))
  <2>1. /\ Of(d, accepted) \in Seq(Request) /\ Len(Of(d, accepted)) \in Nat
        /\ \A k \in 1..Len(Of(d, accepted)) : Of(d, accepted)[k].id = k
    BY Counted DEF GatewayInv, ConservedInv
  <2>2. CASE d = r.chan
    <3>1. Of(d, accepted') = Append(Of(d, accepted), r)
      BY <2>2, <1>1, <1>2, <1>3, OfAppend
    <3>2. /\ Len(Of(d, accepted')) = Len(Of(d, accepted)) + 1
          /\ Of(d, accepted')[Len(Of(d, accepted)) + 1] = r
          /\ \A k \in 1..Len(Of(d, accepted)) :
               Of(d, accepted')[k] = Of(d, accepted)[k]
      BY <2>1, <3>1, <1>3, AppendFacts
    <3>3. \A k \in 1..Len(Of(d, accepted')) :
            k \in 1..Len(Of(d, accepted)) \/ k = Len(Of(d, accepted)) + 1
      BY <2>1, <3>2
    <3> QED BY <2>1, <2>2, <3>2, <3>3, <1>5, <1>6
  <2>3. CASE d # r.chan
    <3>1. Of(d, accepted') = Of(d, accepted)
      BY <2>3, <1>1, <1>2, <1>3, OfAppend
    <3> QED BY <2>1, <2>3, <3>1, <1>5
  <2> QED BY <2>2, <2>3
<1>12. ASSUME NEW d \in Channels, Served(d)'
       PROVE  LET all == Len(Of(d, accepted')) + Len(InHand(d)')
              IN  /\ sent'[d] = all + Len(inbox'[d])
                  /\ \A j \in 1..Len(inbox'[d]) : inbox'[d][j].id = all + j
  <2>1. Served(d)
    BY <1>2, <1>12 DEF Served
  <2>2. Len(Of(d, accepted')) + Len(InHand(d)')
          = Len(Of(d, accepted)) + Len(InHand(d))
    <3>1. Len(Of(d, accepted)) \in Nat /\ Len(InHand(d)) \in {0, 1}
      BY Counted
    <3> QED BY <3>1, <1>5, <1>11
  <2> QED BY <1>2, <2>1, <2>2 DEF GatewayInv, ConservedInv
<1> QED BY <1>4, <1>10, <1>11, <1>12 DEF ConservedInv

LEMMA ConservedNext ==
  ASSUME RingP!SingleProducer, RingP!SingleProducer', GatewayInv,
         [Next]_vars
  PROVE  ConservedInv'
<1>1. ASSUME UNCHANGED <<accepted, task, io, conn, context, sent, inbox>>
      PROVE  ConservedInv'
  <2>1. \A d \in Channels :
          (Served(d)' => Served(d)) /\ (Admitted(d) => Admitted(d)')
    BY <1>1 DEF Served, Admitted
  <2> QED BY <1>1, <2>1, ConservedSame
<1>2. ASSUME NEW c \in Channels, Accept(c) \/ ChannelActive(c) \/ Disconnect(c)
      PROVE  ConservedInv'
  <2>1. /\ conn \in [Channels -> {"none", "accepted", "active", "closed"}]
        /\ context \in [Channels -> {"null", "noWorker", "worker"}]
        /\ inbox \in [Channels -> Seq(Request)]
    BY DEF GatewayInv, ChannelTypes
  <2>2. /\ UNCHANGED <<accepted, task, io, sent>>
        /\ \A d \in Channels \ {c} :
             /\ conn'[d] = conn[d] /\ context'[d] = context[d]
             /\ inbox'[d] = inbox[d]
    BY <1>2, <2>1 DEF Accept, ChannelActive, Disconnect, ringVars
  <2>3. \/ conn[c] = "none" /\ conn'[c] = "accepted" /\ inbox'[c] = inbox[c]
        \/ conn[c] = "accepted" /\ conn'[c] = "active" /\ inbox'[c] = inbox[c]
        \/ conn[c] = "active" /\ conn'[c] = "closed" /\ UNCHANGED context
    BY <1>2, <2>1 DEF Accept, ChannelActive, Disconnect
  <2>4. \A d \in Channels :
          /\ Admitted(d) => Admitted(d)'
          /\ Served(d)' => Served(d) /\ inbox'[d] = inbox[d]
    BY <2>2, <2>3 DEF Served, Admitted
  <2> QED BY <2>2, <2>4, ConservedSame
<1>3. ASSUME NEW c \in Channels, ChannelRead(c) PROVE ConservedInv'
  BY <1>3, ConservedRead
<1>4. ASSUME NEW c \in Channels, Flush(c) PROVE ConservedInv'
  BY <1>4, <1>1 DEF Flush, ringVars
<1>5. ASSUME NEW c \in Channels, NEW cmd \in Cmds, Send(c, cmd)
      PROVE  ConservedInv'
  BY <1>5, ConservedSend
<1>6. ASSUME NEW p \in IOThreads, Publish(p) PROVE ConservedInv'
  <2>1. CASE Ring!PublishCursor(p)
    BY <1>6, <2>1, ConservedPublish DEF Publish
  <2>2. CASE Ring!ClaimSequence(p) \/ Ring!FillSlot(p)
    BY <1>6, <2>2, <1>1 DEF Publish, Ring!ClaimSequence, Ring!FillSlot, chanVars
  <2> QED BY <1>6, <2>1, <2>2 DEF Publish, Ring!Publish
<1>7. ASSUME NEW w \in Workers, Process(w) PROVE ConservedInv'
  BY <1>7, <1>1, ProcessSame
<1>8. ASSUME NEW w \in Workers, Work(w) PROVE ConservedInv'
  BY <1>8, <1>1, WorkSame DEF chanVars
<1>9. ASSUME Start \/ Shutdown \/ UNCHANGED vars PROVE ConservedInv'
  BY <1>9, <1>1 DEF Start, Bind, AllocateRings, CreateRing, Shutdown, vars,
     ringVars, chanVars
<1> QED BY <1>2, <1>3, <1>4, <1>5, <1>6, <1>7, <1>8, <1>9 DEF Next, Serve

-----------------------------------------------------------------------------
(* The responses of a channel are those of the requests the worker has     *)
(* begun.                                                                  *)

LEMMA ConcatFacts ==
  ASSUME NEW q \in Seq(Request), NEW u \in Seq(Request), NEW e \in Request
  PROVE  /\ q \o Append(u, e) = Append(q \o u, e)
         /\ u # <<>> => Append(q, Head(u)) \o Tail(u) = q \o u
<1>1. q \o u \in Seq(Request) /\ Append(u, e) \in Seq(Request)
  BY ConcatProperties, AppendProperties
<1>2. q \o Append(u, e) = Append(q \o u, e)
  <2>1. Append(u, e) = u \o <<e>> /\ Append(q \o u, e) = (q \o u) \o <<e>>
    BY <1>1, AppendIsConcat
  <2>2. <<e>> \in Seq(Request)
    OBVIOUS
  <2>3. (q \o u) \o <<e>> = q \o (u \o <<e>>)
    BY <2>2, ConcatAssociative
  <2> QED BY <2>1, <2>3
<1>3. ASSUME u # <<>> PROVE Append(q, Head(u)) \o Tail(u) = q \o u
  <2>1. /\ Head(u) \in Request /\ Tail(u) \in Seq(Request)
        /\ <<Head(u)>> \in Seq(Request)
    BY <1>3, HeadTailProperties
  <2>2. /\ Append(q, Head(u)) = q \o <<Head(u)>>
        /\ (q \o <<Head(u)>>) \o Tail(u) = q \o (<<Head(u)>> \o Tail(u))
    BY <2>1, AppendIsConcat, ConcatAssociative
  <2>3. <<Head(u)>> \o Tail(u) = u
    BY <1>3, <2>1
  <2> QED BY <2>2, <2>3
<1> QED BY <1>1, <1>2, <1>3

LEMMA JoinFacts ==
  ASSUME NEW q \in Seq(Request), NEW u \in Seq(Request)
  PROVE  /\ q \o u \in Seq(Request) /\ q \o <<>> = q /\ <<>> \o q = q
         /\ Len(q) \in Nat /\ Len(u) \in Nat /\ Len(q \o u) = Len(q) + Len(u)
         /\ \A k \in 1..Len(q) : (q \o u)[k] = q[k]
         /\ SubSeq(q \o u, 1, Len(q)) = q
<1>1. Len(q) \in Nat /\ Len(u) \in Nat
  OBVIOUS
<1>2. q \o u \in Seq(Request) /\ q \o <<>> = q /\ <<>> \o q = q
  BY ConcatProperties, ConcatEmptySeq
<1>3. /\ Len(q \o u) = Len(q) + Len(u)
      /\ \A k \in 1..(Len(q) + Len(u)) :
           (q \o u)[k] = IF k <= Len(q) THEN q[k] ELSE u[k - Len(q)]
  <2> QED BY ConcatProperties, Zenon
<1>4. \A k \in 1..Len(q) : (q \o u)[k] = q[k]
  BY <1>1, <1>3
<1>5. SubSeq(q \o u, 1, Len(q)) = q
  BY SubSeqOfConcat1, SubSeqFull
<1> QED BY <1>1, <1>2, <1>3, <1>4, <1>5

\* A step of no task that keeps the responses of channels that stay open.
LEMMA AnsweredSame ==
  ASSUME GatewayInv, UNCHANGED <<ran, Done>>,
         \A d \in Channels : conn'[d] # "closed" =>
           /\ conn[d] # "closed"
           /\ replies'[d] \o outbox'[d] = replies[d] \o outbox[d]
  PROVE  AnsweredInv'
BY DEF GatewayInv, AnsweredInv

LEMMA AnsweredStart ==
  ASSUME GatewayInv, NEW w \in Workers, Process(w), Ring!StartTask(w)
  PROVE  AnsweredInv'
<1>1. PICK r \in Request :
        /\ Len(ran) + 1 \in 1..Len(accepted)
        /\ r = accepted[Len(ran) + 1]
        /\ ran' = Append(ran, r)
        /\ Done' = Done
  BY TaskStarted
<1>2. ran \in Seq(Request) /\ accepted \in Seq(Request)
  BY Typed
<1>3. r.id = Len(Of(r.chan, ran)) + 1
  <2>1. /\ Len(ran) < Len(accepted)
        /\ \A i \in 1..Len(ran) : ran[i] = accepted[i]
    BY <1>1, <1>2, DoneFacts
  <2>2. Rank(At(r.chan, accepted), Len(ran) + 1) = Len(Of(r.chan, ran)) + 1
    BY <1>1, <1>2, <2>1, RankPrefix
  <2> QED BY <1>1, <2>2 DEF GatewayInv, ConservedInv
<1>4. UNCHANGED <<conn, outbox, replies>>
  BY DEF Process, Ring!StartTask, Ring!EndTask
<1>5. ASSUME NEW d \in Channels
      PROVE  \A k \in 1..Len(Of(d, ran')) : Of(d, ran')[k].id = k
  <2>1. /\ Of(d, ran) \in Seq(Request) /\ Len(Of(d, ran)) \in Nat
        /\ \A k \in 1..Len(Of(d, ran)) : Of(d, ran)[k].id = k
    BY <1>2, OfFacts DEF GatewayInv, AnsweredInv
  <2>2. CASE d = r.chan
    <3>1. Of(d, ran') = Append(Of(d, ran), r)
      BY <2>2, <1>1, <1>2, OfAppend
    <3>2. /\ Len(Of(d, ran')) = Len(Of(d, ran)) + 1
          /\ Of(d, ran')[Len(Of(d, ran)) + 1] = r
          /\ \A k \in 1..Len(Of(d, ran)) : Of(d, ran')[k] = Of(d, ran)[k]
      BY <2>1, <3>1, AppendFacts
    <3>3. \A k \in 1..Len(Of(d, ran')) :
            k \in 1..Len(Of(d, ran)) \/ k = Len(Of(d, ran)) + 1
      BY <2>1, <3>2
    <3> QED BY <2>1, <2>2, <3>2, <3>3, <1>3
  <2>3. CASE d # r.chan
    BY <2>1, <2>3, <1>1, <1>2, OfAppend
  <2> QED BY <2>2, <2>3
<1>6. \A d \in Channels : conn'[d] # "closed" =>
        replies'[d] \o outbox'[d] = AnsweredOf(d, Done')
  BY <1>1, <1>4 DEF GatewayInv, AnsweredInv
<1> QED BY <1>5, <1>6 DEF AnsweredInv

LEMMA AnsweredEnd ==
  ASSUME GatewayInv, NEW w \in Workers, Process(w), Ring!EndTask(w)
  PROVE  AnsweredInv'
<1>0. wPc[w] = "run"
  BY DEF Ring!EndTask
<1>1. PICK r \in Request :
        /\ Running = r /\ Len(ran) \in 1..Len(accepted)
        /\ r = accepted[Len(ran)]
        /\ Done' = Append(Done, r) /\ UNCHANGED ran
  BY TaskEnded
<1>2. Done \in Seq(Request)
  BY DoneFacts
<1>3. r.chan \in Channels /\ conn[r.chan] \in {"active", "closed"}
  BY <1>1 DEF GatewayInv, ConservedInv, Admitted, Request
<1>4. /\ outbox' = Write(r) /\ UNCHANGED <<conn, replies>>
      /\ outbox \in [Channels -> Seq(Request)]
      /\ replies \in [Channels -> Seq(Request)]
  BY <1>0, <1>1
     DEF Process, Ring!StartTask, Ring!EndTask, GatewayInv, ChannelTypes
<1>5. ASSUME NEW d \in Channels, conn'[d] # "closed"
      PROVE  replies'[d] \o outbox'[d] = AnsweredOf(d, Done')
  <2>1. replies[d] \o outbox[d] = AnsweredOf(d, Done)
    BY <1>4, <1>5 DEF GatewayInv, AnsweredInv
  <2>2. CASE d = r.chan /\ Answered(r)
    <3>1. outbox'[d] = Append(outbox[d], r)
      BY <2>2, <1>3, <1>4, <1>5 DEF Write
    <3>2. replies[d] \o Append(outbox[d], r) = Append(replies[d] \o outbox[d], r)
      <4>1. replies[d] \in Seq(Request) /\ outbox[d] \in Seq(Request)
        BY <1>4
      <4> QED BY <4>1, ConcatFacts
    <3>3. AnsweredOf(d, Done') = Append(AnsweredOf(d, Done), r)
      BY <2>2, <1>1, <1>2, OfAppend
    <3> QED BY <2>1, <3>1, <3>2, <3>3, <1>4
  <2>3. CASE ~(d = r.chan /\ Answered(r))
    <3>1. outbox'[d] = outbox[d]
      BY <2>3, <1>4 DEF Write
    <3>2. AnsweredOf(d, Done') = AnsweredOf(d, Done)
      BY <2>3, <1>1, <1>2, OfAppend
    <3> QED BY <2>1, <3>1, <3>2, <1>4
  <2> QED BY <2>2, <2>3
<1>6. \A d \in Channels :
        \A k \in 1..Len(Of(d, ran')) : Of(d, ran')[k].id = k
  BY <1>1 DEF GatewayInv, AnsweredInv
<1> QED BY <1>5, <1>6 DEF AnsweredInv

LEMMA AnsweredProcess ==
  ASSUME GatewayInv, NEW w \in Workers, Process(w)
  PROVE  AnsweredInv'
BY AnsweredStart, AnsweredEnd DEF Process

LEMMA AnsweredNext ==
  ASSUME GatewayInv, [Next]_vars
  PROVE  AnsweredInv'
<1>1. ASSUME UNCHANGED <<ran, Done, conn, outbox, replies>>
      PROVE  AnsweredInv'
  BY <1>1, AnsweredSame
<1>2. /\ conn \in [Channels -> {"none", "accepted", "active", "closed"}]
      /\ outbox \in [Channels -> Seq(Request)]
      /\ replies \in [Channels -> Seq(Request)]
  BY DEF GatewayInv, ChannelTypes
<1>3. ASSUME NEW c \in Channels, Accept(c) \/ ChannelActive(c) \/ Disconnect(c)
      PROVE  AnsweredInv'
  <2>1. /\ UNCHANGED <<ran, wPc, replies>>
        /\ \A d \in Channels : conn'[d] # "closed" =>
             conn[d] # "closed" /\ outbox'[d] = outbox[d]
    BY <1>2, <1>3 DEF Accept, ChannelActive, Disconnect, ringVars
  <2> QED BY <2>1, DoneSame, AnsweredSame
<1>4. ASSUME NEW c \in Channels, Flush(c) PROVE AnsweredInv'
  <2>1. /\ UNCHANGED <<ran, wPc, conn>> /\ outbox[c] # <<>>
        /\ replies'[c] = Append(replies[c], Head(outbox[c]))
        /\ outbox'[c] = Tail(outbox[c])
        /\ \A d \in Channels \ {c} :
             replies'[d] = replies[d] /\ outbox'[d] = outbox[d]
    BY <1>2, <1>4 DEF Flush, ringVars
  <2>2. Append(replies[c], Head(outbox[c])) \o Tail(outbox[c])
          = replies[c] \o outbox[c]
    <3>1. replies[c] \in Seq(Request) /\ outbox[c] \in Seq(Request)
          /\ Head(outbox[c]) \in Request
      BY <1>2, <2>1, TailFacts
    <3> QED BY <2>1, <3>1, ConcatFacts
  <2>3. \A d \in Channels :
          replies'[d] \o outbox'[d] = replies[d] \o outbox[d]
    BY <2>1, <2>2
  <2> QED BY <2>1, <2>3, DoneSame, AnsweredSame
<1>5. ASSUME NEW c \in Channels, ChannelRead(c) PROVE AnsweredInv'
  BY <1>5, <1>1, DoneSame
     DEF ChannelRead, ringVars, Ring!NextSequence, Ring!workerVars
<1>6. ASSUME NEW c \in Channels, NEW cmd \in Cmds, Send(c, cmd)
      PROVE  AnsweredInv'
  BY <1>6, <1>1, DoneSame DEF Send, ringVars
<1>7. ASSUME NEW p \in IOThreads, Publish(p) PROVE AnsweredInv'
  BY <1>7, <1>1, DoneSame
     DEF Publish, chanVars, Ring!Publish, Ring!ClaimSequence, Ring!FillSlot,
         Ring!PublishCursor, Ring!workerVars
<1>8. ASSUME NEW w \in Workers, Process(w) PROVE AnsweredInv'
  BY <1>8, AnsweredProcess
<1>9. ASSUME NEW w \in Workers, Work(w) PROVE AnsweredInv'
  BY <1>9, <1>1, WorkSame DEF chanVars
<1>10. ASSUME Start \/ Shutdown \/ UNCHANGED vars PROVE AnsweredInv'
  BY <1>10, <1>1, DoneSame DEF Start, Bind, AllocateRings, CreateRing, Shutdown, vars,
     ringVars, chanVars
<1> QED BY <1>3, <1>4, <1>5, <1>6, <1>7, <1>8, <1>9, <1>10 DEF Next, Serve

-----------------------------------------------------------------------------
(* Each channel is a Conversation.                                         *)

LEMMA AskedFacts ==
  ASSUME GatewayInv, NEW c \in Channels
  PROVE  /\ Of(c, accepted) \in Seq(Request) /\ InHand(c) \in Seq(Request)
         /\ inbox[c] \in Seq(Request)
         /\ Of(c, accepted) \o InHand(c) \in Seq(Request)
         /\ Asked(c) \in Seq(Request)
         /\ Len(Asked(c)) \in Nat /\ Len(Of(c, accepted)) \in Nat
         /\ Len(Of(c, accepted)) <= Len(Asked(c))
         /\ \A k \in 1..Len(Of(c, accepted)) :
              Asked(c)[k] = Of(c, accepted)[k]
         /\ SubSeq(Asked(c), 1, Len(Of(c, accepted))) = Of(c, accepted)
         /\ IOFree(c) => InHand(c) = <<>> /\ Asked(c) = Of(c, accepted) \o inbox[c]
<1> DEFINE a == Of(c, accepted)
           h == InHand(c)
           b == inbox[c]
<1>1. /\ accepted \in Seq(Request) /\ io[c] \in IOThreads
      /\ task \in [IOThreads -> Request \cup {NoRequest}]
      /\ b \in Seq(Request)
  BY Typed DEF GatewayInv, ChannelTypes
<1>2. a \in Seq(Request)
  BY <1>1, OfFacts
<1>3. h \in Seq(Request)
  <2>1. task[io[c]] \in Request \cup {NoRequest}
    BY <1>1
  <2> QED BY <2>1 DEF InHand
<1>4. IOFree(c) => h = <<>>
  BY <1>1, Typed DEF IOFree, InHand, TypeOK, Ring!TypeOK
<1>5. Asked(c) = (a \o h) \o b
  BY DEF Asked
<1> HIDE DEF a, h, b
<1>6. a \o h \in Seq(Request) /\ h \o b \in Seq(Request)
  BY <1>1, <1>2, <1>3, JoinFacts
<1>7. Asked(c) = a \o (h \o b)
  BY <1>1, <1>2, <1>3, <1>5, ConcatAssociative
<1>8. /\ Asked(c) \in Seq(Request) /\ Len(a) \in Nat
      /\ Len(h \o b) \in Nat /\ Len(Asked(c)) = Len(a) + Len(h \o b)
      /\ \A k \in 1..Len(a) : Asked(c)[k] = a[k]
      /\ SubSeq(Asked(c), 1, Len(a)) = a
  BY <1>2, <1>6, <1>7, JoinFacts
<1>9. h = <<>> => Asked(c) = a \o b
  BY <1>1, <1>2, <1>5, JoinFacts
<1>10. Len(Asked(c)) \in Nat /\ Len(a) <= Len(Asked(c))
  BY <1>8
<1> QED BY <1>1, <1>2, <1>3, <1>4, <1>6, <1>8, <1>9, <1>10 DEF a, h, b

\* A channel that has no worker has no request in the ring, and none is handled
\* but those the ring has accepted.
LEMMA HandledFacts ==
  ASSUME GatewayInv, NEW c \in Channels
  PROVE  /\ Len(Of(c, Done)) \in Nat
         /\ Len(Of(c, Done)) <= Len(Of(c, accepted))
         /\ ~Admitted(c) => Of(c, accepted) = <<>> /\ Len(Of(c, Done)) = 0
<1>1. /\ accepted \in Seq(Request) /\ Done \in Seq(Request)
      /\ Len(Done) \in Nat /\ Len(accepted) \in Nat
  BY Typed, DoneFacts
<1>2. /\ Len(Done) <= Len(accepted)
      /\ \A i \in 1..Len(Done) : Done[i] = accepted[i]
  BY <1>1, DoneFacts
<1>3. At(c, Done) \subseteq At(c, accepted)
  BY <1>1, <1>2 DEF At
<1>4. /\ Of(c, accepted) \in Seq(Request)
      /\ Len(Of(c, accepted)) = Cardinality(At(c, accepted))
      /\ Len(Of(c, Done)) = Cardinality(At(c, Done)) /\ Len(Of(c, Done)) \in Nat
      /\ At(c, accepted) \in SUBSET (1..Len(accepted))
  BY <1>1, OfFacts
<1>5. IsFiniteSet(At(c, accepted))
  BY <1>1, <1>4, RankFacts
<1>6. Len(Of(c, Done)) <= Len(Of(c, accepted))
  BY <1>3, <1>4, <1>5, FS_Subset
<1>7. ASSUME ~Admitted(c)
      PROVE  Of(c, accepted) = <<>> /\ Len(Of(c, Done)) = 0
  <2>1. At(c, accepted) = {}
    BY <1>7 DEF At, GatewayInv, ConservedInv
  <2>2. Cardinality(At(c, accepted)) = 0
    BY <2>1, FS_EmptySet
  <2>3. Len(Of(c, accepted)) = 0
    BY <1>4, <2>2
  <2> QED BY <1>4, <1>6, <2>3
<1> QED BY <1>4, <1>6, <1>7

\* A step that a client does not see.
LEMMA ClientSame ==
  ASSUME UNCHANGED <<sent, outbox, replies>>,
         \A d \in Channels : /\ Link(d)' = Link(d) /\ Asked(d)' = Asked(d)
                             /\ Of(d, Done') = Of(d, Done)
  PROVE  UNCHANGED Client!vars
<1>1. /\ [d \in Channels |-> Link(d)]' = [d \in Channels |-> Link(d)]
      /\ [d \in Channels |-> Asked(d)]' = [d \in Channels |-> Asked(d)]
      /\ [d \in Channels |-> Len(Of(d, Done))]'
           = [d \in Channels |-> Len(Of(d, Done))]
  OBVIOUS
<1> QED BY <1>1 DEF Client!vars

LEMMA ClientSend ==
  ASSUME GatewayInv, NEW c \in Channels, NEW cmd \in Cmds, Send(c, cmd)
  PROVE  Client!Ask(c)
<1> DEFINE r == [chan |-> c, id |-> sent[c] + 1, cmd |-> cmd]
<1>1. /\ conn[c] \in {"accepted", "active"}
      /\ sent' = [sent EXCEPT ![c] = @ + 1]
      /\ inbox' = [inbox EXCEPT ![c] = Append(@, r)]
      /\ UNCHANGED <<accepted, task, Done, conn, context, io, outbox, replies>>
  BY DoneSame DEF Send, ringVars
<1>2. /\ sent \in [Channels -> 0..MaxRequests]
      /\ inbox \in [Channels -> Seq(Request)]
  BY DEF GatewayInv, ChannelTypes
<1>3. r \in Request
  <2>1. sent[c] + 1 \in 1..MaxRequests
    BY <1>2, RequestsAssumption DEF Send
  <2> QED BY <2>1 DEF Request
<1> HIDE DEF r
<1>4. \A d \in Channels : Link(d)' = Link(d)
  BY <1>1 DEF Link
<1>5. Link(c) # "closed"
  BY <1>1 DEF Link
<1>6. \A d \in Channels : InHand(d)' = InHand(d)
  BY <1>1 DEF InHand
<1>7. Asked(c)' = Append(Asked(c), r)
  <2>1. /\ Of(c, accepted) \o InHand(c) \in Seq(Request)
        /\ inbox[c] \in Seq(Request)
    BY AskedFacts
  <2>2. inbox'[c] = Append(inbox[c], r)
    BY <1>1, <1>2
  <2>3. (Of(c, accepted) \o InHand(c)) \o Append(inbox[c], r)
          = Append((Of(c, accepted) \o InHand(c)) \o inbox[c], r)
    BY <2>1, <1>3, ConcatFacts
  <2> QED BY <2>2, <2>3, <1>1, <1>6 DEF Asked
<1>8. \A d \in Channels \ {c} : Asked(d)' = Asked(d)
  <2>1. \A d \in Channels \ {c} : inbox'[d] = inbox[d]
    BY <1>1, <1>2
  <2> QED BY <2>1, <1>1, <1>6 DEF Asked
<1>9. [d \in Channels |-> Asked(d)]'
        = [[d \in Channels |-> Asked(d)] EXCEPT ![c] = Append(@, r)]
  BY <1>7, <1>8
<1>10. [d \in Channels |-> Link(d)]' = [d \in Channels |-> Link(d)]
  BY <1>4
<1>11. [d \in Channels |-> Len(Of(d, Done))]'
         = [d \in Channels |-> Len(Of(d, Done))]
  BY <1>1
<1> QED BY <1>1, <1>3, <1>5, <1>9, <1>10, <1>11 DEF Client!Ask

LEMMA ClientActive ==
  ASSUME GatewayInv, NEW c \in Channels, ChannelActive(c)
  PROVE  Client!Admit(c)
<1>1. /\ conn \in [Channels -> {"none", "accepted", "active", "closed"}]
      /\ context \in [Channels -> {"null", "noWorker", "worker"}]
  BY DEF GatewayInv, ChannelTypes
<1>2. /\ conn[c] = "accepted" /\ conn' = [conn EXCEPT ![c] = "active"]
      /\ \A d \in Channels \ {c} : context'[d] = context[d]
      /\ UNCHANGED <<accepted, task, Done, io, sent, inbox, outbox, replies>>
  BY <1>1, DoneSame DEF ChannelActive, ringVars
<1>3. Link(c) = "open"
  BY <1>2 DEF Link
<1>4. PICK l \in {"served", "refused"} : Link(c)' = l
  <2>1. Link(c)' = IF context'[c] = "worker" THEN "served" ELSE "refused"
    BY <1>1, <1>2 DEF Link
  <2> QED BY <2>1
<1>5. \A d \in Channels \ {c} : Link(d)' = Link(d)
  BY <1>1, <1>2 DEF Link
<1>6. [d \in Channels |-> Link(d)]'
        = [[d \in Channels |-> Link(d)] EXCEPT ![c] = l]
  BY <1>4, <1>5
<1>7. \A d \in Channels : Asked(d)' = Asked(d)
  BY <1>2 DEF Asked, InHand
<1>8. /\ [d \in Channels |-> Asked(d)]' = [d \in Channels |-> Asked(d)]
      /\ [d \in Channels |-> Len(Of(d, Done))]'
           = [d \in Channels |-> Len(Of(d, Done))]
  BY <1>2, <1>7
<1> QED BY <1>2, <1>3, <1>6, <1>8 DEF Client!Admit

LEMMA ClientDisconnect ==
  ASSUME GatewayInv, NEW c \in Channels, Disconnect(c)
  PROVE  Client!Close(c)
<1> DEFINE n == Len(Of(c, accepted))
<1>1. /\ conn \in [Channels -> {"none", "accepted", "active", "closed"}]
      /\ inbox \in [Channels -> Seq(Request)]
  BY DEF GatewayInv, ChannelTypes
<1>2. /\ conn[c] = "active" /\ IOFree(c)
      /\ conn' = [conn EXCEPT ![c] = "closed"]
      /\ inbox' = [inbox EXCEPT ![c] = <<>>]
      /\ outbox' = [outbox EXCEPT ![c] = <<>>]
      /\ UNCHANGED <<accepted, task, Done, io, context, sent, replies>>
  BY DoneSame DEF Disconnect, ringVars
<1>3. Link(c) \in {"served", "refused"} /\ Link(c)' = "closed"
  BY <1>1, <1>2 DEF Link
<1>4. \A d \in Channels \ {c} : Link(d)' = Link(d)
  BY <1>1, <1>2 DEF Link
<1>5. [d \in Channels |-> Link(d)]'
        = [[d \in Channels |-> Link(d)] EXCEPT ![c] = "closed"]
  BY <1>3, <1>4
<1>6. \A d \in Channels : InHand(d)' = InHand(d)
  BY <1>2 DEF InHand
<1>7. /\ Of(c, accepted) \in Seq(Request) /\ InHand(c) = <<>>
      /\ SubSeq(Asked(c), 1, n) = Of(c, accepted)
      /\ n \in Nat /\ Len(Asked(c)) \in Nat /\ n <= Len(Asked(c))
  BY <1>2, AskedFacts
<1>8. Asked(c)' = SubSeq(Asked(c), 1, n)
  <2>1. inbox'[c] = <<>>
    BY <1>1, <1>2
  <2>2. (Of(c, accepted) \o <<>>) \o <<>> = Of(c, accepted)
    BY <1>7, JoinFacts
  <2> QED BY <2>1, <2>2, <1>2, <1>6, <1>7 DEF Asked
<1>9. \A d \in Channels \ {c} : Asked(d)' = Asked(d)
  <2>1. \A d \in Channels \ {c} : inbox'[d] = inbox[d]
    BY <1>1, <1>2
  <2> QED BY <2>1, <1>2, <1>6 DEF Asked
<1>10. n \in Len(Of(c, Done))..Len(Asked(c))
  BY <1>7, HandledFacts
<1>11. [d \in Channels |-> Asked(d)]'
         = [[d \in Channels |-> Asked(d)] EXCEPT ![c] = SubSeq(@, 1, n)]
  BY <1>8, <1>9
<1>12. [d \in Channels |-> Len(Of(d, Done))]'
         = [d \in Channels |-> Len(Of(d, Done))]
  BY <1>2
<1> HIDE DEF n
<1> QED BY <1>2, <1>3, <1>5, <1>10, <1>11, <1>12 DEF Client!Close

LEMMA ClientFlush ==
  ASSUME GatewayInv, NEW c \in Channels, Flush(c)
  PROVE  Client!Answer(c)
<1>1. /\ outbox[c] # <<>>
      /\ replies' = [replies EXCEPT ![c] = Append(@, Head(outbox[c]))]
      /\ outbox' = [outbox EXCEPT ![c] = Tail(@)]
      /\ UNCHANGED <<accepted, task, Done, conn, io, context, sent, inbox>>
  BY DoneSame DEF Flush, ringVars
<1>2. \A d \in Channels : Link(d)' = Link(d) /\ Asked(d)' = Asked(d)
  BY <1>1 DEF Link, Asked, InHand
<1>3. /\ [d \in Channels |-> Link(d)]' = [d \in Channels |-> Link(d)]
      /\ [d \in Channels |-> Asked(d)]' = [d \in Channels |-> Asked(d)]
      /\ [d \in Channels |-> Len(Of(d, Done))]'
           = [d \in Channels |-> Len(Of(d, Done))]
  BY <1>1, <1>2
<1> QED BY <1>1, <1>3 DEF Client!Answer

\* A request that the IO thread takes is in its hand; without a worker it is
\* the oldest one of a channel that has none in the ring.
LEMMA ClientRead ==
  ASSUME RingP!SingleProducer', GatewayInv, NEW c \in Channels,
         ChannelRead(c)
  PROVE  Client!Refuse(c) \/ UNCHANGED Client!vars
<1> DEFINE p == io[c]
           r == Head(inbox[c])
<1>1. /\ inbox \in [Channels -> Seq(Request)]
      /\ conn[c] = "active" /\ IOFree(c)
      /\ inbox[c] # <<>> /\ p \in IOThreads
      /\ inbox' = [inbox EXCEPT ![c] = Tail(@)]
      /\ UNCHANGED <<accepted, Done, sent, conn, context, io, outbox, replies>>
  BY DoneSame
     DEF ChannelRead, GatewayInv, ChannelTypes, ringVars, Ring!NextSequence,
         Ring!workerVars
<1>2. \A d \in Channels : Link(d)' = Link(d)
  BY <1>1 DEF Link
<1>3. /\ inbox'[c] = Tail(inbox[c])
      /\ \A d \in Channels \ {c} : inbox'[d] = inbox[d]
  BY <1>1
<1>4. io \in [Channels -> IOThreads] /\ io[c] = p
  BY DEF GatewayInv, ChannelTypes
<1>5. InHand(c) = <<>> /\ Asked(c) = Of(c, accepted) \o inbox[c]
  BY <1>1, AskedFacts
<1>6. r \in Request /\ r.chan = c /\ r # NoRequest
  <2>1. inbox[c][1] \in Request /\ r = inbox[c][1] /\ 1 \in 1..Len(inbox[c])
    BY <1>1, TailFacts
  <2> QED BY <2>1, RequestAssumption DEF GatewayInv, StreamInv
<1>7. \A d \in Channels :
        /\ Of(d, accepted) \in Seq(Request) /\ inbox[d] \in Seq(Request)
        /\ Of(d, accepted) \o <<>> = Of(d, accepted)
  <2>1. \A d \in Channels :
          Of(d, accepted) \in Seq(Request) /\ inbox[d] \in Seq(Request)
    BY AskedFacts
  <2> QED BY <2>1, JoinFacts
<1> HIDE DEF p, r
<1>8. CASE context[c] # "worker"
  <2>1. UNCHANGED task
    BY <1>8 DEF ChannelRead, ringVars
  <2>2. \A d \in Channels : InHand(d)' = InHand(d)
    BY <2>1, <1>1 DEF InHand
  <2>3. Asked(c)' = Of(c, accepted) \o inbox'[c]
    BY <2>2, <1>1, <1>5, <1>7 DEF Asked
  <2>4. Of(c, accepted) = <<>> /\ Len(Of(c, Done)) = 0
    BY <1>8, HandledFacts DEF Admitted
  <2>5. <<>> \o inbox[c] = inbox[c] /\ <<>> \o Tail(inbox[c]) = Tail(inbox[c])
    <3>1. inbox[c] \in Seq(Request) /\ Tail(inbox[c]) \in Seq(Request)
      BY <1>1, TailFacts
    <3> QED BY <3>1, JoinFacts
  <2>6. Asked(c) = inbox[c] /\ Asked(c)' = Tail(Asked(c))
    BY <2>3, <2>4, <2>5, <1>3, <1>5
  <2>7. \A d \in Channels \ {c} : Asked(d)' = Asked(d)
    BY <2>2, <1>1, <1>3 DEF Asked
  <2>8. Link(c) = "refused"
    BY <1>1, <1>8 DEF Link
  <2>9. [d \in Channels |-> Asked(d)]'
          = [[d \in Channels |-> Asked(d)] EXCEPT ![c] = Tail(@)]
    BY <2>6, <2>7
  <2>10. /\ [d \in Channels |-> Link(d)]' = [d \in Channels |-> Link(d)]
         /\ [d \in Channels |-> Len(Of(d, Done))]'
              = [d \in Channels |-> Len(Of(d, Done))]
    BY <1>1, <1>2
  <2>11. Client!Refuse(c)
    BY <1>1, <2>4, <2>6, <2>8, <2>9, <2>10 DEF Client!Refuse
  <2> QED BY <2>11
<1>9. CASE context[c] = "worker"
  <2>1. task' = [task EXCEPT ![p] = r]
    BY <1>9 DEF ChannelRead, Ring!NextSequence, p, r
  <2>2. \A q \in IOThreads : /\ task[q] = NoRequest
                             /\ task'[q] = IF q = p THEN r ELSE NoRequest
    BY <2>1, <1>1, <1>9, Typed, NoneHeld DEF p
  <2>3. \A d \in Channels : /\ InHand(d) = <<>>
                            /\ InHand(d)' = IF d = c THEN <<r>> ELSE <<>>
    BY <2>2, <1>1, <1>4, <1>6 DEF InHand
  <2>4. Asked(c)' = Asked(c)
    <3>1. Append(Of(c, accepted), r) \o Tail(inbox[c])
            = Of(c, accepted) \o inbox[c]
      BY <1>1, <1>6, <1>7, ConcatFacts DEF r
    <3>2. Append(Of(c, accepted), r) = Of(c, accepted) \o <<r>>
      BY <1>6, <1>7, AppendIsConcat
    <3> QED BY <3>1, <3>2, <2>3, <1>1, <1>3, <1>5 DEF Asked
  <2>5. \A d \in Channels \ {c} : Asked(d)' = Asked(d)
    BY <2>3, <1>1, <1>3, <1>7 DEF Asked
  <2>6. \A d \in Channels : Asked(d)' = Asked(d) /\ Of(d, Done') = Of(d, Done)
    BY <2>4, <2>5, <1>1
  <2> QED BY <2>6, <1>1, <1>2, ClientSame
<1> QED BY <1>8, <1>9

\* A request passes from the hand of the IO thread into the ring.
LEMMA ClientPublish ==
  ASSUME RingP!SingleProducer, GatewayInv, NEW p \in IOThreads, Publish(p)
  PROVE  UNCHANGED Client!vars
<1>1. UNCHANGED <<Done, sent, conn, context, io, inbox, outbox, replies>>
  BY DoneSame
     DEF Publish, chanVars, Ring!Publish, Ring!ClaimSequence, Ring!FillSlot,
         Ring!PublishCursor, Ring!workerVars
<1>2. \A d \in Channels : Link(d)' = Link(d)
  BY <1>1 DEF Link
<1>3. CASE UNCHANGED <<accepted, task>>
  <2>1. \A d \in Channels : Asked(d)' = Asked(d) /\ Of(d, Done') = Of(d, Done)
    BY <1>1, <1>3 DEF Asked, InHand
  <2> QED BY <2>1, <1>1, <1>2, ClientSame
<1>4. CASE Ring!PublishCursor(p)
  <2> DEFINE r == task[p]
  <2>1. /\ accepted \in Seq(Request) /\ r \in Request /\ r # NoRequest
        /\ accepted' = Append(accepted, r)
        /\ task' = [task EXCEPT ![p] = NoRequest]
        /\ task'[p] = NoRequest
    BY <1>4, Typed DEF TypeOK, Ring!TypeOK, Ring!PublishCursor
  <2>2. \A q \in IOThreads : task'[q] = NoRequest
    BY <2>1, Typed, Held
  <2>3. \A d \in Channels : /\ InHand(d) = IF r.chan = d THEN <<r>> ELSE <<>>
                            /\ InHand(d)' = <<>>
    <3>1. \A d \in Channels : io[d] \in IOThreads
      BY DEF GatewayInv, ChannelTypes
    <3> QED BY <2>1, <2>2, <3>1, <1>1, Held DEF InHand
  <2> HIDE DEF r
  <2>4. ASSUME NEW d \in Channels PROVE Asked(d)' = Asked(d)
    <3>1. Of(d, accepted) \in Seq(Request)
      BY <2>1, OfFacts
    <3>2. CASE r.chan = d
      <4>1. /\ Of(d, accepted') = Append(Of(d, accepted), r)
            /\ Append(Of(d, accepted), r) = Of(d, accepted) \o <<r>>
        BY <2>1, <3>1, <3>2, OfAppend, AppendIsConcat
      <4>2. Append(Of(d, accepted), r) \o <<>> = Append(Of(d, accepted), r)
        <5>1. Append(Of(d, accepted), r) \in Seq(Request)
          BY <2>1, <3>1, AppendFacts
        <5> QED BY <5>1, JoinFacts
      <4> QED BY <4>1, <4>2, <2>3, <3>2, <1>1 DEF Asked
    <3>3. CASE r.chan # d
      <4>1. Of(d, accepted') = Of(d, accepted)
        BY <2>1, <3>3, OfAppend
      <4> QED BY <4>1, <2>3, <3>3, <1>1 DEF Asked
    <3> QED BY <3>2, <3>3
  <2>5. \A d \in Channels : Asked(d)' = Asked(d) /\ Of(d, Done') = Of(d, Done)
    BY <2>4, <1>1
  <2> QED BY <2>5, <1>1, <1>2, ClientSame
<1> QED BY <1>3, <1>4
        DEF Publish, Ring!Publish, Ring!ClaimSequence, Ring!FillSlot

LEMMA ClientStart ==
  ASSUME GatewayInv, NEW w \in Workers, Process(w), Ring!StartTask(w)
  PROVE  UNCHANGED Client!vars
<1>1. UNCHANGED <<accepted, task, Done>>
  <2>1. PICK r \in Request : Done = ran /\ Done' = ran
                             /\ UNCHANGED <<accepted, task>>
    BY TaskStarted
  <2> QED BY <2>1
<1>2. UNCHANGED <<conn, io, context, sent, inbox, outbox, replies>>
  BY DEF Process, Ring!StartTask, Ring!EndTask
<1>3. \A d \in Channels : /\ Link(d)' = Link(d) /\ Asked(d)' = Asked(d)
                          /\ Of(d, Done') = Of(d, Done)
  BY <1>1, <1>2 DEF Link, Asked, InHand
<1> QED BY <1>2, <1>3, ClientSame

\* The end of a task handles the next request of its channel.
LEMMA ClientEnd ==
  ASSUME GatewayInv, NEW w \in Workers, Process(w), Ring!EndTask(w)
  PROVE  \E c \in Channels : Client!Handle(c)
<1>0. wPc[w] = "run"
  BY DEF Ring!EndTask
<1>1. PICK r \in Request :
        /\ Running = r
        /\ Len(Done) + 1 = Len(ran) /\ Len(ran) \in 1..Len(accepted)
        /\ r = accepted[Len(ran)]
        /\ Done' = Append(Done, r)
        /\ UNCHANGED <<accepted, task>>
  BY TaskEnded
<1> DEFINE c == r.chan
           n == Len(Done) + 1
           b == Len(Of(c, Done))
<1>2. c \in Channels /\ Admitted(c)
  BY <1>1 DEF GatewayInv, ConservedInv, Request
<1>3. /\ outbox' = Write(r) /\ outbox \in [Channels -> Seq(Request)]
      /\ UNCHANGED <<conn, io, context, sent, inbox, replies>>
  BY <1>0, <1>1
     DEF Process, Ring!StartTask, Ring!EndTask, GatewayInv, ChannelTypes
<1>4. /\ Done \in Seq(Request) /\ accepted \in Seq(Request)
      /\ Len(Done) \in Nat /\ Len(accepted) \in Nat
      /\ Len(Done) < Len(accepted)
      /\ \A i \in 1..Len(Done) : Done[i] = accepted[i]
      /\ n \in 1..Len(accepted) /\ r = accepted[n]
  <2>1. Done \in Seq(Request) /\ accepted \in Seq(Request)
    BY Typed, DoneFacts
  <2>2. Len(Done) \in Nat /\ Len(accepted) \in Nat
    BY <2>1
  <2> QED BY <2>1, <2>2, <1>1, DoneFacts
<1>5. Rank(At(c, accepted), n) = b + 1
  BY <1>4, RankPrefix
<1>6. n \in At(c, accepted)
  BY <1>4 DEF At
<1>7. /\ b + 1 \in 1..Len(Of(c, accepted))
      /\ Of(c, accepted)[b + 1] = r
  <2>1. At(c, accepted) \in SUBSET (1..Len(accepted))
    BY <1>4, OfFacts
  <2>2. /\ Rank(At(c, accepted), n) \in 1..Cardinality(At(c, accepted))
        /\ Subsequence(accepted, At(c, accepted))[Rank(At(c, accepted), n)]
             = accepted[n]
    BY <2>1, <1>4, <1>6, SubsequenceFacts
  <2>3. Len(Of(c, accepted)) = Cardinality(At(c, accepted))
    BY <1>4, OfFacts
  <2> QED BY <2>2, <2>3, <1>4, <1>5 DEF Of
<1>8. b \in Nat /\ b < Len(Asked(c)) /\ Asked(c)[b + 1] = r
  <2>1. b \in Nat
    BY <1>2, HandledFacts
  <2>2. /\ Len(Of(c, accepted)) \in Nat /\ Len(Asked(c)) \in Nat
        /\ Len(Of(c, accepted)) <= Len(Asked(c))
        /\ \A k \in 1..Len(Of(c, accepted)) :
             Asked(c)[k] = Of(c, accepted)[k]
    BY <1>2, AskedFacts
  <2> HIDE DEF b, c
  <2> QED BY <2>1, <2>2, <1>7
<1>9. \A d \in Channels : Link(d)' = Link(d) /\ Asked(d)' = Asked(d)
  BY <1>1, <1>3 DEF Link, Asked, InHand
<1>10. /\ Link(c) \in {"served", "closed"}
       /\ Link(c) # "closed" <=> conn[c] = "active"
  BY <1>2 DEF Link, Admitted
<1>11. /\ Len(Of(c, Done')) = b + 1
       /\ \A d \in Channels \ {c} : Of(d, Done') = Of(d, Done)
  <2>1. Of(c, Done') = Append(Of(c, Done), r)
    BY <1>1, <1>4, OfAppend
  <2>2. Of(c, Done) \in Seq(Request)
    BY <1>4, OfFacts
  <2>3. Len(Of(c, Done')) = b + 1
    BY <2>1, <2>2, <1>1, AppendFacts
  <2>4. \A d \in Channels \ {c} : Of(d, Done') = Of(d, Done)
    BY <1>1, <1>4, OfAppend
  <2> QED BY <2>3, <2>4
<1>12. [d \in Channels |-> Len(Of(d, Done))]'
         = [[d \in Channels |-> Len(Of(d, Done))] EXCEPT ![c] = @ + 1]
  <2> HIDE DEF c
  <2> QED BY <1>11 DEF b
<1>13. /\ [d \in Channels |-> Link(d)]' = [d \in Channels |-> Link(d)]
       /\ [d \in Channels |-> Asked(d)]' = [d \in Channels |-> Asked(d)]
  BY <1>9
<1>14. outbox' = IF r \in {q \in Request : Answered(q)} /\ Link(c) # "closed"
                 THEN [outbox EXCEPT ![c] = Append(@, r)] ELSE outbox
  BY <1>3, <1>10 DEF Write
<1> HIDE DEF c, n
<1>15. Client!Handle(c)
  BY <1>2, <1>3, <1>8, <1>10, <1>12, <1>13, <1>14 DEF Client!Handle
<1> QED BY <1>2, <1>15

LEMMA ClientNext ==
  ASSUME RingP!SingleProducer, RingP!SingleProducer', GatewayInv,
         [Next]_vars
  PROVE  [Client!Next]_(Client!vars)
<1>1. ASSUME UNCHANGED <<conn, context, sent, inbox, outbox, replies>>,
             UNCHANGED <<io, accepted, task, Done>>
      PROVE  UNCHANGED Client!vars
  <2>1. \A d \in Channels : /\ Link(d)' = Link(d) /\ Asked(d)' = Asked(d)
                            /\ Of(d, Done') = Of(d, Done)
    BY <1>1 DEF Link, Asked, InHand
  <2> QED BY <2>1, <1>1, ClientSame
<1>2. ASSUME NEW c \in Channels, Accept(c) PROVE UNCHANGED Client!vars
  <2>1. /\ conn[c] = "none" /\ conn' = [conn EXCEPT ![c] = "accepted"]
        /\ UNCHANGED <<context, sent, inbox, outbox, replies>>
        /\ UNCHANGED <<io, accepted, task, Done>>
        /\ conn \in [Channels -> {"none", "accepted", "active", "closed"}]
    BY <1>2, DoneSame DEF Accept, ringVars, GatewayInv, ChannelTypes
  <2>2. \A d \in Channels : /\ Link(d)' = Link(d) /\ Asked(d)' = Asked(d)
                            /\ Of(d, Done') = Of(d, Done)
    BY <2>1 DEF Link, Asked, InHand
  <2> QED BY <2>1, <2>2, ClientSame
<1>3. ASSUME NEW c \in Channels, NEW cmd \in Cmds, Send(c, cmd)
      PROVE  Client!Next
  BY <1>3, ClientSend DEF Client!Next
<1>4. ASSUME NEW c \in Channels, ChannelActive(c) PROVE Client!Next
  BY <1>4, ClientActive DEF Client!Next
<1>5. ASSUME NEW c \in Channels, Disconnect(c) PROVE Client!Next
  BY <1>5, ClientDisconnect DEF Client!Next
<1>6. ASSUME NEW c \in Channels, Flush(c) PROVE Client!Next
  BY <1>6, ClientFlush DEF Client!Next
<1>7. ASSUME NEW c \in Channels, ChannelRead(c)
      PROVE  [Client!Next]_(Client!vars)
  BY <1>7, ClientRead DEF Client!Next
<1>8. ASSUME NEW p \in IOThreads, Publish(p) PROVE UNCHANGED Client!vars
  BY <1>8, ClientPublish
<1>9. ASSUME NEW w \in Workers, Process(w)
      PROVE  [Client!Next]_(Client!vars)
  BY <1>9, ClientStart, ClientEnd DEF Process, Client!Next
<1>10. ASSUME NEW w \in Workers, Work(w) PROVE UNCHANGED Client!vars
  BY <1>10, <1>1, WorkSame DEF chanVars
<1>11. ASSUME Start \/ Shutdown \/ UNCHANGED vars PROVE UNCHANGED Client!vars
  BY <1>11, <1>1, DoneSame DEF Start, Bind, AllocateRings, CreateRing, Shutdown, vars,
     ringVars, chanVars
<1> QED BY <1>2, <1>3, <1>4, <1>5, <1>6, <1>7, <1>8, <1>9, <1>10, <1>11
        DEF Next, Serve

LEMMA ClientInit == Init => Client!Init
<1> SUFFICES ASSUME Init PROVE Client!Init
  OBVIOUS
<1>1. /\ conn = [c \in Channels |-> "none"] /\ io \in [Channels -> IOThreads]
      /\ \A c \in Channels : inbox[c] = <<>>
      /\ accepted = <<>> /\ Done = <<>> /\ task = [p \in IOThreads |-> NoRequest]
      /\ sent = [c \in Channels |-> 0]
      /\ outbox = [c \in Channels |-> <<>>]
      /\ replies = [c \in Channels |-> <<>>]
  BY DEF Init, Ring!Init, Done, Running, Ring!Running
<1>2. \A c \in Channels : Link(c) = "open"
  BY <1>1 DEF Link
<1>3. \A c : Of(c, <<>>) = <<>>
  BY OfEmpty
<1>4. \A c \in Channels : InHand(c) = <<>>
  BY <1>1 DEF InHand
<1>5. (<<>> \o <<>>) \o <<>> = <<>> /\ Len(<<>>) = 0
  OBVIOUS
<1>6. \A c \in Channels : Asked(c) = <<>> /\ Len(Of(c, Done)) = 0
  BY <1>1, <1>3, <1>4, <1>5, Zenon DEF Asked
<1> QED BY <1>1, <1>2, <1>6 DEF Client!Init

-----------------------------------------------------------------------------
(* The invariant, and what it gives.                                       *)

LEMMA RingStepOf ==
  ASSUME ChannelTypes, [Next]_vars
  PROVE  [RingP!Next]_(RingP!vars)
BY RingSteps DEF ChannelTypes

LEMMA TypesStep == GatewayTypes /\ [Next]_vars => GatewayTypes'
<1> SUFFICES ASSUME GatewayTypes, [Next]_vars PROVE GatewayTypes'
  OBVIOUS
<1>1. RingP!TypeInv'
  BY RingStepOf, RingP!TypeStep, RingAssumption, RequestAssumption
     DEF GatewayTypes
<1> QED BY <1>1, TypesNext DEF GatewayTypes

\* Every variable of the channels and of the ring they share keeps its type,
\* also when IO threads publish to the ring at once (four of them may:
\* spring-service.xml, TcpServer.workerGroup).
THEOREM TypeCorrect == Safety => []TypeOK
<1>1. Init => GatewayTypes
  BY InitHolds DEF GatewayInv, GatewayTypes
<1>2. GatewayTypes => TypeOK
  BY RingTyped
<1> QED BY <1>1, <1>2, TypesStep, PTL DEF Safety

\* Every step of the gateway keeps GatewayInv (Dispatcher.process,
\* ServerChannelHandler, DisruptorEvent.publish).
THEOREM GatewayInvariant == Safety /\ []RingP!SingleProducer => []GatewayInv
<1>1. Init => GatewayInv
  BY InitHolds
<1>2. RingP!SingleProducer /\ RingP!SingleProducer' /\ GatewayInv /\ [Next]_vars
        => GatewayInv'
  <2> SUFFICES ASSUME RingP!SingleProducer, RingP!SingleProducer', GatewayInv,
                      [Next]_vars
               PROVE  GatewayInv'
    OBVIOUS
  <2>1. RingP!QueueInv'
    BY OneWorker, RingStepOf, RingP!QueueStep, RingAssumption,
       RequestAssumption
       DEF GatewayInv
  <2>2. GatewayTypes'
    BY TypesStep DEF GatewayInv, GatewayTypes
  <2> QED BY <2>1, <2>2, StreamNext, ServedNext, ConservedNext, AnsweredNext
          DEF GatewayInv, GatewayTypes
<1> QED BY <1>1, <1>2, PTL DEF Safety

\* Once a client has the response of a login, its channel's context holds the
\* device of that login or of a later one (LoginHandler), whatever the
\* channels that share the ring do.
THEOREM DeviceSetBefore ==
  Safety /\ []RingP!SingleProducer => []DeviceBeforeReply
<1>1. GatewayInv => DeviceBeforeReply
  <2> SUFFICES ASSUME GatewayInv, NEW c \in Channels,
                      NEW i \in 1..Len(replies[c]), replies[c][i].cmd = "LOGIN"
               PROVE  /\ replies[c][i].id <= device[c]
                      /\ [chan |-> c, id |-> device[c], cmd |-> "LOGIN"]
                           \in Range(ran)
    BY DEF DeviceBeforeReply
  <2>0. /\ ran \in Seq(Request) /\ replies[c] \in Seq(Request)
        /\ device[c] \in Nat
    <3>1. /\ replies \in [Channels -> Seq(Request)]
          /\ device \in [Channels -> 0..MaxRequests]
      BY DEF GatewayInv, ChannelTypes
    <3>2. ran \in Seq(Request)
      BY Typed
    <3> QED BY <3>1, <3>2, RequestsAssumption
  <2>1. replies[c][i].chan = c /\ replies[c][i] \in Range(ran)
    BY DEF GatewayInv, ServedInv
  <2>2. PICK j \in 1..Len(ran) : ran[j] = replies[c][i]
    <3>1. DOMAIN ran = 1..Len(ran)
      BY <2>0
    <3> QED BY <2>1, <3>1 DEF Range
  <2>3. replies[c][i].id <= device[c]
    BY <2>1, <2>2 DEF GatewayInv, ServedInv
  <2>4. replies[c][i].id \in 1..MaxRequests
    <3>1. replies[c][i] \in Request
      BY <2>0
    <3> QED BY <3>1 DEF Request
  <2>5. device[c] # 0
    BY <2>0, <2>3, <2>4, RequestsAssumption
  <2> QED BY <2>3, <2>5 DEF GatewayInv, ServedInv
<1> QED BY <1>1, GatewayInvariant, PTL

\* The requests of a served channel wait, in the order they were sent, between
\* channelRead0 and the ring: none is lost, repeated or overtaken there, for
\* any number of channels, requests and slots (ServerChannelHandler,
\* DisruptorEvent.publish).
THEOREM RequestsKept ==
  Safety /\ []RingP!SingleProducer => []RequestsConserved
<1>1. GatewayInv => RequestsConserved
  <2> SUFFICES ASSUME GatewayInv, NEW c \in Channels,
                      conn[c] = "active", context[c] = "worker"
               PROVE  /\ Len(Asked(c)) = sent[c]
                      /\ \A i \in 1..Len(Asked(c)) : Asked(c)[i].id = i
    BY DEF RequestsConserved
  <2> DEFINE a == Of(c, accepted)
             h == InHand(c)
             b == inbox[c]
  <2>1. PICK p \in IOThreads : p = io[c]
    BY DEF GatewayInv, ChannelTypes
  <2>2. /\ task \in [IOThreads -> Request \cup {NoRequest}]
        /\ a \in Seq(Request) /\ Len(a) \in Nat
        /\ b \in Seq(Request) /\ Len(b) \in Nat
    BY Typed, Counted, <2>1
  <2>3. /\ h \in Seq(Request) /\ Len(h) \in {0, 1}
        /\ Len(h) = 1 => h[1].id = Len(a) + 1
    BY <2>1, <2>2 DEF InHand, GatewayInv, ConservedInv
  <2>4. /\ \A i \in 1..Len(a) : a[i].id = i
        /\ sent[c] = Len(a) + Len(h) + Len(b)
        /\ \A j \in 1..Len(b) : b[j].id = Len(a) + Len(h) + j
    BY DEF GatewayInv, ConservedInv, Served
  <2> HIDE DEF a, h, b
  <2>5. /\ a \o h \in Seq(Request) /\ Len(a \o h) = Len(a) + Len(h)
        /\ \A i \in 1..Len(a) : (a \o h)[i] = a[i]
        /\ Len(h) = 1 => (a \o h)[Len(a) + 1] = h[1]
    BY <2>2, <2>3
  <2> DEFINE q == a \o h
  <2>6. q \in Seq(Request) /\ Len(q) \in Nat /\ Len(q) = Len(a) + Len(h)
    BY <2>2, <2>3, <2>5
  <2>7. \A i \in 1..Len(a) : q[i] = a[i]
    BY <2>5
  <2>8. Len(h) = 1 => q[Len(a) + 1] = h[1]
    BY <2>5
  <2> HIDE DEF q
  <2>9. ASSUME NEW i \in 1..Len(q) PROVE q[i].id = i
    <3>1. i \in 1..Len(a) \/ (i = Len(a) + 1 /\ Len(h) = 1)
      <4> DEFINE m == Len(a)
                 k == Len(h)
                 n == Len(q)
      <4>1. m \in Nat /\ n = m + k /\ k \in {0, 1} /\ i \in 1..n
        BY <2>2, <2>3, <2>6
      <4> HIDE DEF m, k, n
      <4>2. i \in 1..m \/ (i = m + 1 /\ k = 1)
        BY <4>1
      <4> QED BY <4>2 DEF m, k
    <3> QED BY <3>1, <2>3, <2>4, <2>7, <2>8
  <2>10. /\ Len(q \o b) = Len(q) + Len(b)
         /\ \A i \in 1..(Len(q) + Len(b)) :
              (q \o b)[i] = IF i <= Len(q) THEN q[i] ELSE b[i - Len(q)]
    <3>1. q \in Seq(Request) /\ b \in Seq(Request)
      BY <2>2, <2>6
    <3> QED BY <3>1, ConcatProperties, Zenon
  <2>11. ASSUME NEW i \in 1..(Len(q) + Len(b)) PROVE (q \o b)[i].id = i
    <3>1. CASE i <= Len(q)
      BY <3>1, <2>6, <2>9, <2>10
    <3>2. CASE i > Len(q)
      <4>1. i - Len(q) \in 1..Len(b) /\ i = Len(q) + (i - Len(q))
        BY <3>2, <2>2, <2>6
      <4>2. (q \o b)[i] = b[i - Len(q)]
        BY <3>2, <2>6, <2>10
      <4>3. b[i - Len(q)].id = Len(a) + Len(h) + (i - Len(q))
        BY <4>1, <2>4
      <4> QED BY <4>1, <4>2, <4>3, <2>6
    <3> QED BY <3>1, <3>2, <2>6
  <2>12. /\ Len(q \o b) = sent[c]
         /\ \A i \in 1..Len(q \o b) : (q \o b)[i].id = i
    BY <2>4, <2>6, <2>10, <2>11
  <2> QED BY <2>12 DEF Asked, a, h, b, q
<1> QED BY <1>1, GatewayInvariant, PTL

\* The worker begins the requests of a channel in the order they were sent and
\* the client sees the responses of exactly those, in that order, whatever the
\* channels that share the ring and the IO thread do (Dispatcher, Response).
THEOREM RepliesInOrder ==
  Safety /\ []RingP!SingleProducer => []RepliesFollowRequests
<1>1. GatewayInv => RepliesFollowRequests
  BY DEF GatewayInv, AnsweredInv, RepliesFollowRequests
<1> QED BY <1>1, GatewayInvariant, PTL

\* The gateway gives each client a Conversation of its own, whatever the
\* clients it shares the IO thread, the ring and the worker with: every step of
\* the gateway is a step of one channel's Conversation or no client sees it.
THEOREM EachClientServed ==
  Safety /\ []RingP!SingleProducer => EachClientAlone
<1>1. Init => Client!Init
  BY ClientInit
<1>2. RingP!SingleProducer /\ RingP!SingleProducer' /\ GatewayInv /\ [Next]_vars
        => [Client!Next]_(Client!vars)
  BY ClientNext
<1> QED BY <1>1, <1>2, GatewayInvariant, PTL
        DEF Safety, EachClientAlone, Client!Safety

\* The ring inside the gateway is a TaskQueue of the requests of its channels,
\* through back-pressure, disconnects and shutdown().  This is RingIsTaskQueue
\* without its fairness.
THEOREM RequestsQueue ==
  Safety /\ []RingP!SingleProducer => RingP!Queue!Safety
<1>1. Init => RingP!Init
  BY SameInit DEF Init
<1>2. GatewayTypes /\ [Next]_vars => [RingP!Next]_(RingP!vars)
  BY RingStepOf DEF GatewayTypes
<1>3. Init => GatewayTypes
  BY InitHolds DEF GatewayInv, GatewayTypes
<1>4. RingP!Safety /\ []RingP!SingleProducer => RingP!Queue!Safety
  BY OneWorker, RingP!RingImplementsQueue, RingAssumption, RequestAssumption
<1> QED BY <1>1, <1>2, <1>3, <1>4, TypesStep, PTL DEF Safety, RingP!Safety
=============================================================================
