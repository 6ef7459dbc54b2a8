------------------------------ MODULE MCGateway ------------------------------
(* Small instances of Gateway.                                             *)
EXTENDS Gateway, TLC

\* Connections are told apart only by identity, and so are IO threads.
GatewaySymmetry == Permutations(Channels) \cup Permutations(IOThreads)

\* Of and AnsweredOf select what SelectSeq does.
Examples ==
  UNION {[1..n -> [chan : {1, 2}, cmd : {"PING", "FUTILE"}]] : n \in 0..3}

ASSUME OfAssumption ==
  \A s \in Examples :
    LET own == SelectSeq(s, LAMBDA r : r.chan = 1)
    IN  Of(1, s) = own /\ AnsweredOf(1, s) = SelectSeq(own, Answered)

\* The IO threads take turns in publish(), as the sequencer of the ring asks:
\* the behaviours for which GatewayProofs proves what the run checks.
TurnsSafety == Init /\ [][Next /\ Ring!SingleProducer']_vars
=============================================================================
