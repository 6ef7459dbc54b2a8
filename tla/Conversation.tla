---------------------------- MODULE Conversation ----------------------------
(***************************************************************************)
(* What a client of com.fitline.server may count on, on its own channel:   *)
(* the server handles its requests one at a time in the order they were    *)
(* sent, and answers those that have an answer in that order.  Nothing one *)
(* channel does depends on another: the IO thread, the ring and the        *)
(* business thread they share do not show.                                 *)
(*                                                                         *)
(* This is the abstract specification; Gateway implements it.              *)
(***************************************************************************)
EXTENDS Naturals, Sequences

CONSTANTS
  Channels,    \* connections
  Request,     \* requests of their clients
  Answerable   \* requests that have a response: a subset of Request

VARIABLES
  link,      \* channel: "open", then "served" or "refused", at last "closed"
  sent,      \* channel: how many requests its client has sent
  asked,     \* channel: those that are not refused or lost, oldest first
  done,      \* channel: how many of those have been handled
  owed,      \* channel: responses on their way to the client, oldest first
  answers    \* channel: responses the client has

vars == <<link, sent, asked, done, owed, answers>>

Init ==
  /\ link    = [c \in Channels |-> "open"]
  /\ sent    = [c \in Channels |-> 0]
  /\ asked   = [c \in Channels |-> <<>>]
  /\ done    = [c \in Channels |-> 0]
  /\ owed    = [c \in Channels |-> <<>>]
  /\ answers = [c \in Channels |-> <<>>]

Ask(c) ==
  /\ link[c] # "closed"
  /\ sent'  = [sent EXCEPT ![c] = @ + 1]
  /\ \E r \in Request : asked' = [asked EXCEPT ![c] = Append(@, r)]
  /\ UNCHANGED <<link, done, owed, answers>>

\* Once for all: a channel that is refused stays so until it closes.
Admit(c) ==
  /\ link[c] = "open"
  /\ \E l \in {"served", "refused"} : link' = [link EXCEPT ![c] = l]
  /\ UNCHANGED <<sent, asked, done, owed, answers>>

Refuse(c) ==
  /\ link[c] = "refused"
  /\ done[c] = 0
  /\ asked[c] # <<>>
  /\ asked' = [asked EXCEPT ![c] = Tail(@)]
  /\ UNCHANGED <<link, sent, done, owed, answers>>

\* Requests that wait when a channel closes may still be handled.
Handle(c) ==
  /\ link[c] \in {"served", "closed"}
  /\ done' = [done EXCEPT ![c] = @ + 1]
  /\ done[c] < Len(asked[c])
  /\ LET r == asked[c][done[c] + 1]
     IN  owed' = IF r \in Answerable /\ link[c] # "closed"
                 THEN [owed EXCEPT ![c] = Append(@, r)] ELSE owed
  /\ UNCHANGED <<link, sent, asked, answers>>

Answer(c) ==
  /\ owed[c] # <<>>
  /\ answers' = [answers EXCEPT ![c] = Append(@, Head(owed[c]))]
  /\ owed'    = [owed EXCEPT ![c] = Tail(@)]
  /\ UNCHANGED <<link, sent, asked, done>>

\* The responses on their way are lost, and the last requests, none handled.
Close(c) ==
  /\ link[c] \in {"served", "refused"}
  /\ link' = [link EXCEPT ![c] = "closed"]
  /\ owed' = [owed EXCEPT ![c] = <<>>]
  /\ \E n \in done[c]..Len(asked[c]) :
       asked' = [asked EXCEPT ![c] = SubSeq(@, 1, n)]
  /\ UNCHANGED <<sent, done, answers>>

Next ==
  \E c \in Channels :
    \/ Ask(c) \/ Admit(c) \/ Refuse(c)
    \/ Handle(c) \/ Answer(c) \/ Close(c)

Safety == Init /\ [][Next]_vars
=============================================================================
