------------------------------ MODULE TaskQueue ------------------------------
(***************************************************************************)
(* What the gateway expects of one of its four business threads            *)
(* (com.fitline.server.TcpServer.businessThread[i]): publish(task) hands a *)
(* task over, and the thread runs the accepted tasks one at a time, each   *)
(* once, in the order they were accepted.  At most Capacity tasks are      *)
(* accepted and unfinished; publish waits when there is no room.           *)
(*                                                                         *)
(* This is the abstract specification; DisruptorEvent implements it.       *)
(***************************************************************************)
EXTENDS Naturals, Sequences

CONSTANTS
  Task,      \* the Runnables handed to publish
  NoTask,    \* no Runnable: not a member of Task
  Capacity   \* tasks accepted and not finished: at least one

VARIABLES
  accepted,  \* tasks accepted, oldest first
  ran,       \* tasks that have begun to run, oldest first
  running    \* the task running now, or NoTask

vars == <<accepted, ran, running>>

Unfinished == Len(accepted) - Len(ran) + (IF running = NoTask THEN 0 ELSE 1)

Init ==
  /\ accepted = <<>>
  /\ ran      = <<>>
  /\ running  = NoTask

Accept(t) ==
  /\ Unfinished < Capacity
  /\ \A i \in 1..Len(accepted) : accepted[i] # t
  /\ accepted' = Append(accepted, t)
  /\ UNCHANGED <<ran, running>>

\* The oldest accepted task that has not run is the only one that may begin.
Begin ==
  /\ running = NoTask
  /\ Len(ran) < Len(accepted)
  /\ running' = accepted[Len(ran) + 1]
  /\ ran'     = Append(ran, running')
  /\ UNCHANGED accepted

Finish ==
  /\ running # NoTask
  /\ running' = NoTask
  /\ UNCHANGED <<accepted, ran>>

Next ==
  \/ \E t \in Task : Accept(t)
  \/ Begin
  \/ Finish

Safety == Init /\ [][Next]_vars

Spec == Safety /\ WF_vars(Begin) /\ WF_vars(Finish)
=============================================================================
