--------------------------- MODULE MCDisruptorEvent ---------------------------
(* Small instances of DisruptorEvent.                                      *)
EXTENDS DisruptorEventInv, TLC

\* Runnables are told apart only by identity.
TaskSymmetry == Permutations(Task)
=============================================================================
