---------------------------- MODULE MCScheduleJob ----------------------------
(* Small instances of ScheduleJob.                                         *)
EXTENDS ScheduleJob, TLC

\* Request threads are told apart only by identity.
ClientSymmetry == Permutations(Clients)
=============================================================================
