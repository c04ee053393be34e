---------------------------- MODULE MCScheduler ----------------------------
(* Small instances of Scheduler: one scheduler (the daemon's or the         *)
(* dashboard's) beside run-now executions and the workflow.                 *)
EXTENDS Scheduler

CONSTANTS daemon, now

MCLocals == {daemon}
MCCalls == MCLocals \cup {now}
=============================================================================
