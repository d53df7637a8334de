---------------------------- MODULE MCScheduler ----------------------------
(* The policy constants are set small in MCScheduler.cfg.                       *)
EXTENDS Scheduler
=============================================================================
