---------------------------- MODULE MCScheduler -----------------------------
(* Scheduler on small instances: the cfg files give every constant.        *)
EXTENDS Scheduler
=============================================================================
