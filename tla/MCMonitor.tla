------------------------------ MODULE MCMonitor ------------------------------
(***************************************************************************)
(* Instances of Monitor.  A process that has ended is no deadlock.         *)
(***************************************************************************)
EXTENDS Monitor, TLC

==============================================================================
