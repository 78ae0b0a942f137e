---------------------------- MODULE MCParallelBuilds ----------------------------
(* The instance of ParallelBuilds that TLC checks: three VMs, so that two  *)
(* slots are contended, and two interrupts, so that the second one falls   *)
(* after the signal goroutine is gone.                                     *)
EXTENDS ParallelBuilds
===============================================================================
