----------------------------- MODULE MCVmLifecycle -----------------------------
(* Two processes on one machine, or one process with "all" on two machines. *)
EXTENDS VmLifecycle
================================================================================
