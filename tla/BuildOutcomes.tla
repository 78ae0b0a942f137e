---------------------------- MODULE BuildOutcomes ----------------------------
(***************************************************************************)
(* What `alchemy build all` promises, whatever the scheduler, the number   *)
(* of slots and the user's interrupts do: every selected VM reaches        *)
(* exactly one final outcome, that outcome never changes again, and the    *)
(* command reports exactly the VMs whose outcome is not a success.         *)
(* ParallelBuilds implements this specification.                           *)
(***************************************************************************)
EXTENDS Naturals

CONSTANT N            \* number of VMs selected for the run

VMs == 1..N

VARIABLES
  outcome,            \* outcome[v]: what became of VM v
  finished,           \* the command is over
  report              \* the VMs it reported as not built

vars == <<outcome, finished, report>>

Final == {"ok", "failed", "cancelled"}

TypeOK ==
  /\ outcome \in [VMs -> {"pending", "running"} \cup Final]
  /\ finished \in BOOLEAN
  /\ report \subseteq VMs

Init ==
  /\ outcome = [v \in VMs |-> "pending"]
  /\ finished = FALSE
  /\ report = {}

\* A build is handed to a worker.
Begin(v) ==
  /\ outcome[v] = "pending"
  /\ outcome' = [outcome EXCEPT ![v] = "running"]
  /\ UNCHANGED <<finished, report>>

\* A build that was never handed out is given up.
Withdraw(v) ==
  /\ outcome[v] = "pending"
  /\ outcome' = [outcome EXCEPT ![v] = "cancelled"]
  /\ UNCHANGED <<finished, report>>

\* A worker's build comes to its end.
Settle(v) ==
  /\ outcome[v] = "running"
  /\ \E o \in Final : outcome' = [outcome EXCEPT ![v] = o]
  /\ UNCHANGED <<finished, report>>

\* The command ends once nothing is pending or running.
Finish ==
  /\ ~finished
  /\ \A v \in VMs : outcome[v] \in Final
  /\ finished' = TRUE
  /\ report' = {v \in VMs : outcome[v] # "ok"}
  /\ UNCHANGED outcome

Next ==
  \/ \E v \in VMs : Begin(v) \/ Withdraw(v) \/ Settle(v)
  \/ Finish

Spec == Init /\ [][Next]_vars
=============================================================================
