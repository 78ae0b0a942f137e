-------------------------------- MODULE HypervVm --------------------------------
(***************************************************************************)
(* Machines of Vagrant and Hyper-V on a Windows host                       *)
(* (pkg/deploy/windows-hyperv-deploy.go).  vagrant and the PowerShell      *)
(* commands are external; Vagrant's record of a machine is taken to agree  *)
(* with Hyper-V's list of them.                                            *)
(***************************************************************************)
EXTENDS VmHost

HypervExists(v) == v.known

\* "running" and no other state; a guest that shuts down does not run.
HypervRunning(v) == v.known /\ v.power = "on"

(* hypervVMState, and where each answer leads.  Get-VM runs with           *)
(* -ErrorAction SilentlyContinue: whatever it fails of, the answer is      *)
(* "missing" and no error.                                                 *)
HypervInspect(p, missing, stopped, running, onError) ==
  \/ Query(p, IF ~HypervExists(It(p)) THEN missing
              ELSE IF HypervRunning(It(p)) THEN running ELSE stopped, onError)
  \/ /\ HypervExists(It(p)) /\ UNCHANGED <<vm, catalogue>>
     /\ \E l \in missing : at' = [at EXCEPT ![p] = l]
     /\ job' = [job EXCEPT ![p].misread = TRUE]

-------------------------------------------------------------------------------
(* External programs.                                                      *)

VagrantUp(v) ==
  IF v.known \/ v.box THEN {[v EXCEPT !.known = TRUE, !.power = "on"]} ELSE {}

\* An up that fails may have imported the machine, or have started it.
VagrantUpFailed(v) ==
  IF v.known \/ ~v.box THEN {} ELSE {[v EXCEPT !.known = TRUE, !.power = "off"]}

\* Stop-VM for Ubuntu, vagrant halt for Windows.
GracefulStop(v) ==
  IF v.power = "off" THEN {v} ELSE {v} \cup {[v EXCEPT !.power = s] : s \in {"between", "off"}}

VagrantHaltForce(v) == {[v EXCEPT !.power = "off"]}

VagrantDestroy(v)   == {[v EXCEPT !.known = FALSE, !.power = "off"]}

VagrantBoxAdd(v)    == {[v EXCEPT !.box = TRUE]}

VagrantBoxRemove(v) == {[v EXCEPT !.box = FALSE]}

-------------------------------------------------------------------------------

\* vagrant box add --force, which replaces the box of an earlier build.
HypervBoxAdd(p) ==
  /\ At(p, "hyperv", "create", "begin")
  /\ RunCommand(p, VagrantBoxAdd(It(p)), {}, "up", "idle")

HypervUp(p) ==
  /\ At(p, "hyperv", "create", "up")
  /\ RunCommand(p, VagrantUp(It(p)), VagrantUpFailed(It(p)), "next", "idle")

HypervStart(p) ==
  \/ /\ At(p, "hyperv", "start", "begin")
     /\ HypervInspect(p, {}, {"up"}, {"next"}, "idle")
  \/ /\ At(p, "hyperv", "start", "up")
     /\ RunCommand(p, VagrantUp(It(p)), VagrantUpFailed(It(p)), "next", "idle")

BugHypervStop(p) ==
  \/ /\ At(p, "hyperv", "stop", "begin")
     /\ HypervInspect(p, {"next"}, {"next"}, {"halt"}, "idle")
  \/ /\ At(p, "hyperv", "stop", "halt")
     /\ RunCommand(p, GracefulStop(It(p)), {}, "settle", "settle")
  \/ /\ At(p, "hyperv", "stop", "settle")
     /\ HypervInspect(p, {"next"}, {"next"}, {}, "force")
  \/ /\ At(p, "hyperv", "stop", "force")
     /\ RunCommand(p, VagrantDestroy(It(p)), {}, "verify", "idle")
  \/ /\ At(p, "hyperv", "stop", "verify")
     /\ HypervInspect(p, {"next"}, {"next"}, {}, "idle")

\* A graceful stop, whatever it reports; 15 s to settle; then a forced one.
HypervStop(p) ==
  \/ /\ At(p, "hyperv", "stop", "begin")
     /\ HypervInspect(p, {"next"}, {"next"}, {"halt"}, "idle")
  \/ /\ At(p, "hyperv", "stop", "halt")
     /\ RunCommand(p, GracefulStop(It(p)), {}, "settle", "settle")
  \/ /\ At(p, "hyperv", "stop", "settle")
     /\ HypervInspect(p, {"next"}, {"next"}, {}, "force")
  \/ /\ At(p, "hyperv", "stop", "force")
     /\ RunCommand(p, VagrantHaltForce(It(p)), {}, "verify", "idle")
  \/ /\ At(p, "hyperv", "stop", "verify")
     /\ HypervInspect(p, {"next"}, {"next"}, {}, "idle")

BugHypervDestroyMachine(p) ==
  \/ /\ At(p, "hyperv", "destroy", "begin")
     /\ HypervInspect(p, {"next"}, {"machine"}, {"machine"}, "idle")
  \/ /\ At(p, "hyperv", "destroy", "machine")
     /\ RunCommand(p, VagrantDestroy(It(p)), {[It(p) EXCEPT !.power = "off"]}, "box", "idle")

HypervDestroyMachine(p) ==
  \/ /\ At(p, "hyperv", "destroy", "begin")
     /\ HypervInspect(p, {"box"}, {"machine"}, {"machine"}, "idle")
  \/ /\ At(p, "hyperv", "destroy", "machine")
     /\ RunCommand(p, VagrantDestroy(It(p)), {[It(p) EXCEPT !.power = "off"]}, "box", "idle")

HypervRemoveBox(p) ==
  \/ /\ At(p, "hyperv", "destroy", "box")
     /\ Query(p, IF It(p).box THEN {"removeBox"} ELSE {"next"}, "idle")
  \/ /\ At(p, "hyperv", "destroy", "removeBox")
     /\ RunCommand(p, VagrantBoxRemove(It(p)), {}, "next", "idle")

HypervStep(p) ==
  \/ HypervBoxAdd(p)
  \/ HypervUp(p)
  \/ HypervStart(p)
  \/ HypervStop(p)
  \/ HypervDestroyMachine(p)
  \/ HypervRemoveBox(p)
================================================================================
