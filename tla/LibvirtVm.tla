------------------------------- MODULE LibvirtVm -------------------------------
(***************************************************************************)
(* Machines of libvirt on a Linux host                                     *)
(* (pkg/deploy/linux-libvirt-deploy.go).  virsh, virt-install and qemu-img *)
(* are external: a definition named after one of them gives what it does.  *)
(* The definitions named Bug... are slips for the mutation runs; no other  *)
(* definition uses them.                                                   *)
(***************************************************************************)
EXTENDS VmHost

\* A running domain whose definition is removed stays until it ends.
LibvirtExists(v) == v.known \/ v.power # "off"

\* Every state but "shut off" and "no state": a guest that shuts down runs.
LibvirtRunning(v) == v.power # "off"

-------------------------------------------------------------------------------
(* External programs.                                                      *)

VirshDefine(v) == {[v EXCEPT !.known = TRUE]}

VirshStart(v) ==
  IF v.known /\ v.power = "off" /\ v.disk # "none" THEN {[v EXCEPT !.power = "on"]} ELSE {}

VirshShutdown(v) == IF v.power = "off" THEN {} ELSE {v, [v EXCEPT !.power = "between"]}

VirshDestroy(v) == IF v.power = "off" THEN {} ELSE {[v EXCEPT !.power = "off"]}

VirshUndefine(v) == IF v.known THEN {[v EXCEPT !.known = FALSE]} ELSE {}

-------------------------------------------------------------------------------
(* Create.                                                                 *)

\* Programs on the PATH, the artifact, the image directory; a disk that is
\* already there, of whatever making, is refused.
LibvirtPrepare(p) ==
  /\ At(p, "libvirt", "create", "begin")
  /\ Query(p, IF It(p).disk = "none" THEN {"network"} ELSE {}, "idle")

\* net-info of the network the machine is attached to: absent or inactive is
\* an error.  The session connection has no such network.
LibvirtNetworkReady(p) ==
  \/ At(p, "libvirt", "create", "network") /\ Query(p, {"copy"}, "idle")
  \/ At(p, "libvirt", "start", "network") /\ Query(p, {"virsh"}, "idle")

\* qemu-img locks the disk against another conversion and a guest.
DiskLocked(p) ==
  \/ It(p).power # "off"
  \/ \E q \in Procs \ {p} : at[q] = "convert" /\ job[q].vm = job[p].vm

\* qemu-img convert opens the disk and empties it.
LibvirtCopy(p) ==
  /\ At(p, "libvirt", "create", "copy")
  /\ \/ Fail(p) /\ UNCHANGED vm
     \/ /\ ~DiskLocked(p)
        /\ Becomes(p, [It(p) EXCEPT !.disk = "partial"])
        /\ ProgramGoesOn(p, "convert")

BugLibvirtConvert(p) ==
  /\ At(p, "libvirt", "create", "convert")
  /\ \/ \E d \in IF It(p).disk = "none" THEN {"none"}
                 ELSE IF job[p].alone THEN {"whole"} ELSE {It(p).disk, "whole"} :
          Becomes(p, [It(p) EXCEPT !.disk = d]) /\ Goto(p, "xml")
     \/ UNCHANGED vm /\ Goto(p, "xml")

\* qemu-img convert ends; a failed one leaves what it wrote.  Another process
\* may have removed the file, or begun a new one, under it.
LibvirtConvert(p) ==
  /\ At(p, "libvirt", "create", "convert")
  /\ \/ \E d \in IF It(p).disk = "none" THEN {"none"}
                 ELSE IF job[p].alone THEN {"whole"} ELSE {It(p).disk, "whole"} :
          Becomes(p, [It(p) EXCEPT !.disk = d]) /\ Goto(p, "xml")
     \/ UNCHANGED vm /\ Fail(p)

\* os.Remove of the disk by the process p, its error ignored.
LibvirtDiscard(p, v) == IF job[p].dead THEN {v} ELSE {v, [v EXCEPT !.disk = "none"]}

\* virt-install --print-xml and the temporary file with its output.
LibvirtXml(p) ==
  /\ At(p, "libvirt", "create", "xml")
  /\ \/ UNCHANGED vm /\ Goto(p, "define")
     \/ \E w \in LibvirtDiscard(p, It(p)) : Becomes(p, w) /\ Fail(p)

\* virsh define, which replaces a definition of the same name.
LibvirtDefine(p) ==
  /\ At(p, "libvirt", "create", "define")
  /\ \/ \E w \in VirshDefine(It(p)) : Becomes(p, w) /\ Succeed(p)
     \/ \E w \in {It(p)} \cup VirshDefine(It(p)) :
          \E x \in LibvirtDiscard(p, w) : Becomes(p, x) /\ Fail(p)

-------------------------------------------------------------------------------
(* Start.                                                                  *)

LibvirtStart(p) ==
  /\ At(p, "libvirt", "start", "begin")
  /\ Query(p, IF ~LibvirtExists(It(p)) THEN {}
              ELSE IF LibvirtRunning(It(p)) THEN {"next"} ELSE {"network"}, "idle")

LibvirtVirshStart(p) ==
  /\ At(p, "libvirt", "start", "virsh")
  /\ RunCommand(p, VirshStart(It(p)), {}, "next", "idle")

-------------------------------------------------------------------------------
(* Stop, on its own and as a part of destroy: onStopped is where the       *)
(* caller goes on.                                                         *)

LibvirtStop(p, onStopped) ==
  \/ /\ at[p] = "stop"
     /\ Query(p, IF LibvirtExists(It(p)) /\ LibvirtRunning(It(p))
                 THEN {"shutdown"} ELSE {onStopped}, "idle")
  \/ /\ at[p] = "shutdown"
     /\ RunCommand(p, VirshShutdown(It(p)), {}, "settle", "force")
  \/ \* 45 s: stopped, or give up and force, as after a failed inspection.
     /\ at[p] = "settle"
     /\ Query(p, IF LibvirtRunning(It(p)) THEN {} ELSE {onStopped}, "force")
  \/ /\ at[p] = "force"
     /\ RunCommand(p, VirshDestroy(It(p)), {}, "verify", "idle")
  \/ /\ at[p] = "verify"
     /\ Query(p, IF LibvirtRunning(It(p)) THEN {} ELSE {onStopped}, "idle")

BugLibvirtStopCommand(p) ==
  /\ Does(p, "libvirt", "stop")
  /\ \/ at[p] = "begin" /\ UNCHANGED vm /\ Goto(p, "stop")
     \/ at[p] # "force" /\ LibvirtStop(p, "next")
     \/ at[p] = "force" /\ RunCommand(p, VirshDestroy(It(p)), {}, "next", "next")

LibvirtStopCommand(p) ==
  /\ Does(p, "libvirt", "stop")
  /\ \/ at[p] = "begin" /\ UNCHANGED vm /\ Goto(p, "stop")
     \/ LibvirtStop(p, "next")

-------------------------------------------------------------------------------
(* Destroy.                                                                *)

LibvirtDestroy(p) ==
  /\ At(p, "libvirt", "destroy", "begin")
  /\ Query(p, IF ~LibvirtExists(It(p)) THEN {"remove"}
              ELSE IF LibvirtRunning(It(p)) THEN {"stop"} ELSE {"undefine"}, "idle")

\* A domain that runs is stopped first.
LibvirtDestroyStop(p) ==
  /\ Does(p, "libvirt", "destroy")
  /\ LibvirtStop(p, "undefine")

\* virsh undefine with every flag, then without.
LibvirtUndefine(p) ==
  \/ /\ At(p, "libvirt", "destroy", "undefine")
     /\ RunCommand(p, VirshUndefine(It(p)), {}, "remove", "undefineAgain")
  \/ /\ At(p, "libvirt", "destroy", "undefineAgain")
     /\ RunCommand(p, VirshUndefine(It(p)), {}, "remove", "idle")

LibvirtRemoveDisk(p) ==
  /\ At(p, "libvirt", "destroy", "remove")
  /\ \/ Becomes(p, [It(p) EXCEPT !.disk = "none"]) /\ Succeed(p)
     \/ It(p).disk # "none" /\ UNCHANGED vm /\ Fail(p)

LibvirtStep(p) ==
  \/ LibvirtPrepare(p)
  \/ LibvirtNetworkReady(p)
  \/ LibvirtCopy(p)
  \/ LibvirtConvert(p)
  \/ LibvirtXml(p)
  \/ LibvirtDefine(p)
  \/ LibvirtStart(p)
  \/ LibvirtVirshStart(p)
  \/ LibvirtStopCommand(p)
  \/ LibvirtDestroy(p)
  \/ LibvirtDestroyStop(p)
  \/ LibvirtUndefine(p)
  \/ LibvirtRemoveDisk(p)
================================================================================
