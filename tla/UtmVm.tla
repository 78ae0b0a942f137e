---------------------------------- MODULE UtmVm ----------------------------------
(***************************************************************************)
(* Machines of UTM on a macOS host (pkg/deploy/macos-silicon-deploy.go,    *)
(* deployments/utm/create-utm-vm.sh).  A machine is the directory of its   *)
(* bundle; UTM itself is external and driven by AppleScript.               *)
(***************************************************************************)
EXTENDS VmHost

UtmExists(v) == v.disk # "none"

\* "started", "starting" and "resuming"; a guest that stops does not run.
UtmRunning(v) == UtmExists(v) /\ v.power = "on"

-------------------------------------------------------------------------------
(* UTM.                                                                    *)

UtmStartVm(v) ==
  IF v.disk = "whole" /\ v.power = "off" THEN {[v EXCEPT !.power = "on"]} ELSE {}

UtmStopByRequest(v) ==
  IF UtmRunning(v) THEN {v, [v EXCEPT !.power = "between"]} ELSE {}

\* Answers when the stop is under way, not when it is over.
UtmStopByForce(v) == IF UtmExists(v) THEN {v, [v EXCEPT !.power = "off"]} ELSE {}

-------------------------------------------------------------------------------

\* create-utm-vm.sh makes the bundle's directory, if there is none, then looks
\* for the disk image, writes the configuration and copies the image.
UtmCreateBundle(p) ==
  /\ At(p, "utm", "create", "begin")
  /\ \/ UNCHANGED vm /\ Fail(p)
     \/ /\ Becomes(p, [It(p) EXCEPT !.disk = IF @ = "none" THEN "partial" ELSE @])
        /\ ProgramGoesOn(p, "fill")

\* The rest of the script; when it fails the bundle stays.
UtmFillBundle(p) ==
  /\ At(p, "utm", "create", "fill")
  /\ \/ It(p).disk # "none" /\ Becomes(p, [It(p) EXCEPT !.disk = "whole"]) /\ Succeed(p)
     \/ UNCHANGED vm /\ Fail(p)

UtmStart(p) ==
  \/ /\ At(p, "utm", "start", "begin")
     /\ Query(p, IF ~UtmExists(It(p)) THEN {}
                 ELSE IF UtmRunning(It(p)) THEN {"next"} ELSE {"request"}, "idle")
  \/ /\ At(p, "utm", "start", "request")
     /\ RunCommand(p, UtmStartVm(It(p)), {}, "next", "idle")

\* A request, 45 s for the guest, then force; the forced stop is not verified.
UtmStop(p) ==
  \/ /\ At(p, "utm", "stop", "begin")
     /\ Query(p, IF UtmRunning(It(p)) THEN {"request"} ELSE {"next"}, "idle")
  \/ /\ At(p, "utm", "stop", "request")
     /\ RunCommand(p, UtmStopByRequest(It(p)), {}, "settle", "idle")
  \/ /\ At(p, "utm", "stop", "settle")
     /\ Query(p, IF UtmRunning(It(p)) THEN {} ELSE {"next"}, "force")
  \/ /\ At(p, "utm", "stop", "force")
     /\ RunCommand(p, UtmStopByForce(It(p)), {}, "next", "idle")

\* The bundle is removed whether or not the machine runs.
UtmDestroy(p) ==
  /\ At(p, "utm", "destroy", "begin")
  /\ \/ Becomes(p, [It(p) EXCEPT !.disk = "none"]) /\ Succeed(p)
     \/ /\ UtmExists(It(p))
        /\ \E d \in {It(p).disk, "partial"} : Becomes(p, [It(p) EXCEPT !.disk = d])
        /\ Fail(p)

UtmStep(p) ==
  \/ UtmCreateBundle(p)
  \/ UtmFillBundle(p)
  \/ UtmStart(p)
  \/ UtmStop(p)
  \/ UtmDestroy(p)
================================================================================
