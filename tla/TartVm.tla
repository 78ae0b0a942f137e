--------------------------------- MODULE TartVm ---------------------------------
(***************************************************************************)
(* The macOS machine of Tart (pkg/deploy/tart-macos-deploy.go).  `tart run`*)
(* is started in the background, and the command waits for an address; an  *)
(* address of an earlier run answers `tart ip` as well.                    *)
(***************************************************************************)
EXTENDS VmHost

TartExists(v)  == v.known
TartRunning(v) == v.known /\ v.power = "on"

-------------------------------------------------------------------------------
(* tart.                                                                   *)

TartClone(v) == {[v EXCEPT !.known = TRUE]}

TartStop(v) == IF v.power = "on" THEN {[v EXCEPT !.power = "off"]} ELSE {}

TartDelete(v) ==
  IF TartExists(v) /\ ~TartRunning(v) THEN {[v EXCEPT !.known = FALSE, !.lease = FALSE]} ELSE {}

\* The shell has started `tart run`, which may end at once.
TartRun(v) ==
  IF v.known /\ v.power = "off" THEN {v, [v EXCEPT !.power = "on"]} ELSE {v}

-------------------------------------------------------------------------------

\* The machine is listed once more; one that is there is not cloned, and one
\* that ran goes on without a start.
TartCreate(p) ==
  /\ At(p, "tart", "create", "begin")
  /\ Query(p, IF TartRunning(It(p)) THEN {"probeRunning"}
              ELSE IF TartExists(It(p)) THEN {"probe"} ELSE {"clone"}, "idle")

\* It is listed again before it is cloned.
TartCloneUnlessThere(p) ==
  /\ At(p, "tart", "create", "clone")
  /\ \/ TartExists(It(p)) /\ Goto(p, "probe") /\ UNCHANGED vm
     \/ ~TartExists(It(p)) /\ RunCommand(p, TartClone(It(p)), {}, "probe", "idle")
     \/ Fail(p) /\ UNCHANGED vm

\* One attempt to find an address; with one the command is done.
TartProbe(p) ==
  \/ /\ At(p, "tart", "create", "probe")
     /\ Query(p, IF It(p).lease THEN {"next"} ELSE {}, "run")
  \/ /\ At(p, "tart", "create", "probeRunning")
     /\ Query(p, IF It(p).lease THEN {"next"} ELSE {}, "idle")

TartStart(p) ==
  /\ At(p, "tart", "start", "begin")
  /\ Query(p, IF ~TartExists(It(p)) THEN {}
              ELSE IF TartRunning(It(p)) THEN {"next"} ELSE {"run"}, "idle")

TartRunDetached(p) ==
  /\ at[p] = "run" /\ (Does(p, "tart", "create") \/ Does(p, "tart", "start"))
  /\ RunCommand(p, TartRun(It(p)), {}, "reach", "idle")

\* Attempts until there is an address; the end of `tart run`, or of the
\* attempts, is a failure, and the machine is left as it is.
TartReach(p) ==
  /\ at[p] = "reach" /\ (Does(p, "tart", "create") \/ Does(p, "tart", "start"))
  /\ Query(p, IF It(p).lease THEN {"next"} ELSE {}, "idle")

\* A stop of a machine that does not run, a delete of one that is gone,
\* succeed.
TartCommandAllowingMissing(p, done, missing, onSuccess) ==
  \/ RunCommand(p, done, {}, onSuccess, "idle")
  \/ missing /\ Goto(p, onSuccess) /\ UNCHANGED vm

TartStopCommand(p) ==
  \/ /\ At(p, "tart", "stop", "begin")
     /\ Query(p, IF TartRunning(It(p)) THEN {"stop"} ELSE {"next"}, "idle")
  \/ /\ At(p, "tart", "stop", "stop")
     /\ TartCommandAllowingMissing(p, TartStop(It(p)), It(p).power = "off", "next")

TartDestroy(p) ==
  \/ /\ At(p, "tart", "destroy", "begin")
     /\ Query(p, IF ~TartExists(It(p)) THEN {"next"}
                 ELSE IF TartRunning(It(p)) THEN {"stop"} ELSE {"delete"}, "idle")
  \/ /\ At(p, "tart", "destroy", "stop")
     /\ TartCommandAllowingMissing(p, TartStop(It(p)), It(p).power = "off", "delete")
  \/ /\ At(p, "tart", "destroy", "delete")
     /\ TartCommandAllowingMissing(p, TartDelete(It(p)), ~It(p).known, "next")

TartStep(p) ==
  \/ TartCreate(p)
  \/ TartCloneUnlessThere(p)
  \/ TartProbe(p)
  \/ TartStart(p)
  \/ TartRunDetached(p)
  \/ TartReach(p)
  \/ TartStopCommand(p)
  \/ TartDestroy(p)
================================================================================
